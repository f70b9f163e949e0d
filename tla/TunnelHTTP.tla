----------------------------- MODULE TunnelHTTP -----------------------------
(***************************************************************************)
(* One HTTP request through the tunnel: TunnelFetch and its response body  *)
(* at the client (tunnelclient.go), the frame pump, the request body, the  *)
(* local handler behind its ResponseWriter and the proxy at the server     *)
(* (tunnel/http.go).  Headers, targets and status codes are left out: a    *)
(* response is RESULT, a number of DATA frames and END.  (A response that  *)
(* has no body by its method or status is one with no DATA frame.)         *)
(***************************************************************************)
EXTENDS TunnelConn

VARIABLES
  fetch,  \* the client's request
  pump,   \* framePump: ch, the item in the hands of its goroutine, aborted
  serve   \* the server's side of the request

httpVars == <<fetch, pump, serve>>

\* at: off, wait (for RESULT), body, over.  saw: how the response body ended.
\* sent: DATA frames of the request; upload: the goroutine that sends them.
NewFetch == [at |-> "off", got |-> 0, saw |-> "more", sent |-> 0, upload |-> "off"]
NewPump == [on |-> FALSE, ch |-> <<>>, hand |-> <<>>, aborted |-> FALSE]
\* body, got: the request body as it was read.  header, wrote: the response.
\* spoilt: the response was given up after its RESULT.
NewServe ==
  [body |-> "more", got |-> 0, header |-> FALSE, wrote |-> 0, spoilt |-> FALSE, ctx |-> FALSE]

Init ==
  /\ want \in Uses
  /\ link = NewLink /\ main = "none" /\ cancelled = [e \in Ends |-> FALSE]
  /\ fetch = NewFetch /\ pump = NewPump /\ serve = NewServe

-----------------------------------------------------------------------------
(* TunnelFetch.  Op_Flaw is Op with a plausible mistake. *)

\* The stream is open (module Handshake): magic, OPEN, and the body's goroutine.
TunnelFetch ==
  /\ want.kind = "http" /\ main = "none"
  /\ main' = "queued"
  /\ link' = Written(link, "client", <<"MAGIC", "OPEN">>)
  /\ fetch' = [fetch EXCEPT !.at = "wait", !.upload = "on"]
  /\ UNCHANGED <<want, cancelled, pump, serve>>

\* The body's goroutine: DATA, and END at its end; an error of the body or of a
\* write closes the stream.  (Without a body END follows at once.)
Upload ==
  /\ fetch.upload = "on"
  /\ \/ /\ MayWrite("client") /\ fetch.sent < MaxBody
        /\ link' = Written(link, "client", <<"DATA">>)
        /\ fetch' = [fetch EXCEPT !.sent = @ + 1]
     \/ /\ MayWrite("client")
        /\ link' = Written(link, "client", <<"END">>)
        /\ fetch' = [fetch EXCEPT !.upload = "done"]
     \/ /\ link' \in Closings(link, "client")
        /\ fetch' = [fetch EXCEPT !.upload = "failed"]
  /\ UNCHANGED <<want, main, cancelled, pump, serve>>

\* The first frame: RESULT, or the request fails.
ReadResult ==
  /\ fetch.at = "wait"
  /\ \/ /\ HasFrame("client") /\ Frame("client") = "RESULT"
        /\ link' = Consumed("client")
        /\ fetch' = [fetch EXCEPT !.at = "body"]
     \/ /\ ReadErrors("client") # {} \/ (HasFrame("client") /\ Frame("client") # "RESULT")
        /\ link' \in Quits(link, "client")
        /\ fetch' = [fetch EXCEPT !.at = "over"]
  /\ UNCHANGED <<want, main, cancelled, pump, serve>>

\* tunnelRespBody.Read: an error of ReadFrame is returned as it is.
RespRead ==
  /\ fetch.at = "body" /\ fetch.saw = "more"
  /\ \/ /\ HasFrame("client")
        /\ link' = Consumed("client")
        /\ fetch' = IF Frame("client") = "DATA" THEN [fetch EXCEPT !.got = @ + 1]
                                                ELSE [fetch EXCEPT !.saw = Frame("client")]
     \/ /\ UNCHANGED link
        /\ \E r \in ReadErrors("client") : fetch' = [fetch EXCEPT !.saw = r]
  /\ UNCHANGED <<want, main, cancelled, pump, serve>>

\* tunnelRespBody.Close: ABORT unless the body has ended, and the stream closes.
\* While the ABORT waits only the context closes it.
RespClose ==
  /\ fetch.at = "body" /\ (fetch.saw = "more" => ~WriteWaits("client"))
  /\ link' \in Quits(IF fetch.saw = "more" THEN Written(link, "client", <<"ABORT">>) ELSE link,
                     "client")
  /\ fetch' = [fetch EXCEPT !.at = "over", !.got = 0, !.saw = "more"]
  /\ UNCHANGED <<want, main, cancelled, pump, serve>>

\* The context of the call or of the request, cancelled at any time until then,
\* closes the stream.
FetchCancelled ==
  /\ fetch.at \in {"wait", "body"} /\ ~link.closed["client"]
  /\ link' \in Closings(link, "client")
  /\ UNCHANGED <<want, main, cancelled, fetch, pump, serve>>

-----------------------------------------------------------------------------
(* The server: the frame pump and the request body. *)

\* serveHTTP starts the pump; a target without handler is refused: RESULT, END.
ServeHTTP ==
  /\ main = "http"
  /\ pump' = [pump EXCEPT !.on = TRUE]
  /\ CASE want.target = "local" -> main' = "handler" /\ UNCHANGED link
       [] want.target = "proxy" -> main' = "roundtrip" /\ UNCHANGED link
       [] OTHER -> main' = "flush" /\ link' = Written(link, "server", <<"RESULT", "END">>)
  /\ UNCHANGED <<want, cancelled, fetch, serve>>

\* aborted is closed when an ABORT or an error is read, not when it is queued.
\* (stop follows the flush: pump.on, and the goroutine, end with main.)
PumpRead ==
  /\ pump.on /\ main # "gone" /\ pump.hand = <<>>
  /\ \/ /\ HasFrame("server")
        /\ link' = Consumed("server")
        /\ pump' = [pump EXCEPT !.hand = <<Frame("server")>>,
                                !.aborted = @ \/ Frame("server") = "ABORT"]
     \/ /\ \E r \in ReadErrors("server") : pump' = [pump EXCEPT !.hand = <<r>>, !.aborted = TRUE]
        /\ UNCHANGED link
  /\ UNCHANGED <<want, main, cancelled, fetch, serve>>

\* The channel is bounded; after an error the goroutine ends.
PumpPut ==
  /\ pump.on /\ main # "gone" /\ pump.hand # <<>> /\ Len(pump.ch) < PumpCap
  /\ pump' = [pump EXCEPT !.ch = @ \o pump.hand, !.hand = <<>>,
                          !.on = Head(pump.hand) \notin {"eof", "err"}]
  /\ UNCHANGED <<want, link, main, cancelled, fetch, serve>>

\* httpBody.Read, by the handler or by the proxy's transport.
BodyRead ==
  /\ main \in {"handler", "roundtrip", "stream"} /\ serve.body = "more" /\ pump.ch # <<>>
  /\ pump' = [pump EXCEPT !.ch = Tail(@)]
  /\ serve' = IF Head(pump.ch) = "DATA" THEN [serve EXCEPT !.got = @ + 1]
                                        ELSE [serve EXCEPT !.body = Head(pump.ch)]
  /\ UNCHANGED <<want, link, main, cancelled, fetch>>

\* The goroutine that cancels the request's context.
WatchAbort ==
  /\ main \in {"handler", "roundtrip", "stream"} /\ ~serve.ctx
  /\ \/ pump.aborted /\ UNCHANGED pump
     \/ /\ want.target = "proxy" /\ serve.body = "END" /\ pump.ch # <<>>
        /\ pump' = [pump EXCEPT !.ch = Tail(@)]
  /\ serve' = [serve EXCEPT !.ctx = TRUE]
  /\ UNCHANGED <<want, link, main, cancelled, fetch>>

CtxDone == serve.ctx \/ cancelled["server"]

-----------------------------------------------------------------------------
(* The local handler and its ResponseWriter. *)

\* WriteHeader, Write and Flush: RESULT before everything else, once.
HandlerWrite ==
  /\ main = "handler" /\ MayWrite("server")
  /\ \E n \in 0..1 :
       /\ serve.wrote + n <= MaxBody
       /\ n = 0 => ~serve.header
       /\ link' = Written(link, "server", (IF serve.header THEN <<>> ELSE <<"RESULT">>)
                                            \o (IF n = 1 THEN <<"DATA">> ELSE <<>>))
       /\ serve' = [serve EXCEPT !.header = TRUE, !.wrote = @ + n]
  /\ UNCHANGED <<want, main, cancelled, fetch, pump>>

\* panic500, before finish: 500 if nothing was sent yet, otherwise ABORT.
PanicFrames_NoAbort == IF serve.header THEN <<>> ELSE <<"RESULT">>
PanicFrames == IF serve.header THEN <<"ABORT">> ELSE <<"RESULT">>

\* The handler returns or panics; finish sends RESULT if it is missing, and END.
HandlerReturns ==
  /\ main = "handler" /\ ~WriteWaits("server")
  /\ main' = "flush"
  /\ \/ /\ link' = Written(link, "server", (IF serve.header THEN <<>> ELSE <<"RESULT">>) \o <<"END">>)
        /\ serve' = [serve EXCEPT !.header = TRUE]
     \/ /\ link' = Written(link, "server", PanicFrames \o <<"END">>)
        /\ serve' = [serve EXCEPT !.header = TRUE, !.spoilt = serve.header]
  /\ UNCHANGED <<want, cancelled, fetch, pump>>

-----------------------------------------------------------------------------
(* The proxy. *)

\* RoundTrip fails: 502, or ABORT if an illegal frame of the request body is the
\* reason.  It must, once its context is cancelled.
IllegalBody == serve.body \notin {"more", "END", "ABORT", "eof", "err"}

ProxyFails ==
  /\ main = "roundtrip"
  /\ main' = "flush"
  /\ link' \in {Written(link, "server", <<"RESULT", "END">>)} \cup
               {l \in {Written(link, "server", <<"ABORT">>)} : IllegalBody}
  /\ serve' = [serve EXCEPT !.header = TRUE]
  /\ UNCHANGED <<want, cancelled, fetch, pump>>

\* The upstream answers, perhaps before it has read the request body.  RESULT
\* is not written if its headers exceed 64 KiB, or the stream is closed.
ProxyResult ==
  /\ main = "roundtrip"
  /\ \/ /\ MayWrite("server")
        /\ main' = "stream"
        /\ link' = Written(link, "server", <<"RESULT">>)
     \/ main' = "leave" /\ UNCHANGED link
  /\ serve' = [serve EXCEPT !.header = TRUE]
  /\ UNCHANGED <<want, cancelled, fetch, pump>>

\* streamBody: DATA.
ProxyData ==
  /\ main = "stream" /\ MayWrite("server") /\ serve.wrote < MaxBody
  /\ link' = Written(link, "server", <<"DATA">>)
  /\ serve' = [serve EXCEPT !.wrote = @ + 1]
  /\ UNCHANGED <<want, main, cancelled, fetch, pump>>

\* The upstream's body ends: END, and the stream is flushed.  It fails, as when
\* the context is cancelled: ABORT; or a write fails: no flush in either case.
ProxyEnds ==
  /\ main = "stream"
  /\ \/ /\ MayWrite("server")
        /\ main' = "flush"
        /\ link' = Written(link, "server", <<"END">>)
        /\ UNCHANGED serve
     \/ /\ ~WriteWaits("server")
        /\ main' = "leave"
        /\ link' = Written(link, "server", <<"ABORT">>)
        /\ serve' = [serve EXCEPT !.spoilt = TRUE]
     \/ /\ MayFail("server")
        /\ main' = "leave" /\ UNCHANGED <<link, serve>>
  /\ UNCHANGED <<want, cancelled, fetch, pump>>

-----------------------------------------------------------------------------
HTTPNext ==
  \/ TunnelFetch \/ Upload \/ ReadResult \/ RespRead \/ RespClose \/ FetchCancelled
  \/ ServeHTTP \/ PumpRead \/ PumpPut \/ BodyRead \/ WatchAbort
  \/ HandlerWrite \/ HandlerReturns
  \/ ProxyFails \/ ProxyResult \/ ProxyData \/ ProxyEnds
=============================================================================

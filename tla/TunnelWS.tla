------------------------------ MODULE TunnelWS ------------------------------
(***************************************************************************)
(* One WebSocket session through the tunnel: TunnelWSConn at both ends     *)
(* (tunnelws.go), TunnelWS at the client (tunnelclient.go), the local      *)
(* handler and the proxy at the server (tunnel/ws.go).                     *)
(*                                                                         *)
(* At each end a goroutine may be in ReadMessage, others write, and any of *)
(* them calls Close or Abort.  RESULT stands for status 101, REFUSED for   *)
(* any other.                                                              *)
(***************************************************************************)
EXTENDS TunnelConn

VARIABLES
  ws,     \* per end: the TunnelWSConn
  target  \* the proxy's upstream connection, its pump, messages it has sent

wsVars == <<ws, target>>

\* at: off, asked (TunnelWS awaits RESULT), unanswered (pending), open, failed.
\* reader: out, in (ReadMessage, holds readMu).  owes: the frame that whoever
\* reads is about to write, readMu held.  closer: the call of Close or Abort that
\* closeOnce admits: no, start, sending, wait (for readMu), reading, aborting,
\* flush, done.  closes: WS_CLOSE frames written.
NewWS ==
  [at |-> "off", rejecting |-> FALSE, closed |-> FALSE, closeSent |-> FALSE, term |-> FALSE,
   reader |-> "out", owes |-> "no", closer |-> "no", sent |-> 0, closes |-> 0]
NewTarget == [conn |-> "none", pump |-> "off", sent |-> 0]

WSInit == ws = [e \in Ends |-> NewWS] /\ target = NewTarget

Is(e, at) == ws[e].at = at

-----------------------------------------------------------------------------
(* The handshake.  Op_Flaw is Op with a plausible mistake. *)

TunnelWS ==
  /\ want.kind = "ws" /\ main = "none"
  /\ main' = "queued"
  /\ link' = Written(link, "client", <<"MAGIC", "OPEN">>)
  /\ ws' = [ws EXCEPT !["client"].at = "asked"]
  /\ UNCHANGED <<want, cancelled, target>>

WSReadResult ==
  /\ Is("client", "asked")
  /\ \/ /\ HasFrame("client") /\ Frame("client") = "RESULT"
        /\ link' = Consumed("client")
        /\ ws' = [ws EXCEPT !["client"].at = "open"]
     \/ /\ ReadErrors("client") # {} \/ (HasFrame("client") /\ Frame("client") # "RESULT")
        /\ link' \in Quits(link, "client")
        /\ ws' = [ws EXCEPT !["client"].at = "failed"]
  /\ UNCHANGED <<want, main, cancelled, target>>

\* The context, which covers the handshake only.
WSCancelled ==
  /\ Is("client", "asked") /\ ~link.closed["client"]
  /\ link' \in Closings(link, "client")
  /\ UNCHANGED <<want, main, cancelled, ws, target>>

\* serveWS: a handler gets an unanswered connection, the proxy dials, or 4xx.
ServeWS ==
  /\ main = "ws"
  /\ CASE want.target = "local" ->
            main' = "wslocal" /\ ws' = [ws EXCEPT !["server"].at = "unanswered"] /\ UNCHANGED link
       [] want.target = "proxy" -> main' = "wsdial" /\ UNCHANGED <<link, ws>>
       [] OTHER -> main' = "flush" /\ link' = Written(link, "server", <<"REFUSED">>) /\ UNCHANGED ws
  /\ UNCHANGED <<want, cancelled, target>>

WSAccept ==
  /\ Is("server", "unanswered") /\ ~ws["server"].closed /\ MayWrite("server")
  /\ link' = Written(link, "server", <<"RESULT">>)
  /\ ws' = [ws EXCEPT !["server"].at = "open"]
  /\ UNCHANGED <<want, main, cancelled, target>>

\* Reject marks the connection as answered, unlocks, then writes and closes.
WSReject ==
  /\ Is("server", "unanswered") /\ ~ws["server"].closed
  /\ ws' = [ws EXCEPT !["server"].at = "open", !["server"].rejecting = TRUE]
  /\ UNCHANGED <<want, link, main, cancelled, target>>

WSRejectWrites ==
  LET c == ws["server"] IN
  /\ c.rejecting /\ ~WriteWaits("server")
  /\ link' = Written(link, "server", <<"REFUSED">>)
  /\ ws' = [ws EXCEPT !["server"] =
              [c EXCEPT !.rejecting = FALSE, !.closed = TRUE,
                        !.closer = IF c.closer = "no" THEN "start" ELSE @]]
  /\ UNCHANGED <<want, main, cancelled, target>>

-----------------------------------------------------------------------------
(* Reading and writing. *)

\* WriteMessage and Ping.  (Pong writes a frame that the other end ignores.)
WSWrite(e) ==
  /\ Is(e, "open") /\ ~ws[e].closed /\ MayWrite(e)
  /\ ws["client"].sent + ws["server"].sent < MaxMsgs
  /\ \E f \in {"MSG", "PING"} : link' = Written(link, e, <<f>>)
  /\ ws' = [ws EXCEPT ![e].sent = @ + 1]
  /\ UNCHANGED <<want, main, cancelled, target>>

WSReadMessage(e) ==
  /\ Is(e, "open") /\ ws[e].reader = "out" /\ ws[e].closer # "reading" /\ ~ws[e].term
  /\ ws' = [ws EXCEPT ![e].reader = "in"]
  /\ UNCHANGED <<want, link, main, cancelled, target>>

Reading(e) ==
  ~ws[e].term /\ ws[e].owes = "no" /\ (ws[e].reader = "in" \/ ws[e].closer = "reading")

\* Close sets the deadline, for reads only, before it takes readMu and clears it
\* after.
Deadline_UnderLock(e) == ws[e].closer = "reading"
Deadline(e) == ws[e].closer \in {"wait", "reading"}

\* setTerm; ReadMessage returns.
Terminated(c) == [c EXCEPT !.term = TRUE, !.reader = "out", !.owes = "no"]

\* The read error, the timeout among them.
WSReadFails(e) ==
  /\ Reading(e) /\ (ReadErrors(e) # {} \/ Deadline(e))
  /\ ws' = [ws EXCEPT ![e] = Terminated(@)]
  /\ UNCHANGED <<want, link, main, cancelled, target>>

\* Who finds closeSent unset answers the WS_CLOSE.
Claimed_Late(c) == c
Claimed(c) == [c EXCEPT !.closeSent = TRUE]

\* A PING, a WS_CLOSE and a frame that is illegal here are answered.
WSReadFrame(e) ==
  LET c == ws[e] f == Frame(e) IN
  /\ Reading(e) /\ HasFrame(e)
  /\ link' = Consumed(e)
  /\ ws' = [ws EXCEPT ![e] =
       CASE f = "MSG" -> [c EXCEPT !.reader = "out"]
         [] f = "PONG" -> c
         [] f = "PING" -> [c EXCEPT !.owes = "PONG"]
         [] f = "CLOSE" -> IF c.closeSent THEN Terminated(c)
                                          ELSE [Claimed(c) EXCEPT !.owes = "CLOSE"]
         [] f = "ABORT" -> Terminated(c)
         [] OTHER -> [c EXCEPT !.owes = "ABORT"]]
  /\ UNCHANGED <<want, main, cancelled, target>>

WSReply(e) ==
  LET c == ws[e] IN
  /\ c.owes # "no" /\ ~WriteWaits(e)
  /\ link' = Written(link, e, <<c.owes>>)
  /\ \/ c.owes = "PONG" /\ ws' = [ws EXCEPT ![e].owes = "no"]
     \/ c.owes = "CLOSE" /\ ws' = [ws EXCEPT ![e] = [Terminated(c) EXCEPT !.closes = @ + 1]]
     \/ /\ c.owes = "ABORT" \/ (c.owes = "PONG" /\ MayFail(e))
        /\ ws' = [ws EXCEPT ![e] = Terminated(c)]
  /\ UNCHANGED <<want, main, cancelled, target>>

-----------------------------------------------------------------------------
(* Close and Abort. *)

\* An unanswered handshake gets its 500 and no WS_CLOSE.
WSClose(e) ==
  LET c == ws[e] IN
  /\ c.at \in {"unanswered", "open"} /\ c.closer = "no"
  /\ IF c.at = "unanswered"
       THEN /\ link' = Written(link, e, <<"REFUSED">>)
            /\ ws' = [ws EXCEPT ![e] = [c EXCEPT !.closed = TRUE, !.at = "open", !.closer = "flush"]]
       ELSE /\ UNCHANGED link
            /\ ws' = [ws EXCEPT ![e] = [c EXCEPT !.closed = TRUE, !.closer = "start"]]
  /\ UNCHANGED <<want, main, cancelled, target>>

WSAbort(e) ==
  /\ ws[e].at \in {"unanswered", "open"} /\ ws[e].closer = "no"
  /\ ws' = [ws EXCEPT ![e].closed = TRUE, ![e].closer = "aborting"]
  /\ UNCHANGED <<want, link, main, cancelled, target>>

\* closeSent by compare-and-swap: WS_CLOSE is sent here, or was by the reader.
WSCloseStarts(e) ==
  /\ ws[e].closer = "start"
  /\ ws' = [ws EXCEPT ![e] = IF ws[e].closeSent
                               THEN [ws[e] EXCEPT !.closer = "flush"]
                               ELSE [ws[e] EXCEPT !.closeSent = TRUE, !.closer = "sending"]]
  /\ UNCHANGED <<want, link, main, cancelled, target>>

\* WS_CLOSE, and only then the deadline; or ABORT.
WSCloseSends(e) ==
  /\ ~WriteWaits(e)
  /\ \/ /\ ws[e].closer = "sending"
        /\ link' = Written(link, e, <<"CLOSE">>)
        /\ ws' = [ws EXCEPT ![e] = [ws[e] EXCEPT !.closes = @ + 1, !.closer = "wait"]]
     \/ /\ ws[e].closer = "aborting"
        /\ link' = Written(link, e, <<"ABORT">>)
        /\ ws' = [ws EXCEPT ![e].closer = "flush"]
  /\ UNCHANGED <<want, main, cancelled, target>>

\* readMu, and read until an error, the answer among them.
WSCloseReads(e) ==
  /\ \/ ws[e].closer = "wait" /\ ws[e].reader = "out" /\ ws' = [ws EXCEPT ![e].closer = "reading"]
     \/ ws[e].closer = "reading" /\ ws[e].term /\ ws' = [ws EXCEPT ![e].closer = "flush"]
  /\ UNCHANGED <<want, link, main, cancelled, target>>

WSFlush(e) ==
  /\ ws[e].closer = "flush"
  /\ link' \in Closings(link, e)
  /\ ws' = [ws EXCEPT ![e].closer = "done"]
  /\ UNCHANGED <<want, main, cancelled, target>>

\* serveWSLocal: the handler returns or panics, Close, and the session is over.
WSHandlerReturns ==
  /\ main = "wslocal"
  /\ main' = "wsend"
  /\ UNCHANGED <<want, link, cancelled, ws, target>>

WSHandlerDone ==
  /\ main = "wsend" /\ ws["server"].closer = "done"
  /\ main' = "leave"
  /\ UNCHANGED <<want, link, cancelled, ws, target>>

-----------------------------------------------------------------------------
(* The proxy. *)

WSProxyDials ==
  /\ main = "wsdial"
  /\ \/ /\ main' = "flush"  \* the dial fails, or a subprotocol nobody asked for
        /\ link' = Written(link, "server", <<"REFUSED">>)
        /\ UNCHANGED target
     \/ /\ main' = "wsproxy"
        /\ link' = Written(link, "server", <<"RESULT">>)
        /\ target' = [target EXCEPT !.conn = "open", !.pump = "on"]
  /\ UNCHANGED <<want, cancelled, ws>>

\* Upstream to tunnel; the end of the upstream becomes a WS_CLOSE.
WSProxyPump ==
  /\ target.pump = "on" /\ ~WriteWaits("server")
  /\ \/ /\ target.conn = "open" /\ MayWrite("server") /\ target.sent < MaxMsgs
        /\ \E f \in {"MSG", "PING"} : link' = Written(link, "server", <<f>>)
        /\ target' = [target EXCEPT !.sent = @ + 1]
     \/ /\ target' = [target EXCEPT !.pump = "done"]
        /\ link' \in {Written(link, "server", <<"CLOSE">>)} \cup {l \in {link} : MayFail("server")}
  /\ UNCHANGED <<want, main, cancelled, ws>>

\* Tunnel to upstream, until either fails, a close, or the deadline that is set
\* when the upstream has ended.
WSProxyRead ==
  /\ main = "wsproxy"
  /\ \/ /\ HasFrame("server")
        /\ link' = Consumed("server")
        /\ main' = CASE Frame("server") \in {"MSG", "PING", "PONG"} -> "upwrite"
                     [] Frame("server") = "CLOSE" -> "upclose"
                     [] Frame("server") = "ABORT" -> "wsdown"
                     [] OTHER -> "wsabort"
     \/ /\ ReadErrors("server") # {} \/ target.pump = "done"
        /\ main' = "wsdown" /\ UNCHANGED link
  /\ UNCHANGED <<want, cancelled, ws, target>>

\* up.WriteMessage has no deadline: it comes back when the upstream reads, or its
\* connection fails.
WSUpstreamTakes ==
  /\ main \in {"upwrite", "upclose"}
  /\ main' \in IF main = "upwrite" THEN {"wsproxy", "wsdown"} ELSE {"wswait"}
  /\ UNCHANGED <<want, link, cancelled, ws, target>>

\* After a close was forwarded the upstream may answer, for a time; after an
\* illegal frame the client gets an ABORT.
WSProxyWaits ==
  /\ main \in {"wswait", "wsabort"}
  /\ main = "wsabort" => ~WriteWaits("server")
  /\ main' = "wsdown"
  /\ link' = IF main = "wsabort" THEN Written(link, "server", <<"ABORT">>) ELSE link
  /\ UNCHANGED <<want, cancelled, ws, target>>

\* The upstream is closed; its pump ends, or is not waited for any longer.
WSProxyCloses ==
  /\ main = "wsdown"
  /\ \/ target.conn = "open" /\ target' = [target EXCEPT !.conn = "closed"] /\ UNCHANGED main
     \/ target.conn = "closed" /\ main' = "flush" /\ UNCHANGED target
  /\ UNCHANGED <<want, link, cancelled, ws>>

-----------------------------------------------------------------------------
WSNext ==
  \/ TunnelWS \/ WSReadResult \/ WSCancelled \/ ServeWS \/ WSAccept \/ WSReject \/ WSRejectWrites
  \/ \E e \in Ends :
       \/ WSWrite(e) \/ WSReadMessage(e) \/ WSReadFails(e) \/ WSReadFrame(e) \/ WSReply(e)
       \/ WSClose(e) \/ WSAbort(e) \/ WSCloseStarts(e) \/ WSCloseSends(e) \/ WSCloseReads(e)
       \/ WSFlush(e)
  \/ WSHandlerReturns \/ WSHandlerDone
  \/ WSProxyDials \/ WSProxyPump \/ WSProxyRead \/ WSUpstreamTakes
  \/ WSProxyWaits \/ WSProxyCloses
=============================================================================

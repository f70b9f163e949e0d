------------------------------- MODULE Tunnel -------------------------------
(***************************************************************************)
(* The tunnel server and client (tunnel/server.go, client.go, tunnel.go)   *)
(* around one stream: Run, the set of active connections that a            *)
(* cancelled context closes, the race between sniffing the client's magic  *)
(* and dialling the fixed upstream, raw bridging, and the dispatch to the  *)
(* HTTP and WebSocket sessions of TunnelHTTP and TunnelWS.                 *)
(*                                                                         *)
(* Timeouts (sniffing, OPEN, the grace period, the first read of the       *)
(* upstream, flushing) are actions that are always possible; a deadline    *)
(* that is moved to now only makes one of them happen sooner.              *)
(***************************************************************************)
EXTENDS TunnelHTTP, TunnelWS

VARIABLES
  run,      \* per end: off, on, returned
  active,   \* per end: connSet: set, closed, and what closeAll has yet to close
  tcp,      \* per end: the TCP connection: none, open, closed.  At the client
            \* the one accepted, at the server the one to the upstream
  sniff,    \* sniffMagic: off, on, yes, no; taken when sniffCh was read
  dial,     \* the upstream's goroutine: off, on, failed, reading, head, end
  reaping,  \* reap's goroutine: off, on
  bridging  \* the client's serveTCP: off, opening, on, gone

tunnelVars == <<run, active, tcp, sniff, dial, reaping, bridging>>
vars == <<want, link, main, cancelled, httpVars, wsVars, tunnelVars>>

TunnelInit ==
  /\ Init /\ WSInit
  /\ run = [e \in Ends |-> IF e = "server" \/ want.kind = "raw" THEN "on" ELSE "off"]
  /\ active = [e \in Ends |-> [set |-> {}, closed |-> FALSE, closing |-> {}]]
  /\ tcp = [e \in Ends |-> "none"]
  /\ sniff = "off" /\ dial = "off" /\ reaping = FALSE /\ bridging = "off"

-----------------------------------------------------------------------------
(* Connections: "st", the stream, and "tcp". *)

\* connSet.add closes what it gets when the set is closed.
Admits(e) == ~active[e].closed

Added(e, c) == [active EXCEPT ![e].set = IF Admits(e) THEN @ \cup {c} ELSE @]
StreamAdded(e) == IF Admits(e) THEN {link} ELSE Closings(link, e)
TcpAdded(e) == IF Admits(e) THEN tcp ELSE [tcp EXCEPT ![e] = "closed"]

Cancel(e) ==
  /\ run[e] = "on" /\ ~cancelled[e]
  /\ cancelled' = [cancelled EXCEPT ![e] = TRUE]
  /\ UNCHANGED <<want, link, main, httpVars, wsVars, tunnelVars>>

\* closeAll, from AfterFunc or from Run's defer: marks the set, then closes the
\* members it copied.
CloseAll(e) ==
  /\ cancelled[e] /\ ~active[e].closed
  /\ active' = [active EXCEPT ![e].closed = TRUE, ![e].closing = active[e].set]
  /\ UNCHANGED <<want, link, main, cancelled, httpVars, wsVars, run, tcp, sniff, dial,
                 reaping, bridging>>

CloseMember(e) ==
  /\ \E c \in active[e].closing :
       /\ active' = [active EXCEPT ![e].closing = @ \ {c}]
       /\ link' \in IF c = "st" THEN Closings(link, e) ELSE {link}
       /\ tcp' = IF c = "tcp" THEN [tcp EXCEPT ![e] = "closed"] ELSE tcp
  /\ UNCHANGED <<want, main, cancelled, httpVars, wsVars, run, sniff, dial, reaping, bridging>>

\* Accept fails (Aggregator.Accept does only when its context is cancelled), and
\* Run returns when all handlers have.
RunEnds(e) ==
  /\ run[e] = "on" /\ cancelled[e] /\ active[e].closed
  /\ IF e = "server" THEN main \in {"none", "queued", "gone"} ELSE bridging \in {"off", "gone"}
  /\ run' = [run EXCEPT ![e] = "returned"]
  /\ UNCHANGED <<want, link, main, cancelled, httpVars, wsVars, active, tcp, sniff, dial,
                 reaping, bridging>>

-----------------------------------------------------------------------------
(* The client of raw streams. *)

AcceptTCP ==
  /\ want.kind = "raw" /\ run["client"] = "on" /\ bridging = "off"
  /\ bridging' = "opening"
  /\ active' = Added("client", "tcp")
  /\ tcp' = [tcp EXCEPT !["client"] = IF Admits("client") THEN "open" ELSE "closed"]
  /\ UNCHANGED <<want, link, main, cancelled, httpVars, wsVars, run, sniff, dial, reaping>>

\* serveTCP: the stream is opened and bridged with the connection, or both go.
OpenStream ==
  /\ bridging = "opening"
  /\ \/ /\ bridging' = "on" /\ main' = "queued"
        /\ active' = Added("client", "st") /\ link' \in StreamAdded("client")
        /\ UNCHANGED tcp
     \/ /\ bridging' = "gone" /\ UNCHANGED <<main, link>>
        /\ active' = [active EXCEPT !["client"].set = {}]
        /\ tcp' = [tcp EXCEPT !["client"] = "closed"]
  /\ UNCHANGED <<want, cancelled, httpVars, wsVars, run, sniff, dial, reaping>>

\* bridge: bytes are copied either way until one side ends, then both close.
ClientSends ==
  /\ bridging = "on" /\ tcp["client"] = "open" /\ MayWrite("client") /\ link.wire["client"] = <<>>
  /\ link' = Written(link, "client", <<"RAW">>)
  /\ UNCHANGED <<want, main, cancelled, httpVars, wsVars, tunnelVars>>

\* The application at the other end of a TCP connection closes it.
TcpEnds(e) ==
  /\ tcp[e] = "open"
  /\ tcp' = [tcp EXCEPT ![e] = "closed"]
  /\ UNCHANGED <<want, link, main, cancelled, httpVars, wsVars, run, active, sniff, dial,
                 reaping, bridging>>

BridgeMayEnd(e) == tcp[e] = "closed" \/ ReadErrors(e) # {}

ClientBridgeEnds ==
  /\ bridging = "on" /\ BridgeMayEnd("client")
  /\ bridging' = "gone"
  /\ link' \in Closings(link, "client")
  /\ tcp' = [tcp EXCEPT !["client"] = "closed"]
  /\ active' = [active EXCEPT !["client"].set = {}]
  /\ UNCHANGED <<want, main, cancelled, httpVars, wsVars, run, sniff, dial, reaping>>

-----------------------------------------------------------------------------
(* The server: accept, sniff and dial. *)

\* Run accepts the stream; serveStream starts to sniff, and to dial.
AcceptStream ==
  /\ main = "queued" /\ run["server"] = "on"
  /\ active' = Added("server", "st") /\ link' \in StreamAdded("server")
  /\ main' = IF want.fixed THEN "race" ELSE "sniffing"
  /\ sniff' = "on" /\ dial' = IF want.fixed THEN "on" ELSE "off"
  /\ UNCHANGED <<want, cancelled, httpVars, wsVars, run, tcp, reaping, bridging>>

\* sniffMagic: the magic is consumed, anything else is left; or EOF, timeout.
Sniff ==
  /\ sniff = "on"
  /\ \/ /\ HasFrame("server") /\ Frame("server") = "MAGIC"
        /\ sniff' = "yes" /\ link' = Consumed("server")
     \/ sniff' = "no" /\ UNCHANGED link
  /\ UNCHANGED <<want, main, cancelled, httpVars, wsVars, run, active, tcp, dial, reaping,
                 bridging>>

\* The upstream's goroutine: the dial, then the first read, which ends with
\* bytes or a timeout (head), or with the end of the connection.
Dial ==
  /\ dial = "on"
  /\ \/ dial' = "failed" /\ UNCHANGED tcp
     \/ dial' = "reading" /\ tcp' = [tcp EXCEPT !["server"] = "open"]
  /\ UNCHANGED <<want, link, main, cancelled, httpVars, wsVars, run, active, sniff, reaping,
                 bridging>>

FirstRead ==
  /\ dial = "reading"
  /\ dial' = IF tcp["server"] = "open" THEN "head" ELSE "end"
  /\ UNCHANGED <<want, link, main, cancelled, httpVars, wsVars, run, active, tcp, sniff,
                 reaping, bridging>>

\* reap: when the dial and the first read are over, the connection is closed.
Reap ==
  /\ reaping /\ dial \in {"failed", "head", "end"}
  /\ reaping' = FALSE
  /\ tcp' = [tcp EXCEPT !["server"] = IF @ = "none" THEN @ ELSE "closed"]
  /\ UNCHANGED <<want, link, main, cancelled, httpVars, wsVars, run, active, sniff, dial,
                 bridging>>

\* A verdict of sniffMagic is received while main waits for it.  If the stream is
\* a tunnel the upstream's connection is left to reap, or closed at once when its
\* first read is over.
TakeVerdict ==
  /\ main \in {"sniffing", "race", "dialed", "nodial", "headed", "kicking"} /\ sniff \in {"yes", "no"}
  /\ sniff' = "taken"
  /\ IF sniff = "yes" /\ main # "kicking"
       THEN /\ main' = "open"
            /\ reaping' = (main \in {"race", "dialed"})
            /\ tcp' = IF main = "headed" THEN [tcp EXCEPT !["server"] = "closed"] ELSE tcp
       ELSE /\ main' = CASE main \in {"race", "dialed"} -> "needhead"
                         [] main \in {"headed", "kicking"} /\ dial # "failed" -> "toraw"
                         [] OTHER -> "leave"
            /\ UNCHANGED <<reaping, tcp>>
  /\ UNCHANGED <<want, link, cancelled, httpVars, wsVars, run, active, dial, bridging>>

\* The upstream is first.  Its failure, or its first bytes, speak for raw, but
\* the magic gets a grace period; after it Peek is kicked and its verdict, a
\* late yes too, ignored.
UpstreamFirst ==
  /\ \/ main = "race" /\ dial = "failed" /\ main' = "nodial"
     \/ main = "race" /\ dial \in {"reading", "head", "end"} /\ main' = "dialed"
     \/ main = "dialed" /\ dial \in {"head", "end"} /\ main' = "headed"
     \/ main \in {"nodial", "headed"} /\ main' = "kicking"
     \/ main = "needhead" /\ dial = "failed" /\ main' = "leave"
     \/ main = "needhead" /\ dial \in {"head", "end"} /\ main' = "toraw"
  /\ UNCHANGED <<want, link, cancelled, httpVars, wsVars, tunnelVars>>

\* toRaw: the connection becomes active, its first bytes are replayed.
ToRaw ==
  /\ main = "toraw"
  /\ active' = Added("server", "tcp") /\ tcp' = TcpAdded("server")
  /\ main' = IF dial = "end" THEN "leaveraw" ELSE "bridge"
  /\ UNCHANGED <<want, link, cancelled, httpVars, wsVars, run, sniff, dial, reaping, bridging>>

\* bridge, as at the client.
BridgeCopies ==
  /\ main = "bridge" /\ HasFrame("server")
  /\ link' = Consumed("server")
  /\ UNCHANGED <<want, main, cancelled, httpVars, wsVars, tunnelVars>>

BridgeEnds ==
  /\ main = "bridge" /\ BridgeMayEnd("server")
  /\ link' \in Closings(link, "server")
  /\ main' = "leaveraw"
  /\ UNCHANGED <<want, cancelled, httpVars, wsVars, tunnelVars>>

\* serveTunnelConn: OPEN within the timeout, and the dispatch by its kind.
ServeTunnelConn ==
  /\ main = "open"
  /\ \/ /\ HasFrame("server") /\ Frame("server") = "OPEN" /\ want.target # "bad"
        /\ link' = Consumed("server") /\ main' = want.kind
     \/ /\ HasFrame("server") /\ (Frame("server") # "OPEN" \/ want.target = "bad")
        /\ link' = Written(Consumed("server"), "server", <<"ABORT">>) /\ main' = "flush"
     \/ main' = "leave" /\ UNCHANGED link
  /\ UNCHANGED <<want, cancelled, httpVars, wsVars, tunnelVars>>

\* gracefulClose.
Flush ==
  /\ main = "flush"
  /\ link' \in Closings(link, "server")
  /\ main' = "leave"
  /\ UNCHANGED <<want, cancelled, httpVars, wsVars, tunnelVars>>

\* The deferred calls of toRaw, and those of serveStream: close, del, Done.
LeaveRaw ==
  /\ main = "leaveraw"
  /\ main' = "leave"
  /\ tcp' = [tcp EXCEPT !["server"] = "closed"]
  /\ active' = [active EXCEPT !["server"].set = @ \ {"tcp"}]
  /\ UNCHANGED <<want, link, cancelled, httpVars, wsVars, run, sniff, dial, reaping, bridging>>

Leave ==
  /\ main = "leave"
  /\ main' = "gone"
  /\ link' \in Quits(link, "server")
  /\ active' = [active EXCEPT !["server"].set = @ \ {"st"}]
  /\ pump' = NewPump /\ serve' = [NewServe EXCEPT !.wrote = serve.wrote, !.spoilt = serve.spoilt]
  /\ UNCHANGED <<want, cancelled, fetch, wsVars, run, tcp, sniff, dial, reaping, bridging>>

-----------------------------------------------------------------------------
ServerNext ==
  \/ \E e \in Ends : Cancel(e) \/ CloseAll(e) \/ CloseMember(e) \/ RunEnds(e) \/ TcpEnds(e)
  \/ AcceptTCP \/ OpenStream \/ ClientSends \/ ClientBridgeEnds
  \/ AcceptStream \/ Sniff \/ Dial \/ FirstRead \/ Reap \/ TakeVerdict \/ UpstreamFirst
  \/ ToRaw \/ BridgeCopies \/ BridgeEnds \/ ServeTunnelConn \/ Flush \/ LeaveRaw \/ Leave

Next ==
  \/ ServerNext
  \/ /\ HTTPNext
     /\ UNCHANGED <<wsVars, tunnelVars>>
  \/ /\ WSNext
     /\ UNCHANGED <<httpVars, tunnelVars>>
  \/ /\ StreamBreaks
     /\ UNCHANGED <<httpVars, wsVars, tunnelVars>>

\* What the program does by itself, as far as its writes are taken; the rest is
\* up to the application, the network, the peer and the upstream (whether it
\* reads, WSUpstreamTakes, too).  A handler, and a RoundTripper, return once their
\* context is cancelled, a WebSocket handler once its stream is closed.
Progress ==
  \/ \E e \in Ends : CloseAll(e) \/ CloseMember(e) \/ RunEnds(e)
  \/ OpenStream \/ ClientBridgeEnds
  \/ Sniff \/ Dial \/ FirstRead \/ Reap \/ TakeVerdict \/ UpstreamFirst
  \/ ToRaw \/ BridgeEnds \/ ServeTunnelConn \/ Flush \/ LeaveRaw \/ Leave
  \/ /\ \/ ServeHTTP \/ PumpRead \/ PumpPut \/ WatchAbort
        \/ (CtxDone /\ (HandlerReturns \/ ProxyFails \/ ProxyEnds))
     /\ UNCHANGED <<wsVars, tunnelVars>>
  \/ /\ \/ ServeWS \/ (link.closed["server"] /\ WSHandlerReturns)
        \/ (main = "wsend" /\ (WSClose("server") \/ WSHandlerDone))
        \/ WSProxyDials \/ WSProxyRead \/ WSProxyWaits \/ WSProxyCloses \/ WSRejectWrites
        \/ \E e \in Ends : \/ WSReadFails(e) \/ WSReadFrame(e) \/ WSReply(e)
                            \/ WSCloseStarts(e) \/ WSCloseSends(e) \/ WSCloseReads(e)
                            \/ WSFlush(e)
     /\ UNCHANGED <<httpVars, tunnelVars>>

Spec == TunnelInit /\ [][Next]_vars /\ WF_vars(Progress)

-----------------------------------------------------------------------------
(* Properties. *)

FrameTypes ==
  {"MAGIC", "RAW", "OPEN", "RESULT", "REFUSED", "DATA", "END", "ABORT", "MSG", "PING", "PONG", "CLOSE"}
EndTypes == {"eof", "err"}

Places ==
  {"none", "queued", "sniffing", "race", "dialed", "nodial", "headed", "kicking", "needhead",
   "toraw", "bridge", "leaveraw", "open", "raw", "http", "handler", "roundtrip", "stream",
   "ws", "wslocal", "wsend", "wsdial", "wsproxy", "upwrite", "upclose", "wswait", "wsabort",
   "wsdown", "flush", "leave", "gone"}

Links ==
  [wire : [Ends -> Seq(FrameTypes)], ended : [Ends -> {"no"} \cup EndTypes],
   closed : [Ends -> BOOLEAN]]

TypeOK ==
  /\ want \in Uses /\ link \in Links
  /\ main \in Places /\ cancelled \in [Ends -> BOOLEAN]
  /\ fetch \in [at : {"off", "wait", "body", "over"}, got : Nat,
                saw : {"more"} \cup FrameTypes \cup EndTypes, sent : Nat,
                upload : {"off", "on", "done", "failed"}]
  /\ pump \in [on : BOOLEAN, ch : Seq(FrameTypes \cup EndTypes),
               hand : Seq(FrameTypes \cup EndTypes), aborted : BOOLEAN]
  /\ serve \in [body : {"more"} \cup FrameTypes \cup EndTypes, got : Nat, header : BOOLEAN,
                wrote : Nat, spoilt : BOOLEAN, ctx : BOOLEAN]
  /\ ws \in [Ends -> [at : {"off", "asked", "unanswered", "open", "failed"}, rejecting : BOOLEAN,
                      closed : BOOLEAN, closeSent : BOOLEAN, term : BOOLEAN,
                      reader : {"out", "in"}, owes : {"no", "PONG", "CLOSE", "ABORT"},
                      closer : {"no", "start", "sending", "wait", "reading", "aborting",
                                "flush", "done"},
                      sent : Nat, closes : Nat]]
  /\ target \in [conn : {"none", "open", "closed"}, pump : {"off", "on", "done"}, sent : Nat]
  /\ run \in [Ends -> {"off", "on", "returned"}]
  /\ active \in [Ends -> [set : SUBSET {"st", "tcp"}, closed : BOOLEAN,
                          closing : SUBSET {"st", "tcp"}]]
  /\ tcp \in [Ends -> {"none", "open", "closed"}]
  /\ sniff \in {"off", "on", "yes", "no", "taken"}
  /\ dial \in {"off", "on", "failed", "reading", "head", "end"}
  /\ reaping \in BOOLEAN /\ bridging \in {"off", "opening", "on", "gone"}

\* Who reads END has the whole body: every DATA frame that was written, and the
\* writer neither panicked nor lost its upstream after RESULT (panic500 before
\* finish, streamBody, the upload goroutine against Body.Close and the context).
EndMeansComplete ==
  /\ fetch.saw = "END" => fetch.got = serve.wrote /\ ~serve.spoilt
  /\ serve.body = "END" => serve.got = fetch.sent /\ fetch.upload = "done"

\* An end sends at most one WS_CLOSE, whether ReadMessage answers the peer's or
\* Close starts the handshake, both at once too (closeSent).
OneWSClose == \A e \in Ends : ws[e].closes <= 1

\* Run returns once its context is cancelled, and leaves neither the stream nor a
\* TCP or upstream connection open (connSet.add against closeAll, reap and toRaw
\* against a late dial), unless serveWSProxy is in up.WriteMessage to an upstream
\* that does not read.  Every TunnelWSConn.Close and Abort comes back, although
\* ReadMessage may hold readMu and the peer be silent, unless a write, its own or
\* that of a ReadMessage it waits for, waits for the peer to read on a stream
\* that nobody closes.
LeftOpen(e) ==
  \/ tcp[e] = "open"
  \/ e = "server" /\ main \notin {"none", "queued"} /\ ~link.closed[e]

Returned(e) == run[e] = "returned" /\ (e = "server" => target.conn # "open")

UpstreamDeaf(e) == e = "server" /\ main \in {"upwrite", "upclose"}

CloseWaits(e) ==
  WriteWaits(e) /\ (ws[e].closer \in {"sending", "aborting"} \/ ws[e].owes # "no")

ShutdownCompletes ==
  []<>(\A e \in Ends :
         /\ cancelled[e] => ~LeftOpen(e) /\ (Returned(e) \/ UpstreamDeaf(e))
         /\ ws[e].closer \in {"no", "done"} \/ CloseWaits(e))

\* A response or request body ends with a clean EOF only at its END frame.
EofOnlyAtEnd == fetch.saw # "eof" /\ serve.body # "eof"
=============================================================================

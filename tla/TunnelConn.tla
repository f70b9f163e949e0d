----------------------------- MODULE TunnelConn -----------------------------
(***************************************************************************)
(* One aggregated stream as the tunnel layer uses it (tunnelwire.Session   *)
(* on a netacc.Stream): frames in order in both directions, no half-close, *)
(* and a Close that drops what the send pump has not transmitted.  A frame *)
(* is its type; the magic, and bytes that are not the magic, count as one  *)
(* frame each.  The variables every part of the tunnel shares are declared *)
(* here.                                                                   *)
(***************************************************************************)
EXTENDS Integers, Sequences, SequencesExt

CONSTANTS
  MaxBody,   \* bound: DATA frames of a request body and of a response body
  MaxMsgs,   \* bound: WebSocket messages and pings of a session, from each side of a proxy
  PumpCap,   \* framePump: the capacity of ch (16 in the code)
  WireCap,   \* bound: frames not read yet that make the next write wait
  Uses       \* the uses of the stream, from AllUses

\* raw: a TCP connection of tunnel.Client.  http, ws: TunnelFetch, TunnelWS.
\* target: who answers; bad is an OPEN that does not decode or validate.
\* fixed: the server has a fixed upstream, for raw streams.
AllUses ==
  [kind : {"raw"}, target : {"none"}, fixed : {TRUE}] \cup
  [kind : {"http", "ws"}, target : {"local", "proxy", "refused", "bad"}, fixed : BOOLEAN]

ASSUME TunnelAssumption ==
  /\ MaxBody \in Nat /\ MaxMsgs \in Nat /\ PumpCap \in Nat \ {0} /\ WireCap \in Nat \ {0}
  /\ Uses \subseteq AllUses

VARIABLES
  want,      \* the use of the stream, chosen at the start
  link,      \* the stream: wire, ended and closed per end
  main,      \* where the goroutine of serveStream is
  cancelled  \* per end: the context of Run is cancelled

Ends == {"client", "server"}
Other(e) == IF e = "client" THEN "server" ELSE "client"

\* wire[e]: written at e and not read yet.  ended[e]: what the other end reads
\* after it.  closed[e]: Close or shutdown has run at e.
NewLink ==
  [wire |-> [e \in Ends |-> <<>>], ended |-> [e \in Ends |-> "no"],
   closed |-> [e \in Ends |-> FALSE]]

-----------------------------------------------------------------------------
(* The stream. *)

\* A write fails once the stream is closed here; until the close of the other
\* end has arrived it may succeed although nobody reads it.
MayFail(e) == \E x \in Ends : link.closed[x]

\* Stream.Write without a deadline, which nothing here sets, waits while the
\* peer does not read, and with it, through wmu, every writer of this end: an
\* action that writes is not possible before.  (The first frames of a stream
\* always fit.)
WriteWaits(e) == ~MayFail(e) /\ Len(link.wire[e]) >= WireCap

MayWrite(e) == ~link.closed[e] /\ ~WriteWaits(e)

Written(l, e, frames) ==
  IF \E x \in Ends : l.closed[x] THEN l ELSE [l EXCEPT !.wire[e] = @ \o frames]

HasFrame(e) == link.wire[Other(e)] # <<>>
Frame(e) == Head(link.wire[Other(e)])
Consumed(e) == [link EXCEPT !.wire[Other(e)] = Tail(@)]

\* The errors that ReadFrame can return now.  Received bytes are still read
\* after the end of the stream; who closed it itself may get ErrClosed.
ReadErrors(e) ==
  {r \in {link.ended[Other(e)]} : link.wire[Other(e)] = <<>> /\ r # "no"} \cup
  {r \in {"err"} : link.closed[e]}

\* Close: what was not transmitted is lost.  A cut inside a frame is an error to
\* the reader, or a plain EOF if it falls between the fields of the header; a
\* write that waited may have put in a part of its frame.
\* GracefulClose waits until everything is acknowledged, then nothing is cut,
\* or times out.
\* To an end that has closed itself the cut makes no difference.
ClosedAt(l, e, k, r) ==
  [l EXCEPT !.closed[e] = TRUE, !.wire[e] = SubSeq(@, 1, k), !.ended[e] = r]

Closings(l, e) ==
  IF l.closed[e] THEN {l}
  ELSE {ClosedAt(l, e, Len(l.wire[e]), "eof")} \cup
       {ClosedAt(l, e, k, r) :
          k \in {i \in 0..Len(l.wire[e]) :
                  ~l.closed[Other(e)] /\ (i < Len(l.wire[e]) \/ i >= WireCap)},
          r \in {"eof", "err"}}

\* The same by the last reader of this end.
Quits(l, e) == {[x EXCEPT !.wire[Other(e)] = <<>>] : x \in Closings(l, e)}

\* All paths are lost: both ends shut down with an error, with or without what
\* was under way.
Broken(l) ==
  {[wire |-> [e \in Ends |-> IF lost THEN <<>> ELSE l.wire[e]],
    ended |-> [e \in Ends |-> IF l.ended[e] = "no" THEN "err" ELSE l.ended[e]],
    closed |-> [e \in Ends |-> TRUE]] : lost \in BOOLEAN}

StreamBreaks ==
  /\ main # "none" /\ \E e \in Ends : ~link.closed[e]
  /\ link' \in Broken(link)
  /\ UNCHANGED <<want, main, cancelled>>
=============================================================================

------------------------------ MODULE SendPump ------------------------------
(***************************************************************************)
(* When does the send pump run?  sendLoop (stream.go) sleeps until a token *)
(* arrives in sendWake, then calls trySend until nothing can be sent.      *)
(* Whoever makes something sendable has to leave a token.  This module     *)
(* keeps what decides that: the tokens, the in-flight cap that makes       *)
(* pickData return nil, the tick that marks what the peer has and gives up *)
(* on what is overdue, and the death of paths.                             *)
(*                                                                         *)
(* Frames are units as in DataPlane.  An ACK is represented by the set of  *)
(* units the receiver held when it was written (cum and SACK ranges        *)
(* together); the set only grows, so an ACK is older than another exactly  *)
(* when its set is smaller or equal.  The receiver's window and the number *)
(* of SACK ranges are taken to be large enough not to matter.              *)
(***************************************************************************)
EXTENDS Integers, Sequences, FiniteSets

CONSTANTS
  Path,         \* the paths, all attached from the start
  Mortal,       \* paths that may die
  None,         \* nil
  MaxUnits,     \* bound: units written
  InflightCap,  \* inflightCap of a path
  ChanCap       \* bound: frames a connection holds in each direction

ASSUME PathAssumption == Mortal \subseteq Path /\ Mortal # Path /\ None \notin Path
ASSUME CapAssumption == InflightCap \in Nat \ {0} /\ ChanCap \in Nat \ {0} /\ MaxUnits \in Nat

VARIABLES
  \* the sender
  written,   \* units written
  sentOff,   \* units sent at least once
  owner,     \* path of each sent unit, None = resend pool
  sacked,    \* units marked as held by the peer
  view,      \* units the newest ACK reports
  gotWindow, \* an ACK has arrived
  wake,      \* token in sendWake
  pumping,   \* sendLoop is inside the trySend loop
  liveS,     \* paths in the sender's path set
  dropping,  \* paths dropPath has removed, before its final wakeSend
  \* the receiver
  got,       \* units received
  ackReq,    \* token in ackCh
  fresh,     \* paths with arrivals not yet reported by TELEMETRY
  liveR,     \* paths in the receiver's path set
  \* the connections
  data, back \* frames in flight, in each direction

sender == <<written, sentOff, owner, sacked, view, gotWindow, wake, pumping, liveS, dropping>>
receiver == <<got, ackReq, fresh, liveR>>
vars == <<sender, receiver, data, back>>

Unit == 0 .. MaxUnits - 1

-----------------------------------------------------------------------------
(* Helpers.  Op_Flaw is Op with a plausible mistake. *)

Cum(V) == CHOOSE n \in 0 .. MaxUnits : n \notin V /\ \A u \in 0 .. n - 1 : u \in V
Unacked == {u \in Unit : Cum(view) <= u /\ u < sentOff}
InflightOf(p) == {u \in Unacked : owner[u] = p /\ u \notin sacked}
Eligible == {p \in liveS : Cardinality(InflightOf(p)) < InflightCap}

Pool == {u \in Unacked : owner[u] = None /\ u \notin sacked}
Holes == Pool \ view
Marked == sacked \cup {u \in Pool \cap view : \A h \in Holes : u < h}

\* Something trySend would send, if a path is eligible for it.
Waiting == gotWindow /\ (Holes # {} \/ sentOff < written)
CanSend == Waiting /\ Eligible # {}

\* The tokens left in sendWake by dropPath and by an ACK.
WakeAfterDrop_None == wake
WakeAfterDrop == TRUE
WakeAfterAck(V) == TRUE

-----------------------------------------------------------------------------
Init ==
  /\ written = 0 /\ sentOff = 0
  /\ owner = [u \in Unit |-> None]
  /\ sacked = {} /\ view = {} /\ gotWindow = FALSE
  /\ wake = FALSE /\ pumping = FALSE
  /\ liveS = Path /\ dropping = {}
  /\ got = {} /\ ackReq = TRUE /\ fresh = {} /\ liveR = Path
  /\ data = [p \in Path |-> << >>]
  /\ back = [p \in Path |-> << >>]

-----------------------------------------------------------------------------
(* The sender: Write, the pump, the tick, the receive loops. *)

Write ==
  /\ written < MaxUnits
  /\ written' = written + 1
  /\ wake' = TRUE
  /\ UNCHANGED <<sentOff, owner, sacked, view, gotWindow, pumping, liveS, dropping,
                 receiver, data, back>>

StartPump ==
  /\ ~pumping
  /\ wake
  /\ wake' = FALSE
  /\ pumping' = TRUE
  /\ UNCHANGED <<written, sentOff, owner, sacked, view, gotWindow, liveS, dropping,
                 receiver, data, back>>

\* One successful trySend.  A frame written to a path the peer has dropped
\* is lost with it.
SendOne ==
  /\ pumping
  /\ CanSend
  /\ sacked' = Marked
  /\ \E p \in Eligible :
       /\ Len(data[p]) < ChanCap
       /\ \E u \in Unit :
            /\ IF Holes # {}
                 THEN u \in Holes /\ (\A h \in Holes : u <= h) /\ UNCHANGED sentOff
                 ELSE u = sentOff /\ sentOff' = sentOff + 1
            /\ owner' = [owner EXCEPT ![u] = p]
            /\ data' = IF p \in liveR THEN [data EXCEPT ![p] = Append(@, u)] ELSE data
  /\ UNCHANGED <<written, view, gotWindow, wake, pumping, liveS, dropping, receiver, back>>

\* trySend returns false: nothing to send, or pickData returned nil.
StopPump ==
  /\ pumping
  /\ ~CanSend
  /\ sacked' = IF gotWindow THEN Marked ELSE sacked
  /\ pumping' = FALSE
  /\ UNCHANGED <<written, sentOff, owner, view, gotWindow, wake, liveS, dropping,
                 receiver, data, back>>

\* onTick with checkSoftFailLocked.  Marking what the peer has reduces the
\* in-flight account of live paths; only moving overdue segments sets moved
\* and wakes the pump.
Tick ==
  /\ ~pumping
  /\ sacked' = sacked \cup (Unacked \cap view)
  /\ \E late \in SUBSET {u \in Unacked \ sacked' : owner[u] # None} :
       /\ owner' = [u \in Unit |-> IF u \in late THEN None ELSE owner[u]]
       /\ wake' = (wake \/ late # {})
  /\ UNCHANGED <<written, sentOff, view, gotWindow, pumping, liveS, dropping,
                 receiver, data, back>>

\* recvLoop of the sender: ACK and TELEMETRY.  An ACK older than the newest
\* one is passed over and wakes nobody; of two that report the same units
\* either may be the older.
RecvAck(p) ==
  /\ p \in liveS
  /\ back[p] # << >> /\ Head(back[p]).kind = "ACK"
  /\ LET V == Head(back[p]).units
     IN \/ /\ gotWindow /\ V \subseteq view
           /\ UNCHANGED <<view, gotWindow, wake>>
        \/ /\ gotWindow => view \subseteq V
           /\ view' = V
           /\ gotWindow' = TRUE
           /\ wake' = WakeAfterAck(V)
  /\ back' = [back EXCEPT ![p] = Tail(@)]
  /\ UNCHANGED <<written, sentOff, owner, sacked, pumping, liveS, dropping, receiver, data>>

RecvTelemetry(p) ==
  /\ p \in liveS
  /\ back[p] # << >> /\ Head(back[p]).kind = "TELEMETRY"
  /\ wake' = TRUE
  /\ back' = [back EXCEPT ![p] = Tail(@)]
  /\ UNCHANGED <<written, sentOff, owner, sacked, view, gotWindow, pumping, liveS, dropping,
                 receiver, data>>

\* dropPath: the part under the lock, then the wake-up after the connection
\* has been closed and the peer notified.
DropS(p) ==
  /\ p \in Mortal \cap liveS
  /\ liveS' = liveS \ {p}
  /\ owner' = [u \in Unit |-> IF owner[u] = p THEN None ELSE owner[u]]
  /\ dropping' = dropping \cup {p}
  /\ back' = [back EXCEPT ![p] = << >>]
  /\ UNCHANGED <<written, sentOff, sacked, view, gotWindow, wake, pumping, receiver, data>>

FinishDrop(p) ==
  /\ p \in dropping
  /\ dropping' = dropping \ {p}
  /\ wake' = WakeAfterDrop
  /\ UNCHANGED <<written, sentOff, owner, sacked, view, gotWindow, pumping, liveS,
                 receiver, data, back>>

-----------------------------------------------------------------------------
(* The receiver. *)

RecvData(p) ==
  /\ p \in liveR
  /\ data[p] # << >>
  /\ got' = got \cup {Head(data[p])}
  /\ ackReq' = TRUE
  /\ fresh' = fresh \cup {p}
  /\ data' = [data EXCEPT ![p] = Tail(@)]
  /\ UNCHANGED <<liveR, sender, back>>

\* A frame written to a path the sender has dropped is lost.
Reply(p, frame) ==
  /\ p \in liveR
  /\ Len(back[p]) < ChanCap
  /\ back' = IF p \in liveS THEN [back EXCEPT ![p] = Append(@, frame)] ELSE back

SendAck ==
  /\ ackReq
  /\ ackReq' = FALSE
  /\ \E p \in liveR : Reply(p, [kind |-> "ACK", units |-> got])
  /\ UNCHANGED <<got, fresh, liveR, sender, data>>

\* The receiver's tick reports the rates of paths with new arrivals.
SendTelemetry ==
  /\ fresh \cap liveR # {}
  /\ fresh' = {}
  /\ \E p \in liveR : Reply(p, [kind |-> "TELEMETRY"])
  /\ UNCHANGED <<got, ackReq, liveR, sender, data>>

\* dropPath at the receiver: what was in flight to it is gone, and a fresh
\* ACK goes out on the remaining paths.
AckAfterDrop_None == ackReq
AckAfterDrop == TRUE

DropR(p) ==
  /\ p \in Mortal \cap liveR
  /\ liveR' = liveR \ {p}
  /\ data' = [data EXCEPT ![p] = << >>]
  /\ ackReq' = AckAfterDrop
  /\ UNCHANGED <<got, fresh, sender, back>>

-----------------------------------------------------------------------------
Next ==
  \/ Write \/ StartPump \/ SendOne \/ StopPump \/ Tick
  \/ SendAck \/ SendTelemetry
  \/ \E p \in Path : \/ RecvAck(p) \/ RecvTelemetry(p) \/ DropS(p) \/ FinishDrop(p)
                     \/ RecvData(p) \/ DropR(p)

\* The goroutines run: the pump, the ticker, the receive loops; a dropped
\* path is noticed at the other end too.  Strong fairness of SendAck: a
\* connection that again and again has room accepts the ACK that waits for
\* it, and Go's select does not pass over a ready ackCh for ever.  Nobody has
\* to write, and no path has to die.
Fairness ==
  /\ WF_vars(StartPump) /\ WF_vars(SendOne) /\ WF_vars(StopPump) /\ WF_vars(Tick)
  /\ SF_vars(SendAck) /\ WF_vars(SendTelemetry)
  /\ \A p \in Path : /\ WF_vars(RecvAck(p)) /\ WF_vars(RecvTelemetry(p))
                     /\ WF_vars(FinishDrop(p)) /\ WF_vars(RecvData(p))
                     /\ WF_vars(p \notin liveR /\ DropS(p))
                     /\ WF_vars(p \notin liveS /\ DropR(p))

Spec == Init /\ [][Next]_vars /\ Fairness

-----------------------------------------------------------------------------
(* Properties. *)

\* While no path is at its cap, a sendable frame never waits without a token
\* on the way: each event that makes something sendable ends in wakeSend,
\* and the pump consumes a token before it looks, not after.
NoLostWakeup ==
  CanSend /\ ~pumping => wake \/ dropping # {}

\* Everything written is eventually acknowledged, as long as one path lives:
\* path death, soft failure and the cap never leave a hole unsent.  (The
\* comment in checkSoftFailLocked says the release of the in-flight account
\* is there to prevent the circular deadlock.)
EventuallyAcked == \A u \in Unit : u < written ~> u < Cum(view)
=============================================================================

-------------------------- MODULE Handshake_proofs --------------------------
(***************************************************************************)
(* Proofs about the handshake, for any number of calls, any backlog, any   *)
(* credentials and any number of paths asked for.                          *)
(***************************************************************************)
EXTENDS Handshake, TLAPS

\* Updating a function of functions at one point.
LEMMA Update2 ==
  ASSUME NEW S, NEW T, NEW U, NEW f \in [S -> [T -> U]], NEW s \in S, NEW t \in T, NEW u \in U
  PROVE  /\ [f EXCEPT ![s][t] = u] \in [S -> [T -> U]]
         /\ \A x \in S, y \in T :
              [f EXCEPT ![s][t] = u][x][y] = IF x = s /\ y = t THEN u ELSE f[x][y]
  OBVIOUS

-----------------------------------------------------------------------------
(* Type correctness. *)

LEMMA TypeInit == Init => TypeOK
<1> SUFFICES ASSUME Init PROVE TypeOK
  OBVIOUS
<1>1. /\ ini \in [Opens -> {"idle", "hello", "acked", "attaching", "returned", "failed"}]
      /\ acc \in [pc : {"out", "waiting", "reading", "acking", "acked", "checking", "panicked"},
                  cur : Opens \cup {"none"}]
      /\ acc.pc = "out"
  BY DEF Init, Idle
<1>2. /\ queue \in Seq(Opens) /\ sent \in [Opens -> SUBSET {"hello", "ack", "reject"}]
      /\ rst \in [Opens -> SUBSET (Side \X {"code", "watch", "recv"})]
  BY DEF Init
<1>3. /\ watch \in [Side -> [Opens -> {"off", "waiting", "woken", "over"}]]
      /\ finished \in [Side -> SUBSET Opens]
  BY DEF Init
<1>4. /\ st \in [Side -> [Opens -> {"none", "built", "live", "closed"}]]
      /\ reg \in [Side -> SUBSET Opens]
      /\ up \in [Side -> [Opens -> Nat]]
  BY DEF Init
<1>5. /\ att \in [Opens -> {"none", "sent", "failed", "refused", "unknown", "ok"}]
      /\ shut \in BOOLEAN
  BY DEF Init
<1> QED
  BY <1>1, <1>2, <1>3, <1>4, <1>5 DEF TypeOK

LEMMA KillType ==
  ASSUME TypeOK, NEW s \in Side, NEW o \in Opens, NEW why \in {"code", "watch", "recv"}
  PROVE  Kill(s, o, why) \in [Opens -> SUBSET (Side \X {"code", "watch", "recv"})]
  BY DEF TypeOK, Kill

LEMMA ArmType ==
  ASSUME TypeOK, NEW s \in Side, NEW o \in Opens, NEW w \in {"waiting", "woken", "over"}
  PROVE  [watch EXCEPT ![s][o] = w] \in [Side -> [Opens -> {"off", "waiting", "woken", "over"}]]
  BY Update2 DEF TypeOK

LEMMA StopType ==
  ASSUME TypeOK, NEW s \in Side, NEW o \in Opens, Stop(s, o)
  PROVE  finished' \in [Side -> SUBSET Opens]
  BY DEF TypeOK, Stop

LEMMA NewStreamType ==
  ASSUME TypeOK, NEW s \in Side, NEW o \in Opens, NEW stage \in {"built", "live"},
         NewStream(s, o, stage)
  PROVE  /\ st' \in [Side -> [Opens -> {"none", "built", "live", "closed"}]]
         /\ reg' \in [Side -> SUBSET Opens]
         /\ up' \in [Side -> [Opens -> Nat]]
<1>1. reg' \in [Side -> SUBSET Opens]
  BY DEF TypeOK, NewStream
<1>2. stage \in {"none", "built", "live", "closed"} /\ 1 \in Nat
  OBVIOUS
<1> QED
  BY <1>1, <1>2, Update2 DEF TypeOK, NewStream

LEMMA OverType ==
  ASSUME TypeOK, NEW s \in Side, NEW o \in Opens, Over(s, o)
  PROVE  /\ st' \in [Side -> [Opens -> {"none", "built", "live", "closed"}]]
         /\ reg' \in [Side -> SUBSET Opens]
         /\ up' \in [Side -> [Opens -> Nat]]
<1>1. reg' \in [Side -> SUBSET Opens]
  BY DEF TypeOK, Over
<1>2. "closed" \in {"none", "built", "live", "closed"} /\ 0 \in Nat
  OBVIOUS
<1> QED
  BY <1>1, <1>2, Update2 DEF TypeOK, Over

LEMMA LosesPathType ==
  ASSUME TypeOK, NEW s \in Side, NEW o \in Opens, LosesPath(s, o), up[s][o] > 0
  PROVE  /\ st' \in [Side -> [Opens -> {"none", "built", "live", "closed"}]]
         /\ reg' \in [Side -> SUBSET Opens]
         /\ up' \in [Side -> [Opens -> Nat]]
<1>1. up[s][o] \in Nat /\ up[s][o] - 1 \in Nat
  BY DEF TypeOK
<1>2. CASE up[s][o] = 1
  BY <1>2, OverType DEF LosesPath
<1>3. CASE up[s][o] # 1
  <2>1. up' = [up EXCEPT ![s][o] = up[s][o] - 1] /\ UNCHANGED <<st, reg>>
    BY <1>3 DEF LosesPath, TypeOK
  <2> QED
    BY <1>1, <2>1, Update2 DEF TypeOK
<1> QED
  BY <1>2, <1>3

\* A further path is one of the Stream's paths.
LEMMA FurtherIsAPath ==
  ASSUME TypeOK, NEW s \in Side, NEW o \in Opens, Further(s, o) > 0
  PROVE  up[s][o] > 0
<1>1. up[s][o] \in Nat
  BY DEF TypeOK
<1> QED
  BY <1>1 DEF Further

LEMMA TypeStep == TypeOK /\ [Next]_vars => TypeOK'
<1> SUFFICES ASSUME TypeOK, [Next]_vars PROVE TypeOK'
  OBVIOUS
<1>s. "I" \in Side /\ "R" \in Side
  BY DEF Side
<1>1. ASSUME NEW s \in Side, NEW o \in Opens, WatchWake(s, o) PROVE TypeOK'
  <2>1. watch' \in [Side -> [Opens -> {"off", "waiting", "woken", "over"}]]
    BY <1>1, ArmType DEF WatchWake
  <2> QED
    BY <1>1, <2>1 DEF TypeOK, WatchWake
<1>2. ASSUME NEW s \in Side, NEW o \in Opens, WatchReset(s, o) PROVE TypeOK'
  BY <1>2, ArmType, KillType DEF TypeOK, WatchReset
<1>3. ASSUME NEW o \in Opens, OpenStream(o) PROVE TypeOK'
  BY <1>s, <1>3, ArmType DEF TypeOK, OpenStream, Arm
<1>4. ASSUME NEW o \in Opens, OpenRefused(o) \/ WriteHello(o) \/ ReadAck(o) PROVE TypeOK'
  <2>1. CASE OpenRefused(o)
    BY <2>1 DEF TypeOK, OpenRefused
  <2>2. CASE WriteHello(o)
    BY <2>2 DEF TypeOK, WriteHello
  <2>3. CASE ReadAck(o)
    BY <2>3 DEF TypeOK, ReadAck
  <2> QED
    BY <1>4, <2>1, <2>2, <2>3
<1>5. ASSUME NEW o \in Opens, OpenFails(o) PROVE TypeOK'
  BY <1>s, <1>5, KillType, StopType DEF TypeOK, OpenFails
<1>6. ASSUME NEW o \in Opens, Start(o) PROVE TypeOK'
  BY <1>s, <1>6, NewStreamType DEF TypeOK, Start
<1>7. ASSUME NEW o \in Opens, OpenReturns(o) PROVE TypeOK'
  <2>1. ini' \in [Opens -> {"idle", "hello", "acked", "attaching", "returned", "failed"}]
    BY <1>7, ZenonT(30) DEF TypeOK, OpenReturns
  <2>2. rst' \in [Opens -> SUBSET (Side \X {"code", "watch", "recv"})]
    BY <1>s, <1>7, KillType DEF TypeOK, OpenReturns
  <2>3. /\ st' \in [Side -> [Opens -> {"none", "built", "live", "closed"}]]
        /\ reg' \in [Side -> SUBSET Opens]
        /\ up' \in [Side -> [Opens -> Nat]]
    BY <1>s, <1>7, OverType DEF TypeOK, OpenReturns
  <2> QED
    BY <1>s, <1>7, <2>1, <2>2, <2>3, StopType DEF TypeOK, OpenReturns
<1>8. ASSUME NEW o \in Opens, HandleStream(o) PROVE TypeOK'
  <2>1. CASE Queues(o)
    <3>1. queue' = Append(queue, o) /\ UNCHANGED rst
      BY <1>8, <2>1 DEF HandleStream
    <3>2. queue' \in Seq(Opens)
      BY <3>1 DEF TypeOK
    <3> QED
      BY <1>8, <3>1, <3>2 DEF TypeOK, HandleStream
  <2>2. CASE ~Queues(o)
    BY <1>s, <1>8, <2>2, KillType DEF TypeOK, HandleStream
  <2> QED
    BY <2>1, <2>2
<1>9. CASE Accept \/ AcceptCancelled
  BY <1>9 DEF TypeOK, Accept, AcceptCancelled, Idle
<1>10. CASE Take
  <2>1. Head(queue) \in Opens /\ Tail(queue) \in Seq(Opens)
    BY <1>10 DEF TypeOK, Take
  <2> QED
    BY <1>s, <1>10, <2>1, ArmType DEF TypeOK, Take, Arm
<1>11. CASE ReadFails \/ Reject \/ Admit \/ WriteAck \/ AckWritten \/ AcceptReturns
  <2>1. acc.cur \in Opens
    BY <1>11 DEF TypeOK, ReadFails, Reject, ReadsHello, Admit, WriteAck, AckWritten, AcceptReturns
  <2>2. CASE ReadFails
    BY <1>s, <2>1, <2>2, KillType, StopType DEF TypeOK, ReadFails, Continue, Idle
  <2>3. CASE Reject
    BY <1>s, <2>1, <2>3, StopType DEF TypeOK, Reject, Continue, Idle
  <2>4. CASE Admit
    BY <1>s, <2>1, <2>4, NewStreamType DEF TypeOK, Admit, Routes
  <2>5. CASE WriteAck
    <3>1. CASE ~ResetBy("R", acc.cur) /\ sent' = [sent EXCEPT ![acc.cur] = @ \cup {"ack"}]
               /\ acc' = [acc EXCEPT !.pc = "acked"] /\ UNCHANGED <<rst, finished, st, reg, up>>
      BY <2>1, <2>5, <3>1 DEF TypeOK, WriteAck
    <3>2. CASE /\ rst' = Kill("R", acc.cur, "code") /\ Discard(acc.cur) /\ Stop("R", acc.cur)
               /\ Continue /\ UNCHANGED sent
      <4>1. /\ st' \in [Side -> [Opens -> {"none", "built", "live", "closed"}]]
            /\ reg' \in [Side -> SUBSET Opens]
            /\ up' \in [Side -> [Opens -> Nat]]
        BY <1>s, <2>1, <3>2, OverType DEF Discard
      <4>2. /\ rst' \in [Opens -> SUBSET (Side \X {"code", "watch", "recv"})]
            /\ finished' \in [Side -> SUBSET Opens]
        BY <1>s, <2>1, <3>2, KillType, StopType
      <4> QED
        BY <2>5, <3>2, <4>1, <4>2 DEF TypeOK, WriteAck, Continue, Idle
    <3> QED
      BY <2>5, <3>1, <3>2 DEF WriteAck
  <2>6. CASE AckWritten
    BY <1>s, <2>1, <2>6, StopType DEF TypeOK, AckWritten
  <2>7. CASE AcceptReturns
    <3>1. CASE Discard(acc.cur) /\ rst' = Kill("R", acc.cur, "code") /\ acc' = Idle
      <4>1. /\ st' \in [Side -> [Opens -> {"none", "built", "live", "closed"}]]
            /\ reg' \in [Side -> SUBSET Opens]
            /\ up' \in [Side -> [Opens -> Nat]]
        BY <1>s, <2>1, <3>1, OverType DEF Discard
      <4>2. rst' \in [Opens -> SUBSET (Side \X {"code", "watch", "recv"})]
        BY <1>s, <2>1, <3>1, KillType
      <4> QED
        BY <2>7, <4>1, <4>2 DEF TypeOK, AcceptReturns, Idle
    <3>2. CASE st' = [st EXCEPT !["R"][acc.cur] = "live"] /\ acc' = Idle
               /\ UNCHANGED <<reg, up, rst>>
      <4>1. st' \in [Side -> [Opens -> {"none", "built", "live", "closed"}]]
        BY <1>s, <2>1, <3>2, Update2 DEF TypeOK
      <4> QED
        BY <2>7, <3>2, <4>1 DEF TypeOK, AcceptReturns, Idle
    <3>3. CASE acc' = [Idle EXCEPT !.pc = "panicked"] /\ UNCHANGED <<st, reg, up, rst>>
      BY <2>7, <3>3 DEF TypeOK, AcceptReturns, Idle
    <3> QED
      BY <2>7, <3>1, <3>2, <3>3 DEF AcceptReturns
  <2> QED
    BY <1>11, <2>2, <2>3, <2>4, <2>5, <2>6, <2>7
<1>12. ASSUME NEW s \in Side, NEW o \in Opens, FirstPathDies(s, o) PROVE TypeOK'
  BY <1>12, KillType, LosesPathType DEF TypeOK, FirstPathDies
<1>17. ASSUME NEW o \in Opens, FurtherPathDies(o) PROVE TypeOK'
  <2>1. "R" \in Side /\ up["R"][o] \in Nat /\ up["R"][o] > 0 /\ LosesPath("R", o)
    BY <1>17, <1>s, FurtherIsAPath DEF TypeOK, FurtherPathDies
  <2> QED
    BY <1>17, <2>1, LosesPathType DEF TypeOK, FurtherPathDies
<1>13. ASSUME NEW s \in Side, NEW o \in Opens, CloseStream(s, o) PROVE TypeOK'
  BY <1>13, KillType, OverType DEF TypeOK, CloseStream
<1>14. ASSUME NEW o \in Opens, AddPath(o) PROVE TypeOK'
  BY <1>14 DEF TypeOK, AddPath
<1>15. ASSUME NEW o \in Opens, HandlePathStream(o) PROVE TypeOK'
  <2>1. Answer(o) \in {"refused", "unknown", "failed", "ok"}
    BY DEF Answer
  <2>2. up' \in [Side -> [Opens -> Nat]]
    BY <1>15 DEF TypeOK, HandlePathStream
  <2> QED
    BY <1>15, <2>1, <2>2 DEF TypeOK, HandlePathStream
<1>16. CASE Close \/ UNCHANGED vars
  BY <1>16 DEF TypeOK, Close, vars
<1> QED
  BY <1>1, <1>2, <1>3, <1>4, <1>5, <1>6, <1>7, <1>8, <1>9, <1>10, <1>11, <1>12, <1>13, <1>14,
     <1>15, <1>16, <1>17 DEF Next, Watchdogs, Initiator, Responder, Established
-----------------------------------------------------------------------------
(* The parts of the inductive invariant, one lemma each. *)

LEMMA IInvInit == Init => IInv
<1> SUFFICES ASSUME Init PROVE IInv
  OBVIOUS
<1>1. RoutesAreLive /\ RoutedBeforeKnown /\ OverHasNoPaths
  BY DEF Init, RoutesAreLive, RoutedBeforeKnown, OverHasNoPaths, Side
<1>2. QueuedOnce /\ AcceptKnows
  BY DEF Init, QueuedOnce, AcceptKnows, Idle, Side
<1>3. KnownInOrder /\ WatchdogsGuard
  BY DEF Init, KnownInOrder, WatchdogsGuard, Side
<1> QED
  BY <1>1, <1>2, <1>3 DEF IInv

\* What building and giving up a Stream does to the two tables.
LEMMA NewStreamTables ==
  ASSUME TypeOK, NEW s \in Side, NEW o \in Opens, NEW stage \in {"built", "live"},
         NewStream(s, o, stage), NEW t \in Side, NEW c \in Opens
  PROVE  /\ st'[t][c] = IF t = s /\ c = o THEN stage ELSE st[t][c]
         /\ c \in reg'[t] <=> (c \in reg[t] \/ (t = s /\ c = o))
  BY Update2 DEF TypeOK, NewStream

LEMMA OverTables ==
  ASSUME TypeOK, NEW s \in Side, NEW o \in Opens, Over(s, o), NEW t \in Side, NEW c \in Opens
  PROVE  /\ st'[t][c] = IF t = s /\ c = o THEN "closed" ELSE st[t][c]
         /\ c \in reg'[t] <=> (c \in reg[t] /\ ~(t = s /\ c = o))
  BY Update2 DEF TypeOK, Over

LEMMA StartTables ==
  ASSUME TypeOK, NEW o \in Opens, st' = [st EXCEPT !["R"][o] = "live"], NEW t \in Side, NEW c \in Opens
  PROVE  st'[t][c] = IF t = "R" /\ c = o THEN "live" ELSE st[t][c]
  BY Update2 DEF TypeOK, Side

\* What a step does to the Streams and the routes: nothing, or a Stream is
\* built, starts, or is given up.
Rebuilds(s, o) ==
  \/ NewStream("I", o, "live") /\ s = "I" /\ ini[o] = "acked"
  \/ NewStream("R", o, "built") /\ s = "R" /\ acc.pc = "reading" /\ acc.cur = o /\ o \in Admitted
  \/ st' = [st EXCEPT !["R"][o] = "live"] /\ reg' = reg /\ s = "R" /\ st["R"][o] = "built"
  \/ Over(s, o) /\ st[s][o] # "none"
  \/ Over("I", o) /\ s = "I" /\ ini[o] = "attaching"

LEMMA StreamSteps ==
  ASSUME TypeOK, IInv, [Next]_vars
  PROVE  UNCHANGED <<st, reg>> \/ \E s \in Side, o \in Opens : Rebuilds(s, o)
<1>s. "I" \in Side /\ "R" \in Side
  BY DEF Side
<1>1. ASSUME NEW o \in Opens, Start(o) PROVE Rebuilds("I", o)
  BY <1>1 DEF Start, Rebuilds
<1>2. ASSUME NEW o \in Opens, OpenReturns(o)
      PROVE  UNCHANGED <<st, reg>> \/ Rebuilds("I", o)
  BY <1>2 DEF OpenReturns, Rebuilds
<1>3. CASE ReadFails \/ Reject \/ AckWritten
  BY <1>3 DEF ReadFails, Reject, AckWritten
<1>4. CASE Admit \/ WriteAck \/ AcceptReturns
  <2>1. acc.cur \in Opens
    BY <1>4 DEF TypeOK, ReadsHello, Admit, WriteAck, AcceptReturns
  <2>2. CASE Admit
    <3>1. Rebuilds("R", acc.cur)
      BY <2>2 DEF Admit, ReadsHello, Routes, Rebuilds
    <3> QED
      BY <1>s, <2>1, <3>1
  <2>3. CASE WriteAck
    <3>1. st["R"][acc.cur] # "none"
      BY <2>3 DEF WriteAck, IInv, AcceptKnows
    <3>2. UNCHANGED <<st, reg>> \/ Over("R", acc.cur)
      BY <2>3 DEF WriteAck, Discard
    <3> QED
      BY <1>s, <2>1, <3>1, <3>2 DEF Rebuilds
  <2>4. CASE AcceptReturns
    <3>1. /\ st["R"][acc.cur] \in {"built", "closed"}
          /\ up["R"][acc.cur] > 0 => st["R"][acc.cur] = "built"
      BY <1>s, <2>1, <2>4 DEF AcceptReturns, IInv, AcceptKnows, OverHasNoPaths
    <3>2. \/ Over("R", acc.cur)
          \/ st' = [st EXCEPT !["R"][acc.cur] = "live"] /\ reg' = reg /\ up["R"][acc.cur] > 0
          \/ UNCHANGED <<st, reg>>
      BY <2>4 DEF AcceptReturns, Discard
    <3> QED
      BY <1>s, <2>1, <3>1, <3>2 DEF Rebuilds
  <2> QED
    BY <1>4, <2>2, <2>3, <2>4
<1>5. ASSUME NEW s \in Side, NEW o \in Opens, FirstPathDies(s, o) \/ CloseStream(s, o)
      PROVE  UNCHANGED <<st, reg>> \/ Rebuilds(s, o)
  BY <1>5 DEF FirstPathDies, LosesPath, CloseStream, Rebuilds
<1>6. ASSUME NEW o \in Opens, FurtherPathDies(o)
      PROVE  UNCHANGED <<st, reg>> \/ Rebuilds("R", o)
  BY <1>6 DEF FurtherPathDies, LosesPath, Rebuilds
<1> QED
  BY <1>s, <1>1, <1>2, <1>3, <1>4, <1>5, <1>6
  DEF Next, Watchdogs, Initiator, Responder, Established, vars, WatchWake, WatchReset,
      OpenStream, OpenRefused, WriteHello, ReadAck, OpenFails, HandleStream, Accept,
      AcceptCancelled, Take, AddPath, HandlePathStream, Close

LEMMA RoutesStep == TypeOK /\ IInv /\ [Next]_vars => RoutesAreLive'
<1> SUFFICES ASSUME TypeOK, IInv, [Next]_vars PROVE RoutesAreLive'
  OBVIOUS
<1>t. TypeOK' /\ RoutesAreLive /\ "I" \in Side /\ "R" \in Side
  BY TypeStep DEF IInv, Side
<1>1. CASE UNCHANGED <<st, reg>>
  BY <1>1, <1>t DEF RoutesAreLive
<1>2. ASSUME NEW s \in Side, NEW o \in Opens, Rebuilds(s, o) PROVE RoutesAreLive'
  <2>1. ASSUME NEW t \in Side, NEW c \in Opens
        PROVE  c \in reg'[t] <=> st'[t][c] \in {"built", "live"}
    <3>0. c \in reg[t] <=> st[t][c] \in {"built", "live"}
      BY <1>t DEF RoutesAreLive
    <3>1. CASE NewStream("I", o, "live") \/ NewStream("R", o, "built")
      BY <1>t, <3>0, <3>1, NewStreamTables
    <3>2. CASE st' = [st EXCEPT !["R"][o] = "live"] /\ reg' = reg /\ st["R"][o] = "built"
      <4>1. st'[t][c] = IF t = "R" /\ c = o THEN "live" ELSE st[t][c]
        BY <3>2, StartTables
      <4> QED
        BY <3>0, <3>2, <4>1
    <3>3. CASE Over(s, o)
      BY <3>0, <3>3, OverTables
    <3> QED
      BY <1>2, <3>1, <3>2, <3>3 DEF Rebuilds
  <2>2. ASSUME NEW c \in Opens, st'["R"][c] # "none" PROVE c \in Admitted
    <3>0. st["R"][c] # "none" => c \in Admitted
      BY <1>t DEF RoutesAreLive
    <3>1. CASE NewStream("I", o, "live")
      BY <1>t, <2>2, <3>0, <3>1, NewStreamTables
    <3>2. CASE NewStream("R", o, "built") /\ o \in Admitted
      BY <1>t, <2>2, <3>0, <3>2, NewStreamTables
    <3>3. CASE st' = [st EXCEPT !["R"][o] = "live"] /\ st["R"][o] = "built"
      <4>0. \A t \in Side : st'[t][c] = IF t = "R" /\ c = o THEN "live" ELSE st[t][c]
        BY <3>3, StartTables
      <4>1. st'["R"][c] = IF c = o THEN "live" ELSE st["R"][c]
        BY <1>t, <4>0
      <4>2. st["R"][o] = "built"
        BY <3>3
      <4>3. st["R"][c] # "none"
        BY <2>2, <4>1, <4>2
      <4> QED
        BY <3>0, <4>3
    <3>4. CASE Over(s, o) /\ (s = "I" \/ st[s][o] # "none")
      BY <1>t, <2>2, <3>0, <3>4, OverTables
    <3> QED
      BY <1>2, <3>1, <3>2, <3>3, <3>4 DEF Rebuilds
  <2>3. \A t \in Side : reg'[t] \subseteq Opens
    BY <1>t DEF TypeOK
  <2> QED
    BY <2>1, <2>2, <2>3 DEF RoutesAreLive
<1> QED
  BY <1>1, <1>2, StreamSteps

\* A Stream is never unmade, and one of the responder that is over stays so.
LEMMA StreamKept ==
  ASSUME TypeOK, IInv, [Next]_vars, NEW o \in Opens
  PROVE  /\ \A s \in Side : st[s][o] # "none" => st'[s][o] # "none"
         /\ st["R"][o] = "closed" => st'["R"][o] = "closed"
<1>s. "I" \in Side /\ "R" \in Side
  BY DEF Side
<1>1. ASSUME NEW s \in Side, NEW c \in Opens, Rebuilds(s, c), NEW t \in Side
      PROVE  /\ st[t][o] # "none" => st'[t][o] # "none"
             /\ t = "R" /\ st["R"][o] = "closed" => st'["R"][o] = "closed"
  <2>1. CASE NewStream("I", c, "live")
    BY <1>s, <2>1, NewStreamTables
  <2>2. CASE NewStream("R", c, "built") /\ acc.pc = "reading" /\ acc.cur = c
    <3>1. st["R"][c] = "none"
      BY <2>2 DEF IInv, AcceptKnows
    <3> QED
      BY <1>s, <2>2, <3>1, NewStreamTables
  <2>3. CASE st' = [st EXCEPT !["R"][c] = "live"] /\ st["R"][c] = "built"
    <3>1. st'[t][o] = IF t = "R" /\ o = c THEN "live" ELSE st[t][o]
      BY <2>3, StartTables
    <3> QED
      BY <2>3, <3>1
  <2>4. CASE Over(s, c)
    BY <1>s, <2>4, OverTables
  <2> QED
    BY <1>1, <2>1, <2>2, <2>3, <2>4 DEF Rebuilds
<1> QED
  BY <1>s, <1>1, StreamSteps
\* A Stream of the responder is built by Admit, one of the initiator by Start.
LEMMA BuiltByAdmit ==
  ASSUME TypeOK, IInv, [Next]_vars, NEW s \in Side, NEW o \in Opens,
         st[s][o] = "none", st'[s][o] # "none"
  PROVE  IF s = "R" THEN acc.pc = "reading" /\ acc.cur = o ELSE ini[o] \in {"acked", "attaching"}
<1>s. "I" \in Side /\ "R" \in Side /\ \A t \in Side : t \in {"I", "R"}
  BY DEF Side
<1>1. ASSUME NEW t \in Side, NEW c \in Opens, Rebuilds(t, c)
      PROVE  IF s = "R" THEN acc.pc = "reading" /\ acc.cur = o ELSE ini[o] \in {"acked", "attaching"}
  <2>1. CASE NewStream("I", c, "live") /\ t = "I" /\ ini[c] = "acked"
    BY <1>s, <2>1, NewStreamTables
  <2>2. CASE NewStream("R", c, "built") /\ t = "R" /\ acc.pc = "reading" /\ acc.cur = c
    BY <1>s, <2>2, NewStreamTables
  <2>3. CASE st' = [st EXCEPT !["R"][c] = "live"] /\ st["R"][c] = "built"
    <3>1. st'[s][o] = IF s = "R" /\ o = c THEN "live" ELSE st[s][o]
      BY <2>3, StartTables
    <3> QED
      BY <2>3, <3>1
  <2>4. CASE Over(t, c) /\ (st[t][c] # "none" \/ (t = "I" /\ ini[c] = "attaching"))
    <3>1. st'[s][o] = IF s = t /\ o = c THEN "closed" ELSE st[s][o]
      BY <2>4, OverTables
    <3> QED
      BY <2>4, <3>1
  <2> QED
    BY <1>1, <2>1, <2>2, <2>3, <2>4 DEF Rebuilds
<1> QED
  BY <1>1, StreamSteps

\* A watchdog that was started is never unmade.
LEMMA ArmedStays ==
  ASSUME TypeOK, [Next]_vars, NEW s \in Side, NEW o \in Opens, watch[s][o] # "off"
  PROVE  watch'[s][o] # "off"
<1>s. "I" \in Side /\ "R" \in Side
  BY DEF Side
<1>1. ASSUME NEW t \in Side, NEW c \in Opens, NEW w \in {"waiting", "woken", "over"},
             watch' = [watch EXCEPT ![t][c] = w]
      PROVE  watch'[s][o] # "off"
  BY <1>1, Update2 DEF TypeOK
<1>2. ASSUME NEW t \in Side, NEW c \in Opens, WatchWake(t, c) \/ WatchReset(t, c)
      PROVE  watch'[s][o] # "off"
  BY <1>1, <1>2 DEF WatchWake, WatchReset
<1>3. ASSUME NEW c \in Opens, OpenStream(c) PROVE watch'[s][o] # "off"
  BY <1>1, <1>3, <1>s DEF OpenStream, Arm
<1>4. CASE Take
  <2>1. Head(queue) \in Opens
    BY <1>4 DEF TypeOK, Take
  <2> QED
    BY <1>1, <1>4, <1>s, <2>1 DEF Take, Arm
<1> QED
  BY <1>2, <1>3, <1>4
  DEF Next, Watchdogs, Initiator, Responder, Established, vars, OpenRefused, WriteHello,
      ReadAck, OpenFails, Start, OpenReturns, HandleStream, Accept, AcceptCancelled,
      ReadFails, Reject, Admit, WriteAck, AckWritten, AcceptReturns, FirstPathDies, FurtherPathDies,
      CloseStream, AddPath, HandlePathStream, Close

LEMMA QueueStep == TypeOK /\ IInv /\ [Next]_vars => QueuedOnce'
<1> SUFFICES ASSUME TypeOK, IInv, [Next]_vars PROVE QueuedOnce'
  OBVIOUS
<1>s. "I" \in Side /\ "R" \in Side /\ QueuedOnce /\ TypeOK'
  BY TypeStep DEF Side, IInv
<1>a. \A s \in Side, o \in Opens : watch[s][o] # "off" => watch'[s][o] # "off"
  BY ArmedStays
<1>1. \A o \in Opens : watch["R"][o] # "off" => watch'["R"][o] # "off"
  BY <1>a, <1>s
<1>b. \A s \in Side, o \in Opens :
        st[s][o] = "none" /\ st'[s][o] # "none" /\ s = "R" => acc.pc = "reading" /\ acc.cur = o
  BY BuiltByAdmit
<1>2. ASSUME NEW o \in Opens, st'["R"][o] # "none" PROVE watch'["R"][o] # "off"
  <2>1. CASE st["R"][o] # "none"
    BY <1>1, <1>s, <2>1 DEF QueuedOnce
  <2>2. CASE st["R"][o] = "none"
    <3>1. acc.pc = "reading" /\ acc.cur = o
      BY <1>2, <1>b, <1>s, <2>2
    <3> QED
      BY <1>1, <3>1 DEF IInv, AcceptKnows
  <2> QED
    BY <2>1, <2>2
<1>3. CASE UNCHANGED queue /\ watch'["R"] = watch["R"]
  BY <1>2, <1>3, <1>s DEF QueuedOnce
<1>4. ASSUME NEW o \in Opens, HandleStream(o) PROVE QueuedOnce'
  <2>1. CASE UNCHANGED queue
    BY <1>2, <1>4, <1>s, <2>1 DEF QueuedOnce, HandleStream
  <2>2. CASE queue' = Append(queue, o)
    <3>1. watch' = watch /\ watch["R"][o] = "off" /\ \A i \in DOMAIN queue : queue[i] # o
      BY <1>4 DEF HandleStream, Arriving
    <3>2. ASSUME NEW i \in DOMAIN queue'
          PROVE  (i = Len(queue) + 1 /\ queue'[i] = o) \/ (i \in DOMAIN queue /\ queue'[i] = queue[i])
      BY <2>2 DEF TypeOK
    <3>3. ASSUME NEW i \in DOMAIN queue' PROVE watch'["R"][queue'[i]] = "off"
      BY <1>s, <3>1, <3>2 DEF QueuedOnce
    <3>4. ASSUME NEW i \in DOMAIN queue', NEW j \in DOMAIN queue', queue'[i] = queue'[j] PROVE i = j
      BY <1>s, <3>1, <3>2, <3>4 DEF QueuedOnce
    <3> QED
      BY <1>2, <3>3, <3>4 DEF QueuedOnce
  <2> QED
    BY <1>4, <2>1, <2>2 DEF HandleStream
<1>5. CASE Take
  <2>1. queue \in Seq(Opens) /\ queue # << >> /\ Head(queue) \in Opens /\ queue' = Tail(queue)
    BY <1>5 DEF TypeOK, Take
  <2>2. ASSUME NEW i \in DOMAIN queue' PROVE i + 1 \in DOMAIN queue /\ queue'[i] = queue[i + 1]
    BY <2>1
  <2>3. ASSUME NEW i \in DOMAIN queue' PROVE queue'[i] # Head(queue) /\ queue'[i] \in Opens
    <3>1. i + 1 # 1 /\ 1 \in DOMAIN queue /\ Head(queue) = queue[1]
      BY <2>1, <2>2
    <3> QED
      BY <1>s, <2>1, <2>2, <3>1 DEF QueuedOnce
  <2>4. ASSUME NEW o \in Opens, o # Head(queue) PROVE watch'["R"][o] = watch["R"][o]
    BY <1>5, <1>s, <2>1, <2>4, Update2 DEF TypeOK, Take, Arm
  <2>5. \A i \in DOMAIN queue' : watch'["R"][queue'[i]] = "off"
    BY <1>s, <2>2, <2>3, <2>4 DEF QueuedOnce
  <2>6. ASSUME NEW i \in DOMAIN queue', NEW j \in DOMAIN queue', queue'[i] = queue'[j] PROVE i = j
    <3>1. i + 1 = j + 1
      BY <1>s, <2>2, <2>6 DEF QueuedOnce
    <3> QED
      BY <2>1, <3>1
  <2> QED
    BY <1>2, <2>5, <2>6 DEF QueuedOnce
<1>6. ASSUME NEW s \in Side, NEW o \in Opens, WatchWake(s, o) \/ WatchReset(s, o) PROVE QueuedOnce'
  <2>1. UNCHANGED queue
    BY <1>6 DEF WatchWake, WatchReset
  <2>2. ASSUME NEW c \in Opens, watch["R"][c] = "off" PROVE watch'["R"][c] = "off"
    <3>1. \A t \in Side, w \in {"woken", "over"} :
            watch' = [watch EXCEPT ![s][o] = w] =>
              watch'[t][c] = IF t = s /\ c = o THEN w ELSE watch[t][c]
      BY Update2 DEF TypeOK
    <3>2. \E w \in {"woken", "over"} : watch' = [watch EXCEPT ![s][o] = w]
      BY <1>6 DEF WatchWake, WatchReset
    <3>3. watch[s][o] # "off"
      BY <1>6 DEF WatchWake, WatchReset
    <3> QED
      BY <1>s, <2>2, <3>1, <3>2, <3>3
  <2>3. \A i \in DOMAIN queue : queue[i] \in Opens
    BY DEF TypeOK
  <2> QED
    BY <1>2, <1>s, <2>1, <2>2, <2>3 DEF QueuedOnce
<1>7. ASSUME NEW o \in Opens, OpenStream(o) PROVE UNCHANGED queue /\ watch'["R"] = watch["R"]
  BY <1>7 DEF TypeOK, OpenStream, Arm, Side
<1> QED
  BY <1>3, <1>4, <1>5, <1>6, <1>7
  DEF Next, Watchdogs, Initiator, Responder, Established, vars, OpenRefused, WriteHello,
      ReadAck, OpenFails, Start, OpenReturns, Accept, AcceptCancelled, ReadFails, Reject, Admit,
      WriteAck, AckWritten, AcceptReturns, FirstPathDies, FurtherPathDies, CloseStream, AddPath,
      HandlePathStream, Close
\* Stopping is for good, and nothing written on a handshake stream is taken back.
LEMMA StopsStay ==
  ASSUME TypeOK, [Next]_vars, NEW s \in Side
  PROVE  finished[s] \subseteq finished'[s]
<1>s. "I" \in Side /\ "R" \in Side
  BY DEF Side
<1>1. ASSUME NEW t \in Side, NEW c, Stop(t, c) PROVE finished[s] \subseteq finished'[s]
  BY <1>1 DEF TypeOK, Stop
<1>2. ASSUME NEW c \in Opens, OpenFails(c) \/ OpenReturns(c) PROVE finished[s] \subseteq finished'[s]
  BY <1>1, <1>2, <1>s DEF OpenFails, OpenReturns
<1>3. CASE ReadFails \/ Reject \/ WriteAck \/ AckWritten
  BY <1>1, <1>3, <1>s DEF ReadFails, Reject, WriteAck, AckWritten
<1> QED
  BY <1>2, <1>3
  DEF Next, Watchdogs, Initiator, Responder, Established, vars, WatchWake, WatchReset,
      OpenStream, OpenRefused, WriteHello, ReadAck, Start, HandleStream, Accept,
      AcceptCancelled, Take, Admit, AcceptReturns, FirstPathDies, FurtherPathDies, CloseStream, AddPath,
      HandlePathStream, Close

LEMMA SentStays ==
  ASSUME TypeOK, [Next]_vars, NEW o \in Opens
  PROVE  /\ sent[o] \subseteq sent'[o]
         /\ "ack" \in sent'[o] => "ack" \in sent[o] \/ (acc.pc = "acking" /\ acc.cur = o)
<1>1. ASSUME NEW c \in Opens, WriteHello(c)
      PROVE  sent[o] \subseteq sent'[o] /\ ("ack" \in sent'[o] => "ack" \in sent[o])
  BY <1>1 DEF TypeOK, WriteHello
<1>2. CASE Reject
  BY <1>2 DEF TypeOK, Reject
<1>3. CASE WriteAck
  BY <1>3 DEF TypeOK, WriteAck
<1> QED
  BY <1>1, <1>2, <1>3
  DEF Next, Watchdogs, Initiator, Responder, Established, vars, WatchWake, WatchReset,
      OpenStream, OpenRefused, ReadAck, OpenFails, Start, OpenReturns, HandleStream, Accept,
      AcceptCancelled, Take, ReadFails, Admit, AckWritten, AcceptReturns, FirstPathDies, FurtherPathDies,
      CloseStream, AddPath, HandlePathStream, Close

\* Only Accept touches the Stream it is busy with, but for the end of its paths.
LEMMA AcceptOwns ==
  ASSUME TypeOK, IInv, [Next]_vars, UNCHANGED acc, acc.pc \notin {"out", "waiting", "panicked"}
  PROVE  \/ st'["R"][acc.cur] = st["R"][acc.cur]
         \/ st["R"][acc.cur] = "built" /\ st'["R"][acc.cur] = "closed"
<1>s. "I" \in Side /\ "R" \in Side /\ acc.cur \in Opens
  BY DEF Side, TypeOK
<1>1. st["R"][acc.cur] # "live"
  BY DEF TypeOK, IInv, AcceptKnows
<1>2. ASSUME NEW o \in Opens, NewStream("I", o, "live") \/ Over("I", o)
      PROVE  st'["R"][acc.cur] = st["R"][acc.cur]
  BY <1>2, <1>s DEF NewStream, Over, TypeOK
<1>3. ASSUME NEW s \in Side, NEW o \in Opens,
             FirstPathDies(s, o) \/ CloseStream(s, o) \/ (s = "R" /\ FurtherPathDies(o))
      PROVE  \/ st'["R"][acc.cur] = st["R"][acc.cur]
             \/ st["R"][acc.cur] = "built" /\ st'["R"][acc.cur] = "closed"
  <2>1. UNCHANGED st \/ (Over(s, o) /\ st[s][o] \in {"built", "live"})
    BY <1>3 DEF FirstPathDies, FurtherPathDies, LosesPath, CloseStream
  <2>2. \A t \in Side, c \in Opens :
          Over(s, o) => st'[t][c] = IF t = s /\ c = o THEN "closed" ELSE st[t][c]
    BY OverTables
  <2> QED
    BY <1>1, <1>s, <2>1, <2>2
<1>4. ASSUME NEW o \in Opens, Start(o) \/ OpenReturns(o)
      PROVE  st'["R"][acc.cur] = st["R"][acc.cur]
  BY <1>2, <1>4 DEF Start, OpenReturns
<1>5. CASE Admit \/ WriteAck \/ AcceptReturns
  <2>1. acc'.pc # acc.pc
    <3>1. CASE Admit
      BY <3>1 DEF Admit, ReadsHello, TypeOK
    <3>2. CASE WriteAck
      BY <3>2 DEF WriteAck, Continue, Idle, TypeOK
    <3>3. CASE AcceptReturns
      BY <3>3 DEF AcceptReturns, Idle
    <3> QED
      BY <1>5, <3>1, <3>2, <3>3
  <2> QED
    BY <2>1
<1> QED
  BY <1>s, <1>3, <1>4, <1>5
  DEF Next, Watchdogs, Initiator, Responder, Established, vars, WatchWake, WatchReset,
      OpenStream, OpenRefused, WriteHello, ReadAck, OpenFails, HandleStream, Accept,
      AcceptCancelled, Take, ReadFails, Reject, AckWritten, AddPath, HandlePathStream, Close

LEMMA AcceptStep == TypeOK /\ IInv /\ [Next]_vars => AcceptKnows'
<1> SUFFICES ASSUME TypeOK, IInv, [Next]_vars PROVE AcceptKnows'
  OBVIOUS
<1>s. "I" \in Side /\ "R" \in Side /\ AcceptKnows /\ TypeOK'
  BY TypeStep DEF Side, IInv
<1>a. \A s \in Side, o \in Opens : watch[s][o] # "off" => watch'[s][o] # "off"
  BY ArmedStays
<1>f. \A s \in Side : finished[s] \subseteq finished'[s]
  BY StopsStay
<1>1. CASE UNCHANGED acc
  <2>1. CASE acc.pc \in {"out", "waiting", "panicked"}
    BY <1>1, <2>1 DEF AcceptKnows
  <2>2. CASE acc.pc \notin {"out", "waiting", "panicked"}
    <3>1. /\ acc.cur \in Opens
          /\ \/ st'["R"][acc.cur] = st["R"][acc.cur]
             \/ st["R"][acc.cur] = "built" /\ st'["R"][acc.cur] = "closed"
      BY <1>1, <2>2, AcceptOwns DEF TypeOK
    <3> QED
      BY <1>1, <1>a, <1>f, <1>s, <3>1 DEF AcceptKnows
  <2> QED
    BY <2>1, <2>2
<1>2. CASE acc'.pc \in {"out", "waiting", "panicked"}
  BY <1>2 DEF AcceptKnows
<1>3. CASE Take
  <2>1. Head(queue) \in Opens /\ 1 \in DOMAIN queue /\ Head(queue) = queue[1]
    BY <1>3 DEF TypeOK, Take
  <2>2. st["R"][Head(queue)] = "none"
    BY <2>1 DEF IInv, QueuedOnce
  <2>3. acc' = [pc |-> "reading", cur |-> Head(queue)] /\ UNCHANGED st
    BY <1>3 DEF Take
  <2>4. watch'["R"][Head(queue)] = "waiting"
    BY <1>3, <1>s, <2>1 DEF Take, Arm, TypeOK
  <2> QED
    BY <2>2, <2>3, <2>4 DEF AcceptKnows
<1>4. CASE Admit
  <2>1. acc.cur \in Opens /\ acc' = [acc EXCEPT !.pc = "acking"] /\ NewStream("R", acc.cur, "built")
    BY <1>4 DEF TypeOK, Admit, ReadsHello, Routes
  <2>2. acc'.pc = "acking" /\ acc'.cur = acc.cur
    BY <2>1 DEF TypeOK
  <2>3. st'["R"][acc.cur] = "built"
    BY <1>s, <2>1 DEF NewStream, TypeOK
  <2> QED
    BY <2>2, <2>3 DEF AcceptKnows
<1>5. CASE WriteAck
  <2>1. CASE acc' = [acc EXCEPT !.pc = "acked"] /\ UNCHANGED st
    <3>1. acc'.pc = "acked" /\ acc'.cur = acc.cur /\ acc.pc = "acking"
      BY <1>5, <2>1 DEF TypeOK, WriteAck
    <3> QED
      BY <1>s, <2>1, <3>1 DEF AcceptKnows
  <2>2. CASE Continue
    BY <1>2, <2>2 DEF Continue, Idle
  <2> QED
    BY <1>5, <2>1, <2>2 DEF WriteAck
<1>6. CASE AckWritten
  <2>1. acc.cur \in Opens /\ acc.pc = "acked" /\ UNCHANGED st
    BY <1>6 DEF TypeOK, AckWritten
  <2>2. acc'.pc = "checking" /\ acc'.cur = acc.cur
    BY <1>6 DEF TypeOK, AckWritten
  <2>3. acc.cur \in finished'["R"]
    BY <1>6, <1>s DEF TypeOK, AckWritten, Stop
  <2> QED
    BY <1>s, <2>1, <2>2, <2>3 DEF AcceptKnows
<1>7. CASE Accept \/ AcceptCancelled \/ ReadFails \/ Reject \/ AcceptReturns
  <2>1. acc'.pc \in {"out", "waiting", "panicked"}
    BY <1>7 DEF Accept, AcceptCancelled, ReadFails, Reject, AcceptReturns, Continue, Idle
  <2> QED
    BY <1>2, <2>1
<1> QED
  BY <1>1, <1>3, <1>4, <1>5, <1>6, <1>7
  DEF Next, Watchdogs, Initiator, Responder, Established, vars, WatchWake, WatchReset,
      OpenStream, OpenRefused, WriteHello, ReadAck, OpenFails, Start, OpenReturns,
      HandleStream, FirstPathDies, FurtherPathDies, CloseStream, AddPath, HandlePathStream, Close
LEMMA KnownStep == TypeOK /\ IInv /\ [Next]_vars => KnownInOrder'
<1> SUFFICES ASSUME TypeOK, IInv, [Next]_vars, NEW o \in Opens
             PROVE  /\ att'[o] = "sent" => st'["I"][o] # "none"
                    /\ st'["I"][o] # "none" \/ ini'[o] \in {"acked", "attaching"}
                         => "ack" \in sent'[o]
                    /\ "ack" \in sent'[o] => st'["R"][o] # "none"
  BY DEF KnownInOrder
<1>s. "I" \in Side /\ "R" \in Side /\ KnownInOrder
  BY DEF Side, IInv
<1>k. \A s \in Side : st[s][o] # "none" => st'[s][o] # "none"
  BY StreamKept
<1>a. /\ sent[o] \subseteq sent'[o]
      /\ "ack" \in sent'[o] => "ack" \in sent[o] \/ (acc.pc = "acking" /\ acc.cur = o)
  BY SentStays
<1>b. \A s \in Side :
        st[s][o] = "none" /\ st'[s][o] # "none" /\ s # "R" => ini[o] \in {"acked", "attaching"}
  BY BuiltByAdmit
<1>1. att'[o] = "sent" => att[o] = "sent" \/ st["I"][o] # "none"
  <2>1. ASSUME NEW c \in Opens, AddPath(c) PROVE att'[o] = "sent" => att[o] = "sent" \/ st["I"][o] # "none"
    BY <2>1 DEF TypeOK, AddPath
  <2>2. ASSUME NEW c \in Opens, HandlePathStream(c) PROVE att'[o] = "sent" => att[o] = "sent"
    BY <2>2 DEF TypeOK, HandlePathStream, Answer
  <2> QED
    BY <2>1, <2>2
    DEF Next, Watchdogs, Initiator, Responder, Established, vars, WatchWake, WatchReset,
        OpenStream, OpenRefused, WriteHello, ReadAck, OpenFails, Start, OpenReturns, HandleStream,
        Accept, AcceptCancelled, Take, ReadFails, Reject, Admit, WriteAck, AckWritten,
        AcceptReturns, FirstPathDies, FurtherPathDies, CloseStream, Close
<1>2. ini'[o] \in {"acked", "attaching"} => ini[o] \in {"acked", "attaching"} \/ "ack" \in sent[o]
  <2>1. ASSUME NEW c \in Opens, OpenStream(c) \/ OpenRefused(c) \/ OpenFails(c) \/ OpenReturns(c)
        PROVE  ini'[o] \in {"acked", "attaching"} => ini[o] \in {"acked", "attaching"}
    <3>1. \E w \in {"hello", "failed", "returned"} : ini' = [ini EXCEPT ![c] = w]
      BY <2>1 DEF OpenStream, OpenRefused, OpenFails, OpenReturns
    <3> QED
      BY <3>1 DEF TypeOK
  <2>2. ASSUME NEW c \in Opens, ReadAck(c)
        PROVE  ini'[o] \in {"acked", "attaching"} => ini[o] \in {"acked", "attaching"} \/ "ack" \in sent[o]
    BY <2>2 DEF TypeOK, ReadAck
  <2>3. ASSUME NEW c \in Opens, Start(c)
        PROVE  ini'[o] \in {"acked", "attaching"} => ini[o] \in {"acked", "attaching"}
    BY <2>3 DEF TypeOK, Start
  <2> QED
    BY <2>1, <2>2, <2>3
    DEF Next, Watchdogs, Initiator, Responder, Established, vars, WatchWake, WatchReset,
        WriteHello, HandleStream, Accept, AcceptCancelled, Take, ReadFails, Reject, Admit,
        WriteAck, AckWritten, AcceptReturns, FirstPathDies, FurtherPathDies, CloseStream, AddPath,
        HandlePathStream, Close
<1>3. st'["I"][o] # "none" \/ ini'[o] \in {"acked", "attaching"} => "ack" \in sent'[o]
  BY <1>2, <1>a, <1>b, <1>s DEF KnownInOrder, Side
<1>4. "ack" \in sent'[o] => st'["R"][o] # "none"
  BY <1>a, <1>k, <1>s DEF KnownInOrder, IInv, AcceptKnows
<1> QED
  BY <1>1, <1>3, <1>4, <1>k, <1>s DEF KnownInOrder

LEMMA UnknownStep == TypeOK /\ IInv /\ [Next]_vars => RoutedBeforeKnown'
<1> SUFFICES ASSUME TypeOK, IInv, [Next]_vars, NEW o \in Opens, att'[o] = "unknown"
             PROVE  st'["R"][o] = "closed"
  BY DEF RoutedBeforeKnown
<1>k. st["R"][o] = "closed" => st'["R"][o] = "closed"
  BY StreamKept
<1>1. CASE att[o] = "unknown"
  BY <1>1, <1>k DEF IInv, RoutedBeforeKnown
<1>2. ASSUME NEW c \in Opens, HandlePathStream(c), att[o] # "unknown" PROVE st["R"][o] = "closed"
  <2>1. c = o /\ att[o] = "sent" /\ Answer(o) = "unknown"
    BY <1>2 DEF TypeOK, HandlePathStream
  <2>2. o \notin reg["R"]
    BY <2>1 DEF Answer
  <2>3. st["R"][o] \notin {"built", "live"}
    BY <2>2 DEF IInv, RoutesAreLive, Side
  <2>4. st["R"][o] # "none"
    BY <2>1 DEF IInv, KnownInOrder
  <2>5. st["R"][o] \in {"none", "built", "live", "closed"}
    BY DEF TypeOK, Side
  <2> QED
    BY <2>3, <2>4, <2>5
<1>3. ASSUME NEW c \in Opens, AddPath(c) PROVE att[o] = "unknown"
  BY <1>3 DEF TypeOK, AddPath
<1> QED
  BY <1>1, <1>2, <1>3, <1>k
  DEF Next, Watchdogs, Initiator, Responder, Established, vars, WatchWake, WatchReset,
      OpenStream, OpenRefused, WriteHello, ReadAck, OpenFails, Start, OpenReturns, HandleStream,
      Accept, AcceptCancelled, Take, ReadFails, Reject, Admit, WriteAck, AckWritten,
      AcceptReturns, FirstPathDies, FurtherPathDies, CloseStream, Close
\* Watchdogs are armed by OpenStream and by Accept.
LEMMA ArmedBy ==
  ASSUME TypeOK, [Next]_vars, NEW s \in Side, NEW o \in Opens, watch'[s][o] # "off"
  PROVE  \/ watch[s][o] # "off"
         \/ s = "I" /\ OpenStream(o)
         \/ s = "R" /\ Take /\ o = Head(queue)
<1>s. "I" \in Side /\ "R" \in Side
  BY DEF Side
<1>1. ASSUME NEW t \in Side, NEW c \in Opens, NEW w \in {"waiting", "woken", "over"},
             watch' = [watch EXCEPT ![t][c] = w]
      PROVE  watch[s][o] # "off" \/ (s = t /\ o = c)
  BY <1>1, Update2 DEF TypeOK
<1>2. ASSUME NEW t \in Side, NEW c \in Opens, WatchWake(t, c) \/ WatchReset(t, c)
      PROVE  watch[s][o] # "off"
  <2>1. watch[s][o] # "off" \/ (s = t /\ o = c)
    BY <1>1, <1>2 DEF WatchWake, WatchReset
  <2> QED
    BY <1>2, <2>1 DEF WatchWake, WatchReset
<1>3. ASSUME NEW c \in Opens, OpenStream(c)
      PROVE  watch[s][o] # "off" \/ (s = "I" /\ o = c)
  BY <1>1, <1>3, <1>s DEF OpenStream, Arm
<1>4. ASSUME Take
      PROVE  watch[s][o] # "off" \/ (s = "R" /\ o = Head(queue))
  <2>1. Head(queue) \in Opens
    BY <1>4 DEF TypeOK, Take
  <2> QED
    BY <1>1, <1>4, <1>s, <2>1 DEF Take, Arm
<1> QED
  BY <1>2, <1>3, <1>4
  DEF Next, Watchdogs, Initiator, Responder, Established, vars, OpenRefused, WriteHello,
      ReadAck, OpenFails, Start, OpenReturns, HandleStream, Accept, AcceptCancelled, ReadFails,
      Reject, Admit, WriteAck, AckWritten, AcceptReturns, FirstPathDies, FurtherPathDies, CloseStream, AddPath,
      HandlePathStream, Close

\* OpenStream never starts over, and stops its watchdog before it is through.
LEMMA OpenEnds ==
  ASSUME TypeOK, [Next]_vars, NEW o \in Opens
  PROVE  /\ ini'[o] = "idle" => ini[o] = "idle"
         /\ ini'[o] \in {"returned", "failed"} =>
              \/ ini[o] \in {"returned", "failed"}
              \/ ini[o] = "idle"
              \/ o \in finished'["I"]
<1>1. ASSUME NEW c \in Opens, NEW w \in {"hello", "acked", "attaching"}, ini' = [ini EXCEPT ![c] = w]
      PROVE  /\ ini'[o] = "idle" => ini[o] = "idle"
             /\ ini'[o] \in {"returned", "failed"} => ini[o] \in {"returned", "failed"}
  BY <1>1 DEF TypeOK
<1>2. ASSUME NEW c \in Opens, NEW w \in {"failed", "returned"}, ini' = [ini EXCEPT ![c] = w],
             ini[c] = "idle" \/ Stop("I", c)
      PROVE  /\ ini'[o] = "idle" => ini[o] = "idle"
             /\ ini'[o] \in {"returned", "failed"} =>
                  \/ ini[o] \in {"returned", "failed"}
                  \/ ini[o] = "idle"
                  \/ o \in finished'["I"]
  <2>1. c \in finished'["I"] \/ ini[c] = "idle"
    BY <1>2 DEF TypeOK, Stop, Side
  <2> QED
    BY <1>2, <2>1 DEF TypeOK
<1>3. ASSUME NEW c \in Opens, OpenStream(c) \/ ReadAck(c) \/ Start(c)
      PROVE  \E w \in {"hello", "acked", "attaching"} : ini' = [ini EXCEPT ![c] = w]
  BY <1>3 DEF OpenStream, ReadAck, Start
<1>4. ASSUME NEW c \in Opens, OpenRefused(c) \/ OpenFails(c) \/ OpenReturns(c)
      PROVE  \E w \in {"failed", "returned"} :
               ini' = [ini EXCEPT ![c] = w] /\ (ini[c] = "idle" \/ Stop("I", c))
  BY <1>4 DEF OpenRefused, OpenFails, OpenReturns
<1>5. CASE UNCHANGED ini
  BY <1>5
<1> QED
  BY <1>1, <1>2, <1>3, <1>4, <1>5
  DEF Next, Watchdogs, Initiator, Responder, Established, vars, WatchWake, WatchReset,
      WriteHello, HandleStream, Accept, AcceptCancelled, Take, ReadFails, Reject, Admit,
      WriteAck, AckWritten, AcceptReturns, FirstPathDies, FurtherPathDies, CloseStream, AddPath,
      HandlePathStream, Close

\* Accept does not leave a handshake without stopping its watchdog.
LEMMA AcceptEnds ==
  ASSUME TypeOK, [Next]_vars, acc.pc \in {"reading", "acking", "acked"}
  PROVE  \/ acc'.cur = acc.cur /\ acc'.pc \in {"reading", "acking", "acked"}
         \/ acc.cur \in finished'["R"]
<1>o. acc.cur \in Opens
  BY DEF TypeOK
<1>1. CASE Stop("R", acc.cur)
  BY <1>1, <1>o DEF TypeOK, Stop, Side
<1>2. CASE UNCHANGED acc
  BY <1>2
<1>3. CASE Admit
  BY <1>3 DEF Admit, TypeOK
<1>4. CASE ReadFails \/ Reject \/ AckWritten
  BY <1>1, <1>4 DEF ReadFails, Reject, AckWritten
<1>5. CASE WriteAck
  BY <1>1, <1>5 DEF WriteAck, TypeOK
<1>6. CASE Accept \/ AcceptCancelled \/ Take \/ AcceptReturns
  BY <1>6 DEF Accept, AcceptCancelled, Take, AcceptReturns
<1> QED
  BY <1>2, <1>3, <1>4, <1>5, <1>6
  DEF Next, Watchdogs, Initiator, Responder, Established, vars, WatchWake, WatchReset,
      OpenStream, OpenRefused, WriteHello, ReadAck, OpenFails, Start, OpenReturns, HandleStream,
      FirstPathDies, FurtherPathDies, CloseStream, AddPath, HandlePathStream, Close

LEMMA GuardStep == TypeOK /\ IInv /\ [Next]_vars => WatchdogsGuard'
<1> SUFFICES ASSUME TypeOK, IInv, [Next]_vars, NEW o \in Opens
             PROVE  /\ watch'["I"][o] # "off" /\ o \notin finished'["I"]
                         => ini'[o] \notin {"returned", "failed"}
                    /\ watch'["I"][o] # "off" => ini'[o] # "idle"
                    /\ watch'["R"][o] # "off" /\ o \notin finished'["R"]
                         => acc'.cur = o /\ acc'.pc \in {"reading", "acking", "acked"}
  BY DEF WatchdogsGuard
<1>s. "I" \in Side /\ "R" \in Side /\ WatchdogsGuard /\ "I" # "R"
  BY DEF Side, IInv
<1>f. \A s \in Side : finished[s] \subseteq finished'[s]
  BY StopsStay
<1>a. \A s \in Side : watch'[s][o] # "off" =>
        \/ watch[s][o] # "off"
        \/ s = "I" /\ OpenStream(o)
        \/ s = "R" /\ Take /\ o = Head(queue)
  BY ArmedBy
<1>1. CASE OpenStream(o)
  <2>1. ini'[o] = "hello" /\ UNCHANGED <<finished, acc>>
    BY <1>1 DEF OpenStream, TypeOK
  <2>2. watch'["R"][o] = watch["R"][o]
    BY <1>1 DEF OpenStream, Arm, TypeOK, Side
  <2> QED
    BY <1>s, <2>1, <2>2 DEF WatchdogsGuard
<1>2. CASE Take /\ o = Head(queue)
  <2>1. acc'.pc = "reading" /\ acc'.cur = o /\ UNCHANGED <<finished, ini>>
    BY <1>2 DEF Take
  <2>2. watch'["I"][o] = watch["I"][o]
    BY <1>2 DEF Take, Arm, TypeOK, Side
  <2> QED
    BY <1>s, <2>1, <2>2 DEF WatchdogsGuard
<1>3. CASE ~OpenStream(o) /\ ~(Take /\ o = Head(queue))
  <2>1. (watch'["I"][o] # "off" => watch["I"][o] # "off")
        /\ (watch'["R"][o] # "off" => watch["R"][o] # "off")
    BY <1>3, <1>a, <1>s
  <2>2. (o \notin finished'["I"] => o \notin finished["I"])
        /\ (o \notin finished'["R"] => o \notin finished["R"])
    BY <1>f, <1>s
  <2>3. watch'["I"][o] # "off" => ini'[o] # "idle"
    BY <1>s, <2>1, OpenEnds DEF WatchdogsGuard
  <2>4. watch'["I"][o] # "off" /\ o \notin finished'["I"] => ini'[o] \notin {"returned", "failed"}
    BY <1>s, <2>1, <2>2, OpenEnds DEF WatchdogsGuard
  <2>5. ASSUME watch'["R"][o] # "off", o \notin finished'["R"]
        PROVE  acc'.cur = o /\ acc'.pc \in {"reading", "acking", "acked"}
    <3>1. acc.cur = o /\ acc.pc \in {"reading", "acking", "acked"}
      BY <1>s, <2>1, <2>2, <2>5 DEF WatchdogsGuard
    <3> QED
      BY <2>5, <3>1, AcceptEnds
  <2> QED
    BY <2>3, <2>4, <2>5
<1> QED
  BY <1>1, <1>2, <1>3

\* A path is attached only where both Streams are alive.
LEMMA OverStep == TypeOK /\ IInv /\ [Next]_vars => OverHasNoPaths'
<1> SUFFICES ASSUME TypeOK, IInv, [Next]_vars, NEW s \in Side, NEW o \in Opens,
                    st'[s][o] = "closed"
             PROVE  up'[s][o] = 0
  BY DEF OverHasNoPaths
<1>s. "I" \in Side /\ "R" \in Side /\ s \in {"I", "R"}
  BY DEF Side
<1>0. st[s][o] = "closed" => up[s][o] = 0
  BY DEF IInv, OverHasNoPaths
<1>1. CASE UNCHANGED <<st, up>>
  BY <1>0, <1>1
<1>2. ASSUME NEW t \in Side, NEW c \in Opens, Over(t, c) PROVE up'[s][o] = 0
  BY <1>0, <1>2, Update2 DEF Over, TypeOK
<1>3. ASSUME NEW t \in Side, NEW c \in Opens, NEW stage \in {"built", "live"}, NewStream(t, c, stage)
      PROVE  up'[s][o] = 0
  <2>1. st'[s][o] = (IF s = t /\ o = c THEN stage ELSE st[s][o])
    BY <1>3, NewStreamTables
  <2>2. up'[s][o] = (IF s = t /\ o = c THEN 1 ELSE up[s][o])
    BY <1>3, Update2 DEF NewStream, TypeOK
  <2> QED
    BY <1>0, <2>1, <2>2
<1>4. ASSUME NEW t \in Side, NEW c \in Opens, LosesPath(t, c), up[t][c] > 0
      PROVE  up'[s][o] = 0
  <2>1. CASE up[t][c] = 1
    BY <1>2, <1>4, <2>1 DEF LosesPath
  <2>2. CASE up[t][c] # 1
    <3>1. up' = [up EXCEPT ![t][c] = up[t][c] - 1] /\ st' = st /\ up[t][c] - 1 \in Nat
      BY <1>4, <2>2 DEF LosesPath, TypeOK
    <3>2. up'[s][o] = IF s = t /\ o = c THEN up[t][c] - 1 ELSE up[s][o]
      BY <3>1, Update2 DEF TypeOK
    <3> QED
      BY <1>0, <1>4, <3>1, <3>2
  <2> QED
    BY <2>1, <2>2
<1>5. ASSUME NEW c \in Opens, Start(c) \/ OpenReturns(c) PROVE up'[s][o] = 0
  BY <1>s, <1>1, <1>2, <1>3, <1>5 DEF Start, OpenReturns
<1>6. CASE Admit \/ WriteAck \/ AcceptReturns
  <2>1. acc.cur \in Opens
    BY <1>6 DEF TypeOK, ReadsHello, Admit, WriteAck, AcceptReturns
  <2>2. CASE Admit
    BY <1>s, <1>3, <2>1, <2>2 DEF Admit, Routes
  <2>3. CASE WriteAck
    BY <1>s, <1>1, <1>2, <2>1, <2>3 DEF WriteAck, Discard
  <2>4. CASE st' = [st EXCEPT !["R"][acc.cur] = "live"] /\ UNCHANGED up
    <3>1. st'[s][o] = IF s = "R" /\ o = acc.cur THEN "live" ELSE st[s][o]
      BY <2>1, <2>4, StartTables
    <3> QED
      BY <1>0, <2>4, <3>1
  <2>5. CASE AcceptReturns
    BY <1>s, <1>1, <1>2, <2>1, <2>4, <2>5 DEF AcceptReturns, Discard
  <2> QED
    BY <1>6, <2>2, <2>3, <2>5
<1>7. ASSUME NEW t \in Side, NEW c \in Opens,
             FirstPathDies(t, c) \/ CloseStream(t, c) \/ (t = "R" /\ FurtherPathDies(c))
      PROVE  up'[s][o] = 0
  BY <1>2, <1>4, <1>7, FurtherIsAPath DEF FirstPathDies, CloseStream, FurtherPathDies
<1>8. ASSUME NEW c \in Opens, HandlePathStream(c) PROVE up'[s][o] = 0
  <2>1. CASE UNCHANGED <<st, up>>
    BY <1>1, <2>1
  <2>2. CASE Answer(c) = "ok"
    <3>1. c \in reg["R"] /\ st["I"][c] = "live"
      BY <2>2 DEF Answer
    <3>2. \A t \in Side : st[t][c] # "closed"
      BY <1>s, <3>1 DEF IInv, RoutesAreLive, Side
    <3>3. st' = st /\ o # c
      BY <1>8, <3>2 DEF HandlePathStream
    <3>4. up' = [t \in Side |-> [up[t] EXCEPT ![c] = @ + 1]] \/ up' = up
      BY <1>8 DEF HandlePathStream
    <3>5. up'[s][o] = up[s][o]
      BY <3>3, <3>4 DEF TypeOK
    <3> QED
      BY <1>0, <3>3, <3>5
  <2> QED
    BY <1>8, <2>1, <2>2 DEF HandlePathStream, TypeOK
<1> QED
  BY <1>1, <1>5, <1>6, <1>7, <1>8, <1>s
  DEF Next, Watchdogs, Initiator, Responder, Established, vars, WatchWake, WatchReset,
      OpenStream, OpenRefused, WriteHello, ReadAck, OpenFails, HandleStream, Accept,
      AcceptCancelled, Take, ReadFails, Reject, AckWritten, AddPath, Close

LEMMA Invariance == Spec => [](TypeOK /\ IInv)
<1>1. Init => TypeOK /\ IInv
  BY TypeInit, IInvInit
<1>2. (TypeOK /\ IInv) /\ [Next]_vars => (TypeOK /\ IInv)'
  BY TypeStep, RoutesStep, UnknownStep, OverStep, QueueStep, AcceptStep, KnownStep, GuardStep DEF IInv
<1> QED
  BY <1>1, <1>2, PTL DEF Spec

-----------------------------------------------------------------------------
(* The theorems. *)

\* Every variable of the handshake keeps its type (aggregator.go, handshake.go).
THEOREM TypeCorrect == Spec => []TypeOK
  BY Invariance, PTL

\* Aggregator.streams holds exactly the Streams that are not over, and the
\* responder builds one only for credentials checkAuth accepts: whatever the
\* order in which OpenStream, Accept, the peer and the watchdogs give it up.
THEOREM RoutesStayLive == Spec => []RoutesAreLive
  BY Invariance, PTL DEF IInv

\* Accept registers the route before it writes HelloAck, so no PATH_ATTACH of
\* an initiator that has read the HelloAck is refused as unknown while the
\* responder's Stream is there.
THEOREM AttachesFindTheRoute == Spec => []RoutedBeforeKnown
  BY Invariance, PTL DEF IInv

\* The goroutine of watchStreamCtx resets a stream only while the call that
\* armed it is still at its handshake, although both of its channels may be
\* ready when it looks.
THEOREM WatchdogsStaySilent == Spec => WatchdogOnlyDuringHandshake
<1> DEFINE Silent == \A s \in Side, o \in Opens :
       <<s, "watch">> \in rst'[o] \ rst[o]
         => IF s = "I" THEN ini[o] \notin {"returned", "failed"} ELSE acc.cur = o
<1>1. TypeOK /\ IInv /\ [Next]_vars => [Silent]_vars
  <2> SUFFICES ASSUME TypeOK, IInv, Next, NEW s \in Side, NEW o \in Opens,
                      <<s, "watch">> \in rst'[o], <<s, "watch">> \notin rst[o]
               PROVE  IF s = "I" THEN ini[o] \notin {"returned", "failed"} ELSE acc.cur = o
    OBVIOUS
  <2>1. ASSUME NEW t, NEW c, NEW why \in {"code", "recv"}, rst' = Kill(t, c, why) PROVE FALSE
    BY <2>1 DEF Kill, TypeOK
  <2>2. PICK t \in Side, c \in Opens : WatchReset(t, c)
    <3>1. ASSUME NEW c \in Opens, OpenFails(c) \/ OpenReturns(c) \/ HandleStream(c) PROVE FALSE
      BY <2>1, <3>1 DEF OpenFails, OpenReturns, HandleStream
    <3>2. CASE ReadFails \/ WriteAck \/ AcceptReturns
      BY <2>1, <3>2 DEF ReadFails, WriteAck, AcceptReturns
    <3>3. ASSUME NEW t \in Side, NEW c \in Opens, FirstPathDies(t, c) \/ CloseStream(t, c) PROVE FALSE
      BY <2>1, <3>3 DEF FirstPathDies, CloseStream
    <3> QED
      BY <3>1, <3>2, <3>3
      DEF Next, Watchdogs, Initiator, Responder, Established, WatchWake, OpenStream, OpenRefused,
          WriteHello, ReadAck, Start, Accept, AcceptCancelled, Take, Reject, Admit, AckWritten,
          FurtherPathDies, AddPath, HandlePathStream, Close
  <2>3. ~Spared(t, c) /\ watch[t][c] = "woken" /\ rst' = Kill(t, c, "watch")
    BY <2>2 DEF WatchReset
  <2>4. s = t /\ o = c
    BY <2>3 DEF Kill, TypeOK
  <2>5. o \notin finished[s] /\ watch[s][o] # "off"
    BY <2>3, <2>4 DEF Spared
  <2> QED
    BY <2>5 DEF IInv, WatchdogsGuard, Side
<1> QED
  BY <1>1, Invariance, PTL DEF Spec, WatchdogOnlyDuringHandshake
=============================================================================

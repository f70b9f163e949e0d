--------------------------- MODULE PathSetup_proofs --------------------------
(***************************************************************************)
(* Proofs about how a Stream gets further paths, for any number of paths,  *)
(* subscribers and requests, any limits of the policy and any number of    *)
(* reservations.                                                           *)
(***************************************************************************)
EXTENDS PathSetup, FiniteSetTheorems, SequenceTheorems, TLAPS

LEMMA PathsFinite == EventsTypeOK => IsFiniteSet(paths) /\ Cardinality(paths) \in Nat
<1> SUFFICES ASSUME EventsTypeOK PROVE IsFiniteSet(paths)
  BY FS_CardinalityType
<1>1. IsFiniteSet(1..used)
  BY FS_Interval DEF EventsTypeOK
<1> QED
  BY <1>1, FS_Subset DEF EventsTypeOK

-----------------------------------------------------------------------------
(* Type correctness. *)

LEMMA TypeInit == Init => TypeOK
<1> SUFFICES ASSUME Init PROVE TypeOK
  OBVIOUS
<1>1. sub \in [Subs -> [state : {"none", "open", "shut"}, buf : Seq(Nat), dropped : Nat, owed : Int]]
  BY DEF Init, PoolInit, NoSub
<1>2. EventsTypeOK
  BY <1>1, EventsAssumption DEF Init, PoolInit, EventsTypeOK
<1>3. PolicyTypeOK
  BY EventsAssumption DEF Init, PolicyInit, PolicyTypeOK, NoEval, NoDial
<1>4. RelayTypeOK
  BY DEF Init, RelayInit, RelayTypeOK
<1> QED
  BY <1>2, <1>3, <1>4 DEF TypeOK

LEMMA AttachPathType == ASSUME EventsTypeOK, AttachPath PROVE EventsTypeOK'
<1>1. used' = used + 1 /\ used' \in 1..MaxIds /\ used \in 1..used' /\ used' \in 1..used'
  BY EventsAssumption DEF AttachPath, NextId, EventsTypeOK
<1>2. paths' \subseteq 1..used'
  BY <1>1 DEF AttachPath, NextId, EventsTypeOK
<1>3. news' \subseteq [type : {"added", "removed"}, id : 1..used', last : BOOLEAN]
  <2> SUFFICES ASSUME NEW e \in news'
               PROVE  e \in [type : {"added", "removed"}, id : 1..used', last : BOOLEAN]
    OBVIOUS
  <2>1. CASE e \in news
    <3>1. e \in [type : {"added", "removed"}, id : 1..used, last : BOOLEAN]
      BY <2>1 DEF EventsTypeOK
    <3>2. 1..used \subseteq 1..used'
      BY <1>1 DEF EventsTypeOK
    <3> QED
      BY <3>1, <3>2
  <2>2. CASE e = [type |-> "added", id |-> used', last |-> FALSE]
    BY <1>1, <2>2
  <2> QED
    BY <1>1, <2>1, <2>2 DEF AttachPath, NextId, Event
<1> QED
  BY <1>1, <1>2, <1>3 DEF AttachPath, EventsTypeOK

LEMMA DropPathType == ASSUME EventsTypeOK, NEW id, DropPath(id) PROVE EventsTypeOK'
<1>1. id \in 1..used
  BY DEF EventsTypeOK, DropPath
<1>2. news' \subseteq [type : {"added", "removed"}, id : 1..used, last : BOOLEAN]
  <2> SUFFICES ASSUME NEW e \in news'
               PROVE  e \in [type : {"added", "removed"}, id : 1..used, last : BOOLEAN]
    OBVIOUS
  <2>1. PICK last \in BOOLEAN : last = (paths = {id})
    OBVIOUS
  <2>2. e \in news \/ e = [type |-> "removed", id |-> id, last |-> last]
    BY <2>1 DEF DropPath, Event
  <2> QED
    BY <1>1, <2>2 DEF EventsTypeOK
<1> QED
  BY <1>2 DEF DropPath, EventsTypeOK

\* The accounts of one subscriber.
Sub == [state : {"none", "open", "shut"}, buf : Seq(Nat), dropped : Nat, owed : Int]

LEMMA OfferType == ASSUME NEW c \in Sub PROVE Offer(c) \in Sub /\ Offer(c).state = c.state
<1>1. CASE Len(c.buf) < BufLen
  <2>1. Offer(c) = [state |-> c.state, buf |-> Append(c.buf, c.dropped), dropped |-> 0,
                    owed |-> c.owed + 1]
    BY <1>1 DEF Sub, Offer
  <2>2. Append(c.buf, c.dropped) \in Seq(Nat)
    BY DEF Sub
  <2> QED
    BY <2>1, <2>2 DEF Sub
<1>2. CASE ~(Len(c.buf) < BufLen)
  <2>1. Offer(c) = [state |-> c.state, buf |-> c.buf, dropped |-> c.dropped + 1,
                    owed |-> c.owed + 1]
    BY <1>2 DEF Sub, Offer
  <2> QED
    BY <2>1 DEF Sub
<1> QED
  BY <1>1, <1>2

LEMMA ReceiveType ==
  ASSUME NEW c \in Sub, c.buf # << >>
  PROVE  [c EXCEPT !.buf = Tail(@), !.owed = @ - 1 - Head(c.buf)] \in Sub
<1>1. Tail(c.buf) \in Seq(Nat) /\ Head(c.buf) \in Nat
  BY DEF Sub
<1>2. c.owed - 1 - Head(c.buf) \in Int
  BY <1>1 DEF Sub
<1>3. \A b \in Seq(Nat), o \in Int : [c EXCEPT !.buf = b, !.owed = o] \in Sub
  BY DEF Sub
<1> QED
  BY <1>1, <1>2, <1>3

LEMMA PoolTypeStep == ASSUME EventsTypeOK, PoolNext PROVE EventsTypeOK'
<1>0. sub \in [Subs -> Sub]
  BY DEF EventsTypeOK, Sub
<1>1. CASE AttachOther
  BY <1>1, AttachPathType DEF AttachOther
<1>2. ASSUME NEW e \in news, Emit(e) PROVE EventsTypeOK'
  <2>1. sub' \in [Subs -> Sub]
    BY <1>0, <1>2, OfferType DEF Emit
  <2> QED
    BY <1>2, <2>1 DEF Emit, EventsTypeOK, Sub
<1>3. ASSUME NEW s \in Subs, Subscribe(s) \/ Unsubscribe(s) PROVE EventsTypeOK'
  <2>1. \E w \in {"open", "shut"} : sub' = [sub EXCEPT ![s].state = w]
    BY <1>3 DEF Subscribe, Unsubscribe, FirstState
  <2>2. sub' \in [Subs -> Sub]
    BY <1>0, <2>1 DEF Sub
  <2> QED
    BY <1>3, <2>2 DEF Subscribe, Unsubscribe, poolVars, EventsTypeOK, Sub
<1>4. ASSUME NEW s \in Subs, Receive(s) PROVE EventsTypeOK'
  <2>1. sub' = [sub EXCEPT ![s] = [sub[s] EXCEPT !.buf = Tail(@), !.owed = @ - 1 - Head(sub[s].buf)]]
    BY <1>0, <1>4 DEF Receive, Sub
  <2>2. sub' \in [Subs -> Sub]
    <3>1. sub[s] \in Sub /\ sub[s].buf # << >>
      BY <1>0, <1>4 DEF Receive
    <3>2. [sub[s] EXCEPT !.buf = Tail(@), !.owed = @ - 1 - Head(sub[s].buf)] \in Sub
      BY <3>1, ReceiveType
    <3> QED
      BY <1>0, <2>1, <3>2
  <2> QED
    BY <1>4, <2>2 DEF Receive, poolVars, EventsTypeOK, Sub
<1>5. CASE CloseStream \/ CloseDone
  BY <1>5 DEF CloseStream, CloseDone, eventVars, EventsTypeOK
<1>6. CASE CloseSubs
  <2>1. sub' \in [Subs -> Sub]
    BY <1>0, <1>6 DEF CloseSubs, Sub
  <2> QED
    BY <1>6, <2>1 DEF CloseSubs, EventsTypeOK, Sub
<1> QED
  BY <1>1, <1>2, <1>3, <1>4, <1>5, <1>6 DEF PoolNext

LEMMA EventsKept == ASSUME EventsTypeOK, UNCHANGED <<poolVars, eventVars>> PROVE EventsTypeOK'
  BY DEF EventsTypeOK, poolVars, eventVars

LEMMA PolicyTypeStep ==
  ASSUME EventsTypeOK, PolicyTypeOK, PolicyNext
  PROVE  EventsTypeOK' /\ PolicyTypeOK'
<1>0. paths \subseteq 1..MaxIds /\ used \in Nat
  BY EventsAssumption DEF EventsTypeOK
<1>a. \A ids, n : \A R \in AllBut(ids, n) : R \subseteq ids
  BY DEF AllBut
<1>1. CASE Evaluate
  <2>1. PICK backlog \in {"none", "short", "long"}, low \in SUBSET (auto \cap paths) :
          \E R \in DecidesRemove(backlog, low) :
            eval' = [NoEval EXCEPT !.pc = "exec", !.add = DecidesAdd(backlog), !.remove = R]
    BY <1>1 DEF Evaluate
  <2>2. PICK R \in DecidesRemove(backlog, low) :
          eval' = [NoEval EXCEPT !.pc = "exec", !.add = DecidesAdd(backlog), !.remove = R]
    BY <2>1
  <2>3. R \subseteq 1..MaxIds
    BY <1>0, <1>a, <2>1, <2>2 DEF DecidesRemove
  <2>4. DecidesAdd(backlog) \in BOOLEAN
    BY DEF DecidesAdd
  <2>5. PICK a \in BOOLEAN : a = DecidesAdd(backlog)
    BY <2>4
  <2>6. eval' = [pc |-> "exec", add |-> a, remove |-> R, victim |-> 0, late |-> FALSE]
    BY <2>2, <2>5 DEF NoEval
  <2>7. eval' \in [pc : {"idle", "exec", "removing", "dropping"}, add : BOOLEAN,
                   remove : SUBSET (1..MaxIds), victim : 0..MaxIds, late : BOOLEAN]
    BY <2>3, <2>6, EventsAssumption
  <2> QED
    BY <1>1, <2>7, EventsKept DEF Evaluate, PolicyTypeOK
<1>2. CASE ExecRemove
  <2>1. PICK R : R \subseteq 1..MaxIds /\ eval' = [eval EXCEPT !.pc = "removing", !.remove = R]
    BY <1>0, <1>2, <1>a DEF ExecRemove
  <2> QED
    BY <1>2, <2>1, EventsKept DEF ExecRemove, PolicyTypeOK
<1>3. CASE RemovePath
  <2>1. PICK id \in eval.remove :
          \/ eval' = [eval EXCEPT !.pc = "dropping", !.remove = @ \ {id}, !.victim = id]
          \/ eval' = [eval EXCEPT !.remove = @ \ {id}]
    BY <1>3 DEF RemovePath
  <2>2. id \in 0..MaxIds
    BY <2>1 DEF PolicyTypeOK
  <2> QED
    BY <1>3, <2>1, <2>2, EventsKept, ZenonT(30) DEF RemovePath, PolicyTypeOK
<1>4. CASE RemoveDrops
  <2>1. EventsTypeOK'
    BY <1>4, DropPathType, EventsKept DEF RemoveDrops
  <2>2. eval' = [eval EXCEPT !.pc = "removing", !.victim = 0] /\ 0 \in 0..MaxIds
    BY <1>4, EventsAssumption DEF RemoveDrops
  <2> QED
    BY <1>4, <2>1, <2>2 DEF RemoveDrops, PolicyTypeOK
<1>5. CASE ExecAdd
  <2>1. dial' \in [pc : {"none", "dialing", "bound"}, tries : Nat, mark : Nat, id : 0..MaxIds]
    BY <1>0, <1>5, PolicyAssumption, EventsAssumption DEF ExecAdd, PolicyTypeOK
  <2>2. eval' \in [pc : {"idle", "exec", "removing", "dropping"}, add : BOOLEAN,
                   remove : SUBSET (1..MaxIds), victim : 0..MaxIds, late : BOOLEAN]
    BY <1>5, EventsAssumption DEF ExecAdd, NoEval
  <2> QED
    BY <1>5, <2>1, <2>2, EventsKept DEF ExecAdd, PolicyTypeOK
<1>6. CASE DialSucceeds
  <2>1. NextId \in 0..MaxIds
    BY <1>0, <1>6, EventsAssumption DEF DialSucceeds, AttachPath, NextId
  <2> QED
    BY <1>6, <2>1, AttachPathType DEF DialSucceeds, PolicyTypeOK
<1>7. CASE DialFails
  <2>1. dial.tries - 1 \in Nat
    BY <1>7 DEF DialFails, PolicyTypeOK
  <2> QED
    BY <1>7, <2>1, EventsKept DEF DialFails, PolicyTypeOK
<1>8. CASE DialEnds
  <2>1. dial' \in [pc : {"none", "dialing", "bound"}, tries : Nat, mark : Nat, id : 0..MaxIds]
    BY <1>8, EventsAssumption DEF DialEnds, NoDial
  <2>2. auto' \subseteq 1..MaxIds /\ fails' \in Nat
    <3>1. auto' \in {auto, auto \cup (paths \cap {dial.id})}
      BY <1>8 DEF DialEnds
    <3>2. fails' \in {0, fails, fails + 1}
      BY <1>8 DEF DialEnds
    <3> QED
      BY <1>0, <3>1, <3>2 DEF PolicyTypeOK
  <2>3. eval' \in {eval, [eval EXCEPT !.late = @ \/ eval.pc # "idle"]}
    BY <1>8 DEF DialEnds, CoolFor
  <2>4. eval' \in [pc : {"idle", "exec", "removing", "dropping"}, add : BOOLEAN,
                   remove : SUBSET (1..MaxIds), victim : 0..MaxIds, late : BOOLEAN]
    BY <2>3 DEF PolicyTypeOK
  <2> QED
    BY <1>8, <2>1, <2>2, <2>4, EventsKept DEF DialEnds, PolicyTypeOK
<1>9. CASE Cool
  BY <1>9, EventsKept DEF Cool, PolicyTypeOK
<1> QED
  BY <1>1, <1>2, <1>3, <1>4, <1>5, <1>6, <1>7, <1>8, <1>9 DEF PolicyNext

LEMMA RelayTypeStep ==
  ASSUME EventsTypeOK, RelayTypeOK, RelayNext
  PROVE  EventsTypeOK' /\ RelayTypeOK'
<1>r. ASSUME NEW r \in Reqs, NEW w \in {"added", "failed"}, Return(r, w)
      PROVE  /\ call' \in [Reqs -> {"idle", "asking", "waiting", "dialing", "added", "failed"}]
             /\ pending' \subseteq Reqs
  BY <1>r DEF Return, RelayTypeOK
<1>1. ASSUME NEW r \in Reqs, AddRelayPath(r) PROVE EventsTypeOK' /\ RelayTypeOK'
  BY <1>1, <1>r, EventsKept DEF AddRelayPath, RelayTypeOK
<1>2. ASSUME NEW r \in Reqs, SendPathRequest(r) PROVE EventsTypeOK' /\ RelayTypeOK'
  <2>1. /\ call' \in [Reqs -> {"idle", "asking", "waiting", "dialing", "added", "failed"}]
        /\ pending' \subseteq Reqs
    BY <1>2, <1>r DEF SendPathRequest, RelayTypeOK
  <2>2. wire' \subseteq [type : {"request", "ready"}, req : Reqs, err : BOOLEAN, copy : 1..2]
    <3>1. wire' \subseteq wire \cup {Request(r)}
      BY <1>2 DEF SendPathRequest
    <3>2. Request(r) \in [type : {"request", "ready"}, req : Reqs, err : BOOLEAN, copy : 1..2]
      BY DEF Request
    <3> QED
      BY <3>1, <3>2 DEF RelayTypeOK
  <2> QED
    BY <1>2, <2>1, <2>2, EventsKept DEF SendPathRequest, RelayTypeOK
<1>3. ASSUME NEW r \in Reqs, Answered(r) PROVE EventsTypeOK' /\ RelayTypeOK'
  BY <1>3, <1>r, EventsKept DEF Answered, RelayTypeOK
<1>4. ASSUME NEW r \in Reqs, Abandon(r) \/ DialRelayFails(r) PROVE EventsTypeOK' /\ RelayTypeOK'
  BY <1>4, <1>r, EventsKept DEF Abandon, DialRelayFails, RelayTypeOK
<1>5. ASSUME NEW r \in Reqs, Attach(r) PROVE EventsTypeOK' /\ RelayTypeOK'
  BY <1>5, <1>r, AttachPathType DEF Attach, RelayTypeOK
<1>6. ASSUME NEW r \in Reqs, Reserve(r) PROVE EventsTypeOK' /\ RelayTypeOK'
  <2>1. PICK err \in BOOLEAN, copies \in {1..0, 1..1, 1..2} :
          /\ granted' = IF err THEN granted ELSE granted \cup {r}
          /\ wire' = wire \cup {Ready(r, err, c) : c \in copies}
    BY <1>6 DEF Reserve
  <2>2. copies \subseteq 1..2
    OBVIOUS
  <2>3. wire' \subseteq [type : {"request", "ready"}, req : Reqs, err : BOOLEAN, copy : 1..2]
    BY <2>1, <2>2 DEF Ready, RelayTypeOK
  <2> QED
    BY <1>6, <2>1, <2>3, EventsKept DEF Reserve, RelayTypeOK
<1>7. ASSUME NEW m \in wire, HandlePathReady(m) PROVE EventsTypeOK' /\ RelayTypeOK'
  BY <1>7, EventsKept DEF HandlePathReady, RelayTypeOK
<1>8. ASSUME NEW m \in wire, HandlePathRequest(m) PROVE EventsTypeOK' /\ RelayTypeOK'
  <2>1. m.req \in Reqs /\ Ready(m.req, TRUE, 1) \in
          [type : {"request", "ready"}, req : Reqs, err : BOOLEAN, copy : 1..2]
    BY DEF RelayTypeOK, Ready
  <2> QED
    BY <1>8, <2>1, EventsKept DEF HandlePathRequest, RelayTypeOK
<1>9. ASSUME NEW id \in paths, LosePath(id) PROVE EventsTypeOK' /\ RelayTypeOK'
  BY <1>9, DropPathType DEF LosePath, RelayTypeOK
<1> QED
  BY <1>1, <1>2, <1>3, <1>4, <1>5, <1>6, <1>7, <1>8, <1>9 DEF RelayNext

LEMMA TypeStep == TypeOK /\ [Next]_vars => TypeOK'
<1> SUFFICES ASSUME TypeOK, [Next]_vars PROVE TypeOK'
  OBVIOUS
<1>1. CASE PoolNext /\ UNCHANGED <<policyVars, relayVars>>
  BY <1>1, PoolTypeStep DEF TypeOK, PolicyTypeOK, RelayTypeOK, policyVars, relayVars
<1>2. CASE PolicyNext /\ UNCHANGED relayVars
  BY <1>2, PolicyTypeStep DEF TypeOK, RelayTypeOK, relayVars
<1>3. CASE RelayNext /\ UNCHANGED policyVars
  BY <1>3, RelayTypeStep DEF TypeOK, PolicyTypeOK, policyVars
<1>4. CASE UNCHANGED vars
  BY <1>4, EventsKept DEF vars, TypeOK, PolicyTypeOK, RelayTypeOK, policyVars, relayVars
<1> QED
  BY <1>1, <1>2, <1>3, <1>4 DEF Next
-----------------------------------------------------------------------------
(* The parts of the inductive invariant. *)

LEMMA IInvInit == Init => IInv
  BY DEF Init, PoolInit, PolicyInit, RelayInit, IInv, DialHasRoom, NoDial, NoSubscriberLeft,
         AnswersAreGranted, DialNeedsReservation

\* Attaching uses up an id with every path it adds to the list.
LEMMA AttachRoom ==
  ASSUME EventsTypeOK, AttachPath, PolicyTypeOK
  PROVE  /\ used' = used + 1
         /\ Cardinality(paths) < MaxPaths + (used - dial.mark)
              => Cardinality(paths') < MaxPaths + (used' - dial.mark)
<1>1. used' = used + 1 /\ paths' = paths \cup {NextId} /\ used \in Nat
  BY EventsAssumption DEF AttachPath, NextId, EventsTypeOK
<1>2. IsFiniteSet(paths) /\ Cardinality(paths) \in Nat
  BY PathsFinite
<1>3. Cardinality(paths') \in {Cardinality(paths), Cardinality(paths) + 1}
  BY <1>1, <1>2, FS_AddElement
<1>4. dial.mark \in Nat /\ MaxPaths \in Nat
  BY PolicyAssumption DEF PolicyTypeOK
<1> QED
  BY <1>1, <1>2, <1>3, <1>4

\* Whatever happens to the list, a dial does not lose its room.
LEMMA RoomKept ==
  ASSUME TypeOK, DialHasRoom, dial' = dial,
         AttachPath \/ (\E id : DropPath(id)) \/ UNCHANGED <<paths, used>>
  PROVE  DialHasRoom'
<1> SUFFICES ASSUME dial.pc # "none"
             PROVE  Cardinality(paths') < MaxPaths + (used' - dial.mark)
  BY DEF DialHasRoom
<1>0. Cardinality(paths) < MaxPaths + (used - dial.mark)
  BY DEF DialHasRoom
<1>1. CASE AttachPath
  BY <1>0, <1>1, AttachRoom DEF TypeOK
<1>2. ASSUME NEW id, DropPath(id) PROVE Cardinality(paths') < MaxPaths + (used' - dial.mark)
  <2>1. IsFiniteSet(paths) /\ Cardinality(paths) \in Nat /\ id \in paths
        /\ paths' = paths \ {id} /\ used' = used
    BY <1>2, PathsFinite DEF TypeOK, DropPath
  <2>2. Cardinality(paths') = Cardinality(paths) - 1
    BY <2>1, FS_RemoveElement
  <2>3. used \in Nat /\ dial.mark \in Nat /\ MaxPaths \in Nat
    BY PolicyAssumption, EventsAssumption DEF TypeOK, PolicyTypeOK, EventsTypeOK
  <2> QED
    BY <1>0, <2>1, <2>2, <2>3
<1>3. CASE UNCHANGED <<paths, used>>
  BY <1>0, <1>3
<1> QED
  BY <1>1, <1>2, <1>3

LEMMA RoomStep == TypeOK /\ DialHasRoom /\ [Next]_vars => DialHasRoom'
<1> SUFFICES ASSUME TypeOK, DialHasRoom, [Next]_vars PROVE DialHasRoom'
  OBVIOUS
<1>1. CASE PoolNext /\ UNCHANGED <<policyVars, relayVars>>
  <2>1. AttachPath \/ UNCHANGED <<paths, used>>
    BY <1>1 DEF PoolNext, AttachOther, Emit, Subscribe, Unsubscribe, Receive, CloseStream,
                CloseDone, CloseSubs, poolVars
  <2> QED
    BY <1>1, <2>1, RoomKept DEF policyVars
<1>2. CASE RelayNext /\ UNCHANGED policyVars
  <2>1. AttachPath \/ (\E id : DropPath(id)) \/ UNCHANGED <<paths, used>>
    BY <1>2 DEF RelayNext, AddRelayPath, SendPathRequest, Answered, Abandon, Attach,
                DialRelayFails, Reserve, HandlePathReady, HandlePathRequest, LosePath, poolVars
  <2> QED
    BY <1>2, <2>1, RoomKept DEF policyVars
<1>3. CASE Evaluate \/ ExecRemove \/ RemovePath \/ RemoveDrops \/ Cool
  <2>1. dial' = dial
    BY <1>3 DEF Evaluate, ExecRemove, RemovePath, RemoveDrops, Cool
  <2>2. (\E id : DropPath(id)) \/ UNCHANGED <<paths, used>>
    BY <1>3 DEF Evaluate, ExecRemove, RemovePath, RemoveDrops, Cool, poolVars
  <2> QED
    BY <2>1, <2>2, RoomKept
<1>4. CASE ExecAdd
  <2>1. UNCHANGED <<paths, used>>
    BY <1>4 DEF ExecAdd, poolVars
  <2>2. CASE eval.add /\ MayDial
    <3>1. dial' = [pc |-> "dialing", tries |-> AddTryN, mark |-> used, id |-> 0]
      BY <1>4, <2>2 DEF ExecAdd
    <3>2. Cardinality(paths) < MaxPaths /\ used \in Nat /\ MaxPaths \in Nat
      BY <2>2, PolicyAssumption, EventsAssumption DEF MayDial, TypeOK, EventsTypeOK
    <3>3. dial'.mark = used /\ MaxPaths + (used - used) = MaxPaths
      BY <3>1, <3>2
    <3> QED
      BY <2>1, <3>2, <3>3 DEF DialHasRoom
  <2>3. CASE ~(eval.add /\ MayDial)
    BY <1>4, <2>1, <2>3, RoomKept DEF ExecAdd
  <2> QED
    BY <2>2, <2>3
<1>5. CASE DialSucceeds
  <2>1. AttachPath /\ dial.pc = "dialing" /\ dial' = [dial EXCEPT !.pc = "bound", !.id = NextId]
    BY <1>5 DEF DialSucceeds
  <2>2. dial'.mark = dial.mark
    BY <2>1 DEF TypeOK, PolicyTypeOK
  <2> QED
    BY <2>1, <2>2, AttachRoom DEF DialHasRoom, TypeOK
<1>6. CASE DialFails
  <2>1. dial'.mark = dial.mark /\ dial'.pc = dial.pc /\ UNCHANGED <<paths, used>>
    BY <1>6 DEF DialFails, poolVars, TypeOK, PolicyTypeOK
  <2> QED
    BY <2>1 DEF DialHasRoom
<1>7. CASE DialEnds
  BY <1>7 DEF DialEnds, NoDial, DialHasRoom
<1>8. CASE UNCHANGED vars
  BY <1>8, RoomKept DEF vars, policyVars, poolVars
<1> QED
  BY <1>1, <1>2, <1>3, <1>4, <1>5, <1>6, <1>7, <1>8 DEF Next, PolicyNext

LEMMA SubscriberStep == TypeOK /\ NoSubscriberLeft /\ [Next]_vars => NoSubscriberLeft'
<1> SUFFICES ASSUME TypeOK, NoSubscriberLeft, [Next]_vars, stage' = "over", NEW s \in Subs
             PROVE  sub'[s].state # "open"
  BY DEF NoSubscriberLeft
<1>0. sub \in [Subs -> Sub]
  BY DEF TypeOK, EventsTypeOK, Sub
<1>1. CASE UNCHANGED <<stage, sub>>
  BY <1>1 DEF NoSubscriberLeft
<1>2. ASSUME NEW e \in news, Emit(e) PROVE sub'[s].state # "open"
  <2>1. stage = "over"
    BY <1>2 DEF Emit
  <2>2. sub[s].state # "open"
    BY <2>1 DEF NoSubscriberLeft
  <2> QED
    BY <1>2, <2>2 DEF Emit
<1>3. ASSUME NEW t \in Subs, Subscribe(t) \/ Unsubscribe(t) PROVE sub'[s].state # "open"
  <2>1. stage = "over"
    BY <1>3 DEF Subscribe, Unsubscribe, poolVars
  <2>2. sub' = [sub EXCEPT ![t].state = "shut"]
    BY <1>3, <2>1 DEF Subscribe, Unsubscribe, FirstState
  <2> QED
    BY <1>0, <2>1, <2>2 DEF NoSubscriberLeft, Sub
<1>4. ASSUME NEW t \in Subs, Receive(t) PROVE sub'[s].state # "open"
  <2>1. stage = "over"
    BY <1>4 DEF Receive, poolVars
  <2>2. sub'[s].state = sub[s].state
    BY <1>0, <1>4 DEF Receive, Sub
  <2> QED
    BY <2>1, <2>2 DEF NoSubscriberLeft
<1>5. CASE CloseStream \/ CloseDone
  BY <1>5 DEF CloseStream, CloseDone
<1>6. CASE CloseSubs
  <2>1. sub'[s] = IF sub[s].state = "open" THEN [sub[s] EXCEPT !.state = "shut"] ELSE sub[s]
    BY <1>6 DEF CloseSubs
  <2> QED
    BY <1>0, <2>1 DEF Sub
<1>7. CASE AttachPath \/ \E id : DropPath(id)
  BY <1>1, <1>7 DEF AttachPath, DropPath
<1>8. CASE PolicyNext
  BY <1>1, <1>7, <1>8
  DEF PolicyNext, Evaluate, ExecRemove, RemovePath, RemoveDrops, ExecAdd, DialSucceeds,
      DialFails, DialEnds, Cool, poolVars, eventVars
<1>9. CASE RelayNext
  BY <1>1, <1>7, <1>9
  DEF RelayNext, AddRelayPath, SendPathRequest, Answered, Abandon, Attach, DialRelayFails,
      Reserve, HandlePathReady, HandlePathRequest, LosePath, poolVars, eventVars
<1>10. CASE UNCHANGED vars
  BY <1>1, <1>10 DEF vars, poolVars, eventVars
<1> QED
  BY <1>2, <1>3, <1>4, <1>5, <1>6, <1>7, <1>8, <1>9, <1>10 DEF Next, PoolNext, AttachOther

\* What a channel tells of: its first event with the misses that one reports,
\* and the rest.
LEMMA OneTold ==
  ASSUME NEW i, NEW n \in Nat
  PROVE  IsFiniteSet({i} \X (0 .. n)) /\ Cardinality({i} \X (0 .. n)) = n + 1
<1>1. IsFiniteSet({i}) /\ Cardinality({i}) = 1
  BY FS_Singleton
<1>2. IsFiniteSet(0 .. n) /\ Cardinality(0 .. n) = n + 1
  BY FS_Interval
<1>3. Cardinality({i} \X (0 .. n)) = 1 * (n + 1)
  <2>1. Cardinality({i} \X (0 .. n)) = Cardinality({i}) * Cardinality(0 .. n)
    BY <1>1, <1>2, FS_Product, Zenon
  <2> QED
    BY <1>1, <1>2, <2>1
<1>4. IsFiniteSet({i} \X (0 .. n))
  BY <1>1, <1>2, FS_Product
<1> QED
  BY <1>3, <1>4

LEMMA ToldFinite ==
  ASSUME NEW b \in Seq(Nat)
  PROVE  IsFiniteSet(Told(b)) /\ Cardinality(Told(b)) \in Nat
<1> DEFINE Piece(i) == {i} \X (0 .. b[i])
           All == {Piece(i) : i \in DOMAIN b}
<1>1. DOMAIN b = 1 .. Len(b) /\ Len(b) \in Nat /\ \A i \in DOMAIN b : b[i] \in Nat
  BY LenProperties
<1>2. IsFiniteSet(All)
  <2>1. IsFiniteSet(DOMAIN b)
    BY <1>1, FS_Interval
  <2>2. [i \in DOMAIN b |-> Piece(i)] \in Surjection(DOMAIN b, All)
    BY DEF Surjection
  <2> QED
    BY <2>1, <2>2, FS_Surjection
<1>3. \A T \in All : IsFiniteSet(T)
  <2> SUFFICES ASSUME NEW i \in DOMAIN b PROVE IsFiniteSet(Piece(i))
    OBVIOUS
  <2>1. b[i] \in Nat
    BY <1>1
  <2> QED
    BY <2>1, OneTold
<1>4. IsFiniteSet(UNION All)
  BY <1>2, <1>3, FS_UNION
<1>5. Told(b) = UNION All
  BY DEF Told
<1> QED
  BY <1>4, <1>5, FS_CardinalityType

LEMMA InTold ==
  ASSUME NEW b \in Seq(Nat), NEW i, NEW n
  PROVE  <<i, n>> \in Told(b) <=> i \in 1 .. Len(b) /\ n \in 0 .. b[i]
BY LenProperties DEF Told

LEMMA ToldPairs ==
  ASSUME NEW b \in Seq(Nat), NEW x \in Told(b)
  PROVE  \E i, n : x = <<i, n>> /\ i \in 1 .. Len(b) /\ n \in 0 .. b[i]
BY LenProperties DEF Told

LEMMA ToldAppend ==
  ASSUME NEW b \in Seq(Nat), NEW d \in Nat
  PROVE  Cardinality(Told(Append(b, d))) = Cardinality(Told(b)) + 1 + d
<1> DEFINE a == Append(b, d)
           New == {Len(b) + 1} \X (0 .. d)
<1>1. a \in Seq(Nat) /\ Len(a) = Len(b) + 1 /\ Len(b) \in Nat
  BY AppendProperties
<1>2. (\A i \in 1 .. Len(b) : a[i] = b[i]) /\ a[Len(b) + 1] = d
  BY AppendProperties
<1> HIDE DEF a
<1>3. Told(a) = Told(b) \cup New
  <2>1. ASSUME NEW x \in Told(a) PROVE x \in Told(b) \cup New
    <3>1. PICK i, n : x = <<i, n>> /\ i \in 1 .. Len(a) /\ n \in 0 .. a[i]
      BY <1>1, <2>1, ToldPairs
    <3>2. CASE i \in 1 .. Len(b)
      BY <1>2, <3>1, <3>2, InTold
    <3>3. CASE i = Len(b) + 1
      BY <1>2, <3>1, <3>3
    <3> QED
      BY <1>1, <3>1, <3>2, <3>3
  <2>2. ASSUME NEW x \in Told(b) PROVE x \in Told(a)
    <3>1. PICK i, n : x = <<i, n>> /\ i \in 1 .. Len(b) /\ n \in 0 .. b[i]
      BY <2>2, ToldPairs
    <3>2. i \in 1 .. Len(a) /\ n \in 0 .. a[i]
      BY <1>1, <1>2, <3>1
    <3> QED
      BY <1>1, <3>1, <3>2, InTold
  <2>3. ASSUME NEW x \in New PROVE x \in Told(a)
    <3>1. PICK n \in 0 .. d : x = <<Len(b) + 1, n>>
      BY <2>3
    <3>2. Len(b) + 1 \in 1 .. Len(a) /\ n \in 0 .. a[Len(b) + 1]
      BY <1>1, <1>2, <3>1
    <3> QED
      BY <1>1, <3>1, <3>2, InTold
  <2> QED
    BY <2>1, <2>2, <2>3
<1>4. Told(b) \cap New = {}
  <2> SUFFICES ASSUME NEW x \in Told(b), x \in New PROVE FALSE
    OBVIOUS
  <2>1. PICK i, n : x = <<i, n>> /\ i \in 1 .. Len(b)
    BY ToldPairs
  <2>2. i = Len(b) + 1
    BY <2>1
  <2> QED
    BY <1>1, <2>1, <2>2
<1>5. IsFiniteSet(New) /\ Cardinality(New) = d + 1
  BY OneTold
<1>6. IsFiniteSet(Told(b)) /\ Cardinality(Told(b)) \in Nat
  BY ToldFinite
<1> HIDE DEF New
<1>7. Cardinality(Told(b) \cup New) = Cardinality(Told(b)) + Cardinality(New) - Cardinality({})
  BY <1>4, <1>5, <1>6, FS_Union
<1> QED
  BY <1>3, <1>5, <1>6, <1>7, FS_EmptySet DEF a

LEMMA ToldTail ==
  ASSUME NEW b \in Seq(Nat), b # << >>
  PROVE  Cardinality(Told(b)) = Cardinality(Told(Tail(b))) + 1 + Head(b)
<1> DEFINE t == Tail(b)
           First == {1} \X (0 .. b[1])
           Later == Told(b) \ First
           Shift == [x \in Later |-> <<x[1] - 1, x[2]>>]
<1>1. t \in Seq(Nat) /\ Len(t) = Len(b) - 1 /\ \A i \in 1 .. Len(t) : t[i] = b[i + 1]
  BY HeadTailProperties
<1>2. Len(b) \in Nat /\ Len(b) # 0 /\ Head(b) = b[1] /\ b[1] \in Nat
  BY LenProperties, EmptySeq, HeadTailProperties
<1> HIDE DEF t
<1>3. First \subseteq Told(b)
  <2> SUFFICES ASSUME NEW x \in First PROVE x \in Told(b)
    OBVIOUS
  <2>1. PICK n \in 0 .. b[1] : x = <<1, n>>
    OBVIOUS
  <2> QED
    BY <1>2, <2>1, InTold
<1>4. ASSUME NEW x \in Later
      PROVE  \E i, n : x = <<i, n>> /\ i \in 2 .. Len(b) /\ n \in 0 .. b[i]
  <2>1. PICK i, n : x = <<i, n>> /\ i \in 1 .. Len(b) /\ n \in 0 .. b[i]
    BY ToldPairs
  <2>2. i # 1
    BY <2>1
  <2>3. i \in 2 .. Len(b)
    BY <1>2, <2>1, <2>2
  <2> QED
    BY <2>1, <2>3
<1>5. Shift \in [Later -> Told(t)]
  <2> SUFFICES ASSUME NEW x \in Later PROVE <<x[1] - 1, x[2]>> \in Told(t)
    OBVIOUS
  <2>1. PICK i, n : x = <<i, n>> /\ i \in 2 .. Len(b) /\ n \in 0 .. b[i]
    BY <1>4
  <2>2. i - 1 \in 1 .. Len(t) /\ (i - 1) + 1 = i
    BY <1>1, <1>2, <2>1
  <2>3. t[i - 1] = b[(i - 1) + 1]
    BY <1>1, <2>2
  <2>4. <<i - 1, n>> \in Told(t)
    BY <1>1, <2>1, <2>2, <2>3, InTold
  <2> QED
    BY <2>1, <2>4
<1>6. IsInjective(Shift)
  <2> SUFFICES ASSUME NEW x \in Later, NEW y \in Later, Shift[x] = Shift[y] PROVE x = y
    BY DEF IsInjective
  <2>1. PICK i, n : x = <<i, n>> /\ i \in 2 .. Len(b)
    BY <1>4
  <2>2. PICK j, m : y = <<j, m>> /\ j \in 2 .. Len(b)
    BY <1>4
  <2>3. <<i - 1, n>> = <<j - 1, m>>
    BY <2>1, <2>2
  <2>4. i = j
    BY <2>1, <2>2, <2>3
  <2> QED
    BY <2>1, <2>2, <2>3, <2>4
<1>7. ASSUME NEW y \in Told(t) PROVE \E x \in Later : Shift[x] = y
  <2>1. PICK j, m : y = <<j, m>> /\ j \in 1 .. Len(t) /\ m \in 0 .. t[j]
    BY <1>1, ToldPairs
  <2>2. j + 1 \in 1 .. Len(b) /\ j + 1 # 1 /\ (j + 1) - 1 = j
    BY <1>1, <1>2, <2>1
  <2>3. t[j] = b[j + 1]
    BY <1>1, <2>1
  <2>4. <<j + 1, m>> \in Told(b)
    BY <2>1, <2>2, <2>3, InTold
  <2>5. <<j + 1, m>> \in Later
    BY <2>2, <2>4
  <2>6. Shift[<<j + 1, m>>] = <<(j + 1) - 1, m>>
    BY <2>5
  <2> QED
    BY <2>1, <2>2, <2>5, <2>6
<1>8. Shift \in Bijection(Later, Told(t))
  BY <1>5, <1>6, <1>7 DEF Bijection, Injection, Surjection
<1> HIDE DEF Shift
<1>9. IsFiniteSet(Told(b)) /\ IsFiniteSet(Later)
  BY ToldFinite, FS_Difference
<1>10. Cardinality(Told(t)) = Cardinality(Later)
  BY <1>8, <1>9, FS_Bijection DEF ExistsBijection
<1>11. Cardinality(First) = b[1] + 1
  BY <1>2, OneTold
<1>12. Told(b) \cap First = First
  BY <1>3
<1> HIDE DEF First
<1>13. Cardinality(Later) = Cardinality(Told(b)) - (b[1] + 1)
  <2>1. Cardinality(Told(b) \ First) = Cardinality(Told(b)) - Cardinality(Told(b) \cap First)
    BY <1>9, FS_Difference, Zenon
  <2> QED
    BY <1>11, <1>12, <2>1
<1>14. Cardinality(Told(b)) \in Nat
  BY ToldFinite
<1> HIDE DEF Later
<1> QED
  BY <1>2, <1>10, <1>13, <1>14 DEF t

LEMMA DropsStep == TypeOK /\ DropsAreTold /\ [Next]_vars => DropsAreTold'
<1> SUFFICES ASSUME TypeOK, DropsAreTold, [Next]_vars, NEW s \in Subs
             PROVE  sub'[s].owed = Cardinality(Told(sub'[s].buf)) + sub'[s].dropped
  BY DEF DropsAreTold
<1> DEFINE Fair(c) == c.owed = Cardinality(Told(c.buf)) + c.dropped
<1>0. sub \in [Subs -> Sub] /\ Fair(sub[s]) /\ sub[s] \in Sub
  BY DEF TypeOK, EventsTypeOK, Sub, DropsAreTold
<1>1. CASE UNCHANGED sub
  BY <1>0, <1>1
<1>2. ASSUME NEW t \in Subs, NEW w \in {"open", "shut"}, sub' = [sub EXCEPT ![t].state = w]
      PROVE  Fair(sub'[s])
  <2>1. /\ sub'[s].owed = sub[s].owed /\ sub'[s].buf = sub[s].buf
        /\ sub'[s].dropped = sub[s].dropped
    BY <1>0, <1>2 DEF Sub
  <2> QED
    BY <1>0, <2>1
<1>3. ASSUME NEW e \in news, Emit(e) PROVE Fair(sub'[s])
  <2>1. CASE sub[s].state = "open"
    <3> DEFINE c == sub[s]
    <3>1. sub'[s] = Offer(c)
      BY <1>3, <2>1 DEF Emit
    <3>2. c.buf \in Seq(Nat) /\ c.dropped \in Nat /\ c.owed \in Int
      BY <1>0 DEF Sub
    <3>3. Cardinality(Told(c.buf)) \in Nat
      BY <3>2, ToldFinite
    <3>4. CASE Len(c.buf) < BufLen
      <4>1. Offer(c) = [state |-> c.state, buf |-> Append(c.buf, c.dropped), dropped |-> 0,
                        owed |-> c.owed + 1]
        BY <1>0, <3>4 DEF Sub, Offer
      <4>2. Cardinality(Told(Append(c.buf, c.dropped))) = Cardinality(Told(c.buf)) + 1 + c.dropped
        BY <3>2, ToldAppend
      <4>3. /\ Offer(c).owed = c.owed + 1 /\ Offer(c).dropped = 0
            /\ Offer(c).buf = Append(c.buf, c.dropped)
        BY <4>1
      <4>4. c.owed + 1 = (Cardinality(Told(c.buf)) + 1 + c.dropped) + 0
        BY <1>0, <3>2, <3>3
      <4> QED
        BY <3>1, <4>2, <4>3, <4>4, Zenon
    <3>5. CASE ~(Len(c.buf) < BufLen)
      <4>1. Offer(c) = [state |-> c.state, buf |-> c.buf, dropped |-> c.dropped + 1,
                        owed |-> c.owed + 1]
        BY <1>0, <3>5 DEF Sub, Offer
      <4>2. /\ Offer(c).owed = c.owed + 1 /\ Offer(c).dropped = c.dropped + 1
            /\ Offer(c).buf = c.buf
        BY <4>1
      <4>3. c.owed + 1 = Cardinality(Told(c.buf)) + (c.dropped + 1)
        BY <1>0, <3>2, <3>3
      <4> QED
        BY <3>1, <4>2, <4>3, Zenon
    <3> QED
      BY <3>4, <3>5
  <2>2. CASE sub[s].state # "open"
    BY <1>0, <1>3, <2>2 DEF Emit
  <2> QED
    BY <2>1, <2>2
<1>4. ASSUME NEW t \in Subs, Receive(t) PROVE Fair(sub'[s])
  <2>1. CASE s = t
    <3> DEFINE c == sub[s]
    <3>1. c.buf \in Seq(Nat) /\ c.dropped \in Nat /\ c.owed \in Int /\ c.buf # << >>
      BY <1>0, <1>4, <2>1 DEF Receive, Sub
    <3>2. /\ sub'[s].buf = Tail(c.buf) /\ sub'[s].dropped = c.dropped
          /\ sub'[s].owed = c.owed - 1 - Head(c.buf)
      BY <1>0, <1>4, <2>1 DEF Receive, Sub
    <3>3. Cardinality(Told(c.buf)) = Cardinality(Told(Tail(c.buf))) + 1 + Head(c.buf)
      BY <3>1, ToldTail
    <3>4. Tail(c.buf) \in Seq(Nat) /\ Head(c.buf) \in Nat
      BY <3>1, HeadTailProperties
    <3>5. Cardinality(Told(Tail(c.buf))) \in Nat
      BY <3>4, ToldFinite
    <3>6. c.owed - 1 - Head(c.buf) = Cardinality(Told(Tail(c.buf))) + c.dropped
      <4> DEFINE o == c.owed  d == c.dropped
                 k == Cardinality(Told(Tail(c.buf)))  h == Head(c.buf)
      <4>1. o \in Int /\ d \in Nat /\ k \in Nat /\ h \in Nat
        BY <3>1, <3>4, <3>5
      <4>2. o = (k + 1 + h) + d
        BY <1>0, <3>3
      <4> HIDE DEF o, d, k, h
      <4>3. o - 1 - h = k + d
        BY <4>1, <4>2
      <4> QED
        BY <4>3 DEF o, d, k, h
    <3>7. Cardinality(Told(sub'[s].buf)) = Cardinality(Told(Tail(c.buf)))
      BY <3>2
    <3> QED
      BY <3>2, <3>6, <3>7
  <2>2. CASE s # t
    BY <1>0, <1>4, <2>2 DEF Receive
  <2> QED
    BY <2>1, <2>2
<1>5. CASE CloseSubs
  <2>1. sub'[s] = IF sub[s].state = "open" THEN [sub[s] EXCEPT !.state = "shut"] ELSE sub[s]
    BY <1>5 DEF CloseSubs
  <2>2. sub'[s].owed = sub[s].owed /\ sub'[s].buf = sub[s].buf /\ sub'[s].dropped = sub[s].dropped
    BY <1>0, <2>1 DEF Sub
  <2> QED
    BY <1>0, <2>2
<1>6. ASSUME NEW t \in Subs, Subscribe(t) \/ Unsubscribe(t) PROVE Fair(sub'[s])
  BY <1>2, <1>6 DEF Subscribe, Unsubscribe, FirstState
<1>7. CASE CloseStream \/ CloseDone \/ AttachPath \/ \E id : DropPath(id)
  BY <1>1, <1>7 DEF CloseStream, CloseDone, eventVars, AttachPath, DropPath
<1>8. CASE PolicyNext
  BY <1>1, <1>7, <1>8
  DEF PolicyNext, Evaluate, ExecRemove, RemovePath, RemoveDrops, ExecAdd, DialSucceeds,
      DialFails, DialEnds, Cool, poolVars, eventVars
<1>9. CASE RelayNext
  BY <1>1, <1>7, <1>9
  DEF RelayNext, AddRelayPath, SendPathRequest, Answered, Abandon, Attach, DialRelayFails,
      Reserve, HandlePathReady, HandlePathRequest, LosePath, poolVars, eventVars
<1>10. CASE UNCHANGED vars
  BY <1>1, <1>10 DEF vars, poolVars, eventVars
<1> QED
  BY <1>3, <1>4, <1>5, <1>6, <1>7, <1>8, <1>9, <1>10 DEF Next, PoolNext, AttachOther

LEMMA ReservationStep ==
  TypeOK /\ AnswersAreGranted /\ DialNeedsReservation /\ [Next]_vars
    => AnswersAreGranted' /\ DialNeedsReservation'
<1> SUFFICES ASSUME TypeOK, AnswersAreGranted, DialNeedsReservation, [Next]_vars
             PROVE  AnswersAreGranted' /\ DialNeedsReservation'
  OBVIOUS
<1> DEFINE Goal == AnswersAreGranted' /\ DialNeedsReservation'
<1>0. UNCHANGED <<call, box, wire, granted>> => Goal
  BY DEF AnswersAreGranted, DialNeedsReservation
\* Frames that are lost or written, and calls that fail or go on, need nothing.
<1>a. ASSUME UNCHANGED <<box, granted>>,
             \A m \in wire' : m \in wire \/ m.type = "request" \/ m.err,
             \A r \in Reqs : call'[r] \in {"dialing", "added"} => r \in granted
      PROVE  Goal
  BY <1>a DEF AnswersAreGranted, DialNeedsReservation
<1>b. ASSUME NEW r \in Reqs, NEW w \in {"idle", "asking", "waiting", "failed"},
             call' = [call EXCEPT ![r] = w]
      PROVE  \A q \in Reqs : call'[q] \in {"dialing", "added"} => q \in granted
  BY <1>b DEF DialNeedsReservation, TypeOK, RelayTypeOK
<1>1. ASSUME NEW r \in Reqs, AddRelayPath(r) \/ Abandon(r) \/ DialRelayFails(r) PROVE Goal
  <2>1. /\ UNCHANGED <<box, granted, wire>>
        /\ \E w \in {"asking", "failed"} : call' = [call EXCEPT ![r] = w]
    BY <1>1 DEF AddRelayPath, Abandon, DialRelayFails, Return
  <2> QED
    BY <2>1, <1>a, <1>b
<1>2. ASSUME NEW r \in Reqs, SendPathRequest(r) PROVE Goal
  <2>1. /\ UNCHANGED <<box, granted>>
        /\ \E w \in {"waiting", "failed"} : call' = [call EXCEPT ![r] = w]
        /\ \A m \in wire' : m \in wire \/ m.type = "request"
    BY <1>2 DEF SendPathRequest, Return, Request
  <2> QED
    BY <2>1, <1>a, <1>b
<1>3. ASSUME NEW r \in Reqs, Answered(r) PROVE Goal
  <2>1. UNCHANGED <<box, granted, wire>>
    BY <1>3 DEF Answered
  <2>2. \A q \in Reqs : call'[q] \in {"dialing", "added"} => q \in granted
    <3>1. CASE box[r] = "ready"
      <4>1. call' = [call EXCEPT ![r] = "dialing"] /\ r \in granted
        BY <1>3, <3>1 DEF Answered, AnswersAreGranted
      <4> QED
        BY <4>1 DEF DialNeedsReservation, TypeOK, RelayTypeOK
    <3>2. CASE box[r] # "ready"
      <4>1. call' = [call EXCEPT ![r] = "failed"]
        BY <1>3, <3>2 DEF Answered, Return
      <4> QED
        BY <4>1, <1>b
    <3> QED
      BY <3>1, <3>2
  <2> QED
    BY <2>1, <2>2, <1>a
<1>4. ASSUME NEW r \in Reqs, Attach(r) PROVE Goal
  <2>1. UNCHANGED <<box, granted, wire>> /\ call[r] = "dialing" /\ call' = [call EXCEPT ![r] = "added"]
    BY <1>4 DEF Attach, Return
  <2>2. \A q \in Reqs : call'[q] \in {"dialing", "added"} => q \in granted
    BY <2>1 DEF DialNeedsReservation, TypeOK, RelayTypeOK
  <2> QED
    BY <2>1, <2>2, <1>a
<1>5. ASSUME NEW r \in Reqs, Reserve(r) PROVE Goal
  <2>1. PICK err \in BOOLEAN, copies \in {1..0, 1..1, 1..2} :
          /\ granted' = IF err THEN granted ELSE granted \cup {r}
          /\ wire' = wire \cup {Ready(r, err, c) : c \in copies}
    BY <1>5 DEF Reserve
  <2>2. granted \subseteq granted' /\ (~err => r \in granted') /\ UNCHANGED <<call, box>>
    BY <1>5, <2>1 DEF Reserve
  <2>3. \A m \in wire' : m.type = "ready" /\ ~m.err => m.req \in granted'
    BY <2>1, <2>2 DEF Ready, AnswersAreGranted
  <2> QED
    BY <2>2, <2>3 DEF AnswersAreGranted, DialNeedsReservation
<1>6. ASSUME NEW m \in wire, HandlePathReady(m) PROVE Goal
  <2>1. UNCHANGED <<call, granted>> /\ wire' \subseteq wire /\ m.type = "ready"
    BY <1>6 DEF HandlePathReady
  <2>2. ASSUME NEW r \in Reqs, box'[r] = "ready" PROVE r \in granted
    <3>1. CASE r \in Addressee(m) /\ box[r] = "empty"
      <4>1. r = m.req /\ ~m.err
        BY <1>6, <2>2, <3>1 DEF HandlePathReady, Addressee
      <4> QED
        BY <2>1, <4>1 DEF AnswersAreGranted
    <3>2. CASE ~(r \in Addressee(m) /\ box[r] = "empty")
      BY <1>6, <2>2, <3>2 DEF HandlePathReady, AnswersAreGranted
    <3> QED
      BY <3>1, <3>2
  <2> QED
    BY <2>1, <2>2 DEF AnswersAreGranted, DialNeedsReservation
<1>7. ASSUME NEW m \in wire, HandlePathRequest(m) PROVE Goal
  <2>1. UNCHANGED <<box, granted, call>> /\ \A n \in wire' : n \in wire \/ n.err
    BY <1>7 DEF HandlePathRequest, Ready
  <2> QED
    BY <2>1, <1>a DEF DialNeedsReservation
<1>8. ASSUME NEW id \in paths, LosePath(id) PROVE Goal
  <2>1. UNCHANGED <<box, granted, call>> /\ wire' \subseteq wire
    BY <1>8 DEF LosePath
  <2> QED
    BY <2>1, <1>a DEF DialNeedsReservation
<1>9. CASE UNCHANGED relayVars
  BY <1>0, <1>9 DEF relayVars
<1> QED
  BY <1>1, <1>2, <1>3, <1>4, <1>5, <1>6, <1>7, <1>8, <1>9 DEF Next, RelayNext, vars

LEMMA Invariance == Spec => [](TypeOK /\ IInv)
<1>1. Init => TypeOK /\ IInv
  BY TypeInit, IInvInit
<1>2. (TypeOK /\ IInv) /\ [Next]_vars => (TypeOK /\ IInv)'
  BY TypeStep, RoomStep, SubscriberStep, ReservationStep DEF IInv
<1> QED
  BY <1>1, <1>2, PTL DEF Spec

-----------------------------------------------------------------------------
(* The theorems. *)

\* The path list, the subscriptions, the policy and the relay requests keep
\* their types (path.go, stats.go, policy.go, relaypath.go).
THEOREM TypeCorrect == Spec => []TypeOK
  BY Invariance, PTL

\* closeSubs and Subscribe work under one lock and Subscribe looks at closed
\* first: no subscription is left open when the stream is over.
THEOREM SubscribersAreClosed == Spec => []NoSubscriberLeft
  BY Invariance, PTL DEF IInv

\* emitEvent counts what a full channel drops and hands the count over with the
\* next event that fits: whatever a subscriber has not received it has been told
\* of, will be told of by an event in its channel, or is still counted for it.
THEOREM DropsAreAccounted == Spec => []DropsAreTold
<1>1. Init => DropsAreTold
  <2> SUFFICES ASSUME Init, NEW s \in Subs
               PROVE  sub[s].owed = Cardinality(Told(sub[s].buf)) + sub[s].dropped
    BY DEF DropsAreTold
  <2>1. Told(<< >>) = {}
    BY DEF Told
  <2>2. sub[s].owed = 0 /\ sub[s].buf = << >> /\ sub[s].dropped = 0
    BY DEF Init, PoolInit, NoSub
  <2>3. Cardinality(Told(sub[s].buf)) = 0
    BY <2>1, <2>2, FS_EmptySet, Zenon
  <2> QED
    BY <2>2, <2>3
<1>2. TypeOK /\ DropsAreTold /\ [Next]_vars => DropsAreTold'
  BY DropsStep
<1> QED
  BY <1>1, <1>2, Invariance, PTL DEF Spec

\* execPolicyAdd checks the limit again, and one dial at a time is running: an
\* automatic dial never takes the stream beyond policyMaxPaths by itself.
THEOREM DialsKeepTheLimit == Spec => []AutoWithinLimit
<1>1. TypeOK /\ IInv => AutoWithinLimit
  <2> SUFFICES ASSUME TypeOK, DialHasRoom, dial.pc = "bound"
               PROVE  Cardinality(paths) <= MaxPaths + (used - dial.mark - 1)
    BY DEF IInv, AutoWithinLimit
  <2>1. Cardinality(paths) \in Nat /\ MaxPaths \in Nat /\ used \in Nat /\ dial.mark \in Nat
    BY PathsFinite, PolicyAssumption, EventsAssumption DEF TypeOK, EventsTypeOK, PolicyTypeOK
  <2> QED
    BY <2>1 DEF DialHasRoom
<1> QED
  BY <1>1, Invariance, PTL

\* A PATH_READY reaches the channel of its own request only: a circuit is
\* dialled when the peer holds a reservation made for this very request.
THEOREM DialsAreReserved == Spec => []DialNeedsReservation
  BY Invariance, PTL DEF IInv
=============================================================================

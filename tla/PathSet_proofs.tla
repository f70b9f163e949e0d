--------------------------- MODULE PathSet_proofs ----------------------------
(***************************************************************************)
(* Proofs about the life of the paths of a stream at both its endpoints,   *)
(* for any set of paths, any assignment of dialers and any set of paths    *)
(* whose connections may fail.                                             *)
(***************************************************************************)
EXTENDS PathSet, TLAPS

Stages == {"none", "binding", "live", "gone"}

-----------------------------------------------------------------------------
(* Type correctness. *)

LEMMA TypeInit == Init => TypeOK
BY DEF Init, TypeOK

\* What the operations that handle one path of one endpoint write.
LEMMA StageUpdate ==
  ASSUME TypeOK, NEW e \in Side, NEW p \in Path, NEW s \in Stages
  PROVE  [stage EXCEPT ![e][p] = s] \in [Side -> [Path -> Stages]]
BY DEF TypeOK, Stages

LEMMA BufferedType ==
  ASSUME TypeOK, NEW e \in Side, NEW p \in Path
  PROVE  Buffered(e, p) \subseteq [Side -> SUBSET Frame]
<1>1. Unread(e, p) \subseteq Frame /\ Via(e, p) \subseteq Frame
  BY DEF TypeOK, Unread, Via
<1>2. mail \in [Side -> SUBSET Frame]
  BY DEF TypeOK
<1> SUFFICES ASSUME NEW kept \in Buffered(e, p) PROVE kept \in [Side -> SUBSET Frame]
  OBVIOUS
<1>3. PICK K \in SUBSET Via(e, p) : kept = [mail EXCEPT ![e] = Unread(e, p) \cup K]
  BY DEF Buffered
<1>4. Unread(e, p) \cup K \in SUBSET Frame
  BY <1>1, <1>3
<1> QED
  BY <1>2, <1>3, <1>4

LEMMA SentType ==
  ASSUME NEW ml \in [Side -> SUBSET Frame], NEW f, NEW m \in Frame
  PROVE  [ml EXCEPT ![f] = @ \cup {m}] \in [Side -> SUBSET Frame]
OBVIOUS

LEMMA CallType ==
  ASSUME TypeOK, NEW e \in Side, NEW p \in Path, NEW cause \in Cause, Call(e, p, cause)
  PROVE  call' \in [Side -> [Path -> SUBSET Cause]]
BY DEF TypeOK, Call

LEMMA RefuseType ==
  ASSUME TypeOK, NEW e \in Side, NEW p \in Path, Refuse(e, p)
  PROVE  /\ stage' \in [Side -> [Path -> Stages]]
         /\ conn' \in [Path -> {"none", "open", "closed"}]
         /\ mail' \in [Side -> SUBSET Frame]
<1>1. conn' \in [Path -> {"none", "open", "closed"}]
  BY DEF TypeOK, Refuse
<1>2. "gone" \in Stages
  BY DEF Stages
<1>3. stage' \in [Side -> [Path -> Stages]]
  BY <1>2, StageUpdate DEF Refuse
<1> QED
  BY <1>1, <1>3 DEF Refuse, Unread, TypeOK

LEMMA BindingType ==
  ASSUME TypeOK, NEW e \in Side, NEW p \in Path,
         AddPath(e, p) \/ Bind(e, p) \/ Attach(e, p) \/ BindFail(e, p)
  PROVE  TypeOK'
<1>0. "binding" \in Stages /\ "live" \in Stages
  BY DEF Stages
<1>1. CASE AddPath(e, p)
  <2>1. stage' \in [Side -> [Path -> Stages]]
    BY <1>0, <1>1, StageUpdate DEF AddPath
  <2>2. conn' \in [Path -> {"none", "open", "closed"}]
    BY <1>1 DEF AddPath, TypeOK
  <2> QED
    BY <1>1, <2>1, <2>2 DEF AddPath, TypeOK, Stages
<1>2. CASE Bind(e, p)
  <2>1. CASE MayAttach(e)
    <3>1. stage' \in [Side -> [Path -> Stages]]
      BY <1>0, <1>2, <2>1, StageUpdate DEF Bind
    <3> QED
      BY <1>2, <2>1, <3>1 DEF Bind, TypeOK, Stages
  <2>2. CASE ~MayAttach(e)
    BY <1>2, <2>2, RefuseType DEF Bind, TypeOK, Stages
  <2> QED
    BY <2>1, <2>2
<1>3. CASE Attach(e, p)
  <2>1. CASE MayAttach(e)
    <3>1. stage' \in [Side -> [Path -> Stages]]
      BY <1>0, <1>3, <2>1, StageUpdate DEF Attach
    <3> QED
      BY <1>3, <2>1, <3>1 DEF Attach, TypeOK, Stages
  <2>2. CASE ~MayAttach(e)
    BY <1>3, <2>2, RefuseType DEF Attach, TypeOK, Stages
  <2> QED
    BY <2>1, <2>2
<1>4. CASE BindFail(e, p)
  BY <1>4, RefuseType DEF BindFail, TypeOK, Stages
<1> QED
  BY <1>1, <1>2, <1>3, <1>4

LEMMA CallerType ==
  ASSUME TypeOK, NEW e \in Side, NEW p \in Path,
         RemovePath(e, p) \/ Fail(e, p) \/ ReadEnd(e, p)
  PROVE  TypeOK'
<1>1. \E cause \in Cause : Call(e, p, cause)
  BY DEF RemovePath, Fail, ReadEnd, Cause
<1>2. call' \in [Side -> [Path -> SUBSET Cause]]
  BY <1>1, CallType
<1> QED
  BY <1>2 DEF RemovePath, Fail, ReadEnd, TypeOK

LEMMA ReaderType ==
  ASSUME TypeOK, NEW e \in Side, NEW m \in mail[e], ReadDrop(e, m) \/ ReadFin(e, m)
  PROVE  TypeOK'
<1>1. m.id \in Path /\ m.via \in Path
  BY DEF TypeOK, Frame
<1>2. "peer" \in Cause /\ "fin" \in Cause
  BY DEF Cause
<1>3. call' \in [Side -> [Path -> SUBSET Cause]]
  <2>1. CASE call' = call
    BY <2>1 DEF TypeOK
  <2>2. CASE Call(e, m.id, "peer")
    BY <1>1, <1>2, <2>2, CallType
  <2>3. CASE Call(e, m.via, "fin")
    BY <1>1, <1>2, <2>3, CallType
  <2> QED
    BY <2>1, <2>2, <2>3 DEF ReadDrop, ReadFin
<1>4. mail' \in [Side -> SUBSET Frame]
  <2>1. mail' = [mail EXCEPT ![e] = @ \ {m}]
    BY DEF ReadDrop, ReadFin
  <2> QED
    BY <2>1 DEF TypeOK
<1>5. finRecv' \in [Side -> BOOLEAN]
  BY DEF ReadDrop, ReadFin, TypeOK
<1> QED
  BY <1>3, <1>4, <1>5 DEF ReadDrop, ReadFin, TypeOK

\* The record a call of dropPath carries past its unlock.
LEMMA DropType ==
  ASSUME TypeOK, NEW e \in Side, NEW p \in Path, NEW cause \in call[e][p]
  PROVE  [path |-> p, cause |-> cause, last |-> Empties(e, p), fin |-> finRecv[e]] \in Drop
<1>1. cause \in Cause /\ finRecv[e] \in BOOLEAN
  BY DEF TypeOK
<1>2. Empties(e, p) \in BOOLEAN
  BY DEF Empties
<1> QED
  BY <1>1, <1>2 DEF Drop

LEMMA DropPathType ==
  ASSUME TypeOK, NEW e \in Side, NEW p \in Path, DropPath(e, p)
  PROVE  TypeOK'
<1>1. call' \in [Side -> [Path -> SUBSET Cause]]
  BY DEF DropPath, Dead, TypeOK
<1>2. "gone" \in Stages
  BY DEF Stages
<1>3. stage' \in [Side -> [Path -> Stages]]
  <2>1. stage' = [stage EXCEPT ![e][p] = "gone"]
    BY DEF DropPath
  <2> QED
    BY <1>2, <2>1, StageUpdate
<1>4. PICK d \in Drop : leaving' = [leaving EXCEPT ![e] = @ \cup {d}]
  BY DropType DEF DropPath
<1>5. leaving' \in [Side -> SUBSET Drop]
  BY <1>4 DEF TypeOK
<1> QED
  BY <1>1, <1>3, <1>5 DEF DropPath, TypeOK, Stages

LEMMA FinishDropType ==
  ASSUME TypeOK, NEW e \in Side, NEW d \in leaving[e], FinishDrop(e, d)
  PROVE  TypeOK'
<1>1. d \in Drop /\ d.path \in Path
  BY DEF TypeOK, Drop
<1>2. leaving' \in [Side -> SUBSET Drop]
  BY DEF FinishDrop, TypeOK
<1>3. conn' \in [Path -> {"none", "open", "closed"}]
  BY <1>1 DEF FinishDrop, ConnAfterDrop, TypeOK
<1>4. mail' \in [Side -> SUBSET Frame]
  <2>1. PICK kept \in Buffered(e, d.path) :
          \/ mail' = kept
          \/ \E q \in LivePaths(e) : mail' = [kept EXCEPT ![Other(e)] =
                 @ \cup {[kind |-> "PATH_DROP", id |-> d.path, via |-> q]}]
    BY DEF FinishDrop
  <2>2. kept \in [Side -> SUBSET Frame]
    BY <1>1, <2>1, BufferedType
  <2>3. ASSUME NEW q \in LivePaths(e), mail' = [kept EXCEPT ![Other(e)] =
                  @ \cup {[kind |-> "PATH_DROP", id |-> d.path, via |-> q]}]
        PROVE  mail' \in [Side -> SUBSET Frame]
    <3>1. [kind |-> "PATH_DROP", id |-> d.path, via |-> q] \in Frame
      BY <1>1 DEF LivePaths, Frame
    <3> QED
      BY <2>2, <2>3, <3>1, SentType
  <2> QED
    BY <2>1, <2>2, <2>3
<1>5. /\ rerr' \in [Side -> {"none", "eof", "err"}]
      /\ how' \in [Side -> {"open", "close", "shutdown"}]
      /\ victims' \in [Side -> SUBSET Path]
  <2>1. CASE d.last
    <3>1. rerr' \in [Side -> {"none", "eof", "err"}]
      <4>1. Verdict(d) \in {"none", "eof", "err"}
        BY DEF Verdict
      <4>2. rerr' = rerr \/ rerr' = [rerr EXCEPT ![e] = Verdict(d)]
        BY <2>1 DEF FinishDrop, Shutdown
      <4> QED
        BY <4>1, <4>2 DEF TypeOK
    <3>2. LivePaths(e) \in SUBSET Path
      BY DEF LivePaths
    <3> QED
      BY <2>1, <3>1, <3>2, ZenonT(30) DEF FinishDrop, Shutdown, TypeOK
  <2>2. CASE ~d.last
    BY <2>2 DEF FinishDrop, TypeOK
  <2> QED
    BY <2>1, <2>2
<1> QED
  BY <1>2, <1>3, <1>4, <1>5 DEF FinishDrop, TypeOK

LEMMA ClosingType ==
  ASSUME TypeOK, NEW e \in Side,
         Close(e) \/ (\E p \in Path : ClosePath(e, p))
  PROVE  TypeOK'
<1>1. CASE Close(e)
  <2>1. LivePaths(e) \in SUBSET Path
    BY DEF LivePaths
  <2> QED
    BY <1>1, <2>1 DEF Close, TypeOK
<1>2. ASSUME NEW p \in Path, ClosePath(e, p) PROVE TypeOK'
  <2>1. "gone" \in Stages
    BY DEF Stages
  <2>2. stage' \in [Side -> [Path -> Stages]]
    BY <1>2, <2>1, StageUpdate DEF ClosePath
  <2>3. conn' \in [Path -> {"none", "open", "closed"}]
    BY <1>2 DEF ClosePath, ConnAfterClose, TypeOK
  <2>4. mail' \in [Side -> SUBSET Frame]
    <3>1. [kind |-> "FIN", id |-> p, via |-> p] \in Frame
      BY DEF Frame
    <3>2. PICK kept \in Buffered(e, p) :
            \/ mail' = kept
            \/ mail' = [kept EXCEPT ![Other(e)] =
                          @ \cup {[kind |-> "FIN", id |-> p, via |-> p]}]
      BY <1>2 DEF ClosePath
    <3>3. kept \in [Side -> SUBSET Frame]
      BY <3>2, BufferedType
    <3> QED
      BY <3>1, <3>2, <3>3, SentType
  <2>5. victims' \in [Side -> SUBSET Path]
    BY <1>2 DEF ClosePath, TypeOK
  <2>6. call' \in [Side -> [Path -> SUBSET Cause]]
    BY <1>2 DEF ClosePath, Dead, TypeOK
  <2> QED
    BY <1>2, <2>2, <2>3, <2>4, <2>5, <2>6 DEF ClosePath, TypeOK, Stages
<1> QED
  BY <1>1, <1>2

LEMMA TypeStep == ASSUME TypeOK, [Next]_vars PROVE TypeOK'
<1>1. CASE UNCHANGED vars
  BY <1>1 DEF vars, TypeOK
<1>2. ASSUME NEW e \in Side, NEW p \in Path,
             \/ AddPath(e, p) \/ Bind(e, p) \/ Attach(e, p) \/ BindFail(e, p)
             \/ RemovePath(e, p) \/ Fail(e, p) \/ ReadEnd(e, p)
             \/ DropPath(e, p) \/ ClosePath(e, p)
      PROVE  TypeOK'
  BY <1>2, BindingType, CallerType, DropPathType, ClosingType
<1>3. ASSUME NEW e \in Side, NEW m \in mail[e], ReadDrop(e, m) \/ ReadFin(e, m) PROVE TypeOK'
  BY <1>3, ReaderType
<1>4. ASSUME NEW e \in Side, NEW d \in leaving[e], FinishDrop(e, d) PROVE TypeOK'
  BY <1>4, FinishDropType
<1>5. ASSUME NEW e \in Side, Close(e) PROVE TypeOK'
  BY <1>5, ClosingType
<1> QED
  BY <1>1, <1>2, <1>3, <1>4, <1>5 DEF Next

\* Every variable keeps its type, whatever the two endpoints do to the paths.
THEOREM TypeCorrect == Spec => []TypeOK
<1> QED
  BY TypeInit, TypeStep, PTL DEF Spec

-----------------------------------------------------------------------------
(* Nothing leaks: the inductive invariant. *)

\* How an operation on path p of endpoint e leaves the other paths.
LEMMA StageAt ==
  ASSUME TypeOK, NEW e \in Side, NEW p \in Path, NEW s, stage' = [stage EXCEPT ![e][p] = s]
  PROVE  /\ stage'[e][p] = s
         /\ \A f \in Side, q \in Path : f # e \/ q # p => stage'[f][q] = stage[f][q]
BY DEF TypeOK

LEMMA ConnAt ==
  ASSUME TypeOK, NEW p \in Path, NEW c, conn' = [conn EXCEPT ![p] = c]
  PROVE  /\ conn'[p] = c
         /\ \A q \in Path : q # p => conn'[q] = conn[q]
BY DEF TypeOK

LEMMA DialedFirstTouch ==
  ASSUME TypeOK, DialedFirst, NEW p \in Path,
         stage'[Dialer[p]][p] # "none",
         \A q \in Path : q # p => conn'[q] = conn[q],
         \A q \in Path : q # p => \A f \in Side : stage'[f][q] = stage[f][q]
  PROVE  DialedFirst'
<1> SUFFICES ASSUME NEW q \in Path, stage'[Dialer[q]][q] = "none"
             PROVE  conn'[q] = "none" /\ \A f \in Side : stage'[f][q] = "none"
  BY DEF DialedFirst
<1>1. q # p /\ Dialer[q] \in Side
  BY PathAssumption
<1> QED
  BY <1>1 DEF DialedFirst

\* What the operations on a dialled path do to it.
LEMMA Moves ==
  ASSUME IInv, NEW e \in Side, NEW p \in Path,
         Bind(e, p) \/ Attach(e, p) \/ BindFail(e, p) \/ DropPath(e, p) \/ ClosePath(e, p)
  PROVE  \/ UNCHANGED <<stage, conn>>
         \/ /\ stage[Dialer[p]][p] # "none"
            /\ \E s \in {"binding", "live", "gone"} : stage' = [stage EXCEPT ![e][p] = s]
            /\ conn' = conn \/ conn' = [conn EXCEPT ![p] = "closed"]
<1>1. stage[e][p] # "none" \/ conn[p] # "none" => stage[Dialer[p]][p] # "none"
  BY DEF IInv, DialedFirst
<1>2. CASE Bind(e, p)
  <2>1. conn[p] # "none"
    BY <1>2 DEF Bind
  <2> QED
    BY <1>1, <1>2, <2>1 DEF Bind, Refuse
<1>3. CASE Attach(e, p)
  <2>1. stage[e][p] # "none"
    BY <1>3 DEF Attach
  <2> QED
    BY <1>1, <1>3, <2>1 DEF Attach, Refuse
<1>4. CASE BindFail(e, p)
  <2>1. stage[e][p] # "none"
    BY <1>4 DEF BindFail
  <2> QED
    BY <1>1, <1>4, <2>1 DEF BindFail, Refuse
<1>5. CASE DropPath(e, p)
  <2>1. stage[e][p] = "live"
    BY <1>5 DEF DropPath
  <2> QED
    BY <1>1, <1>5, <2>1 DEF DropPath
<1>6. CASE ClosePath(e, p)
  <2>1. stage[e][p] # "none"
    BY <1>6 DEF ClosePath, IInv, ClosersOwnPaths
  <2> QED
    BY <1>1, <1>6, <2>1 DEF ClosePath, ConnAfterClose
<1> QED
  BY <1>2, <1>3, <1>4, <1>5, <1>6

LEMMA DialedFirstStep == ASSUME IInv, [Next]_vars PROVE DialedFirst'
<1>0. TypeOK /\ DialedFirst
  BY DEF IInv
<1>1. CASE UNCHANGED <<stage, conn>>
  BY <1>0, <1>1 DEF DialedFirst
<1>2. ASSUME NEW e \in Side, NEW p \in Path, AddPath(e, p) PROVE DialedFirst'
  <2>1. stage'[Dialer[p]][p] # "none"
    <3>1. Dialer[p] = e /\ stage' = [stage EXCEPT ![e][p] = "binding"]
      BY <1>2 DEF AddPath
    <3>2. stage'[e][p] = "binding"
      BY <1>0, <3>1 DEF TypeOK
    <3> QED
      BY <3>1, <3>2
  <2>2. \A q \in Path : q # p => \A f \in Side : stage'[f][q] = stage[f][q]
    BY <1>0, <1>2, StageAt DEF AddPath
  <2>3. \A q \in Path : q # p => conn'[q] = conn[q]
    BY <1>0, <1>2, ConnAt DEF AddPath
  <2> QED
    BY <1>0, <2>1, <2>2, <2>3, DialedFirstTouch
<1>3. ASSUME NEW e \in Side, NEW p \in Path,
             Bind(e, p) \/ Attach(e, p) \/ BindFail(e, p) \/ DropPath(e, p) \/ ClosePath(e, p)
      PROVE  DialedFirst'
  <2>1. CASE UNCHANGED <<stage, conn>>
    BY <1>1, <2>1
  <2>2. CASE ~UNCHANGED <<stage, conn>>
    <3>1. /\ stage[Dialer[p]][p] # "none"
          /\ \E s \in {"binding", "live", "gone"} : stage' = [stage EXCEPT ![e][p] = s]
          /\ conn' = conn \/ conn' = [conn EXCEPT ![p] = "closed"]
      BY <1>3, <2>2, Moves
    <3>2. PICK s \in {"binding", "live", "gone"} : stage' = [stage EXCEPT ![e][p] = s]
      BY <3>1
    <3>3. stage'[e][p] = s /\ \A f \in Side, q \in Path : f # e \/ q # p => stage'[f][q] = stage[f][q]
      BY <1>0, <3>2 DEF TypeOK
    <3>4. stage'[Dialer[p]][p] # "none"
      BY <3>1, <3>3, PathAssumption
    <3>5. \A q \in Path : q # p => conn'[q] = conn[q]
      BY <1>0, <3>1, ConnAt
    <3> QED
      BY <1>0, <3>3, <3>4, <3>5, DialedFirstTouch
  <2> QED
    BY <2>1, <2>2
<1>4. ASSUME NEW e \in Side, NEW d \in leaving[e], FinishDrop(e, d) PROVE DialedFirst'
  <2>1. d.path \in Path /\ stage[e][d.path] = "gone"
    BY <1>0 DEF IInv, TypeOK, Drop, ClosersOwnPaths
  <2>2. stage[Dialer[d.path]][d.path] # "none"
    BY <1>0, <2>1 DEF DialedFirst
  <2>3. stage' = stage
    BY <1>4 DEF FinishDrop
  <2>4. \A q \in Path : q # d.path => conn'[q] = conn[q]
    BY <1>0, <1>4, <2>1, ConnAt DEF FinishDrop, ConnAfterDrop
  <2> QED
    BY <1>0, <2>1, <2>2, <2>3, <2>4, DialedFirstTouch
<1>5. ASSUME NEW e \in Side, NEW p \in Path, RemovePath(e, p) \/ Fail(e, p) \/ ReadEnd(e, p)
      PROVE  UNCHANGED <<stage, conn>>
  BY <1>5 DEF RemovePath, Fail, ReadEnd
<1>6. ASSUME NEW e \in Side, NEW m \in mail[e], ReadDrop(e, m) \/ ReadFin(e, m)
      PROVE  UNCHANGED <<stage, conn>>
  BY <1>6 DEF ReadDrop, ReadFin
<1>7. ASSUME NEW e \in Side, Close(e) PROVE UNCHANGED <<stage, conn>>
  BY <1>7 DEF Close
<1>8. CASE Next
  BY <1>1, <1>2, <1>3, <1>4, <1>5, <1>6, <1>7, <1>8 DEF Next
<1> QED
  BY <1>1, <1>8 DEF vars

\* A path moves forward at each endpoint: none, binding, live, gone.
LEMMA OnlyForward ==
  ASSUME TypeOK, [Next]_vars, NEW f \in Side, NEW q \in Path
  PROVE  /\ stage[f][q] = "live" => stage'[f][q] \in {"live", "gone"}
         /\ stage[f][q] = "gone" => stage'[f][q] = "gone"
<1>1. CASE stage' = stage
  BY <1>1
<1>2. ASSUME NEW e \in Side, NEW p \in Path, NEW s,
             stage' = [stage EXCEPT ![e][p] = s],
             s = "gone" \/ stage[e][p] \notin {"live", "gone"}
      PROVE  /\ stage[f][q] = "live" => stage'[f][q] \in {"live", "gone"}
             /\ stage[f][q] = "gone" => stage'[f][q] = "gone"
  <2>1. stage'[e][p] = s
    BY <1>2, StageAt, ZenonT(30)
  <2>2. f # e \/ q # p => stage'[f][q] = stage[f][q]
    BY <1>2, StageAt
  <2> QED
    BY <1>2, <2>1, <2>2
<1>3. ASSUME NEW e \in Side, NEW p \in Path, AddPath(e, p) \/ Bind(e, p) \/ Attach(e, p)
      PROVE  stage' = stage \/ \E s : /\ stage' = [stage EXCEPT ![e][p] = s]
                                      /\ s = "gone" \/ stage[e][p] \notin {"live", "gone"}
  BY <1>3 DEF AddPath, Bind, Attach, Refuse
<1>4. ASSUME NEW e \in Side, NEW p \in Path, BindFail(e, p) \/ DropPath(e, p) \/ ClosePath(e, p)
      PROVE  stage' = stage \/ stage' = [stage EXCEPT ![e][p] = "gone"]
  BY <1>4 DEF BindFail, Refuse, DropPath, ClosePath
<1>5. ASSUME NEW e \in Side, NEW p \in Path, RemovePath(e, p) \/ Fail(e, p) \/ ReadEnd(e, p)
      PROVE  stage' = stage
  BY <1>5 DEF RemovePath, Fail, ReadEnd
<1>6. ASSUME NEW e \in Side, NEW m \in mail[e], ReadDrop(e, m) \/ ReadFin(e, m) PROVE stage' = stage
  BY <1>6 DEF ReadDrop, ReadFin
<1>7. ASSUME NEW e \in Side, NEW d \in leaving[e], FinishDrop(e, d) PROVE stage' = stage
  BY <1>7 DEF FinishDrop
<1>8. ASSUME NEW e \in Side, Close(e) PROVE stage' = stage
  BY <1>8 DEF Close
<1>9. CASE Next
  BY <1>1, <1>2, <1>3, <1>4, <1>5, <1>6, <1>7, <1>8, <1>9 DEF Next
<1> QED
  BY <1>1, <1>9 DEF vars

\* Who closes a path took it from the set.
LEMMA ClosersStep == ASSUME IInv, [Next]_vars PROVE ClosersOwnPaths'
<1>0. TypeOK /\ ClosersOwnPaths
  BY DEF IInv
<1>1. ASSUME NEW f \in Side PROVE victims'[f] \subseteq victims[f] \cup LivePaths(f)
  <2>1. CASE victims' = victims
    BY <2>1
  <2>2. ASSUME NEW e \in Side, victims' = [victims EXCEPT ![e] = LivePaths(e)]
        PROVE  victims'[f] \subseteq victims[f] \cup LivePaths(f)
    BY <1>0, <2>2 DEF TypeOK
  <2>3. ASSUME NEW e \in Side, NEW p, victims' = [victims EXCEPT ![e] = @ \ {p}]
        PROVE  victims'[f] \subseteq victims[f] \cup LivePaths(f)
    BY <1>0, <2>3 DEF TypeOK
  <2>4. ASSUME NEW e \in Side, NEW p \in Path,
               \/ AddPath(e, p) \/ Bind(e, p) \/ Attach(e, p) \/ BindFail(e, p)
               \/ RemovePath(e, p) \/ Fail(e, p) \/ ReadEnd(e, p) \/ DropPath(e, p)
        PROVE  victims' = victims
    BY <2>4 DEF AddPath, Bind, Attach, BindFail, RemovePath, Fail, ReadEnd, DropPath
  <2>5. ASSUME NEW e \in Side, NEW p \in Path, ClosePath(e, p)
        PROVE  victims' = [victims EXCEPT ![e] = @ \ {p}]
    BY <2>5 DEF ClosePath
  <2>6. ASSUME NEW e \in Side, NEW m \in mail[e], ReadDrop(e, m) \/ ReadFin(e, m)
        PROVE  victims' = victims
    BY <2>6 DEF ReadDrop, ReadFin
  <2>7. ASSUME NEW e \in Side, NEW d \in leaving[e], FinishDrop(e, d)
        PROVE  victims' = victims \/ victims' = [victims EXCEPT ![e] = LivePaths(e)]
    BY <2>7 DEF FinishDrop, Shutdown
  <2>8. ASSUME NEW e \in Side, Close(e) PROVE victims' = [victims EXCEPT ![e] = LivePaths(e)]
    BY <2>8 DEF Close
  <2>9. CASE Next
    BY <2>1, <2>2, <2>3, <2>4, <2>5, <2>6, <2>7, <2>8, <2>9 DEF Next
  <2> QED
    BY <2>1, <2>9 DEF vars
<1>2. ASSUME NEW f \in Side, NEW d \in leaving'[f]
      PROVE  d \in leaving[f] \/ stage'[f][d.path] = "gone"
  <2>1. CASE leaving' = leaving
    BY <2>1, <1>2
  <2>2. ASSUME NEW e \in Side, NEW x \in leaving[e], FinishDrop(e, x) PROVE d \in leaving[f]
    BY <1>0, <1>2, <2>2 DEF FinishDrop, TypeOK
  <2>3. ASSUME NEW e \in Side, NEW p \in Path, DropPath(e, p)
        PROVE  d \in leaving[f] \/ stage'[f][d.path] = "gone"
    <3>1. stage' = [stage EXCEPT ![e][p] = "gone"]
      BY <2>3 DEF DropPath
    <3>2. stage'[e][p] = "gone"
      BY <1>0, <3>1 DEF TypeOK
    <3>3. \E x : x.path = p /\ leaving' = [leaving EXCEPT ![e] = @ \cup {x}]
      BY <2>3 DEF DropPath
    <3>4. d \in leaving[f] \/ (f = e /\ d.path = p)
      BY <1>0, <1>2, <3>3 DEF TypeOK
    <3> QED
      BY <3>2, <3>4
  <2>4. ASSUME NEW e \in Side, NEW p \in Path,
               \/ AddPath(e, p) \/ Bind(e, p) \/ Attach(e, p) \/ BindFail(e, p)
               \/ RemovePath(e, p) \/ Fail(e, p) \/ ReadEnd(e, p) \/ ClosePath(e, p)
        PROVE  leaving' = leaving
    BY <2>4 DEF AddPath, Bind, Attach, BindFail, RemovePath, Fail, ReadEnd, ClosePath
  <2>5. ASSUME NEW e \in Side, NEW m \in mail[e], ReadDrop(e, m) \/ ReadFin(e, m)
        PROVE  leaving' = leaving
    BY <2>5 DEF ReadDrop, ReadFin
  <2>6. ASSUME NEW e \in Side, Close(e) PROVE leaving' = leaving
    BY <2>6 DEF Close
  <2>7. CASE Next
    BY <2>1, <2>2, <2>3, <2>4, <2>5, <2>6, <2>7 DEF Next
  <2> QED
    BY <2>1, <2>7 DEF vars
<1>3. TypeOK'
  BY <1>0, TypeStep
<1>4. ASSUME NEW f \in Side, NEW p \in victims'[f] PROVE stage'[f][p] \in {"live", "gone"}
  <2>1. p \in Path /\ stage[f][p] \in {"live", "gone"}
    BY <1>0, <1>1, <1>4 DEF ClosersOwnPaths, LivePaths, TypeOK
  <2> QED
    BY <1>0, <2>1, OnlyForward
<1>5. ASSUME NEW f \in Side, NEW d \in leaving'[f] PROVE stage'[f][d.path] = "gone"
  <2>1. d.path \in Path
    BY <1>3 DEF TypeOK, Drop
  <2> QED
    BY <1>0, <1>2, <1>5, <2>1, OnlyForward DEF ClosersOwnPaths
<1> QED
  BY <1>4, <1>5 DEF ClosersOwnPaths

\* A path given up has its connection closed, or a dropPath that will close it.
LEMMA GivenUpStep == ASSUME IInv, [Next]_vars PROVE GivenUpIsClosed'
<1>0. TypeOK /\ DialedFirst /\ GivenUpIsClosed
  BY DEF IInv
<1>1. ASSUME NEW q \in Path, conn[q] = "closed" PROVE conn'[q] = "closed"
  <2>1. CASE conn' = conn
    BY <1>1, <2>1
  <2>2. ASSUME NEW p \in Path, conn' = [conn EXCEPT ![p] = "closed"] PROVE conn'[q] = "closed"
    BY <1>0, <1>1, <2>2 DEF TypeOK
  <2>3. ASSUME NEW e \in Side, NEW p \in Path, AddPath(e, p) PROVE conn'[q] = "closed"
    <3>1. conn[p] = "none"
      BY <1>0, <2>3 DEF AddPath, DialedFirst
    <3> QED
      BY <1>0, <1>1, <2>3, <3>1 DEF AddPath, TypeOK
  <2>4. ASSUME NEW e \in Side, NEW p \in Path,
               Bind(e, p) \/ Attach(e, p) \/ BindFail(e, p) \/ ClosePath(e, p)
        PROVE  conn' = conn \/ conn' = [conn EXCEPT ![p] = "closed"]
    BY <2>4 DEF Bind, Attach, BindFail, Refuse, ClosePath, ConnAfterClose
  <2>5. ASSUME NEW e \in Side, NEW p \in Path,
               RemovePath(e, p) \/ Fail(e, p) \/ ReadEnd(e, p) \/ DropPath(e, p)
        PROVE  conn' = conn
    BY <2>5 DEF RemovePath, Fail, ReadEnd, DropPath
  <2>6. ASSUME NEW e \in Side, NEW m \in mail[e], ReadDrop(e, m) \/ ReadFin(e, m)
        PROVE  conn' = conn
    BY <2>6 DEF ReadDrop, ReadFin
  <2>7. ASSUME NEW e \in Side, NEW d \in leaving[e], FinishDrop(e, d)
        PROVE  d.path \in Path /\ conn' = [conn EXCEPT ![d.path] = "closed"]
    BY <1>0, <2>7 DEF FinishDrop, ConnAfterDrop, TypeOK, Drop
  <2>8. ASSUME NEW e \in Side, Close(e) PROVE conn' = conn
    BY <2>8 DEF Close
  <2>9. CASE Next
    BY <2>1, <2>2, <2>3, <2>4, <2>5, <2>6, <2>7, <2>8, <2>9 DEF Next
  <2> QED
    BY <2>1, <2>9 DEF vars
<1>2. ASSUME NEW f \in Side, NEW d \in leaving[f]
      PROVE  d \in leaving'[f] \/ conn'[d.path] = "closed"
  <2>1. CASE leaving' = leaving
    BY <1>2, <2>1
  <2>2. ASSUME NEW e \in Side, NEW x, leaving' = [leaving EXCEPT ![e] = @ \cup {x}]
        PROVE  d \in leaving'[f]
    BY <1>0, <1>2, <2>2 DEF TypeOK
  <2>3. ASSUME NEW e \in Side, NEW x \in leaving[e], FinishDrop(e, x)
        PROVE  d \in leaving'[f] \/ conn'[d.path] = "closed"
    <3>1. x.path \in Path /\ conn'[x.path] = "closed"
      BY <1>0, <2>3 DEF FinishDrop, ConnAfterDrop, TypeOK, Drop
    <3>2. d \in leaving'[f] \/ d = x
      BY <1>0, <1>2, <2>3 DEF FinishDrop, TypeOK
    <3> QED
      BY <3>1, <3>2
  <2>4. ASSUME NEW e \in Side, NEW p \in Path, DropPath(e, p)
        PROVE  leaving' = leaving \/ \E x : leaving' = [leaving EXCEPT ![e] = @ \cup {x}]
    BY <2>4 DEF DropPath
  <2>5. ASSUME NEW e \in Side, NEW p \in Path,
               \/ AddPath(e, p) \/ Bind(e, p) \/ Attach(e, p) \/ BindFail(e, p)
               \/ RemovePath(e, p) \/ Fail(e, p) \/ ReadEnd(e, p) \/ ClosePath(e, p)
        PROVE  leaving' = leaving
    BY <2>5 DEF AddPath, Bind, Attach, BindFail, RemovePath, Fail, ReadEnd, ClosePath
  <2>6. ASSUME NEW e \in Side, NEW m \in mail[e], ReadDrop(e, m) \/ ReadFin(e, m)
        PROVE  leaving' = leaving
    BY <2>6 DEF ReadDrop, ReadFin
  <2>7. ASSUME NEW e \in Side, Close(e) PROVE leaving' = leaving
    BY <2>7 DEF Close
  <2>8. CASE Next
    BY <2>1, <2>2, <2>3, <2>4, <2>5, <2>6, <2>7, <2>8 DEF Next
  <2> QED
    BY <2>1, <2>8 DEF vars
<1>3. ASSUME NEW f \in Side, NEW q \in Path, stage'[f][q] = "gone", stage[f][q] # "gone"
      PROVE  conn'[q] = "closed" \/ \E d \in leaving'[f] : d.path = q
  <2>1. ASSUME NEW e \in Side, NEW p \in Path, NEW s, stage' = [stage EXCEPT ![e][p] = s]
        PROVE  f = e /\ q = p /\ s = "gone"
    BY <1>0, <1>3, <2>1, StageAt
  <2>2. CASE stage' = stage
    BY <1>3, <2>2
  <2>3. ASSUME NEW e \in Side, NEW p \in Path, Refuse(e, p) PROVE conn'[q] = "closed"
    <3>1. f = e /\ q = p
      BY <2>1, <2>3 DEF Refuse
    <3> QED
      BY <1>0, <2>3, <3>1 DEF Refuse, TypeOK
  <2>4. ASSUME NEW e \in Side, NEW p \in Path, ClosePath(e, p) PROVE conn'[q] = "closed"
    <3>1. f = e /\ q = p
      BY <2>1, <2>4 DEF ClosePath
    <3> QED
      BY <1>0, <2>4, <3>1 DEF ClosePath, ConnAfterClose, TypeOK
  <2>5. ASSUME NEW e \in Side, NEW p \in Path, DropPath(e, p)
        PROVE  \E d \in leaving'[f] : d.path = q
    <3>1. stage[e][p] = "live" /\ f = e /\ q = p
      BY <1>0, <1>3, <2>5 DEF DropPath, TypeOK
    <3>2. PICK x : x.path = p /\ leaving' = [leaving EXCEPT ![e] = @ \cup {x}]
      BY <2>5, <3>1 DEF DropPath
    <3> QED
      BY <1>0, <3>1, <3>2 DEF TypeOK
  <2>6. ASSUME NEW e \in Side, NEW p \in Path, AddPath(e, p) PROVE FALSE
    BY <1>0, <1>3, <2>6 DEF AddPath, TypeOK
  <2>7. ASSUME NEW e \in Side, NEW p \in Path, Bind(e, p) PROVE Refuse(e, p)
    BY <2>1, <2>7 DEF Bind
  <2>8. ASSUME NEW e \in Side, NEW p \in Path, Attach(e, p) PROVE Refuse(e, p)
    BY <2>1, <2>8 DEF Attach
  <2>9. ASSUME NEW e \in Side, NEW p \in Path, BindFail(e, p) PROVE Refuse(e, p)
    BY <2>9 DEF BindFail
  <2>10. ASSUME NEW e \in Side, NEW p \in Path, RemovePath(e, p) \/ Fail(e, p) \/ ReadEnd(e, p)
         PROVE  stage' = stage
    BY <2>10 DEF RemovePath, Fail, ReadEnd
  <2>11. ASSUME NEW e \in Side, NEW m \in mail[e], ReadDrop(e, m) \/ ReadFin(e, m)
         PROVE  stage' = stage
    BY <2>11 DEF ReadDrop, ReadFin
  <2>12. ASSUME NEW e \in Side, NEW d \in leaving[e], FinishDrop(e, d) PROVE stage' = stage
    BY <2>12 DEF FinishDrop
  <2>13. ASSUME NEW e \in Side, Close(e) PROVE stage' = stage
    BY <2>13 DEF Close
  <2>14. CASE Next
    BY <2>2, <2>3, <2>4, <2>5, <2>6, <2>7, <2>8, <2>9, <2>10, <2>11, <2>12, <2>13, <2>14 DEF Next
  <2> QED
    BY <2>2, <2>14 DEF vars
<1> SUFFICES ASSUME NEW f \in Side, NEW q \in Path, stage'[f][q] = "gone"
             PROVE  conn'[q] = "closed" \/ \E d \in leaving'[f] : d.path = q
  BY DEF GivenUpIsClosed
<1>4. CASE stage[f][q] # "gone"
  BY <1>3, <1>4
<1>5. CASE stage[f][q] = "gone"
  BY <1>0, <1>1, <1>2, <1>5 DEF GivenUpIsClosed
<1> QED
  BY <1>4, <1>5

\* attachPath refuses a closed stream, and Close and shutdown copy the whole set.
LEMMA NoneSlipsInStep == ASSUME IInv, [Next]_vars PROVE NoneSlipsIn'
<1>0. TypeOK /\ NoneSlipsIn
  BY DEF IInv
<1>1. ASSUME NEW f \in Side, how'[f] = how[f], NEW q \in Path,
             stage'[f][q] = "live", how[f] # "open"
      PROVE  stage[f][q] = "live"
  <2> SUFFICES ASSUME stage[f][q] # "live" PROVE FALSE
    OBVIOUS
  <2>1. ASSUME NEW e \in Side, NEW p \in Path, NEW s, stage' = [stage EXCEPT ![e][p] = s]
        PROVE  f = e /\ q = p /\ s = "live"
    BY <1>0, <1>1, <2>1, StageAt
  <2>2. stage' # stage
    BY <1>1
  <2>3. ASSUME NEW e \in Side, NEW p \in Path, AddPath(e, p) PROVE FALSE
    BY <1>0, <1>1, <2>3 DEF AddPath, TypeOK
  <2>4. ASSUME NEW e \in Side, NEW p \in Path, Refuse(e, p) PROVE FALSE
    BY <1>0, <1>1, <2>4 DEF Refuse, TypeOK
  <2>5. ASSUME NEW e \in Side, NEW p \in Path, Bind(e, p) PROVE FALSE
    BY <2>1, <2>4, <2>5 DEF Bind
  <2>6. ASSUME NEW e \in Side, NEW p \in Path, Attach(e, p) PROVE FALSE
    BY <1>1, <2>1, <2>4, <2>6 DEF Attach, MayAttach, closed
  <2>7. ASSUME NEW e \in Side, NEW p \in Path, BindFail(e, p) \/ DropPath(e, p) \/ ClosePath(e, p)
        PROVE  FALSE
    BY <2>1, <2>2, <2>4, <2>7 DEF BindFail, DropPath, ClosePath
  <2>8. ASSUME NEW e \in Side, NEW p \in Path, RemovePath(e, p) \/ Fail(e, p) \/ ReadEnd(e, p)
        PROVE  FALSE
    BY <2>2, <2>8 DEF RemovePath, Fail, ReadEnd
  <2>9. ASSUME NEW e \in Side, NEW m \in mail[e], ReadDrop(e, m) \/ ReadFin(e, m) PROVE FALSE
    BY <2>2, <2>9 DEF ReadDrop, ReadFin
  <2>10. ASSUME NEW e \in Side, NEW d \in leaving[e], FinishDrop(e, d) PROVE FALSE
    BY <2>2, <2>10 DEF FinishDrop
  <2>11. ASSUME NEW e \in Side, Close(e) PROVE FALSE
    BY <2>2, <2>11 DEF Close
  <2> QED
    BY <2>2, <2>3, <2>5, <2>6, <2>7, <2>8, <2>9, <2>10, <2>11 DEF Next, vars
<1>2. ASSUME NEW f \in Side, how'[f] = how[f], NEW q \in victims[f], q \notin victims'[f],
             how[f] # "open"
      PROVE  stage'[f][q] # "live"
  <2>1. victims' # victims
    BY <1>2
  <2>2. ASSUME NEW e \in Side, NEW p \in Path, ClosePath(e, p) PROVE stage'[f][q] # "live"
    <3>1. victims' = [victims EXCEPT ![e] = @ \ {p}] /\ stage' = [stage EXCEPT ![e][p] = "gone"]
      BY <2>2 DEF ClosePath
    <3>2. f = e /\ q = p
      BY <1>0, <1>2, <3>1 DEF TypeOK
    <3> QED
      BY <1>0, <3>1, <3>2 DEF TypeOK
  <2>3. ASSUME NEW e \in Side, NEW p \in Path,
               \/ AddPath(e, p) \/ Bind(e, p) \/ Attach(e, p) \/ BindFail(e, p)
               \/ RemovePath(e, p) \/ Fail(e, p) \/ ReadEnd(e, p) \/ DropPath(e, p)
        PROVE  FALSE
    BY <2>1, <2>3 DEF AddPath, Bind, Attach, BindFail, RemovePath, Fail, ReadEnd, DropPath
  <2>4. ASSUME NEW e \in Side, NEW m \in mail[e], ReadDrop(e, m) \/ ReadFin(e, m) PROVE FALSE
    BY <2>1, <2>4 DEF ReadDrop, ReadFin
  <2>5. ASSUME NEW e \in Side, NEW w, how[e] = "open", how' = [how EXCEPT ![e] = w], w # "open",
               victims' = [victims EXCEPT ![e] = LivePaths(e)]
        PROVE  FALSE
    BY <1>0, <1>2, <2>5 DEF TypeOK
  <2>6. ASSUME NEW e \in Side, NEW d \in leaving[e], FinishDrop(e, d) PROVE FALSE
    BY <2>1, <2>5, <2>6 DEF FinishDrop, Shutdown, closed
  <2>7. ASSUME NEW e \in Side, Close(e) PROVE FALSE
    BY <2>5, <2>7 DEF Close, closed
  <2> QED
    BY <2>1, <2>2, <2>3, <2>4, <2>6, <2>7 DEF Next, vars
<1>3. ASSUME NEW f \in Side, how'[f] # how[f]
      PROVE  stage' = stage /\ victims'[f] = LivePaths(f)
  <2>1. how' # how
    BY <1>3
  <2>2. ASSUME NEW e \in Side, NEW w, how' = [how EXCEPT ![e] = w],
               victims' = [victims EXCEPT ![e] = LivePaths(e)]
        PROVE  victims'[f] = LivePaths(f)
    BY <1>0, <1>3, <2>2 DEF TypeOK
  <2>3. ASSUME NEW e \in Side, NEW p \in Path,
               \/ AddPath(e, p) \/ Bind(e, p) \/ Attach(e, p) \/ BindFail(e, p)
               \/ RemovePath(e, p) \/ Fail(e, p) \/ ReadEnd(e, p) \/ DropPath(e, p)
               \/ ClosePath(e, p)
        PROVE  FALSE
    BY <2>1, <2>3 DEF AddPath, Bind, Attach, BindFail, RemovePath, Fail, ReadEnd, DropPath, ClosePath
  <2>4. ASSUME NEW e \in Side, NEW m \in mail[e], ReadDrop(e, m) \/ ReadFin(e, m) PROVE FALSE
    BY <2>1, <2>4 DEF ReadDrop, ReadFin
  <2>5. ASSUME NEW e \in Side, NEW d \in leaving[e], FinishDrop(e, d)
        PROVE  stage' = stage /\ victims'[f] = LivePaths(f)
    BY <2>1, <2>2, <2>5 DEF FinishDrop, Shutdown
  <2>6. ASSUME NEW e \in Side, Close(e) PROVE stage' = stage /\ victims'[f] = LivePaths(f)
    BY <2>2, <2>6 DEF Close
  <2> QED
    BY <2>1, <2>3, <2>4, <2>5, <2>6 DEF Next, vars
<1> SUFFICES ASSUME NEW f \in Side, how'[f] # "open", NEW q \in Path, stage'[f][q] = "live"
             PROVE  q \in victims'[f]
  BY DEF NoneSlipsIn, closed, LivePaths
<1>4. CASE how'[f] = how[f]
  <2>1. q \in victims[f]
    BY <1>0, <1>1, <1>4 DEF NoneSlipsIn, closed, LivePaths
  <2> QED
    BY <1>2, <1>4, <2>1
<1>5. CASE how'[f] # how[f]
  BY <1>3, <1>5 DEF LivePaths
<1> QED
  BY <1>4, <1>5

LEMMA Invariance == Spec => []IInv
<1>1. Init => IInv
  <2> SUFFICES ASSUME Init PROVE IInv
    OBVIOUS
  <2>1. TypeOK
    BY TypeInit
  <2>2. \A p \in Path, e \in Side : stage[e][p] = IF p = First THEN "live" ELSE "none"
    BY DEF Init
  <2>3. DialedFirst
    BY <2>2, PathAssumption DEF Init, DialedFirst
  <2>4. ClosersOwnPaths /\ NoneSlipsIn /\ GivenUpIsClosed
    BY <2>2 DEF Init, ClosersOwnPaths, NoneSlipsIn, GivenUpIsClosed, closed
  <2> QED
    BY <2>1, <2>3, <2>4 DEF IInv
<1>2. IInv /\ [Next]_vars => IInv'
  <2> SUFFICES ASSUME IInv, [Next]_vars PROVE IInv'
    OBVIOUS
  <2>1. TypeOK'
    BY TypeStep DEF IInv
  <2> QED
    BY <2>1, DialedFirstStep, ClosersStep, GivenUpStep, NoneSlipsInStep DEF IInv
<1> QED
  BY <1>1, <1>2, PTL DEF Spec

\* A terminated stream leaks no path: none is left in the set, and every
\* connection it gave up is closed or about to be, also a path whose binding
\* finished while Close or shutdown was at work.
THEOREM NothingLeaks == Spec => []NoLeak
<1>1. IInv => NoLeak
  BY DEF IInv, NoneSlipsIn, GivenUpIsClosed, NoLeak, Terminated, LivePaths
<1> QED
  BY <1>1, Invariance, PTL

=============================================================================

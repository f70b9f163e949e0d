--------------------------- MODULE DataPlane_proofs --------------------------
(***************************************************************************)
(* Proofs about the data plane, for every number of paths, every bound and *)
(* every set of capacities.                                                *)
(***************************************************************************)
EXTENDS DataPlane, FiniteSetTheorems, TLAPS

\* Updating a function at one point.
LEMMA UpdateType ==
  ASSUME NEW S, NEW T, NEW f \in [S -> T], NEW x \in S, NEW y \in T
  PROVE  [f EXCEPT ![x] = y] \in [S -> T]
  OBVIOUS

\* Sequences: what the paths do to the frames in flight.
LEMMA SeqType ==
  ASSUME NEW S, NEW s \in Seq(S), NEW e \in S
  PROVE  /\ << >> \in Seq(S)
         /\ Append(s, e) \in Seq(S)
         /\ s # << >> => Head(s) \in S /\ Tail(s) \in Seq(S)
  OBVIOUS

\* The frames of a path, in any order.
Elements(s) == {s[i] : i \in DOMAIN s}

\* Frames leave and join the paths one at a time.
LEMMA TailElements ==
  ASSUME NEW S, NEW s \in Seq(S), s # << >>, NEW i \in DOMAIN Tail(s)
  PROVE  \E j \in DOMAIN s : Tail(s)[i] = s[j]
<1>1. i \in 1 .. Len(s) - 1 /\ Len(s) \in Nat
  OBVIOUS
<1>2. i + 1 \in DOMAIN s /\ Tail(s)[i] = s[i + 1]
  BY <1>1
<1> QED
  BY <1>2

LEMMA AppendElements ==
  ASSUME NEW S, NEW s \in Seq(S), NEW e \in S, NEW i \in DOMAIN Append(s, e)
  PROVE  Append(s, e)[i] = e \/ (i \in DOMAIN s /\ Append(s, e)[i] = s[i])
<1>1. CASE i = Len(s) + 1
  BY <1>1
<1>2. CASE i # Len(s) + 1
  BY <1>2
<1> QED
  BY <1>1, <1>2

\* What is left of the frames of a closed connection is some of them.
LEMMA BufferedFacts ==
  ASSUME NEW S, NEW s \in Seq(S), NEW t \in Buffered(s)
  PROVE  t \in Seq(S) /\ Elements(t) \subseteq Elements(s)
<1>1. PICK k \in 0 .. Len(s) : t = SubSeq(s, 1, k)
  BY DEF Buffered
<1>2. k \in Nat /\ Len(s) \in Nat /\ \A i \in 1..k : i \in DOMAIN s /\ s[i] \in S
  OBVIOUS
<1>3. t = [i \in 1..k |-> s[i]]
  BY <1>1, <1>2
<1>4. t \in Seq(S) /\ DOMAIN t = 1..k /\ \A i \in 1..k : t[i] = s[i]
  BY <1>2, <1>3
<1> QED
  BY <1>2, <1>4 DEF Elements

LEMMA CutElements ==
  ASSUME NEW S, NEW f \in [Path -> Seq(S)], NEW p \in Path,
         NEW t \in Seq(S), Elements(t) \subseteq Elements(f[p]),
         NEW g, g = [f EXCEPT ![p] = t]
  PROVE  /\ g \in [Path -> Seq(S)]
         /\ \A q \in Path : Elements(g[q]) \subseteq Elements(f[q])
<1>1. ASSUME NEW q \in Path PROVE g[q] = IF q = p THEN t ELSE f[q]
  OBVIOUS
<1> QED
  BY <1>1

\* The capacity of the reorder buffer is a natural number.
LEMMA CapNat == Caps \subseteq Nat
  BY CapsAssumption

\* The advertised window is a natural number in every well-typed state.
LEMMA AdvertisedNat == TypeOK => Advertised \in Nat
<1> SUFFICES ASSUME TypeOK PROVE Advertised \in Nat
  OBVIOUS
<1>1. Cardinality(heap) \in Nat
  BY FS_CardinalityType DEF TypeOK
<1>2. cap \in Nat /\ next \in Nat /\ readOff \in Nat
  BY CapNat DEF TypeOK
<1> QED
  BY <1>1, <1>2 DEF Advertised, Size

\* An ACK the receiver writes has the type of an ACK.
LEMMA AckType ==
  TypeOK => [seq |-> ackSeq, cum |-> next, win |-> Advertised, rng |-> Reported] \in Ack
<1> SUFFICES ASSUME TypeOK
             PROVE [seq |-> ackSeq, cum |-> next, win |-> Advertised, rng |-> Reported] \in Ack
  OBVIOUS
<1>1. Reported \subseteq Unit
  BY DEF TypeOK, Reported, Units
<1>2. Advertised \in Nat
  BY AdvertisedNat
<1> QED
  BY <1>1, <1>2 DEF TypeOK, Ack

\* The heap stays a finite set of copies when a segment is added.
LEMMA HeapWithType ==
  ASSUME TypeOK, NEW u \in Unit
  PROVE  HeapWith(u) \subseteq Unit \X Nat /\ IsFiniteSet(HeapWith(u))
<1>1. IsFiniteSet({h \in heap : h[1] = u})
  BY FS_Subset DEF TypeOK
<1>2. 1 + Cardinality({h \in heap : h[1] = u}) \in Nat
  BY <1>1, FS_CardinalityType
<1>3. IsFiniteSet(heap \cup {<<u, 1 + Cardinality({h \in heap : h[1] = u})>>})
  BY FS_AddElement DEF TypeOK
<1> QED
  BY <1>2, <1>3 DEF HeapWith, TypeOK

\* Dropping a path loses the frames on it, but for some that were read ahead.
LEMMA DropSElements ==
  ASSUME TypeOK, NEW p \in Path, DropS(p)
  PROVE  /\ acks' \in [Path -> Seq(Ack)]
         /\ \A q \in Path : Elements(acks'[q]) \subseteq Elements(acks[q])
<1>1. acks \in [Path -> Seq(Ack)] /\ acks[p] \in Seq(Ack)
  BY DEF TypeOK
<1>2. PICK t \in Buffered(acks[p]) : acks' = [acks EXCEPT ![p] = t]
  BY DEF DropS
<1>3. t \in Seq(Ack) /\ Elements(t) \subseteq Elements(acks[p])
  BY <1>1, BufferedFacts
<1> QED
  BY <1>1, <1>2, <1>3, CutElements

LEMMA LoseRElements ==
  ASSUME TypeOK, NEW p \in Path, LoseR(p)
  PROVE  /\ data' \in [Path -> Seq(Unit)]
         /\ \A q \in Path : Elements(data'[q]) \subseteq Elements(data[q])
<1>1. data \in [Path -> Seq(Unit)] /\ data[p] \in Seq(Unit)
  BY DEF TypeOK
<1>2. PICK t \in Buffered(data[p]) : data' = [data EXCEPT ![p] = t]
  BY DEF LoseR
<1>3. t \in Seq(Unit) /\ Elements(t) \subseteq Elements(data[p])
  BY <1>1, BufferedFacts
<1> QED
  BY <1>1, <1>2, <1>3, CutElements

\* Handling a DATA frame takes it off its path; an overflow closes all paths.
LEMMA RecvDataElements ==
  ASSUME TypeOK, NEW p \in Path, RecvData(p)
  PROVE  /\ data' \in [Path -> Seq(Unit)]
         /\ \A q \in Path : Elements(data'[q]) \subseteq Elements(data[q])
<1>1. data \in [Path -> Seq(Unit)] /\ data[p] \in Seq(Unit) /\ data[p] # << >>
  BY DEF TypeOK, RecvData
<1>2. CASE data' = [data EXCEPT ![p] = Tail(@)]
  <2>1. Tail(data[p]) \in Seq(Unit) /\ Elements(Tail(data[p])) \subseteq Elements(data[p])
    BY <1>1, TailElements DEF Elements
  <2> QED
    BY <1>1, <1>2, <2>1, CutElements
<1>3. CASE data' \in {d \in [Path -> UNION {Buffered(data[q]) : q \in Path}] :
                       \A q \in Path : d[q] \in IF q = p THEN {<< >>} ELSE Buffered(data[q])}
  <2>1. ASSUME NEW q \in Path
        PROVE  data'[q] \in Seq(Unit) /\ Elements(data'[q]) \subseteq Elements(data[q])
    <3>1. CASE q = p
      <4>1. data'[q] = << >>
        BY <1>3, <3>1
      <4> QED
        BY <4>1 DEF Elements
    <3>2. CASE q # p
      <4>1. data[q] \in Seq(Unit) /\ data'[q] \in Buffered(data[q])
        BY <1>1, <1>3, <3>2
      <4> QED
        BY <4>1, BufferedFacts
    <3> QED
      BY <3>1, <3>2
  <2>2. data' \in [Path -> UNION {Buffered(data[q]) : q \in Path}]
    BY <1>3
  <2> QED
    BY <2>1, <2>2
<1> QED
  BY <1>2, <1>3 DEF RecvData

\* Dropping a path keeps the types, at either endpoint.
LEMMA DropSType ==
  ASSUME TypeOK, NEW p \in Path, DropS(p)
  PROVE  /\ pathS' \in [Path -> Status]
         /\ acks' \in [Path -> Seq(Ack)]
         /\ owner' \in [Unit -> Path \cup {None}]
<1>1. "dead" \in Status
  BY DEF Status
<1>2. pathS' \in [Path -> Status]
  BY <1>1 DEF TypeOK, DropS
<1>3. acks' \in [Path -> Seq(Ack)]
  BY DropSElements
<1>4. owner' \in [Unit -> Path \cup {None}]
  BY DEF TypeOK, DropS, Disown
<1> QED
  BY <1>2, <1>3, <1>4

\* So does the rejection of an ACK.
LEMMA RejectFacts ==
  ASSUME TypeOK, NEW p \in Path, Reject(p)
  PROVE  /\ pathS' \in [Path -> Status]
         /\ acks' \in [Path -> Seq(Ack)]
         /\ owner' \in [Unit -> Path \cup {None}]
         /\ \A q \in Path : Elements(acks'[q]) \subseteq Elements(acks[q])
<1>1. "dead" \in Status /\ << >> \in Seq(Ack) /\ acks \in [Path -> Seq(Ack)]
  BY DEF Status, TypeOK
<1>2. Elements(<< >>) = {}
  BY DEF Elements
<1>3. acks' \in [Path -> Seq(Ack)] /\ \A q \in Path : Elements(acks'[q]) \subseteq Elements(acks[q])
  BY <1>1, <1>2, CutElements DEF Reject
<1> QED
  BY <1>1, <1>3 DEF TypeOK, Reject, Disown

LEMMA LoseRType ==
  ASSUME TypeOK, NEW p \in Path, LoseR(p)
  PROVE  pathR' \in [Path -> Status] /\ data' \in [Path -> Seq(Unit)]
<1>1. "dead" \in Status
  BY DEF Status
<1>2. pathR' \in [Path -> Status]
  BY <1>1 DEF TypeOK, LoseR
<1>3. data' \in [Path -> Seq(Unit)]
  BY LoseRElements
<1> QED
  BY <1>2, <1>3

LEMMA TypeInit == Init => TypeOK
<1> SUFFICES ASSUME Init PROVE TypeOK
  OBVIOUS
<1>1. IsFiniteSet(heap) /\ heap \subseteq Unit \X Nat
  BY FS_EmptySet DEF Init
<1>2. data \in [Path -> Seq(Unit)] /\ acks \in [Path -> Seq(Ack)]
  BY DEF Init
<1>3. lastAck \in Ack
  BY DEF Init, Ack
<1>4. pathS \in [Path -> Status] /\ pathR \in [Path -> Status]
  BY DEF Init, Status
<1>5. /\ written \in 0 .. MaxUnits
      /\ owner \in [Unit -> Path \cup {None}]
      /\ pend \in (Path \X Unit) \cup {None}
      /\ fails \in 0 .. MaxFails
  BY BoundsAssumption DEF Init
<1>6. cap \in Caps
  BY CapsAssumption DEF Init
<1> QED
  BY <1>1, <1>2, <1>3, <1>4, <1>5, <1>6 DEF Init, TypeOK

LEMMA TypeStep == TypeOK /\ [Next]_vars => TypeOK'
<1> SUFFICES ASSUME TypeOK, [Next]_vars PROVE TypeOK'
  OBVIOUS
<1> USE BoundsAssumption, PathAssumption
<1>1. CASE Write
  BY <1>1 DEF TypeOK, Write, receiver, history
<1>2. CASE TrySend
  <2>1. sacked' \subseteq Unit
    BY <1>2 DEF TypeOK, TrySend, MarkedOnTheWay, Pool, Unacked
  <2>2. PICK p \in Live(pathS) :
          \/ \E u \in Holes : Commit(u, p) /\ UNCHANGED sentOff
          \/ sentOff < written /\ Commit(sentOff, p) /\ sentOff' = sentOff + 1
    BY <1>2 DEF TrySend
  <2>3. p \in Path
    BY DEF Live
  <2>4. PICK u \in Unit : Commit(u, p) /\ sentOff' \in {sentOff, sentOff + 1}
    <3>1. CASE \E u \in Holes : Commit(u, p) /\ UNCHANGED sentOff
      <4>1. Holes \subseteq Unit
        BY Zenon DEF Holes, Pool, Unacked
      <4> QED
        BY ONLY <3>1, <4>1, Zenon
    <3>2. CASE sentOff < written /\ Commit(sentOff, p) /\ sentOff' = sentOff + 1
      <4>1. sentOff \in Nat /\ written \in 0 .. MaxUnits
        BY Zenon DEF TypeOK
      <4>2. sentOff \in Unit
        BY ONLY <3>2, <4>1, BoundsAssumption DEF Unit
      <4> QED
        BY ONLY <3>2, <4>2, Zenon
    <3> QED
      BY ONLY <2>2, <3>1, <3>2
  <2>5. owner' \in [Unit -> Path \cup {None}] /\ pend' \in (Path \X Unit) \cup {None}
    BY <2>3, <2>4 DEF TypeOK, Commit
  <2> QED
    BY <1>2, <2>1, <2>4, <2>5, SMTT(30) DEF TypeOK, TrySend, receiver, history
<1>3. CASE WriteFrame
  <2>1. pend \in Path \X Unit
    BY <1>3 DEF TypeOK, WriteFrame
  <2>2. pend[1] \in Path /\ pend[2] \in Unit
    BY <2>1
  <2>3. data' \in [Path -> Seq(Unit)]
    <3>1. data \in [Path -> Seq(Unit)] /\ data[pend[1]] \in Seq(Unit)
      BY <2>2 DEF TypeOK
    <3>2. Append(data[pend[1]], pend[2]) \in Seq(Unit)
      BY <2>2, <3>1, SeqType
    <3>3. [data EXCEPT ![pend[1]] = Append(@, pend[2])] \in [Path -> Seq(Unit)]
      BY <2>2, <3>1, <3>2, UpdateType
    <3>4. data' \in {data, [data EXCEPT ![pend[1]] = Append(@, pend[2])]}
      BY <1>3 DEF WriteFrame
    <3> QED
      BY <3>1, <3>3, <3>4
  <2>4. pathS' \in [Path -> Status] /\ acks' \in [Path -> Seq(Ack)]
    <3>1. CASE DropS(pend[1])
      BY <2>2, <3>1, DropSType
    <3>2. CASE UNCHANGED <<pathS, acks>>
      BY <3>2 DEF TypeOK
    <3> QED
      BY <1>3, <3>1, <3>2 DEF WriteFrame
  <2>5. owner' \in [Unit -> Path \cup {None}]
    BY <1>3 DEF TypeOK, WriteFrame, DropS, Disown
  <2> QED
    BY <1>3, <2>3, <2>4, <2>5 DEF TypeOK, WriteFrame, receiver, history
<1>4. CASE SoftFail
  BY <1>4 DEF TypeOK, SoftFail, Unacked, receiver, history
<1>5. CASE Read
  <2>1. ackReq' \in BOOLEAN
    BY <1>5 DEF TypeOK, Read
  <2> QED
    BY <1>5, <2>1 DEF TypeOK, Read, sender, history
<1>6. ASSUME NEW p \in Path, RecvAck(p) PROVE TypeOK'
  <2> DEFINE a == Head(acks[p])
  <2>1. acks[p] \in Seq(Ack) /\ acks[p] # << >>
    BY <1>6 DEF TypeOK, RecvAck
  <2>2. a \in Ack /\ Tail(acks[p]) \in Seq(Ack)
    BY <2>1
  <2>3. a.seq \in Nat /\ a.cum \in Nat /\ a.win \in Nat /\ a.rng \subseteq Unit
    BY <2>2 DEF Ack
  <2> HIDE DEF a
  <2>4. cumAcked' \in {cumAcked, a.cum} /\ advWindow' \in {advWindow, a.win}
        /\ peerRanges' \in {peerRanges, a.rng} /\ peerSeq' \in {peerSeq, a.seq + 1}
    BY <1>6 DEF RecvAck, a
  <2>5. gotWindow' \in BOOLEAN /\ sawLast' \in BOOLEAN
    BY <1>6 DEF TypeOK, RecvAck
  <2>6. acks' \in [Path -> Seq(Ack)] /\ pathS' \in [Path -> Status]
        /\ owner' \in [Unit -> Path \cup {None}]
    <3>1. CASE Reject(p)
      BY <3>1, RejectFacts
    <3>2. CASE acks' = [acks EXCEPT ![p] = Tail(@)] /\ UNCHANGED <<pathS, owner>>
      <4>1. acks \in [Path -> Seq(Ack)]
        BY DEF TypeOK
      <4>2. acks' \in [Path -> Seq(Ack)]
        BY <2>2, <3>2, <4>1, UpdateType
      <4> QED
        BY <3>2, <4>2 DEF TypeOK
    <3> QED
      BY <1>6, <3>1, <3>2 DEF RecvAck
  <2>7. UNCHANGED <<written, sentOff, sacked, pend, fails, receiver, data, lastAck>>
    BY <1>6 DEF RecvAck
  <2>8. cumAcked' \in Nat /\ advWindow' \in Nat /\ peerRanges' \subseteq Unit /\ peerSeq' \in Nat
    BY <2>3, <2>4 DEF TypeOK
  <2> QED
    BY <2>5, <2>6, <2>7, <2>8 DEF TypeOK, receiver
<1>7. ASSUME NEW p \in Path, LosePathS(p) PROVE TypeOK'
  BY <1>7, DropSType DEF TypeOK, LosePathS, receiver, history
<1>8. ASSUME NEW p \in Path, AttachS(p) PROVE TypeOK'
  BY <1>8 DEF TypeOK, AttachS, Status, receiver, history
<1>9. ASSUME NEW p \in Path, RecvData(p) PROVE TypeOK'
  <2> DEFINE u == Head(data[p])
             H == HeapWith(u)
  <2>1. data[p] \in Seq(Unit) /\ data[p] # << >>
    BY <1>9 DEF TypeOK, RecvData
  <2>2. u \in Unit /\ Tail(data[p]) \in Seq(Unit)
    BY <2>1
  <2>3. H \subseteq Unit \X Nat /\ IsFiniteSet(H)
    BY <2>2, HeapWithType
  <2>4. PICK m \in next .. MaxUnits : next' = m /\ heap' = {h \in H : h[1] > m}
    BY <1>9 DEF RecvData
  <2>5. next' \in Nat /\ heap' \subseteq Unit \X Nat /\ IsFiniteSet(heap')
    BY <2>3, <2>4, FS_Subset DEF TypeOK
  <2> HIDE DEF u, H
  <2>6. data' \in [Path -> Seq(Unit)] /\ pathR' \in [Path -> Status]
    <3>4. data' \in [Path -> Seq(Unit)]
      BY <1>9, RecvDataElements
    <3>5. pathR' \in {pathR, [q \in Path |-> "dead"]}
      BY <1>9 DEF RecvData
    <3>6. [q \in Path |-> "dead"] \in [Path -> Status]
      BY DEF Status
    <3> QED
      BY <3>4, <3>5, <3>6 DEF TypeOK
  <2>7. torn' \in BOOLEAN /\ ackReq' \in BOOLEAN
    BY <1>9 DEF TypeOK, RecvData
  <2>8. UNCHANGED <<readOff, cap, ackSeq, sender, acks, history>>
    BY <1>9 DEF RecvData
  <2> QED
    BY <2>5, <2>6, <2>7, <2>8 DEF TypeOK, sender, history
<1>10. ASSUME NEW p \in Path, SendAck(p) PROVE TypeOK'
  <2> DEFINE a == [seq |-> ackSeq, cum |-> next, win |-> Advertised, rng |-> Reported]
  <2>1. a \in Ack
    BY AckType
  <2> HIDE DEF a
  <2>2. acks' \in [Path -> Seq(Ack)] /\ lastAck' \in Ack /\ sawLast' \in BOOLEAN
    <3>1. acks \in [Path -> Seq(Ack)] /\ acks[p] \in Seq(Ack)
      BY DEF TypeOK
    <3>2. Append(acks[p], a) \in Seq(Ack)
      BY <2>1, <3>1, SeqType
    <3>3. [acks EXCEPT ![p] = Append(@, a)] \in [Path -> Seq(Ack)]
      BY <3>1, <3>2, UpdateType
    <3>4. /\ acks' \in {acks, [acks EXCEPT ![p] = Append(@, a)]}
          /\ lastAck' \in {lastAck, a}
          /\ sawLast' \in {sawLast, FALSE}
      BY <1>10 DEF SendAck, history, a
    <3> QED
      BY <2>1, <3>1, <3>3, <3>4 DEF TypeOK
  <2>3. pathR' \in [Path -> Status] /\ data' \in [Path -> Seq(Unit)]
    <3>1. CASE LoseR(p)
      BY <3>1, LoseRType
    <3>2. CASE UNCHANGED <<pathR, data>>
      BY <3>2 DEF TypeOK
    <3> QED
      BY <1>10, <3>1, <3>2 DEF SendAck
  <2>4. ackReq' \in BOOLEAN /\ ackSeq' = ackSeq + 1
    BY <1>10 DEF SendAck
  <2>5. UNCHANGED <<next, heap, readOff, cap, torn, sender>>
    BY <1>10 DEF SendAck
  <2> QED
    BY <2>2, <2>3, <2>4, <2>5 DEF TypeOK, sender
<1>11. ASSUME NEW p \in Path, LosePathR(p) PROVE TypeOK'
  BY <1>11, LoseRType DEF TypeOK, LosePathR, sender, history
<1>12. ASSUME NEW p \in Path, AttachR(p) PROVE TypeOK'
  BY <1>12 DEF TypeOK, AttachR, Status, sender, history
<1>13. ASSUME NEW c \in Caps, SetCap(c) PROVE TypeOK'
  BY <1>13 DEF TypeOK, SetCap, sender, history
<1>14. CASE UNCHANGED vars
  BY <1>14 DEF TypeOK, vars, sender, receiver, history
<1> QED
  BY <1>1, <1>2, <1>3, <1>4, <1>5, <1>6, <1>7, <1>8, <1>9, <1>10, <1>11, <1>12, <1>13,
     <1>14 DEF Next

\* Every reachable state is well typed; in particular the window in every ACK
\* is a natural number, so the conversion to uint64 in sendAck never wraps.
THEOREM TypeCorrect == Spec => []TypeOK
  BY TypeInit, TypeStep, PTL DEF Spec

-----------------------------------------------------------------------------
(* No segment is orphaned.                                                 *)

LEMMA NoOrphanInit == Init => NoOrphan
  BY DEF Init, NoOrphan, Unacked, Unit

\* Dropping a path disowns its segments in the same step.
LEMMA NoOrphanDrop ==
  ASSUME TypeOK, NoOrphan, NEW p \in Path, DropS(p), Unacked' \subseteq Unacked
  PROVE  NoOrphan'
<1> SUFFICES ASSUME NEW u \in Unacked', owner'[u] # None PROVE pathS'[owner'[u]] = "live"
  BY DEF NoOrphan
<1>1. u \in Unit /\ u \in Unacked
  BY DEF Unacked
<1>2. owner[u] # p /\ owner'[u] = owner[u]
  BY <1>1 DEF DropS, Disown
<1>3. owner[u] \in Path /\ pathS[owner[u]] = "live"
  BY <1>1, <1>2 DEF NoOrphan, TypeOK
<1> QED
  BY <1>2, <1>3 DEF DropS, TypeOK

\* A path that is rejected again has no segments left.
LEMMA NoOrphanReject ==
  ASSUME TypeOK, NoOrphan, NEW p \in Path, Reject(p), Unacked' \subseteq Unacked
  PROVE  NoOrphan'
<1> SUFFICES ASSUME NEW u \in Unacked', owner'[u] # None PROVE pathS'[owner'[u]] = "live"
  BY DEF NoOrphan
<1>1. u \in Unit /\ u \in Unacked
  BY DEF Unacked
<1>2. owner'[u] = owner[u] /\ (owner[u] = p => pathS[p] = "dead")
  BY <1>1 DEF Reject, Disown
<1>3. owner[u] \in Path /\ pathS[owner[u]] = "live"
  BY <1>1, <1>2 DEF NoOrphan, TypeOK
<1> QED
  BY <1>2, <1>3 DEF Reject, TypeOK

LEMMA NoOrphanStep == TypeOK /\ NoOrphan /\ [Next]_vars => NoOrphan'
<1> SUFFICES ASSUME TypeOK, NoOrphan, [Next]_vars PROVE NoOrphan'
  OBVIOUS
<1>1. CASE Write
  BY <1>1 DEF Write, NoOrphan, Unacked
<1>2. CASE TrySend
  <2>1. PICK p \in Live(pathS) :
          \/ \E u \in Holes : Commit(u, p) /\ UNCHANGED sentOff
          \/ Commit(sentOff, p) /\ sentOff' = sentOff + 1
    BY <1>2 DEF TrySend
  <2>2. PICK u \in Nat : Commit(u, p) /\ \A v \in Unacked' : v # u => v \in Unacked
    BY <1>2, <2>1 DEF TypeOK, TrySend, Holes, Pool, Unacked, Unit
  <2>3. UNCHANGED pathS /\ pathS[p] = "live"
    BY <1>2 DEF TrySend, Live
  <2>4. ASSUME NEW v \in Unacked' PROVE owner'[v] = None \/ pathS'[owner'[v]] = "live"
    <3>1. v \in Unit
      BY DEF Unacked
    <3>2. CASE v = u
      BY <2>2, <2>3, <3>1, <3>2 DEF Commit, TypeOK
    <3>3. CASE v # u
      BY <2>2, <2>3, <3>1, <3>3 DEF Commit, TypeOK, NoOrphan
    <3> QED
      BY <3>2, <3>3
  <2> QED
    BY <2>4 DEF NoOrphan
<1>3. CASE WriteFrame
  <2>1. pend[1] \in Path /\ Unacked' = Unacked
    BY <1>3 DEF WriteFrame, TypeOK, Unacked
  <2>2. CASE DropS(pend[1])
    BY <2>1, <2>2, NoOrphanDrop
  <2>3. CASE UNCHANGED <<pathS, owner>>
    BY <2>1, <2>3 DEF NoOrphan
  <2> QED
    BY <1>3, <2>2, <2>3 DEF WriteFrame
<1>4. CASE SoftFail
  <2>1. \A u \in Unit : owner'[u] \in {owner[u], None}
    BY <1>4 DEF SoftFail
  <2> QED
    BY <1>4, <2>1 DEF SoftFail, NoOrphan, Unacked
<1>5. CASE Read
  BY <1>5 DEF Read, sender, NoOrphan, Unacked
<1>6. ASSUME NEW p \in Path, RecvAck(p) PROVE NoOrphan'
  <2>1. sentOff' = sentOff
    BY <1>6 DEF RecvAck
  <2>2. cumAcked' = cumAcked \/ cumAcked' > cumAcked
    BY <1>6 DEF RecvAck
  <2>3. acks[p] \in Seq(Ack) /\ acks[p] # << >>
    BY <1>6 DEF TypeOK, RecvAck
  <2>4. Head(acks[p]) \in Ack
    BY <2>3
  <2>5. cumAcked' \in Nat /\ cumAcked \in Nat
    BY <1>6, <2>4 DEF RecvAck, TypeOK, Ack
  <2>6. Unacked' \subseteq Unacked
    BY <2>1, <2>2, <2>5 DEF Unacked, Unit
  <2>7. CASE Reject(p)
    BY <2>6, <2>7, NoOrphanReject
  <2>8. CASE UNCHANGED <<pathS, owner>>
    BY <2>6, <2>8 DEF NoOrphan
  <2> QED
    BY <1>6, <2>7, <2>8 DEF RecvAck
<1>7. ASSUME NEW p \in Path, LosePathS(p) PROVE NoOrphan'
  BY <1>7, NoOrphanDrop DEF LosePathS, Unacked
<1>8. ASSUME NEW p \in Path, AttachS(p) PROVE NoOrphan'
  BY <1>8 DEF AttachS, NoOrphan, Unacked, TypeOK
<1>9. ASSUME NEW p \in Path, RecvData(p) PROVE NoOrphan'
  BY <1>9 DEF RecvData, sender, NoOrphan, Unacked
<1>10. ASSUME NEW p \in Path, SendAck(p) PROVE NoOrphan'
  BY <1>10 DEF SendAck, sender, NoOrphan, Unacked
<1>11. ASSUME NEW p \in Path, LosePathR(p) \/ AttachR(p) PROVE NoOrphan'
  BY <1>11 DEF LosePathR, AttachR, sender, NoOrphan, Unacked
<1>12. ASSUME NEW c \in Caps, SetCap(c) PROVE NoOrphan'
  BY <1>12 DEF SetCap, sender, NoOrphan, Unacked
<1>13. CASE UNCHANGED vars
  BY <1>13 DEF vars, sender, NoOrphan, Unacked
<1> QED
  BY <1>1, <1>2, <1>3, <1>4, <1>5, <1>6, <1>7, <1>8, <1>9, <1>10, <1>11, <1>12, <1>13
  DEF Next

\* Whenever a path dies, at whatever moment between trySend's commit and the
\* write that follows it outside the lock, every unacknowledged segment is in
\* the resend pool or on a live path.
THEOREM NeverOrphaned == Spec => []NoOrphan
<1>1. Init => TypeOK /\ NoOrphan
  BY TypeInit, NoOrphanInit
<1>2. (TypeOK /\ NoOrphan) /\ [Next]_vars => (TypeOK /\ NoOrphan)'
  BY TypeStep, NoOrphanStep
<1> QED
  BY <1>1, <1>2, PTL DEF Spec

-----------------------------------------------------------------------------
(* What the receiver has granted is kept.                                  *)

\* The ACK the receiver would write now grants no more than it may.
LEMMA AckGranted ==
  ASSUME TypeOK, IInv
  PROVE  next + Advertised <= readOff + MaxCap
<1>1. Cardinality(heap) \in Nat /\ cap \in Nat /\ cap <= MaxCap
  BY FS_CardinalityType, CapNat, CapsAssumption DEF TypeOK
<1>2. next <= readOff + MaxCap
  BY CapsAssumption DEF TypeOK, IInv, OffsetsOrdered, FlowControl
<1> QED
  BY <1>1, <1>2, CapsAssumption DEF TypeOK, Advertised, Size

LEMMA IInvInit == Init => IInv
  BY CapsAssumption DEF Init, IInv, OffsetsOrdered, FlowControl, SentBefore, AcksGranted,
     WindowGranted

\* A step that only forgets frames and leaves both endpoints' counters alone.
LEMMA IInvForget ==
  ASSUME TypeOK, IInv,
         UNCHANGED <<written, sentOff, cumAcked, advWindow, gotWindow, next, heap, readOff>>,
         pend' \in {pend, None},
         \A p \in Path : Elements(data'[p]) \subseteq Elements(data[p]),
         \A p \in Path : Elements(acks'[p]) \subseteq Elements(acks[p])
  PROVE  IInv'
<1>1. OffsetsOrdered' /\ FlowControl' /\ WindowGranted'
  BY DEF IInv, OffsetsOrdered, FlowControl, WindowGranted
<1>2. SentBefore'
  <2>1. ASSUME NEW p \in Path, NEW i \in DOMAIN data'[p] PROVE data'[p][i] < sentOff
    <3>1. PICK j \in DOMAIN data[p] : data'[p][i] = data[p][j]
      BY DEF Elements
    <3> QED
      BY <3>1 DEF IInv, SentBefore
  <2> QED
    BY <2>1 DEF IInv, SentBefore
<1>3. AcksGranted'
  <2>1. ASSUME NEW p \in Path, NEW i \in DOMAIN acks'[p] PROVE Granted(acks[p][i])'
    <3>1. PICK j \in DOMAIN acks[p] : acks'[p][i] = acks[p][j]
      BY DEF Elements
    <3>2. Granted(acks[p][j])
      BY DEF IInv, AcksGranted
    <3> QED
      BY <3>1, <3>2 DEF Granted
  <2> QED
    BY <2>1 DEF AcksGranted
<1> QED
  BY <1>1, <1>2, <1>3 DEF IInv

LEMMA IInvStep == TypeOK /\ IInv /\ [Next]_vars => IInv'
<1> SUFFICES ASSUME TypeOK, IInv, [Next]_vars PROVE IInv'
  OBVIOUS
<1> USE DEF Elements
<1>1. CASE Write
  BY <1>1 DEF Write, receiver, TypeOK, IInv, OffsetsOrdered, FlowControl, SentBefore,
     AcksGranted, Granted, WindowGranted
<1>2. CASE TrySend
  <2>1. PICK p \in Live(pathS) :
          \/ \E u \in Holes : Commit(u, p) /\ UNCHANGED sentOff
          \/ /\ sentOff < written /\ sentOff - cumAcked < advWindow
             /\ Commit(sentOff, p) /\ sentOff' = sentOff + 1
    BY <1>2 DEF TrySend
  <2>2. UNCHANGED <<written, cumAcked, advWindow, gotWindow, next, heap, readOff, data, acks>>
    BY <1>2 DEF TrySend, receiver
  <2>3. gotWindow
    BY <1>2 DEF TrySend
  <2>4. sentOff <= sentOff' /\ sentOff' <= written /\ sentOff' <= readOff + MaxCap
    BY <2>1, <2>3, CapsAssumption
    DEF TypeOK, IInv, OffsetsOrdered, FlowControl, WindowGranted
  <2>5. pend' # None => pend'[2] < sentOff'
    BY <2>1 DEF TypeOK, Commit, Holes, Pool, Unacked
  <2>6. sentOff \in Nat /\ sentOff' \in Nat /\ next \in Nat
    BY <2>1 DEF TypeOK
  <2>7. OffsetsOrdered' /\ FlowControl'
    BY <2>2, <2>4, <2>6 DEF IInv, OffsetsOrdered, FlowControl
  <2>8. SentBefore'
    <3>1. \A x \in Unit : x < sentOff => x < sentOff'
      BY <2>4, <2>6 DEF Unit
    <3>2. \A q \in Path : \A i \in DOMAIN data[q] : data[q][i] \in Unit
      BY DEF TypeOK
    <3>3. \A h \in heap : h[1] \in Unit
      BY DEF TypeOK
    <3> QED
      BY <2>2, <2>5, <3>1, <3>2, <3>3 DEF IInv, SentBefore
  <2> QED
    BY <2>2, <2>7, <2>8 DEF IInv, AcksGranted, Granted, WindowGranted
<1>3. CASE WriteFrame
  <2>1. pend[1] \in Path /\ pend[2] \in Unit /\ pend[2] < sentOff
    BY <1>3 DEF WriteFrame, TypeOK, IInv, SentBefore
  <2>2. UNCHANGED <<written, sentOff, cumAcked, advWindow, gotWindow, next, heap, readOff>>
        /\ pend' = None
    BY <1>3 DEF WriteFrame, receiver
  <2>3. CASE data' = data
    <3>1. \A q \in Path : Elements(acks'[q]) \subseteq Elements(acks[q])
      BY <1>3, <2>1, DropSElements DEF WriteFrame
    <3> QED
      BY <2>2, <2>3, <3>1, IInvForget
  <2>4. CASE data' = [data EXCEPT ![pend[1]] = Append(@, pend[2])] /\ UNCHANGED acks
    <3>1. ASSUME NEW q \in Path, NEW i \in DOMAIN data'[q] PROVE data'[q][i] < sentOff
      <4>1. data[q] \in Seq(Unit) /\ data \in [Path -> Seq(Unit)]
        BY DEF TypeOK
      <4>2. CASE q = pend[1]
        <5>1. data'[q] = Append(data[q], pend[2])
          BY <2>4, <4>1, <4>2
        <5>2. data'[q][i] = pend[2] \/ (i \in DOMAIN data[q] /\ data'[q][i] = data[q][i])
          BY <2>1, <4>1, <5>1, AppendElements
        <5> QED
          BY <2>1, <5>2 DEF IInv, SentBefore
      <4>3. CASE q # pend[1]
        BY <2>4, <4>1, <4>3 DEF IInv, SentBefore
      <4> QED
        BY <4>2, <4>3
    <3>2. SentBefore'
      BY <2>2, <3>1 DEF IInv, SentBefore
    <3> QED
      BY <2>2, <2>4, <3>2
      DEF IInv, OffsetsOrdered, FlowControl, AcksGranted, Granted, WindowGranted
  <2> QED
    BY <1>3, <2>3, <2>4 DEF WriteFrame
<1>4. CASE SoftFail
  BY <1>4, IInvForget DEF SoftFail, receiver
<1>5. CASE Read
  <2>1. readOff' = readOff + 1 /\ readOff < next
    BY <1>5 DEF Read, CanRead
  <2>2. UNCHANGED <<written, sentOff, cumAcked, advWindow, gotWindow, pend, next, heap, data, acks>>
    BY <1>5 DEF Read, sender
  <2>3. OffsetsOrdered' /\ FlowControl' /\ WindowGranted'
    BY <2>1, <2>2, CapsAssumption
    DEF TypeOK, IInv, OffsetsOrdered, FlowControl, WindowGranted
  <2>4. AcksGranted'
    <3>1. ASSUME NEW p \in Path, NEW i \in DOMAIN acks[p] PROVE Granted(acks[p][i])'
      <4>1. acks[p][i] \in Ack /\ Granted(acks[p][i])
        BY DEF TypeOK, IInv, AcksGranted
      <4> QED
        BY <2>1, <2>2, <4>1, CapsAssumption DEF TypeOK, Granted, Ack
    <3> QED
      BY <2>2, <3>1 DEF AcksGranted
  <2> QED
    BY <2>2, <2>3, <2>4 DEF IInv, SentBefore
<1>6. ASSUME NEW p \in Path, RecvAck(p) PROVE IInv'
  <2> DEFINE a == Head(acks[p])
  <2>1. acks[p] \in Seq(Ack) /\ acks[p] # << >> /\ acks \in [Path -> Seq(Ack)]
    BY <1>6 DEF TypeOK, RecvAck
  <2>2. a \in Ack /\ a = acks[p][1] /\ 1 \in DOMAIN acks[p]
    BY <2>1
  <2>3. Granted(a)
    BY <2>2 DEF IInv, AcksGranted
  <2> HIDE DEF a
  <2>4. \/ UNCHANGED <<cumAcked, advWindow, gotWindow>>
        \/ AckValid(a) /\ cumAcked' = a.cum /\ advWindow' = a.win
    <3>1. a.cum \in Nat
      BY <2>2 DEF Ack
    <3>2. CASE ~Stale(a) /\ AckValid(a)
      BY <1>6, <3>1, <3>2 DEF RecvAck, AckValid, TypeOK, a
    <3>3. CASE ~(~Stale(a) /\ AckValid(a))
      BY <1>6, <3>3 DEF RecvAck, TypeOK, a
    <3> QED
      BY <3>2, <3>3
  <2>5. UNCHANGED <<written, sentOff, pend, next, heap, readOff, data>>
    BY <1>6 DEF RecvAck, receiver
  <2>6. OffsetsOrdered' /\ FlowControl' /\ WindowGranted'
    <3>1. CASE UNCHANGED <<cumAcked, advWindow, gotWindow>>
      BY <2>5, <3>1 DEF IInv, OffsetsOrdered, FlowControl, WindowGranted
    <3>2. CASE cumAcked' = a.cum /\ advWindow' = a.win
      <4>1. cumAcked' <= next /\ cumAcked' + advWindow' <= readOff + MaxCap
        BY <2>3, <3>2 DEF Granted
      <4> QED
        BY <2>5, <4>1 DEF IInv, OffsetsOrdered, FlowControl, WindowGranted
    <3> QED
      BY <2>4, <3>1, <3>2
  <2>7. \A q \in Path : Elements(acks'[q]) \subseteq Elements(acks[q])
    <3> HIDE DEF Elements
    <3>1. CASE Reject(p)
      BY <3>1, RejectFacts
    <3>2. CASE acks' = [acks EXCEPT ![p] = Tail(@)]
      <4>1. Tail(acks[p]) \in Seq(Ack) /\ Elements(Tail(acks[p])) \subseteq Elements(acks[p])
        BY <2>1, TailElements DEF Elements
      <4> QED
        BY <2>1, <3>2, <4>1, CutElements
    <3> QED
      BY <1>6, <3>1, <3>2 DEF RecvAck
  <2>8. AcksGranted'
    <3>1. ASSUME NEW q \in Path, NEW i \in DOMAIN acks'[q] PROVE Granted(acks[q][i])'
      <4>1. PICK j \in DOMAIN acks[q] : acks'[q][i] = acks[q][j]
        BY <2>7
      <4>2. Granted(acks[q][j])
        BY DEF IInv, AcksGranted
      <4> QED
        BY <2>5, <4>1, <4>2 DEF Granted
    <3> QED
      BY <3>1 DEF AcksGranted
  <2> QED
    BY <2>5, <2>6, <2>8 DEF IInv, SentBefore
<1>7. ASSUME NEW p \in Path, LosePathS(p) PROVE IInv'
  <2>1. \A q \in Path : Elements(acks'[q]) \subseteq Elements(acks[q])
    BY <1>7, DropSElements DEF LosePathS
  <2> QED
    BY <1>7, <2>1, IInvForget DEF LosePathS, receiver
<1>8. ASSUME NEW p \in Path, AttachS(p) PROVE IInv'
  BY <1>8, IInvForget DEF AttachS, receiver
<1>9. ASSUME NEW p \in Path, RecvData(p) PROVE IInv'
  <2> DEFINE u == Head(data[p])
             H == HeapWith(u)
  <2>1. data[p] \in Seq(Unit) /\ data[p] # << >> /\ data \in [Path -> Seq(Unit)]
    BY <1>9 DEF TypeOK, RecvData
  <2>2. u \in Unit /\ u = data[p][1] /\ 1 \in DOMAIN data[p]
    BY <2>1
  <2>3. u < sentOff
    BY <2>2 DEF IInv, SentBefore
  <2>4. \A h \in H : h[1] \in Unit /\ h[1] < sentOff
    <3>1. ASSUME NEW h \in heap PROVE h[1] \in Unit /\ h[1] < sentOff
      BY DEF TypeOK, IInv, SentBefore
    <3>2. H = heap \/ \E n : H = heap \cup {<<u, n>>}
      BY DEF HeapWith
    <3> QED
      BY <2>2, <2>3, <3>1, <3>2
  <2>5. PICK m \in next .. MaxUnits :
          /\ \A k \in next .. m - 1 : k \in Units(H)
          /\ next' = m /\ heap' = {h \in H : h[1] > m}
    BY <1>9 DEF RecvData
  <2> HIDE DEF u, H
  <2>6. UNCHANGED <<written, sentOff, cumAcked, advWindow, gotWindow, pend, readOff, acks>>
    BY <1>9 DEF RecvData, sender
  <2>7. next <= next' /\ next' <= sentOff /\ next' \in Nat
    <3>1. CASE m = next
      BY <2>5, <3>1 DEF TypeOK, IInv, OffsetsOrdered
    <3>2. CASE m > next
      <4>1. m - 1 \in Units(H) /\ m \in Nat
        <5>1. m \in Nat /\ m - 1 \in next .. m - 1
          BY <2>5, <3>2, BoundsAssumption DEF TypeOK
        <5> QED
          BY <2>5, <5>1
      <4>2. PICK h \in H : h[1] = m - 1
        BY <4>1 DEF Units
      <4> QED
        BY <2>4, <2>5, <3>2, <4>1, <4>2 DEF TypeOK
    <3> QED
      BY <2>5, <3>1, <3>2 DEF TypeOK
  <2>8. OffsetsOrdered' /\ FlowControl' /\ WindowGranted'
    BY <2>6, <2>7 DEF TypeOK, IInv, OffsetsOrdered, FlowControl, WindowGranted
  <2>9. AcksGranted'
    <3>1. ASSUME NEW q \in Path, NEW i \in DOMAIN acks[q] PROVE Granted(acks[q][i])'
      <4>1. acks[q][i] \in Ack /\ Granted(acks[q][i])
        BY DEF TypeOK, IInv, AcksGranted
      <4> QED
        BY <2>6, <2>7, <4>1 DEF TypeOK, Granted, Ack
    <3> QED
      BY <2>6, <3>1 DEF AcksGranted
  <2>10. \A q \in Path : Elements(data'[q]) \subseteq Elements(data[q])
    BY <1>9, RecvDataElements
  <2>11. SentBefore'
    <3>1. ASSUME NEW q \in Path, NEW i \in DOMAIN data'[q] PROVE data'[q][i] < sentOff
      <4>1. PICK j \in DOMAIN data[q] : data'[q][i] = data[q][j]
        BY <2>10
      <4> QED
        BY <4>1 DEF IInv, SentBefore
    <3>2. \A h \in heap' : h[1] < sentOff
      BY <2>4, <2>5
    <3> QED
      BY <2>6, <3>1, <3>2 DEF IInv, SentBefore
  <2> QED
    BY <2>8, <2>9, <2>11 DEF IInv
<1>10. ASSUME NEW p \in Path, SendAck(p) PROVE IInv'
  <2> DEFINE a == [seq |-> ackSeq, cum |-> next, win |-> Advertised, rng |-> Reported]
  <2>1. UNCHANGED <<written, sentOff, cumAcked, advWindow, gotWindow, pend, next, heap, readOff>>
    BY <1>10 DEF SendAck, sender
  <2>2. CASE UNCHANGED acks
    <3>1. \A q \in Path : Elements(data'[q]) \subseteq Elements(data[q])
      BY <1>10, LoseRElements DEF SendAck
    <3> QED
      BY <2>1, <2>2, <3>1, IInvForget
  <2>3. CASE acks' = [acks EXCEPT ![p] = Append(@, a)] /\ UNCHANGED data
    <3>1. a \in Ack /\ Granted(a)
      <4>1. a.cum = next /\ a.win = Advertised /\ next <= next
        BY DEF TypeOK
      <4> QED
        BY AckType, AckGranted, <4>1 DEF Granted
    <3> HIDE DEF a
    <3>2. ASSUME NEW q \in Path, NEW i \in DOMAIN acks'[q] PROVE Granted(acks[q][i])'
      <4>1. acks[q] \in Seq(Ack) /\ acks \in [Path -> Seq(Ack)]
        BY DEF TypeOK
      <4>2. acks'[q][i] = a \/ (i \in DOMAIN acks[q] /\ acks'[q][i] = acks[q][i])
        <5>1. CASE q = p
          <6>1. acks'[q] = Append(acks[q], a)
            BY <2>3, <4>1, <5>1
          <6> QED
            BY <3>1, <4>1, <6>1, AppendElements
        <5>2. CASE q # p
          BY <2>3, <4>1, <5>2
        <5> QED
          BY <5>1, <5>2
      <4> QED
        BY <2>1, <3>1, <4>2 DEF IInv, AcksGranted, Granted
    <3>3. AcksGranted'
      BY <3>2 DEF AcksGranted
    <3> QED
      BY <2>1, <2>3, <3>3
      DEF IInv, OffsetsOrdered, FlowControl, SentBefore, WindowGranted
  <2> QED
    BY <1>10, <2>2, <2>3 DEF SendAck
<1>11. ASSUME NEW p \in Path, LosePathR(p) PROVE IInv'
  <2>1. \A q \in Path : Elements(data'[q]) \subseteq Elements(data[q])
    BY <1>11, LoseRElements DEF LosePathR
  <2> QED
    BY <1>11, <2>1, IInvForget DEF LosePathR, sender
<1>12. ASSUME NEW p \in Path, AttachR(p) PROVE IInv'
  BY <1>12, IInvForget DEF AttachR, sender
<1>13. ASSUME NEW c \in Caps, SetCap(c) PROVE IInv'
  BY <1>13, IInvForget DEF SetCap, sender
<1>14. CASE UNCHANGED vars
  BY <1>14, IInvForget DEF vars, sender, receiver
<1> QED
  BY <1>1, <1>2, <1>3, <1>4, <1>5, <1>6, <1>7, <1>8, <1>9, <1>10, <1>11, <1>12, <1>13,
     <1>14 DEF Next

LEMMA Invariance == Spec => [](TypeOK /\ IInv)
<1>1. Init => TypeOK /\ IInv
  BY TypeInit, IInvInit
<1>2. (TypeOK /\ IInv) /\ [Next]_vars => (TypeOK /\ IInv)'
  BY TypeStep, IInvStep
<1> QED
  BY <1>1, <1>2, PTL DEF Spec

\* Reader, receiver, sender and writer never overtake each other, for any
\* number of paths and any order in which ACKs and frames arrive.
THEOREM OffsetsStayOrdered == Spec => []OffsetsOrdered
  BY Invariance, PTL DEF IInv

\* The sender keeps to the largest capacity the receiver can have, although
\* the capacity changes while grants are under way in ACKs that overtake each
\* other.
THEOREM FlowIsControlled == Spec => []FlowControl
  BY Invariance, PTL DEF IInv

-----------------------------------------------------------------------------
(* What the ACKs report is so, and the newest one decides.                 *)

LEMMA UnderWayType == TypeOK => UnderWay \subseteq Ack
  BY DEF TypeOK, UnderWay

\* UnderWay after a step, path by path.
LEMMA UnderWaySub ==
  ASSUME \A p \in Path : Elements(acks'[p]) \subseteq Elements(acks[p])
  PROVE  UnderWay' \subseteq UnderWay
<1> SUFFICES ASSUME NEW a \in UnderWay' PROVE a \in UnderWay
  OBVIOUS
<1>1. PICK p \in Path : \E i \in DOMAIN acks'[p] : a = acks'[p][i]
  BY DEF UnderWay
<1>2. a \in Elements(acks[p])
  BY <1>1 DEF Elements
<1> QED
  BY <1>2 DEF Elements, UnderWay

\* Dropping a path loses the ACKs under way on it.
LEMMA UnderWayDropS ==
  ASSUME TypeOK, NEW p \in Path, DropS(p)
  PROVE  UnderWay' \subseteq UnderWay
  BY DropSElements, UnderWaySub

LEMMA SackInit == Init => SackInv
<1> SUFFICES ASSUME Init PROVE SackInv
  OBVIOUS
<1>1. UnderWay = {}
  BY DEF Init, UnderWay
<1> QED
  BY <1>1 DEF Init, SackInv, SackedIsHeld, LatestViewKept, HeapAbove, AcksOrdered, NewestKnown

\* A step after which no ACK is new, what was held is held, and the sender's
\* picture of the receiver is the same.
LEMMA SackKeep ==
  ASSUME TypeOK, SackInv, TypeOK',
         UnderWay' \subseteq UnderWay, Held \subseteq Held', HeapAbove',
         sentOff <= sentOff', ackSeq <= ackSeq', sacked' \subseteq sacked \cup peerRanges,
         UNCHANGED <<cumAcked, advWindow, peerSeq, peerRanges, lastAck, sawLast>>
  PROVE  SackInv'
<1>1. SackedIsHeld' /\ LatestViewKept' /\ peerRanges' \subseteq Held'
  BY DEF SackInv, SackedIsHeld, LatestViewKept
<1>2. UnderWay \subseteq Ack
  BY UnderWayType
<1>3. AcksOrdered'
  <2>1. ASSUME NEW a \in UnderWay' PROVE Reports(a)'
    <3>1. Reports(a) /\ a.rng \subseteq Unit
      BY <1>2 DEF SackInv, AcksOrdered, Ack
    <3>n. sentOff \in Nat /\ sentOff' \in Nat
      BY DEF TypeOK
    <3>2. \A u \in Unit : u < sentOff => u < sentOff'
      BY <3>n, BoundsAssumption DEF Unit
    <3> QED
      BY <3>1, <3>2 DEF Reports
  <2> QED
    BY <2>1 DEF SackInv, AcksOrdered
<1>4. NewestKnown'
  <2>1. ackSeq \in Nat /\ ackSeq' \in Nat
    BY DEF TypeOK
  <2>2. ASSUME NEW a \in UnderWay'
        PROVE  a.seq < ackSeq' /\ (a.seq < lastAck'.seq \/ a = lastAck')
    <3>1. a.seq \in Nat
      BY <1>2 DEF Ack
    <3>2. a.seq < ackSeq /\ (a.seq < lastAck.seq \/ a = lastAck)
      BY DEF SackInv, NewestKnown
    <3> QED
      BY <2>1, <3>1, <3>2
  <2> QED
    BY <2>2 DEF SackInv, NewestKnown
<1> QED
  BY <1>1, <1>3, <1>4 DEF SackInv

\* The units the receiver holds are in order or in its heap.
LEMMA HeldKept ==
  ASSUME TypeOK, UNCHANGED <<next, heap>>
  PROVE  Held' = Held /\ (HeapAbove => HeapAbove')
  BY DEF Held, HeapAbove, Units

\* The SACK ranges of a new ACK name units that are held, beyond the hole.
LEMMA ReportedHeld ==
  ASSUME TypeOK, IInv, SackInv, NEW u \in Reported
  PROVE  u \in Held /\ next < u /\ u < sentOff
<1>1. u \in Units(heap)
  BY DEF Reported
<1>2. PICK h \in heap : h[1] = u
  BY <1>1 DEF Units
<1> QED
  BY <1>1, <1>2 DEF Held, TypeOK, IInv, SentBefore, SackInv, HeapAbove

LEMMA SackStep == TypeOK /\ IInv /\ SackInv /\ [Next]_vars => SackInv'
<1> SUFFICES ASSUME TypeOK, IInv, SackInv, [Next]_vars PROVE SackInv'
  OBVIOUS
<1>0. TypeOK' /\ HeapAbove
  BY TypeStep DEF SackInv
<1>n. sentOff \in Nat /\ ackSeq \in Nat /\ sentOff <= sentOff /\ ackSeq <= ackSeq
  BY DEF TypeOK
<1>1. CASE Write
  <2>1. UnderWay' = UnderWay
    BY <1>1 DEF Write, UnderWay
  <2> QED
    BY <1>0, <1>1, <1>n, <2>1, HeldKept, SackKeep DEF Write, receiver, history
<1>2. CASE TrySend
  <2>1. UnderWay' = UnderWay
    BY <1>2 DEF TrySend, UnderWay
  <2>2. sacked' \subseteq sacked \cup peerRanges
    BY <1>2 DEF TrySend, MarkedOnTheWay, Covered
  <2>3. sentOff <= sentOff'
    <3>1. sentOff' \in {sentOff, sentOff + 1}
      BY <1>2 DEF TrySend
    <3> QED
      BY <1>n, <3>1
  <2> QED
    BY <1>0, <1>2, <1>n, <2>1, <2>2, <2>3, HeldKept, SackKeep DEF TrySend, receiver, history
<1>3. CASE WriteFrame
  <2>1. pend[1] \in Path
    BY <1>3 DEF WriteFrame, TypeOK
  <2>2. UnderWay' \subseteq UnderWay
    <3>1. CASE DropS(pend[1])
      BY <2>1, <3>1, UnderWayDropS
    <3>2. CASE UNCHANGED acks
      BY <3>2 DEF UnderWay
    <3> QED
      BY <1>3, <3>1, <3>2 DEF WriteFrame
  <2> QED
    BY <1>0, <1>3, <1>n, <2>2, HeldKept, SackKeep DEF WriteFrame, receiver, history
<1>4. CASE SoftFail
  <2>1. UnderWay' = UnderWay
    BY <1>4 DEF SoftFail, UnderWay
  <2>2. sacked' \subseteq sacked \cup peerRanges
    BY <1>4 DEF SoftFail, Covered
  <2> QED
    BY <1>0, <1>4, <1>n, <2>1, <2>2, HeldKept, SackKeep DEF SoftFail, receiver, history
<1>5. CASE Read
  <2>1. UnderWay' = UnderWay
    BY <1>5 DEF Read, UnderWay
  <2> QED
    BY <1>0, <1>5, <1>n, <2>1, HeldKept, SackKeep DEF Read, sender, history
<1>6. ASSUME NEW p \in Path, RecvAck(p) PROVE SackInv'
  <2> DEFINE a == Head(acks[p])
  <2>1. acks[p] \in Seq(Ack) /\ acks[p] # << >> /\ acks \in [Path -> Seq(Ack)]
    BY <1>6 DEF TypeOK, RecvAck
  <2>2. a \in Ack /\ a \in UnderWay
    BY <2>1 DEF UnderWay
  <2>3. UnderWay' \subseteq UnderWay
    <3>1. CASE Reject(p)
      BY <3>1, RejectFacts, UnderWaySub
    <3>2. CASE acks' = [acks EXCEPT ![p] = Tail(@)]
      <4>1. ASSUME NEW q \in Path PROVE Elements(acks'[q]) \subseteq Elements(acks[q])
        <5>1. acks'[q] = acks[q] \/ (q = p /\ acks'[q] = Tail(acks[p]))
          BY <2>1, <3>2
        <5>2. Elements(Tail(acks[p])) \subseteq Elements(acks[p])
          BY <2>1, TailElements DEF Elements
        <5> QED
          BY <5>1, <5>2
      <4> QED
        BY <4>1, UnderWaySub
    <3> QED
      BY <1>6, <3>1, <3>2 DEF RecvAck
  <2>4. UNCHANGED <<sentOff, sacked, receiver, lastAck>>
    BY <1>6 DEF RecvAck
  <2>5. Held' = Held /\ HeapAbove' /\ ackSeq' = ackSeq
    BY <1>0, <2>4, HeldKept DEF receiver
  <2>6. a.seq \in Nat /\ a.cum \in Nat /\ a.win \in Nat /\ a.rng \subseteq Unit
    BY <2>2 DEF Ack
  <2> HIDE DEF a
  <2>7. CASE ~Stale(a) /\ AckValid(a)
    <3>1. /\ cumAcked' = a.cum /\ advWindow' = a.win /\ peerRanges' = a.rng
          /\ peerSeq' = a.seq + 1
          /\ sawLast' = (sawLast \/ a.seq = lastAck.seq)
      BY <1>6, <2>6, <2>7 DEF RecvAck, AckValid, TypeOK, a
    <3>2. a.seq < ackSeq /\ (a.seq < lastAck.seq \/ a = lastAck)
      BY <2>2 DEF SackInv, NewestKnown
    <3>3. ~sawLast
      BY <2>6, <2>7, <3>2 DEF SackInv, NewestKnown, Stale, TypeOK, Ack
    <3>4. sawLast' => a = lastAck
      BY <2>6, <3>1, <3>2, <3>3 DEF TypeOK, Ack
    <3>5. LatestViewKept' /\ NewestKnown'
      BY <2>3, <2>4, <2>5, <3>1, <3>4 DEF LatestViewKept, SackInv, NewestKnown
    <3>6. AcksOrdered'
      <4>1. ASSUME NEW b \in UnderWay', peerSeq' <= b.seq PROVE cumAcked' <= b.cum
        <5>1. b \in UnderWay /\ b.seq \in Nat
          BY <2>3, UnderWayType DEF Ack
        <5>2. a.seq < b.seq
          BY <2>6, <3>1, <4>1, <5>1
        <5> QED
          BY <2>2, <3>1, <5>1, <5>2 DEF SackInv, AcksOrdered
      <4>2. ASSUME NEW b \in UnderWay' PROVE Reports(b)'
        BY <2>3, <2>4, <2>5 DEF SackInv, AcksOrdered, Reports
      <4>3. \A b, c \in UnderWay' : b.seq < c.seq => b.cum <= c.cum
        BY <2>3 DEF SackInv, AcksOrdered
      <4> QED
        BY <4>1, <4>2, <4>3 DEF AcksOrdered
    <3>7. peerRanges' \subseteq Held' /\ SackedIsHeld'
      BY <2>2, <2>4, <2>5, <3>1 DEF SackInv, AcksOrdered, Reports, SackedIsHeld
    <3> QED
      BY <2>5, <3>5, <3>6, <3>7 DEF SackInv
  <2>8. CASE ~(~Stale(a) /\ AckValid(a))
    <3>1. UNCHANGED <<cumAcked, advWindow, peerSeq, peerRanges, sawLast>>
      BY <1>6, <2>8 DEF RecvAck, TypeOK, a
    <3> QED
      BY <1>0, <1>n, <2>3, <2>4, <2>5, <3>1, SackKeep
  <2> QED
    BY <2>7, <2>8
<1>7. ASSUME NEW p \in Path, LosePathS(p) PROVE SackInv'
  <2>1. UnderWay' \subseteq UnderWay
    BY <1>7, UnderWayDropS DEF LosePathS
  <2> QED
    BY <1>0, <1>7, <1>n, <2>1, HeldKept, SackKeep DEF LosePathS, receiver, history
<1>8. ASSUME NEW p \in Path, AttachS(p) PROVE SackInv'
  <2>1. UnderWay' = UnderWay
    BY <1>8 DEF AttachS, UnderWay
  <2> QED
    BY <1>0, <1>8, <1>n, <2>1, HeldKept, SackKeep DEF AttachS, receiver, history
<1>9. ASSUME NEW p \in Path, RecvData(p) PROVE SackInv'
  <2> DEFINE u == Head(data[p])
             H == HeapWith(u)
  <2>1. u \in Unit
    BY <1>9 DEF TypeOK, RecvData
  <2>2. H \subseteq Unit \X Nat /\ heap \subseteq H
    BY <2>1, HeapWithType DEF HeapWith
  <2>3. PICK m \in next .. MaxUnits :
          m \notin Units(H) /\ next' = m /\ heap' = {h \in H : h[1] > m}
    BY <1>9 DEF RecvData
  <2> HIDE DEF u, H
  <2>4. m \in Nat /\ next <= m
    BY <2>3, BoundsAssumption DEF TypeOK
  <2>5. HeapAbove'
    <3>1. ASSUME NEW h \in heap' PROVE next' < h[1]
      BY <2>2, <2>3, <2>4
    <3> QED
      BY <3>1 DEF HeapAbove
  <2>6. ASSUME NEW v \in Held PROVE v \in Held'
    <3>0. v \in Unit
      BY DEF Held, Units, TypeOK
    <3>1. CASE v < m
      BY <2>3, <3>0, <3>1 DEF Held
    <3>2. CASE ~(v < m)
      <4>1. v \in Units(heap)
        BY <2>4, <3>0, <3>2 DEF Held, TypeOK, Unit
      <4>2. PICK h \in heap : h[1] = v
        BY <4>1 DEF Units
      <4>3. v # m
        BY <2>2, <2>3, <4>2 DEF Units
      <4>4. h \in heap'
        BY <2>2, <2>3, <2>4, <3>0, <3>2, <4>2, <4>3 DEF Unit
      <4> QED
        BY <4>2, <4>4 DEF Held, Units
    <3> QED
      BY <3>1, <3>2
  <2>7. UnderWay' = UnderWay
    BY <1>9 DEF RecvData, UnderWay
  <2> QED
    BY <1>0, <1>9, <1>n, <2>5, <2>6, <2>7, SackKeep DEF RecvData, sender, history
<1>10. ASSUME NEW p \in Path, SendAck(p) PROVE SackInv'
  <2>0. PICK a \in Ack : a = [seq |-> ackSeq, cum |-> next, win |-> Advertised, rng |-> Reported]
    BY AckType
  <2>1. ackSeq' = ackSeq + 1 /\ UNCHANGED <<next, heap, readOff, cap, torn, sender>>
    BY <1>10 DEF SendAck
  <2>2. Held' = Held /\ HeapAbove'
    BY <1>0, <2>1, HeldKept
  <2>3. CASE UNCHANGED <<acks, history>>
    <3>1. UnderWay' = UnderWay /\ ackSeq <= ackSeq'
      BY <1>n, <2>1, <2>3 DEF UnderWay
    <3> QED
      BY <1>0, <1>n, <2>1, <2>2, <2>3, <3>1, SackKeep DEF sender, history
  <2>4. CASE /\ acks' = IF pathS[p] = "dead" THEN acks ELSE [acks EXCEPT ![p] = Append(@, a)]
             /\ lastAck' = a /\ sawLast' = FALSE
    <3>2. a.seq = ackSeq /\ a.cum = next /\ a.rng = Reported
      BY <2>0
    <3>3. ASSUME NEW b \in UnderWay' PROVE b = a \/ b \in UnderWay
      <4>1a. PICK q \in Path : \E i \in DOMAIN acks'[q] : b = acks'[q][i]
        BY DEF UnderWay
      <4>1. PICK i \in DOMAIN acks'[q] : b = acks'[q][i]
        BY <4>1a
      <4>2. acks[q] \in Seq(Ack) /\ acks \in [Path -> Seq(Ack)]
        BY DEF TypeOK
      <4>3. acks'[q] \in {acks[q], Append(acks[q], a)}
        BY <2>4, <4>2
      <4>4. b = a \/ (i \in DOMAIN acks[q] /\ b = acks[q][i])
        <5>1. CASE acks'[q] = acks[q]
          BY <4>1, <5>1
        <5>2. CASE acks'[q] = Append(acks[q], a)
          BY <4>1, <4>2, <5>2, AppendElements
        <5> QED
          BY <4>3, <5>1, <5>2
      <4> QED
        BY <4>4 DEF UnderWay
    <3>4. ASSUME NEW b \in UnderWay PROVE b \in Ack /\ b.seq < ackSeq /\ b.cum <= next
      <4>1. b \in Ack /\ b.seq < ackSeq
        BY UnderWayType DEF SackInv, NewestKnown
      <4>2. PICK q \in Path : \E i \in DOMAIN acks[q] : b = acks[q][i]
        BY DEF UnderWay
      <4>3. b.cum <= next
        BY <4>2 DEF IInv, AcksGranted, Granted
      <4> QED
        BY <4>1, <4>3
    <3>5. UNCHANGED <<cumAcked, peerSeq, peerRanges, sacked, sentOff>>
      BY <2>1 DEF sender
    <3>6. AcksOrdered'
      <4>1. Reports(a)'
        BY <2>2, <3>2, <3>5, ReportedHeld DEF Reports
      <4>2. ASSUME NEW b \in UnderWay PROVE Reports(b)'
        BY <2>2, <3>5 DEF Reports, SackInv, AcksOrdered
      <4>3. cumAcked <= next /\ ackSeq \in Nat /\ next \in Nat
        BY DEF IInv, OffsetsOrdered, TypeOK
      <4>4. ASSUME NEW b \in UnderWay', NEW c \in UnderWay', b.seq < c.seq PROVE b.cum <= c.cum
        <5>1. CASE b \in UnderWay /\ c \in UnderWay
          BY <4>4, <5>1 DEF SackInv, AcksOrdered
        <5>2. CASE b \in UnderWay /\ c = a
          BY <3>2, <3>4, <5>2
        <5>3. CASE b = a
          <6>1. b.seq = ackSeq /\ (c = a \/ (c.seq \in Nat /\ c.seq < ackSeq))
            BY <3>2, <3>3, <3>4, <5>3 DEF Ack
          <6> QED
            BY <3>2, <4>3, <4>4, <5>3, <6>1
        <5> QED
          BY <3>3, <5>1, <5>2, <5>3
      <4>5. ASSUME NEW b \in UnderWay', peerSeq' <= b.seq PROVE cumAcked' <= b.cum
        BY <3>2, <3>3, <3>5, <4>3, <4>5 DEF SackInv, AcksOrdered
      <4>6. \A b \in UnderWay' : Reports(b)'
        BY <3>3, <4>1, <4>2
      <4>7. \A b, c \in UnderWay' : b.seq < c.seq => b.cum <= c.cum
        BY <4>4
      <4>8. \A b \in UnderWay' : peerSeq' <= b.seq => cumAcked' <= b.cum
        BY <4>5
      <4> QED
        BY <4>6, <4>7, <4>8 DEF AcksOrdered
    <3>7. NewestKnown'
      <4>1. ASSUME NEW b \in UnderWay'
            PROVE  b.seq < ackSeq' /\ (b.seq < lastAck'.seq \/ b = lastAck')
        <5>1. CASE b = a
          BY <1>n, <2>1, <2>4, <3>2, <5>1
        <5>2. CASE b \in UnderWay
          <6>1. b.seq \in Nat /\ b.seq < ackSeq
            BY <3>4, <5>2 DEF Ack
          <6> QED
            BY <1>n, <2>1, <2>4, <3>2, <6>1
        <5> QED
          BY <3>3, <5>1, <5>2
      <4> QED
        BY <2>4, <4>1 DEF NewestKnown
    <3> QED
      BY <2>2, <2>4, <3>5, <3>6, <3>7 DEF SackInv, SackedIsHeld, LatestViewKept
  <2> QED
    BY <1>10, <2>0, <2>3, <2>4 DEF SendAck
<1>11. ASSUME NEW p \in Path, LosePathR(p) \/ AttachR(p) PROVE SackInv'
  <2>1. UnderWay' = UnderWay
    BY <1>11 DEF LosePathR, AttachR, UnderWay
  <2> QED
    BY <1>0, <1>11, <1>n, <2>1, HeldKept, SackKeep DEF LosePathR, AttachR, sender, history
<1>12. ASSUME NEW c \in Caps, SetCap(c) PROVE SackInv'
  <2>1. UnderWay' = UnderWay
    BY <1>12 DEF SetCap, UnderWay
  <2> QED
    BY <1>0, <1>12, <1>n, <2>1, HeldKept, SackKeep DEF SetCap, sender, history
<1>13. CASE UNCHANGED vars
  <2>1. UnderWay' = UnderWay
    BY <1>13 DEF vars, UnderWay
  <2> QED
    BY <1>0, <1>13, <1>n, <2>1, HeldKept, SackKeep DEF vars, sender, receiver, history
<1> QED
  BY <1>1, <1>2, <1>3, <1>4, <1>5, <1>6, <1>7, <1>8, <1>9, <1>10, <1>11, <1>12, <1>13
  DEF Next

LEMMA SackInvariance == Spec => [](TypeOK /\ IInv /\ SackInv)
<1>1. Init => TypeOK /\ IInv /\ SackInv
  BY TypeInit, IInvInit, SackInit
<1>2. (TypeOK /\ IInv /\ SackInv) /\ [Next]_vars => (TypeOK /\ IInv /\ SackInv)'
  BY TypeStep, IInvStep, SackStep
<1> QED
  BY <1>1, <1>2, PTL DEF Spec

\* A segment struck from the resend list is at the receiver for good, whatever
\* has happened since to paths, ACKs and the reorder buffer.
THEOREM SackedStaysHeld == Spec => []SackedIsHeld
  BY SackInvariance, PTL DEF SackInv

\* No older ACK that arrives later turns the sender's view back.
THEOREM LatestViewStays == Spec => []LatestViewKept
  BY SackInvariance, PTL DEF SackInv

\* validateAck rejects an ACK of an honest peer that is not stale only when more
\* than maxAckSeqAdvance sequence numbers separate it from the last one applied:
\* no overtaking of ACKs on different paths makes its cumulative point or its
\* ranges look wrong and so drops a healthy path.
THEOREM HonestAcksPass == Spec => []HonestAckValid
<1>1. TypeOK /\ IInv /\ SackInv => HonestAckValid
  <2> SUFFICES ASSUME TypeOK, IInv, SackInv, NEW p \in Path,
                      NEW i \in DOMAIN acks[p], ~Stale(acks[p][i])
               PROVE  AckValid(acks[p][i]) <=> Advance(acks[p][i]) <= MaxAckAdvance
    BY DEF HonestAckValid
  <2> DEFINE a == acks[p][i]
  <2>2. a \in UnderWay /\ Granted(a)
    BY DEF UnderWay, IInv, AcksGranted
  <2>3. a \in Ack
    BY <2>2, UnderWayType
  <2> HIDE DEF a
  <2>4. peerSeq <= a.seq
    BY <2>3 DEF Stale, a, Ack, TypeOK
  <2>5. cumAcked <= a.cum /\ Reports(a)
    BY <2>2, <2>4 DEF SackInv, AcksOrdered
  <2>6. a.cum <= sentOff
    BY <2>2, <2>3 DEF Granted, IInv, OffsetsOrdered, TypeOK, Ack
  <2>7. AckValid(a) <=> Advance(a) <= MaxAckAdvance
    BY <2>5, <2>6 DEF AckValid, Reports
  <2> QED
    BY <2>7 DEF a
<1> QED
  BY <1>1, SackInvariance, PTL

-----------------------------------------------------------------------------
(* The data plane implements the byte stream.  Write is Put, Read is Get,   *)
(* and every other action is a stuttering step.                             *)

LEMMA RefinesInit == Init => Stream!Init
  BY DEF Init, Stream!Init

LEMMA RefinesStep == TypeOK /\ IInv /\ [Next]_vars => [Stream!Next]_(Stream!vars)
<1> SUFFICES ASSUME TypeOK, IInv, [Next]_vars
             PROVE  Stream!Put \/ Stream!Get \/ UNCHANGED <<written, readOff>>
  BY DEF Stream!Next, Stream!vars
<1>1. CASE Write
  <2>1. written - cumAcked < SendBuf /\ cumAcked <= readOff + MaxCap
    BY <1>1, CapsAssumption DEF Write, Room, TypeOK, IInv, OffsetsOrdered, FlowControl
  <2>2. written - readOff < SendBuf + MaxCap
    BY <2>1, CapsAssumption, BufAssumption, BoundsAssumption DEF TypeOK
  <2>3. written' = written + 1 /\ readOff' = readOff
    BY <1>1 DEF Write, receiver
  <2> QED
    BY <2>2, <2>3 DEF Stream!Put
<1>2. CASE Read
  <2>1. readOff < written
    BY <1>2, BoundsAssumption DEF Read, CanRead, TypeOK, IInv, OffsetsOrdered
  <2>2. readOff' = readOff + 1 /\ written' = written
    BY <1>2 DEF Read, sender
  <2> QED
    BY <2>1, <2>2 DEF Stream!Get
<1>3. CASE TrySend \/ WriteFrame \/ SoftFail
  BY <1>3 DEF TrySend, WriteFrame, SoftFail, receiver
<1>4. ASSUME NEW p \in Path, RecvAck(p) \/ LosePathS(p) \/ AttachS(p)
      PROVE  UNCHANGED <<written, readOff>>
  BY <1>4 DEF RecvAck, LosePathS, AttachS, receiver
<1>5. ASSUME NEW p \in Path, RecvData(p) \/ SendAck(p) \/ LosePathR(p) \/ AttachR(p)
      PROVE  UNCHANGED <<written, readOff>>
  BY <1>5 DEF RecvData, SendAck, LosePathR, AttachR, sender
<1>6. ASSUME NEW c \in Caps, SetCap(c) PROVE UNCHANGED <<written, readOff>>
  BY <1>6 DEF SetCap, sender
<1>7. CASE UNCHANGED vars
  BY <1>7 DEF vars, sender, receiver
<1> QED
  BY <1>1, <1>2, <1>3, <1>4, <1>5, <1>6, <1>7 DEF Next

\* Whatever the paths do, the applications at the two ends see one reliable,
\* ordered stream that buffers at most the send buffer plus the largest
\* reorder buffer.
THEOREM Refinement == Spec => ImplementsByteStream
  BY RefinesInit, RefinesStep, Invariance, PTL DEF Spec, ImplementsByteStream, Stream!Spec
=============================================================================

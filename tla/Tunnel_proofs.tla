--------------------------- MODULE Tunnel_proofs ---------------------------
(***************************************************************************)
(* Proofs about the tunnel, for any bodies, any number of messages and any *)
(* capacity of the frame pump.                                             *)
(***************************************************************************)
EXTENDS Tunnel, FiniteSetTheorems, FunctionTheorems, SequenceTheorems, TLAPS

-----------------------------------------------------------------------------
(* Invariants. *)

Weight(x) == IF x = "DATA" THEN 1 ELSE 0

\* How many of the first n frames of q are DATA.
DataUpTo(q, n) == Cardinality({k \in 1..n : q[k] = "DATA"})
DataIn(q) == DataUpTo(q, Len(q))

NoEnd(q) == \A i \in 1..Len(q) : q[i] # "END"

\* Every END in q comes when all of total DATA frames have been counted.
Counted(q, base, total) ==
  \A i \in 1..Len(q) : q[i] = "END" => base + DataUpTo(q, i) = total

\* An ABORT comes before the frame.
Aborted(q, i) == \E j \in 1..i - 1 : q[j] = "ABORT"

Answered(q, base, total) ==
  \A i \in 1..Len(q) : q[i] = "END" => Aborted(q, i) \/ base + DataUpTo(q, i) = total
Guarded(q) == \A i \in 1..Len(q) : q[i] = "END" => Aborted(q, i)

Whole == \A x \in Ends : ~link.closed[x]

\* A stream has one use.
HTTPPlaces == {"http", "handler", "roundtrip", "stream"}
WSPlaces ==
  {"ws", "wslocal", "wsend", "wsdial", "wsproxy", "upwrite", "upclose", "wswait", "wsabort", "wsdown"}

OneUse ==
  /\ want.kind # "http" => fetch.at = "off" /\ fetch.saw = "more" /\ fetch.upload = "off"
                             /\ serve.body = "more" /\ ~serve.spoilt /\ main \notin HTTPPlaces
  /\ want.kind # "ws" => ws = [e \in Ends |-> NewWS] /\ target = NewTarget
                           /\ main \notin WSPlaces
  /\ want.kind # "raw" => bridging = "off"
  /\ want.kind = "http" /\ main = "none" =>
       /\ fetch = NewFetch /\ serve = NewServe /\ pump = NewPump
       /\ \A e \in Ends : link.wire[e] = <<>>

\* The response: what the client has and what is on its way is what was written,
\* unless the stream was cut; its END comes after all of it.
Final == {"flush", "leave", "gone"}
Receiving == fetch.at \in {"wait", "body"} /\ fetch.saw = "more"

ResponseInv ==
  /\ main \notin Final => ~serve.spoilt
  /\ fetch.saw = "END" => main \in Final /\ fetch.got = serve.wrote /\ ~serve.spoilt
  /\ Receiving =>
       /\ Whole => fetch.got + DataIn(link.wire["server"]) = serve.wrote
       /\ main \notin Final => NoEnd(link.wire["server"])
       /\ serve.spoilt => Guarded(link.wire["server"])
       /\ Answered(link.wire["server"], fetch.got, serve.wrote)

\* The request, through the wire, the hands of the frame pump and its channel.
Before ==
  {"none", "queued", "sniffing", "race", "dialed", "nodial", "headed", "kicking", "open"}
BodyOpen == want.kind = "http" /\ main \in Before \cup HTTPPlaces /\ serve.body = "more"

W == link.wire["client"]
InCh == serve.got + DataIn(pump.ch)
InHand == InCh + DataIn(pump.hand)

Flowing ==
  /\ Whole => InHand + DataIn(W) = fetch.sent
  /\ fetch.upload # "done" => NoEnd(pump.ch) /\ NoEnd(pump.hand) /\ NoEnd(W)
  /\ Counted(pump.ch, serve.got, fetch.sent)
  /\ Counted(pump.hand, InCh, fetch.sent)
  /\ Counted(W, InHand, fetch.sent)

RequestInv ==
  /\ serve.body = "END" => serve.got = fetch.sent /\ fetch.upload = "done"
  /\ BodyOpen => Flowing

\* Who has set closeSent has written WS_CLOSE or is about to.
CloseInv ==
  \A e \in Ends :
    ws[e].closes + (IF ws[e].owes = "CLOSE" THEN 1 ELSE 0)
        + (IF ws[e].closer = "sending" THEN 1 ELSE 0)
      <= (IF ws[e].closeSent THEN 1 ELSE 0)

-----------------------------------------------------------------------------
(* Counting DATA frames. *)

DataAt(q, m, n) == {k \in m..n : q[k] = "DATA"}

LEMMA DataFinite ==
  ASSUME NEW q, NEW m \in Int, NEW n \in Int
  PROVE  IsFiniteSet(DataAt(q, m, n)) /\ Cardinality(DataAt(q, m, n)) \in Nat
<1>1. IsFiniteSet(m..n)
  BY FS_Interval
<1>2. DataAt(q, m, n) \subseteq m..n
  BY DEF DataAt
<1> QED
  BY <1>1, <1>2, FS_Subset, FS_CardinalityType

LEMMA DataUpToNat ==
  ASSUME NEW q, NEW n \in Int
  PROVE  DataUpTo(q, n) \in Nat
<1>1. Cardinality(DataAt(q, 1, n)) \in Nat
  BY DataFinite
<1> QED
  BY <1>1 DEF DataAt, DataUpTo

\* Only the first n frames count.
LEMMA SamePrefix ==
  ASSUME NEW p, NEW q, NEW n \in Nat, \A k \in 1..n : p[k] = q[k]
  PROVE  DataUpTo(p, n) = DataUpTo(q, n)
<1>1. {k \in 1..n : p[k] = "DATA"} = {k \in 1..n : q[k] = "DATA"}
  OBVIOUS
<1> QED
  BY <1>1 DEF DataUpTo

LEMMA DataNone == ASSUME NEW q PROVE DataUpTo(q, 0) = 0
<1>1. {k \in 1..0 : q[k] = "DATA"} = {}
  OBVIOUS
<1> QED
  BY <1>1, FS_EmptySet DEF DataUpTo

LEMMA DataOne == ASSUME NEW q PROVE DataUpTo(q, 1) = Weight(q[1])
<1>1. CASE q[1] = "DATA"
  <2>1. {k \in 1..1 : q[k] = "DATA"} = {1}
    BY <1>1
  <2> QED
    BY <1>1, <2>1, FS_Singleton DEF DataUpTo, Weight
<1>2. CASE q[1] # "DATA"
  <2>1. {k \in 1..1 : q[k] = "DATA"} = {}
    BY <1>2
  <2> QED
    BY <1>2, <2>1, FS_EmptySet DEF DataUpTo, Weight
<1> QED
  BY <1>1, <1>2

\* The first n frames of q stand in p after the first d.
Stands(p, d, q, n) == \A k \in 1..n : p[k + d] = q[k]

LEMMA DataShift ==
  ASSUME NEW p, NEW q, NEW d \in Nat, NEW n \in Nat, Stands(p, d, q, n)
  PROVE  DataUpTo(p, d + n) = DataUpTo(p, d) + DataUpTo(q, n)
<1>0. \A k \in 1..n : p[k + d] = q[k]
  BY DEF Stands
<1> DEFINE A == DataAt(p, 1, d)
           B == DataAt(p, d + 1, d + n)
           C == DataAt(q, 1, n)
           f == [k \in C |-> k + d]
<1>1. DataAt(p, 1, d + n) = A \cup B /\ A \cap B = {}
  BY DEF DataAt
<1>2. IsFiniteSet(A) /\ IsFiniteSet(B) /\ IsFiniteSet(C)
      /\ Cardinality(A) \in Nat /\ Cardinality(B) \in Nat
  BY DataFinite
<1>3. Cardinality(B) = Cardinality(C)
  <2>1. f \in Bijection(C, B)
    <3>1. f \in [C -> B]
      BY <1>0 DEF DataAt
    <3>2. \A x, y \in C : f[x] = f[y] => x = y
      BY DEF DataAt
    <3>3. \A y \in B : \E x \in C : f[x] = y
      <4> SUFFICES ASSUME NEW y \in B PROVE \E x \in C : f[x] = y
        OBVIOUS
      <4>1. y - d \in 1..n /\ (y - d) + d = y
        BY DEF DataAt
      <4>2. q[y - d] = "DATA"
        BY <1>0, <4>1 DEF DataAt
      <4> QED
        BY <4>1, <4>2 DEF DataAt
    <3> QED
      BY <3>1, <3>2, <3>3, Fun_IsBij
  <2>2. ExistsBijection(C, B)
    BY <2>1 DEF ExistsBijection
  <2> HIDE DEF B, C, f
  <2> QED
    BY <1>2, <2>2, FS_Bijection
<1>4. Cardinality(A \cup B) = Cardinality(A) + Cardinality(B)
  <2> HIDE DEF A, B, C, f
  <2>1. Cardinality(A \cap B) = 0
    BY <1>1, FS_EmptySet
  <2>2. Cardinality(A \cup B) = Cardinality(A) + Cardinality(B) - Cardinality(A \cap B)
    BY <1>2, FS_Union
  <2> QED
    BY <1>2, <2>1, <2>2
<1> QED
  BY <1>1, <1>3, <1>4 DEF DataUpTo, DataAt

LEMMA DataInType ==
  ASSUME NEW S, NEW q \in Seq(S)
  PROVE  DataIn(q) \in Nat /\ \A i \in Nat : DataUpTo(q, i) \in Nat
BY DataUpToNat DEF DataIn

-----------------------------------------------------------------------------
(* Frames leave a queue at its head, join it at its end, and a cut keeps the *)
(* beginning.                                                                *)

LEMMA Empty ==
  /\ DataIn(<<>>) = 0 /\ NoEnd(<<>>) /\ Guarded(<<>>)
  /\ \A b, t : Counted(<<>>, b, t) /\ Answered(<<>>, b, t)
BY DataNone DEF DataIn, NoEnd, Guarded, Counted, Answered

LEMMA Single == ASSUME NEW x PROVE DataIn(<<x>>) = Weight(x)
BY DataOne DEF DataIn

LEMMA HeadTail ==
  ASSUME NEW S, NEW q \in Seq(S), q # <<>>
  PROVE  /\ Head(q) \in S /\ Tail(q) \in Seq(S) /\ Len(Tail(q)) = Len(q) - 1 /\ Len(q) \in Nat
         /\ q[1] = Head(q)
         /\ \A k \in 1..Len(Tail(q)) : Tail(q)[k] = q[k + 1]
OBVIOUS

LEMMA DataTail ==
  ASSUME NEW S, NEW q \in Seq(S), q # <<>>
  PROVE  \A n \in 0..Len(Tail(q)) : DataUpTo(q, 1 + n) = Weight(Head(q)) + DataUpTo(Tail(q), n)
<1> SUFFICES ASSUME NEW n \in 0..Len(Tail(q))
             PROVE  DataUpTo(q, 1 + n) = Weight(Head(q)) + DataUpTo(Tail(q), n)
  OBVIOUS
<1>0. n \in Nat /\ 1 \in Nat
  OBVIOUS
<1>1. Stands(q, 1, Tail(q), n)
  BY HeadTail DEF Stands
<1>2. DataUpTo(q, 1 + n) = DataUpTo(q, 1) + DataUpTo(Tail(q), n)
  BY <1>0, <1>1, DataShift
<1>3. DataUpTo(q, 1) = Weight(Head(q))
  BY DataOne, HeadTail
<1> QED
  BY <1>2, <1>3

LEMMA TailFacts ==
  ASSUME NEW S, NEW q \in Seq(S), q # <<>>, NEW b \in Nat
  PROVE  /\ DataIn(q) = Weight(Head(q)) + DataIn(Tail(q))
         /\ NoEnd(q) => NoEnd(Tail(q)) /\ Head(q) # "END"
         /\ \A t : Counted(q, b, t) => Counted(Tail(q), b + Weight(Head(q)), t)
         /\ \A t : Counted(q, b, t) /\ Head(q) = "END" => b = t
         /\ \A t : Answered(q, b, t) /\ Head(q) # "ABORT"
                     => Answered(Tail(q), b + Weight(Head(q)), t)
         /\ \A t : Answered(q, b, t) /\ Head(q) = "END" => b = t
         /\ Guarded(q) => Head(q) # "END"
         /\ Guarded(q) /\ Head(q) # "ABORT" => Guarded(Tail(q))
<1> DEFINE n == Len(Tail(q))
<1>1. /\ n = Len(q) - 1 /\ n \in Nat /\ q[1] = Head(q)
      /\ \A k \in 1..n : Tail(q)[k] = q[k + 1] /\ k + 1 \in 1..Len(q)
  BY HeadTail
<1>2. \A i \in 0..n : DataUpTo(q, 1 + i) = Weight(Head(q)) + DataUpTo(Tail(q), i)
  BY DataTail
<1>3. Weight(Head(q)) \in Nat /\ \A i \in Nat : DataUpTo(Tail(q), i) \in Nat
  BY DataUpToNat DEF Weight
<1>4. DataIn(q) = Weight(Head(q)) + DataIn(Tail(q))
  BY <1>1, <1>2 DEF DataIn
<1>5. NoEnd(q) => NoEnd(Tail(q)) /\ Head(q) # "END"
  BY <1>1 DEF NoEnd
<1>6. ASSUME NEW t, Counted(q, b, t) PROVE Counted(Tail(q), b + Weight(Head(q)), t)
  <2> SUFFICES ASSUME NEW i \in 1..n, Tail(q)[i] = "END"
               PROVE  b + Weight(Head(q)) + DataUpTo(Tail(q), i) = t
    BY DEF Counted
  <2>1. b + DataUpTo(q, i + 1) = t
    BY <1>1, <1>6 DEF Counted
  <2>2. DataUpTo(q, 1 + i) = Weight(Head(q)) + DataUpTo(Tail(q), i) /\ 1 + i = i + 1
    BY <1>1, <1>2
  <2> QED
    BY <1>1, <1>3, <2>1, <2>2
<1>7. \A k \in 1..n : Aborted(q, k + 1) => Aborted(Tail(q), k) \/ Head(q) = "ABORT"
  <2> SUFFICES ASSUME NEW k \in 1..n, NEW j \in 1..k, q[j] = "ABORT", Head(q) # "ABORT"
               PROVE  Aborted(Tail(q), k)
    BY <1>1 DEF Aborted
  <2>1. j # 1 /\ j - 1 \in 1..k - 1 /\ (j - 1) + 1 = j /\ j - 1 \in 1..n
    BY <1>1
  <2> QED
    BY <1>1, <2>1 DEF Aborted
<1>8. ASSUME NEW t, Answered(q, b, t), Head(q) # "ABORT"
      PROVE  Answered(Tail(q), b + Weight(Head(q)), t)
  <2> SUFFICES ASSUME NEW i \in 1..n, Tail(q)[i] = "END", ~Aborted(Tail(q), i)
               PROVE  b + Weight(Head(q)) + DataUpTo(Tail(q), i) = t
    BY DEF Answered
  <2>1. b + DataUpTo(q, i + 1) = t
    BY <1>1, <1>7, <1>8 DEF Answered
  <2>2. DataUpTo(q, 1 + i) = Weight(Head(q)) + DataUpTo(Tail(q), i) /\ 1 + i = i + 1
    BY <1>1, <1>2
  <2> QED
    BY <1>1, <1>3, <2>1, <2>2
<1>9. Guarded(q) /\ Head(q) # "ABORT" => Guarded(Tail(q))
  BY <1>1, <1>7 DEF Guarded
<1>10. ~Aborted(q, 1) /\ 1 \in 1..Len(q)
  BY <1>1 DEF Aborted
<1>11. Head(q) = "END" => b + DataUpTo(q, 1) = b
  BY <1>1, DataOne DEF Weight
<1>12. \A t : Counted(q, b, t) /\ Head(q) = "END" => b = t
  BY <1>1, <1>10, <1>11 DEF Counted
<1>13. \A t : Answered(q, b, t) /\ Head(q) = "END" => b = t
  BY <1>1, <1>10, <1>11 DEF Answered
<1>14. Guarded(q) => Head(q) # "END"
  BY <1>1, <1>10 DEF Guarded
<1> QED
  BY <1>4, <1>5, <1>6, <1>8, <1>9, <1>12, <1>13, <1>14

LEMMA CutFacts ==
  ASSUME NEW S, NEW q \in Seq(S), NEW k \in 0..Len(q)
  PROVE  /\ SubSeq(q, 1, k) \in Seq(S)
         /\ NoEnd(q) => NoEnd(SubSeq(q, 1, k))
         /\ Guarded(q) => Guarded(SubSeq(q, 1, k))
         /\ \A b, t : Counted(q, b, t) => Counted(SubSeq(q, 1, k), b, t)
         /\ \A b, t : Answered(q, b, t) => Answered(SubSeq(q, 1, k), b, t)
<1> DEFINE p == SubSeq(q, 1, k)
<1>1. p \in Seq(S) /\ Len(p) = k /\ \A i \in 1..k : p[i] = q[i] /\ i \in 1..Len(q)
  OBVIOUS
<1> HIDE DEF p
<1>2. \A i \in 1..k : DataUpTo(p, i) = DataUpTo(q, i)
  <2> SUFFICES ASSUME NEW i \in 1..k PROVE DataUpTo(p, i) = DataUpTo(q, i)
    OBVIOUS
  <2>1. i \in Nat /\ \A j \in 1..i : p[j] = q[j]
    BY <1>1
  <2> QED
    BY <2>1, SamePrefix
<1>3. \A i \in 1..k : Aborted(q, i) => Aborted(p, i)
  BY <1>1 DEF Aborted
<1>4. NoEnd(q) => NoEnd(p)
  BY <1>1 DEF NoEnd
<1>5. Guarded(q) => Guarded(p)
  BY <1>1, <1>3 DEF Guarded
<1>6. \A b, t : Counted(q, b, t) => Counted(p, b, t)
  BY <1>1, <1>2 DEF Counted
<1>7. \A b, t : Answered(q, b, t) => Answered(p, b, t)
  BY <1>1, <1>2, <1>3 DEF Answered
<1> QED
  BY <1>1, <1>4, <1>5, <1>6, <1>7 DEF p

LEMMA JoinFacts ==
  ASSUME NEW S, NEW q \in Seq(S), NEW r \in Seq(S), NEW b \in Nat
  PROVE  /\ q \o r \in Seq(S) /\ DataIn(q \o r) = DataIn(q) + DataIn(r)
         /\ NoEnd(q) /\ NoEnd(r) => NoEnd(q \o r)
         /\ Guarded(q) /\ NoEnd(r) => Guarded(q \o r)
         /\ \A t : Counted(q, b, t) /\ Counted(r, b + DataIn(q), t) => Counted(q \o r, b, t)
         /\ \A t : Answered(q, b, t) /\ Answered(r, b + DataIn(q), t) => Answered(q \o r, b, t)
         /\ \A t : Answered(q, b, t) /\ Guarded(q) /\ Guarded(r)
                     => Answered(q \o r, b, t) /\ Guarded(q \o r)
<1> DEFINE p == q \o r
           d == Len(q)
           n == Len(r)
<1>1. /\ p \in Seq(S) /\ Len(p) = d + n /\ d \in Nat /\ n \in Nat /\ d = Len(q) /\ n = Len(r)
      /\ \A i \in 1..d : p[i] = q[i]
      /\ \A i \in 1..n : p[i + d] = r[i]
  OBVIOUS
<1> HIDE DEF p, d, n
<1>2. \A i \in 0..d : DataUpTo(p, i) = DataUpTo(q, i)
  <2> SUFFICES ASSUME NEW i \in 0..d PROVE DataUpTo(p, i) = DataUpTo(q, i)
    OBVIOUS
  <2>1. i \in Nat /\ \A j \in 1..i : p[j] = q[j]
    BY <1>1
  <2> QED
    BY <2>1, SamePrefix
<1>3. \A i \in 0..n : DataUpTo(p, d + i) = DataIn(q) + DataUpTo(r, i)
  <2> SUFFICES ASSUME NEW i \in 0..n PROVE DataUpTo(p, d + i) = DataIn(q) + DataUpTo(r, i)
    OBVIOUS
  <2>0. i \in Nat /\ d \in Nat
    BY <1>1
  <2>1. Stands(p, d, r, i)
    BY <1>1 DEF Stands
  <2>2. DataUpTo(p, d + i) = DataUpTo(p, d) + DataUpTo(r, i)
    BY <2>0, <2>1, DataShift
  <2>3. DataUpTo(p, d) = DataIn(q)
    BY <1>1, <1>2 DEF DataIn
  <2> QED
    BY <2>2, <2>3
<1>4. DataIn(p) = DataIn(q) + DataIn(r)
  BY <1>1, <1>3 DEF DataIn
<1>5. \A i \in 1..Len(p) : i \in 1..d \/ \E j \in 1..n : i = d + j
  <2> SUFFICES ASSUME NEW i \in 1..Len(p), i \notin 1..d PROVE \E j \in 1..n : i = d + j
    OBVIOUS
  <2>1. i - d \in 1..n /\ i = d + (i - d)
    BY <1>1
  <2> QED
    BY <2>1
<1>6. /\ \A i \in 1..d : p[i] = q[i] /\ DataUpTo(p, i) = DataUpTo(q, i)
                          /\ (Aborted(q, i) => Aborted(p, i))
      /\ \A j \in 1..n : p[d + j] = r[j] /\ DataUpTo(p, d + j) = DataIn(q) + DataUpTo(r, j)
                          /\ (Aborted(r, j) => Aborted(p, d + j))
  <2>1. \A j \in 1..n : Aborted(r, j) => Aborted(p, d + j)
    <3> SUFFICES ASSUME NEW j \in 1..n, NEW k \in 1..j - 1, r[k] = "ABORT" PROVE Aborted(p, d + j)
      BY DEF Aborted
    <3>1. k + d \in 1..(d + j) - 1 /\ p[k + d] = r[k]
      BY <1>1
    <3> QED
      BY <3>1 DEF Aborted
  <2>2. \A i \in 1..d : Aborted(q, i) => Aborted(p, i)
    BY <1>1, SMTT(30) DEF Aborted
  <2>3. \A j \in 1..n : p[d + j] = r[j]
    <3>1. \A j \in 1..n : j + d = d + j
      BY <1>1
    <3> QED
      BY <1>1, <3>1, Zenon
  <2> QED
    BY <1>1, <1>2, <1>3, <2>1, <2>2, <2>3
<1>7. DataIn(q) \in Nat /\ \A i \in Nat : DataUpTo(r, i) \in Nat
  BY DataInType
<1>8. \A j \in 1..n : b + DataUpTo(p, d + j) = b + DataIn(q) + DataUpTo(r, j)
  <2> SUFFICES ASSUME NEW j \in 1..n
               PROVE  b + DataUpTo(p, d + j) = b + DataIn(q) + DataUpTo(r, j)
    OBVIOUS
  <2>1. DataUpTo(p, d + j) = DataIn(q) + DataUpTo(r, j)
    BY <1>6
  <2>2. DataIn(q) \in Nat /\ DataUpTo(r, j) \in Nat /\ b \in Nat
    BY <1>1, <1>7
  <2> QED
    BY ONLY <2>1, <2>2
<1>9. NoEnd(q) /\ NoEnd(r) => NoEnd(p)
  BY <1>1, <1>5, <1>6 DEF NoEnd
<1>10. Guarded(q) /\ NoEnd(r) => Guarded(p)
  BY <1>1, <1>5, <1>6 DEF Guarded, NoEnd
<1>11. Guarded(q) /\ Guarded(r) => Guarded(p)
  BY <1>1, <1>5, <1>6 DEF Guarded
<1>12. \A t : Guarded(p) => Answered(p, b, t)
  BY DEF Guarded, Answered
<1>13. \A t : Counted(q, b, t) /\ Counted(r, b + DataIn(q), t) => Counted(p, b, t)
  BY <1>1, <1>5, <1>6, <1>8 DEF Counted
<1>14. ASSUME NEW t, Answered(q, b, t), Answered(r, b + DataIn(q), t) PROVE Answered(p, b, t)
  <2> SUFFICES ASSUME NEW i \in 1..Len(p), p[i] = "END"
               PROVE  Aborted(p, i) \/ b + DataUpTo(p, i) = t
    BY DEF Answered
  <2>1. CASE i \in 1..d
    BY <1>1, <1>6, <1>14, <2>1 DEF Answered
  <2>2. CASE \E j \in 1..n : i = d + j
    BY <1>1, <1>6, <1>8, <1>14, <2>2 DEF Answered
  <2> QED
    BY <1>5, <2>1, <2>2
<1>15. p = q \o r /\ p \in Seq(S)
  BY <1>1 DEF p
<1> QED
  BY <1>4, <1>9, <1>10, <1>11, <1>12, <1>13, <1>14, <1>15

-----------------------------------------------------------------------------
(* What the operations on the stream do to its two directions. *)

Cut(q, r) == \E k \in 0..Len(q) : r = SubSeq(q, 1, k)

LEMMA CutSeq ==
  ASSUME NEW S, NEW q \in Seq(S), NEW r, Cut(q, r)
  PROVE  r \in Seq(S)
BY CutFacts DEF Cut

LEMMA CutAll == ASSUME NEW S, NEW q \in Seq(S) PROVE Cut(q, q) /\ Cut(q, <<>>)
<1>1. Len(q) \in 0..Len(q) /\ 0 \in 0..Len(q)
  OBVIOUS
<1>2. SubSeq(q, 1, Len(q)) = q /\ SubSeq(q, 1, 0) = <<>>
  OBVIOUS
<1> QED
  BY <1>1, <1>2 DEF Cut

LEMMA OtherEnd == ASSUME NEW e \in Ends
                  PROVE  Other(e) \in Ends /\ Other(e) # e /\ Other(Other(e)) = e
                         /\ \A x \in Ends : x # e => x = Other(e)
BY DEF Ends, Other

LEMMA LinkTypes ==
  ASSUME NEW l \in Links
  PROVE  /\ l.wire \in [Ends -> Seq(FrameTypes)] /\ l.closed \in [Ends -> BOOLEAN]
         /\ l.ended \in [Ends -> {"no"} \cup EndTypes]
         /\ \A e \in Ends : l.wire[e] \in Seq(FrameTypes) /\ l.closed[e] \in BOOLEAN
BY DEF Links

LEMMA WrittenFacts ==
  ASSUME NEW l \in Links, NEW e \in Ends, NEW fs \in Seq(FrameTypes)
  PROVE  /\ Written(l, e, fs) \in Links
         /\ Written(l, e, fs).closed = l.closed
         /\ \A x \in Ends : x # e => Written(l, e, fs).wire[x] = l.wire[x]
         /\ (\A x \in Ends : ~l.closed[x]) => Written(l, e, fs).wire[e] = l.wire[e] \o fs
         /\ (\E x \in Ends : l.closed[x]) => Written(l, e, fs).wire[e] = l.wire[e]
<1>1. l.wire[e] \o fs \in Seq(FrameTypes)
  BY LinkTypes
<1> QED
  BY <1>1 DEF Written, Links

LEMMA ConsumedFacts ==
  ASSUME link \in Links, NEW e \in Ends, HasFrame(e)
  PROVE  /\ Consumed(e) \in Links /\ Consumed(e).closed = link.closed
         /\ link.wire[Other(e)] \in Seq(FrameTypes) /\ link.wire[Other(e)] # <<>>
         /\ Consumed(e).wire[Other(e)] = Tail(link.wire[Other(e)])
         /\ Consumed(e).wire[e] = link.wire[e]
         /\ Frame(e) \in FrameTypes /\ Frame(e) = Head(link.wire[Other(e)])
<1>1. Other(e) \in Ends /\ Other(e) # e
  BY OtherEnd
<1>2. link.wire[Other(e)] \in Seq(FrameTypes) /\ link.wire[Other(e)] # <<>>
  BY <1>1, LinkTypes DEF HasFrame
<1>3. Head(link.wire[Other(e)]) \in FrameTypes /\ Tail(link.wire[Other(e)]) \in Seq(FrameTypes)
  BY <1>2, HeadTail
<1> QED
  BY <1>1, <1>2, <1>3 DEF Consumed, Frame, Links

LEMMA ClosingsFacts ==
  ASSUME NEW l \in Links, NEW e \in Ends, NEW m \in Closings(l, e)
  PROVE  /\ m \in Links /\ m.closed[e]
         /\ \A x \in Ends : l.closed[x] => m.closed[x]
         /\ Cut(l.wire[e], m.wire[e])
         /\ \A x \in Ends : x # e => m.wire[x] = l.wire[x]
<1>0. /\ l.wire[e] \in Seq(FrameTypes)
      /\ \A x \in Ends : l.wire[x] \in Seq(FrameTypes) /\ l.closed[x] \in BOOLEAN
  BY LinkTypes
<1>1. CASE l.closed[e]
  <2>1. m = l
    BY <1>1 DEF Closings
  <2> QED
    BY <1>0, <1>1, <2>1, CutAll
<1>2. CASE ~l.closed[e]
  <2>1. PICK k \in 0..Len(l.wire[e]), r \in EndTypes :
          m = ClosedAt(l, e, k, r)
    <3>0. Len(l.wire[e]) \in Nat
      BY <1>0
    <3>1. Len(l.wire[e]) \in 0..Len(l.wire[e]) /\ \A k \in 0..Len(l.wire[e]) - 1 : k \in 0..Len(l.wire[e])
      BY <3>0
    <3> QED
      BY <1>2, <3>1 DEF Closings, EndTypes
  <2>2. SubSeq(l.wire[e], 1, k) \in Seq(FrameTypes)
    BY <1>0
  <2>3. m.wire[e] = SubSeq(l.wire[e], 1, k)
    BY <2>1 DEF Links, ClosedAt
  <2> QED
    BY <2>1, <2>2, <2>3 DEF Links, ClosedAt, EndTypes, Cut
<1> QED
  BY <1>1, <1>2

LEMMA QuitsFacts ==
  ASSUME NEW l \in Links, NEW e \in Ends, NEW m \in Quits(l, e)
  PROVE  /\ m \in Links /\ m.closed[e]
         /\ \A x \in Ends : l.closed[x] => m.closed[x]
         /\ Cut(l.wire[e], m.wire[e])
         /\ m.wire[Other(e)] = <<>>
<1>1. PICK c \in Closings(l, e) : m = [c EXCEPT !.wire[Other(e)] = <<>>]
  BY DEF Quits
<1>2. c \in Links /\ c.closed[e] /\ Cut(l.wire[e], c.wire[e])
      /\ \A x \in Ends : l.closed[x] => c.closed[x]
  BY ClosingsFacts
<1>3. Other(e) \in Ends /\ Other(e) # e /\ <<>> \in Seq(FrameTypes)
  BY OtherEnd
<1>4. m \in Links /\ m.closed = c.closed /\ m.wire[e] = c.wire[e] /\ m.wire[Other(e)] = <<>>
  BY <1>1, <1>2, <1>3 DEF Links
<1> QED
  BY <1>2, <1>4

LEMMA BrokenFacts ==
  ASSUME NEW l \in Links, NEW m \in Broken(l)
  PROVE  /\ m \in Links
         /\ \A x \in Ends : m.closed[x] /\ Cut(l.wire[x], m.wire[x])
<1>0. \A x \in Ends : l.wire[x] \in Seq(FrameTypes) /\ l.ended[x] \in {"no"} \cup EndTypes
  BY LinkTypes
<1>1. PICK lost \in BOOLEAN :
        m = [wire |-> [e \in Ends |-> IF lost THEN <<>> ELSE l.wire[e]],
             ended |-> [e \in Ends |-> IF l.ended[e] = "no" THEN "err" ELSE l.ended[e]],
             closed |-> [e \in Ends |-> TRUE]]
  BY DEF Broken
<1>2. m \in Links
  <2>1. [e \in Ends |-> IF lost THEN <<>> ELSE l.wire[e]] \in [Ends -> Seq(FrameTypes)]
    BY <1>0
  <2>2. [e \in Ends |-> IF l.ended[e] = "no" THEN "err" ELSE l.ended[e]]
          \in [Ends -> {"no"} \cup EndTypes]
    BY <1>0 DEF EndTypes
  <2>3. [e \in Ends |-> TRUE] \in [Ends -> BOOLEAN]
    OBVIOUS
  <2> QED
    BY <1>1, <2>1, <2>2, <2>3 DEF Links
<1>3. \A x \in Ends : m.wire[x] = <<>> \/ m.wire[x] = l.wire[x]
  BY <1>1
<1>4. \A x \in Ends : m.closed[x]
  BY <1>1
<1> QED
  BY <1>0, <1>2, <1>3, <1>4, CutAll

-----------------------------------------------------------------------------
(* Type correctness. *)

Fetches ==
  [at : {"off", "wait", "body", "over"}, got : Nat,
   saw : {"more"} \cup FrameTypes \cup EndTypes, sent : Nat,
   upload : {"off", "on", "done", "failed"}]
Pumps ==
  [on : BOOLEAN, ch : Seq(FrameTypes \cup EndTypes), hand : Seq(FrameTypes \cup EndTypes),
   aborted : BOOLEAN]
Serves ==
  [body : {"more"} \cup FrameTypes \cup EndTypes, got : Nat, header : BOOLEAN, wrote : Nat,
   spoilt : BOOLEAN, ctx : BOOLEAN]
Conns ==
  [at : {"off", "asked", "unanswered", "open", "failed"}, rejecting : BOOLEAN,
   closed : BOOLEAN, closeSent : BOOLEAN, term : BOOLEAN, reader : {"out", "in"},
   owes : {"no", "PONG", "CLOSE", "ABORT"},
   closer : {"no", "start", "sending", "wait", "reading", "aborting", "flush", "done"},
   sent : Nat, closes : Nat]
Targets == [conn : {"none", "open", "closed"}, pump : {"off", "on", "done"}, sent : Nat]

HTTPType == fetch \in Fetches /\ pump \in Pumps /\ serve \in Serves
WSType == ws \in [Ends -> Conns] /\ target \in Targets
CoreType == want \in Uses /\ link \in Links /\ main \in Places /\ cancelled \in [Ends -> BOOLEAN]
TunnelType ==
  /\ run \in [Ends -> {"off", "on", "returned"}]
  /\ active \in [Ends -> [set : SUBSET {"st", "tcp"}, closed : BOOLEAN,
                          closing : SUBSET {"st", "tcp"}]]
  /\ tcp \in [Ends -> {"none", "open", "closed"}]
  /\ sniff \in {"off", "on", "yes", "no", "taken"}
  /\ dial \in {"off", "on", "failed", "reading", "head", "end"}
  /\ reaping \in BOOLEAN /\ bridging \in {"off", "opening", "on", "gone"}

LEMMA TypeParts == TypeOK <=> CoreType /\ HTTPType /\ WSType /\ TunnelType
BY DEF TypeOK, CoreType, HTTPType, WSType, TunnelType, Fetches, Pumps, Serves, Conns, Targets

LEMMA NextTypeParts == CoreType' /\ HTTPType' /\ WSType' /\ TunnelType' => TypeOK'
BY DEF TypeOK, CoreType, HTTPType, WSType, TunnelType, Fetches, Pumps, Serves, Conns, Targets

LEMMA TypeInit == TunnelInit => TypeOK
<1> SUFFICES ASSUME TunnelInit PROVE TypeOK
  OBVIOUS
<1>0. want \in Uses /\ main = "none" /\ link = NewLink /\ cancelled = [e \in Ends |-> FALSE]
  BY DEF TunnelInit, Init
<1>1. CoreType
  <2>1. <<>> \in Seq(FrameTypes)
    OBVIOUS
  <2>2. NewLink \in Links
    BY <2>1 DEF NewLink, Links
  <2> QED
    BY <1>0, <2>2 DEF CoreType, Places
<1>2. HTTPType
  <2>1. <<>> \in Seq(FrameTypes \cup EndTypes)
    OBVIOUS
  <2> QED
    BY <2>1 DEF TunnelInit, Init, HTTPType, NewFetch, NewPump, NewServe, Fetches, Pumps, Serves
<1>3. WSType
  BY DEF TunnelInit, WSInit, WSType, NewWS, NewTarget, Conns, Targets
<1>4. TunnelType
  BY DEF TunnelInit, TunnelType
<1> QED
  BY <1>1, <1>2, <1>3, <1>4, TypeParts

LEMMA FrameSeqs ==
  /\ <<>> \in Seq(FrameTypes)
  /\ \A f \in FrameTypes : <<f>> \in Seq(FrameTypes)
  /\ \A f, g \in FrameTypes : <<f, g>> \in Seq(FrameTypes)
OBVIOUS

LEMMA Types ==
  /\ "client" \in Ends /\ "server" \in Ends /\ Other("client") = "server" /\ Other("server") = "client"
  /\ {"MAGIC", "RAW", "OPEN", "RESULT", "REFUSED", "DATA", "END", "ABORT", "MSG", "PING", "PONG",
      "CLOSE"} \subseteq FrameTypes
  /\ "eof" \in EndTypes /\ "err" \in EndTypes
BY DEF Ends, Other, FrameTypes, EndTypes

\* Writing at an end whose frames are known.
LEMMA WriteType ==
  ASSUME NEW l \in Links, NEW e \in Ends
  PROVE  /\ \A f \in FrameTypes : Written(l, e, <<f>>) \in Links
         /\ \A f, g \in FrameTypes : Written(l, e, <<f, g>>) \in Links
         /\ Written(l, e, <<>>) \in Links
BY FrameSeqs, WrittenFacts

LEMMA ErrorTypes ==
  ASSUME link \in Links, NEW e \in Ends, NEW r \in ReadErrors(e)
  PROVE  r \in EndTypes
<1>1. link.ended[Other(e)] \in {"no"} \cup EndTypes
  BY OtherEnd, LinkTypes
<1> QED
  BY <1>1 DEF ReadErrors, EndTypes

LEMMA HTTPTypeStep ==
  ASSUME TypeOK, HTTPNext, UNCHANGED <<wsVars, tunnelVars>>
  PROVE  TypeOK'
<1>0. /\ link \in Links /\ main \in Places /\ want \in Uses /\ cancelled \in [Ends -> BOOLEAN]
      /\ fetch \in Fetches /\ pump \in Pumps /\ serve \in Serves
  BY TypeParts DEF CoreType, HTTPType
<1> SUFFICES /\ link' \in Links /\ main' \in Places
             /\ fetch' \in Fetches /\ pump' \in Pumps /\ serve' \in Serves
             /\ UNCHANGED <<want, cancelled>>
  <2>1. WSType' /\ TunnelType'
    BY TypeParts DEF wsVars, tunnelVars, WSType, TunnelType
  <2>2. CoreType' /\ HTTPType'
    BY <1>0 DEF CoreType, HTTPType
  <2> QED
    BY <2>1, <2>2, NextTypeParts
<1>1. CASE TunnelFetch
  BY <1>0, <1>1, Types, WriteType DEF TunnelFetch, Fetches, Places
<1>2. CASE Upload
  <2>1. link' \in Links
    <3>1. Written(link, "client", <<"DATA">>) \in Links /\ Written(link, "client", <<"END">>) \in Links
      BY <1>0, Types, WriteType
    <3>2. \A m \in Closings(link, "client") : m \in Links
      BY <1>0, Types, ClosingsFacts
    <3> QED
      BY <1>2, <3>1, <3>2 DEF Upload
  <2> QED
    BY <1>0, <1>2, <2>1 DEF Upload, Fetches
<1>3. CASE ReadResult
  <2>1. link' \in Links
    BY <1>0, <1>3, Types, ConsumedFacts, QuitsFacts DEF ReadResult
  <2> QED
    BY <1>0, <1>3, <2>1 DEF ReadResult, Fetches
<1>4. CASE RespRead
  <2>1. link' \in Links
    BY <1>0, <1>4, Types, ConsumedFacts DEF RespRead
  <2>2. fetch' \in Fetches
    BY <1>0, <1>4, Types, ConsumedFacts, ErrorTypes DEF RespRead, Fetches
  <2> QED
    BY <1>0, <1>4, <2>1, <2>2 DEF RespRead
<1>5. CASE RespClose
  <2>1. link' \in Links
    BY <1>0, <1>5, Types, WriteType, QuitsFacts DEF RespClose
  <2> QED
    BY <1>0, <1>5, <2>1 DEF RespClose, Fetches
<1>6. CASE FetchCancelled
  BY <1>0, <1>6, Types, ClosingsFacts DEF FetchCancelled
<1>7. CASE ServeHTTP
  <2>1. link' \in Links /\ main' \in Places
    BY <1>0, <1>7, Types, WriteType DEF ServeHTTP, Places
  <2> QED
    BY <1>0, <1>7, <2>1 DEF ServeHTTP, Pumps
<1>8. CASE PumpRead
  <2>1. link' \in Links
    BY <1>0, <1>8, Types, ConsumedFacts DEF PumpRead
  <2>2. pump' \in Pumps
    <3>1. \A x \in FrameTypes \cup EndTypes : <<x>> \in Seq(FrameTypes \cup EndTypes)
      OBVIOUS
    <3>2. CASE HasFrame("server") /\ pump' = [pump EXCEPT !.hand = <<Frame("server")>>,
                                                       !.aborted = @ \/ Frame("server") = "ABORT"]
      <4>1. <<Frame("server")>> \in Seq(FrameTypes \cup EndTypes)
        BY <1>0, <3>1, <3>2, Types, ConsumedFacts
      <4> QED
        BY <1>0, <3>2, <4>1 DEF Pumps
    <3>3. ASSUME NEW r \in ReadErrors("server"),
                 pump' = [pump EXCEPT !.hand = <<r>>, !.aborted = TRUE]
          PROVE  pump' \in Pumps
      <4>1. <<r>> \in Seq(FrameTypes \cup EndTypes)
        BY <1>0, <3>1, Types, ErrorTypes
      <4> QED
        BY <1>0, <3>3, <4>1 DEF Pumps
    <3> QED
      BY <1>8, <3>2, <3>3 DEF PumpRead
  <2> QED
    BY <1>0, <1>8, <2>1, <2>2 DEF PumpRead
<1>9. CASE PumpPut
  <2>1. pump.ch \o pump.hand \in Seq(FrameTypes \cup EndTypes) /\ <<>> \in Seq(FrameTypes \cup EndTypes)
    BY <1>0 DEF Pumps
  <2>2. pump' \in Pumps
    BY <1>0, <1>9, <2>1 DEF PumpPut, Pumps
  <2> QED
    BY <1>0, <1>9, <2>2 DEF PumpPut
<1>10. CASE BodyRead
  <2>1. pump.ch # <<>> /\ pump.ch \in Seq(FrameTypes \cup EndTypes)
    BY <1>0, <1>10 DEF BodyRead, Pumps
  <2>2. Tail(pump.ch) \in Seq(FrameTypes \cup EndTypes) /\ Head(pump.ch) \in FrameTypes \cup EndTypes
    BY <2>1, HeadTail
  <2>3. pump' \in Pumps
    BY <1>0, <1>10, <2>2 DEF BodyRead, Pumps
  <2>4. serve' \in Serves
    BY <1>0, <1>10, <2>2 DEF BodyRead, Serves
  <2> QED
    BY <1>0, <1>10, <2>3, <2>4 DEF BodyRead
<1>11. CASE WatchAbort
  <2>1. pump' \in Pumps
    <3>1. CASE UNCHANGED pump
      BY <1>0, <3>1
    <3>2. CASE pump.ch # <<>> /\ pump' = [pump EXCEPT !.ch = Tail(@)]
      <4>1. pump.ch # <<>> /\ pump.ch \in Seq(FrameTypes \cup EndTypes)
        BY <1>0, <3>2 DEF Pumps
      <4>2. Tail(pump.ch) \in Seq(FrameTypes \cup EndTypes)
        BY <4>1, HeadTail
      <4> QED
        BY <1>0, <3>2, <4>2 DEF Pumps
    <3> QED
      BY <1>11, <3>1, <3>2 DEF WatchAbort
  <2> QED
    BY <1>0, <1>11, <2>1 DEF WatchAbort, Serves
<1>12. CASE HandlerWrite
  <2>1. PICK n \in 0..1 :
          /\ link' = Written(link, "server", (IF serve.header THEN <<>> ELSE <<"RESULT">>)
                                             \o (IF n = 1 THEN <<"DATA">> ELSE <<>>))
          /\ serve' = [serve EXCEPT !.header = TRUE, !.wrote = @ + n]
    BY <1>12 DEF HandlerWrite
  <2>2. link' \in Links
    <3>1. (IF serve.header THEN <<>> ELSE <<"RESULT">>) \in Seq(FrameTypes)
      BY Types, FrameSeqs
    <3>2. (IF n = 1 THEN <<"DATA">> ELSE <<>>) \in Seq(FrameTypes)
      BY Types, FrameSeqs
    <3> DEFINE a == IF serve.header THEN <<>> ELSE <<"RESULT">>
               b == IF n = 1 THEN <<"DATA">> ELSE <<>>
    <3>3. a \o b \in Seq(FrameTypes)
      <4>1. a \in Seq(FrameTypes) /\ b \in Seq(FrameTypes)
        BY <3>1, <3>2
      <4> HIDE DEF a, b
      <4> QED
        BY <4>1
    <3> QED
      BY <1>0, <2>1, <3>3, Types, WrittenFacts
  <2> QED
    <3>1. serve' \in Serves
      <4>1. serve.wrote + n \in Nat
        BY <1>0 DEF Serves
      <4> QED
        BY <1>0, <2>1, <4>1 DEF Serves
    <3> QED
      BY <1>0, <1>12, <2>2, <3>1 DEF HandlerWrite
<1>13. CASE HandlerReturns
  <2>1. link' \in Links
    <3>1. (IF serve.header THEN <<>> ELSE <<"RESULT">>) \o <<"END">> \in Seq(FrameTypes)
      BY Types, FrameSeqs
    <3>2. PanicFrames \o <<"END">> \in Seq(FrameTypes)
      BY Types, FrameSeqs DEF PanicFrames
    <3> QED
      <4>1. PICK fs \in Seq(FrameTypes) : link' = Written(link, "server", fs)
        BY <1>13, <3>1, <3>2 DEF HandlerReturns
      <4> QED
        BY <1>0, <4>1, Types, WrittenFacts
  <2> QED
    BY <1>0, <1>13, <2>1 DEF HandlerReturns, Serves, Places
<1>14. CASE ProxyFails
  <2>1. link' \in Links
    BY <1>0, <1>14, Types, WriteType DEF ProxyFails
  <2> QED
    BY <1>0, <1>14, <2>1 DEF ProxyFails, Serves, Places
<1>15. CASE ProxyResult
  <2>1. link' \in Links
    BY <1>0, <1>15, Types, WriteType DEF ProxyResult
  <2> QED
    BY <1>0, <1>15, <2>1 DEF ProxyResult, Serves, Places
<1>16. CASE ProxyData
  <2>1. link' \in Links
    BY <1>0, <1>16, Types, WriteType DEF ProxyData
  <2> QED
    BY <1>0, <1>16, <2>1 DEF ProxyData, Serves
<1>17. CASE ProxyEnds
  <2>1. link' \in Links
    BY <1>0, <1>17, Types, WriteType DEF ProxyEnds
  <2> QED
    BY <1>0, <1>17, <2>1 DEF ProxyEnds, Serves, Places
<1> QED
  BY <1>1, <1>2, <1>3, <1>4, <1>5, <1>6, <1>7, <1>8, <1>9, <1>10, <1>11, <1>12, <1>13, <1>14,
     <1>15, <1>16, <1>17 DEF HTTPNext

LEMMA ConnAt ==
  ASSUME ws \in [Ends -> Conns], NEW e \in Ends, NEW c \in Conns
  PROVE  [ws EXCEPT ![e] = c] \in [Ends -> Conns]
OBVIOUS

LEMMA ConnType ==
  ASSUME ws \in [Ends -> Conns], NEW e \in Ends
  PROVE  /\ ws[e] \in Conns /\ Terminated(ws[e]) \in Conns /\ Claimed(ws[e]) \in Conns
         /\ [Claimed(ws[e]) EXCEPT !.owes = "CLOSE"] \in Conns
         /\ [Terminated(ws[e]) EXCEPT !.closes = @ + 1] \in Conns
<1>1. ws[e] \in Conns
  OBVIOUS
<1>2. /\ [ws[e] EXCEPT !.term = TRUE, !.reader = "out", !.owes = "no"] \in Conns
      /\ [ws[e] EXCEPT !.closeSent = TRUE] \in Conns
  BY <1>1 DEF Conns
<1>3. Terminated(ws[e]) \in Conns /\ Claimed(ws[e]) \in Conns
  BY <1>2 DEF Terminated, Claimed
<1>4. \A c \in Conns : /\ [c EXCEPT !.owes = "CLOSE"] \in Conns
                        /\ [c EXCEPT !.closes = @ + 1] \in Conns
  BY DEF Conns
<1> QED
  BY <1>1, <1>3, <1>4

Closers == {"no", "start", "sending", "wait", "reading", "aborting", "flush", "done"}

LEMMA ConnFields ==
  ASSUME NEW c \in Conns
  PROVE  /\ \A r \in {"out", "in"} : [c EXCEPT !.reader = r] \in Conns
         /\ \A f \in {"no", "PONG", "CLOSE", "ABORT"} : [c EXCEPT !.owes = f] \in Conns
         /\ \A k \in Closers : [c EXCEPT !.closer = k] \in Conns
         /\ \A k \in Closers : [c EXCEPT !.closed = TRUE, !.closer = k] \in Conns
         /\ \A k \in Closers : [c EXCEPT !.closed = TRUE, !.at = "open", !.closer = k] \in Conns
         /\ \A k \in Closers : [c EXCEPT !.rejecting = FALSE, !.closed = TRUE, !.closer = k] \in Conns
         /\ \A k \in Closers : [c EXCEPT !.closeSent = TRUE, !.closer = k] \in Conns
         /\ \A k \in Closers : [c EXCEPT !.closes = @ + 1, !.closer = k] \in Conns
         /\ [c EXCEPT !.at = "open", !.rejecting = TRUE] \in Conns
         /\ [c EXCEPT !.sent = @ + 1] \in Conns
         /\ c.closer \in Closers
<1>1. \A r \in {"out", "in"} : [c EXCEPT !.reader = r] \in Conns
  BY DEF Conns
<1>11. \A f \in {"no", "PONG", "CLOSE", "ABORT"} : [c EXCEPT !.owes = f] \in Conns
  BY DEF Conns
<1>12. \A k \in Closers : [c EXCEPT !.closeSent = TRUE, !.closer = k] \in Conns
  BY DEF Conns, Closers
<1>2. \A k \in Closers : [c EXCEPT !.closer = k] \in Conns
  BY DEF Conns, Closers
<1>3. \A d \in Conns : [d EXCEPT !.closed = TRUE] \in Conns
  BY DEF Conns
<1>4. \A k \in Closers : [c EXCEPT !.closed = TRUE, !.closer = k] \in Conns
  BY DEF Conns, Closers
<1>5. \A k \in Closers : [c EXCEPT !.closed = TRUE, !.at = "open", !.closer = k] \in Conns
  BY DEF Conns, Closers
<1>6. \A k \in Closers : [c EXCEPT !.rejecting = FALSE, !.closed = TRUE, !.closer = k] \in Conns
  BY DEF Conns, Closers
<1>0. c.closes + 1 \in Nat /\ c.sent + 1 \in Nat
  BY DEF Conns
<1>7. \A k \in Closers : [c EXCEPT !.closes = @ + 1, !.closer = k] \in Conns
  BY <1>0 DEF Conns, Closers
<1>8. [c EXCEPT !.at = "open", !.rejecting = TRUE] \in Conns
  BY DEF Conns
<1>10. [c EXCEPT !.sent = @ + 1] \in Conns
  BY <1>0 DEF Conns
<1>9. c.closer \in Closers
  BY DEF Conns, Closers
<1> QED
  BY <1>1, <1>2, <1>4, <1>5, <1>6, <1>7, <1>8, <1>9, <1>10, <1>11, <1>12

LEMMA WSTypeStep ==
  ASSUME TypeOK, WSNext, UNCHANGED <<httpVars, tunnelVars>>
  PROVE  TypeOK'
<1>0. /\ link \in Links /\ main \in Places /\ want \in Uses /\ cancelled \in [Ends -> BOOLEAN]
      /\ ws \in [Ends -> Conns] /\ target \in Targets
  BY TypeParts DEF CoreType, WSType
<1> SUFFICES /\ link' \in Links /\ main' \in Places
             /\ ws' \in [Ends -> Conns] /\ target' \in Targets
             /\ UNCHANGED <<want, cancelled>>
  <2>1. HTTPType' /\ TunnelType'
    BY TypeParts DEF httpVars, tunnelVars, HTTPType, TunnelType
  <2>2. CoreType' /\ WSType'
    BY <1>0 DEF CoreType, WSType
  <2> QED
    BY <2>1, <2>2, NextTypeParts
<1>1. CASE TunnelWS
  <2>1. link' \in Links
    BY <1>0, <1>1, Types, WriteType DEF TunnelWS
  <2> QED
    BY <1>0, <1>1, <2>1, Types DEF TunnelWS, Conns, Places
<1>2. CASE WSReadResult
  <2>1. link' \in Links
    BY <1>0, <1>2, Types, ConsumedFacts, QuitsFacts DEF WSReadResult
  <2>2. PICK a \in {"open", "failed"} : ws' = [ws EXCEPT !["client"].at = a]
    BY <1>2 DEF WSReadResult
  <2>3. [ws["client"] EXCEPT !.at = a] \in Conns
    BY <1>0, Types DEF Conns
  <2>4. ws' = [ws EXCEPT !["client"] = [ws["client"] EXCEPT !.at = a]]
    BY <1>0, <2>2, Types
  <2>5. ws' \in [Ends -> Conns]
    BY <1>0, <2>3, <2>4, ConnAt, Types
  <2> QED
    BY <1>0, <1>2, <2>1, <2>5 DEF WSReadResult
<1>3. CASE WSCancelled
  <2>1. link' \in Links
    BY <1>0, <1>3, Types, ClosingsFacts DEF WSCancelled
  <2> QED
    BY <1>0, <1>3, <2>1, Types DEF WSCancelled, Conns, Places
<1>4. CASE ServeWS
  <2>1. link' \in Links
    BY <1>0, <1>4, Types, WriteType DEF ServeWS
  <2> QED
    BY <1>0, <1>4, <2>1, Types DEF ServeWS, Conns, Places
<1>5. CASE WSAccept
  <2>1. link' \in Links
    BY <1>0, <1>5, Types, WriteType DEF WSAccept
  <2> QED
    BY <1>0, <1>5, <2>1, Types DEF WSAccept, Conns, Places
<1>6. CASE WSReject
  <2>1. link' \in Links
    BY <1>0, <1>6, Types DEF WSReject
  <2> QED
    <3>1. \E c \in Conns : ws' = [ws EXCEPT !["server"] = c]
      BY <1>0, <1>6, Types, ConnType, ConnFields, Zenon DEF WSReject, Closers
    <3> QED
      BY <1>0, <1>6, <2>1, <3>1, Types, ConnAt, Zenon DEF WSReject
<1>7. CASE WSRejectWrites
  <2>1. link' \in Links
    BY <1>0, <1>7, Types, WriteType DEF WSRejectWrites
  <2> QED
    <3>1. \E c \in Conns : ws' = [ws EXCEPT !["server"] = c]
      BY <1>0, <1>7, Types, ConnType, ConnFields, Zenon DEF WSRejectWrites, Closers
    <3> QED
      BY <1>0, <1>7, <2>1, <3>1, Types, ConnAt, Zenon DEF WSRejectWrites
<1>8. ASSUME NEW e \in Ends, WSWrite(e) PROVE link' \in Links /\ ws' \in [Ends -> Conns] /\ UNCHANGED <<want, main, cancelled, target>>
  <2>1. link' \in Links
    BY <1>0, <1>8, Types, WriteType, Zenon DEF WSWrite
  <2>2. ws' \in [Ends -> Conns]
    BY <1>0, <1>8, ConnType, ConnFields, ConnAt DEF WSWrite
  <2> QED
    BY <1>8, <2>1, <2>2 DEF WSWrite
<1>9. ASSUME NEW e \in Ends, WSReadMessage(e) PROVE link' \in Links /\ ws' \in [Ends -> Conns] /\ UNCHANGED <<want, main, cancelled, target>>
  <2>1. link' \in Links
    BY <1>0, <1>9, Types, Zenon DEF WSReadMessage
  <2>2. ws' \in [Ends -> Conns]
    BY <1>0, <1>9, ConnType, ConnFields, ConnAt DEF WSReadMessage
  <2> QED
    BY <1>9, <2>1, <2>2 DEF WSReadMessage
<1>10. ASSUME NEW e \in Ends, WSReadFails(e) PROVE link' \in Links /\ ws' \in [Ends -> Conns] /\ UNCHANGED <<want, main, cancelled, target>>
  <2>1. link' \in Links
    BY <1>0, <1>10, Types DEF WSReadFails
  <2>2. ws' \in [Ends -> Conns]
    BY <1>0, <1>10, ConnType, ConnAt DEF WSReadFails
  <2> QED
    BY <1>10, <2>1, <2>2 DEF WSReadFails
<1>11. ASSUME NEW e \in Ends, WSReadFrame(e) PROVE link' \in Links /\ ws' \in [Ends -> Conns] /\ UNCHANGED <<want, main, cancelled, target>>
  <2>1. link' \in Links
    BY <1>0, <1>11, ConsumedFacts DEF WSReadFrame
  <2>2. PICK c \in {ws[e], Terminated(ws[e]), [Claimed(ws[e]) EXCEPT !.owes = "CLOSE"],
                    [ws[e] EXCEPT !.reader = "out"], [ws[e] EXCEPT !.owes = "PONG"],
                    [ws[e] EXCEPT !.owes = "ABORT"]} : ws' = [ws EXCEPT ![e] = c]
    BY <1>11 DEF WSReadFrame
  <2>3. c \in Conns
    <3>1. /\ ws[e] \in Conns /\ Terminated(ws[e]) \in Conns
          /\ [Claimed(ws[e]) EXCEPT !.owes = "CLOSE"] \in Conns
      BY <1>0, ConnType, Zenon
    <3>2. /\ [ws[e] EXCEPT !.reader = "out"] \in Conns
          /\ [ws[e] EXCEPT !.owes = "PONG"] \in Conns
          /\ [ws[e] EXCEPT !.owes = "ABORT"] \in Conns
      BY <3>1 DEF Conns
    <3> QED
      BY <2>2, <3>1, <3>2, Zenon
  <2> QED
    BY <1>0, <1>11, <2>1, <2>2, <2>3, ConnAt DEF WSReadFrame
<1>12. ASSUME NEW e \in Ends, WSReply(e) PROVE link' \in Links /\ ws' \in [Ends -> Conns] /\ UNCHANGED <<want, main, cancelled, target>>
  <2>0. ws[e].owes \in FrameTypes
    BY <1>0, <1>12, Types DEF WSReply, Conns
  <2>1. link' \in Links
    BY <1>0, <1>12, <2>0, WriteType DEF WSReply
  <2>2. PICK c \in {[ws[e] EXCEPT !.owes = "no"], [Terminated(ws[e]) EXCEPT !.closes = @ + 1],
                    Terminated(ws[e])} : ws' = [ws EXCEPT ![e] = c]
    <3>1. ws[e] \in Conns
      BY <1>0
    <3>2. ws' = [ws EXCEPT ![e].owes = "no"] => ws' = [ws EXCEPT ![e] = [ws[e] EXCEPT !.owes = "no"]]
      BY <1>0
    <3> QED
      BY <1>12, <3>2 DEF WSReply
  <2>3. c \in Conns
    <3>1. /\ ws[e] \in Conns /\ Terminated(ws[e]) \in Conns
          /\ [Terminated(ws[e]) EXCEPT !.closes = @ + 1] \in Conns
      BY <1>0, ConnType, Zenon
    <3>2. [ws[e] EXCEPT !.owes = "no"] \in Conns
      BY <3>1 DEF Conns
    <3> QED
      BY <2>2, <3>1, <3>2, Zenon
  <2> QED
    BY <1>0, <1>12, <2>1, <2>2, <2>3, ConnAt DEF WSReply
<1>13. ASSUME NEW e \in Ends, WSClose(e) PROVE link' \in Links /\ ws' \in [Ends -> Conns] /\ UNCHANGED <<want, main, cancelled, target>>
  <2>1. link' \in Links
    <3>1. UNCHANGED link \/ link' = Written(link, e, <<"REFUSED">>)
      BY <1>13, Zenon DEF WSClose
    <3> QED
      BY <1>0, <3>1, Types, WriteType
  <2>2. ws' \in [Ends -> Conns]
    <3>1. \E c \in Conns : ws' = [ws EXCEPT ![e] = c]
      BY <1>0, <1>13, ConnType, ConnFields, Zenon DEF WSClose, Closers
    <3> QED
      BY <1>0, <3>1, ConnAt
  <2> QED
    BY <1>13, <2>1, <2>2 DEF WSClose
<1>14. ASSUME NEW e \in Ends, WSAbort(e) PROVE link' \in Links /\ ws' \in [Ends -> Conns] /\ UNCHANGED <<want, main, cancelled, target>>
  <2>1. link' \in Links
    BY <1>0, <1>14, Types, WriteType, Zenon DEF WSAbort
  <2>2. ws' \in [Ends -> Conns]
    <3>1. \E c \in Conns : ws' = [ws EXCEPT ![e] = c]
      BY <1>0, <1>14, ConnType, ConnFields, Zenon DEF WSAbort, Closers
    <3> QED
      BY <1>0, <3>1, ConnAt
  <2> QED
    BY <1>14, <2>1, <2>2 DEF WSAbort
<1>15. ASSUME NEW e \in Ends, WSCloseSends(e) PROVE link' \in Links /\ ws' \in [Ends -> Conns] /\ UNCHANGED <<want, main, cancelled, target>>
  <2>1. link' \in Links
    <3>1. link' = Written(link, e, <<"CLOSE">>) \/ link' = Written(link, e, <<"ABORT">>)
      BY <1>15, Zenon DEF WSCloseSends
    <3> QED
      BY <1>0, <3>1, Types, WriteType
  <2>2. PICK c \in {[ws[e] EXCEPT !.closes = @ + 1, !.closer = "wait"],
                    [ws[e] EXCEPT !.closer = "flush"]} : ws' = [ws EXCEPT ![e] = c]
    <3>1. CASE ws[e].closer = "sending"
      BY <1>15, <3>1 DEF WSCloseSends
    <3>2. CASE ws[e].closer = "aborting"
      <4>1. ws' = [ws EXCEPT ![e].closer = "flush"]
        BY <1>15, <3>2 DEF WSCloseSends
      <4> QED
        BY <1>0, <4>1
    <3> QED
      BY <1>15, <3>1, <3>2 DEF WSCloseSends
  <2>3. c \in Conns
    <3>1. "wait" \in Closers /\ "flush" \in Closers /\ ws[e] \in Conns
      BY <1>0 DEF Closers
    <3>2. /\ [ws[e] EXCEPT !.closes = @ + 1, !.closer = "wait"] \in Conns
          /\ [ws[e] EXCEPT !.closer = "flush"] \in Conns
      BY <3>1, ConnFields, Zenon
    <3> QED
      BY <2>2, <3>2, Zenon
  <2> QED
    BY <1>0, <1>15, <2>1, <2>2, <2>3, ConnAt DEF WSCloseSends
<1>25. ASSUME NEW e \in Ends, WSCloseStarts(e) PROVE link' \in Links /\ ws' \in [Ends -> Conns] /\ UNCHANGED <<want, main, cancelled, target>>
  <2>2. PICK c \in {[ws[e] EXCEPT !.closer = "flush"],
                    [ws[e] EXCEPT !.closeSent = TRUE, !.closer = "sending"]} : ws' = [ws EXCEPT ![e] = c]
    BY <1>25 DEF WSCloseStarts
  <2>3. c \in Conns
    <3>1. "sending" \in Closers /\ "flush" \in Closers /\ ws[e] \in Conns
      BY <1>0 DEF Closers
    <3>2. /\ [ws[e] EXCEPT !.closeSent = TRUE, !.closer = "sending"] \in Conns
          /\ [ws[e] EXCEPT !.closer = "flush"] \in Conns
      BY <3>1, ConnFields, Zenon
    <3> QED
      BY <2>2, <3>2, Zenon
  <2> QED
    BY <1>0, <1>25, <2>2, <2>3, ConnAt DEF WSCloseStarts
<1>16. ASSUME NEW e \in Ends, WSCloseReads(e) PROVE link' \in Links /\ ws' \in [Ends -> Conns] /\ UNCHANGED <<want, main, cancelled, target>>
  <2>1. link' \in Links
    BY <1>0, <1>16, Types, Zenon DEF WSCloseReads
  <2>2. ws' \in [Ends -> Conns]
    <3>1. \E c \in Conns : ws' = [ws EXCEPT ![e] = c]
      BY <1>0, <1>16, ConnType, ConnFields, Zenon DEF WSCloseReads, Closers
    <3> QED
      BY <1>0, <3>1, ConnAt
  <2> QED
    BY <1>16, <2>1, <2>2 DEF WSCloseReads
<1>17. ASSUME NEW e \in Ends, WSFlush(e) PROVE link' \in Links /\ ws' \in [Ends -> Conns] /\ UNCHANGED <<want, main, cancelled, target>>
  <2>1. link' \in Links
    BY <1>0, <1>17, Types, ClosingsFacts, Zenon DEF WSFlush
  <2>2. ws' \in [Ends -> Conns]
    <3>1. \E c \in Conns : ws' = [ws EXCEPT ![e] = c]
      BY <1>0, <1>17, ConnType, ConnFields, Zenon DEF WSFlush, Closers
    <3> QED
      BY <1>0, <3>1, ConnAt
  <2> QED
    BY <1>17, <2>1, <2>2 DEF WSFlush
<1>18. CASE WSHandlerReturns
  <2>1. link' \in Links
    BY <1>0, <1>18, Types DEF WSHandlerReturns
  <2> QED
    BY <1>0, <1>18, <2>1 DEF WSHandlerReturns, Targets, Places
<1>19. CASE WSHandlerDone
  <2>1. link' \in Links
    BY <1>0, <1>19, Types DEF WSHandlerDone
  <2> QED
    BY <1>0, <1>19, <2>1 DEF WSHandlerDone, Targets, Places
<1>20. CASE WSProxyDials
  <2>1. link' \in Links
    BY <1>0, <1>20, Types, WriteType DEF WSProxyDials
  <2> QED
    BY <1>0, <1>20, <2>1 DEF WSProxyDials, Targets, Places
<1>21. CASE WSProxyPump
  <2>1. /\ \A f \in {"MSG", "PING"} : Written(link, "server", <<f>>) \in Links
        /\ Written(link, "server", <<"CLOSE">>) \in Links
    BY <1>0, Types, WriteType
  <2>2. link' \in Links
    BY <1>0, <1>21, <2>1 DEF WSProxyPump
  <2> QED
    BY <1>0, <1>21, <2>2 DEF WSProxyPump, Targets
<1>22. CASE WSProxyRead
  <2>1. link' \in Links
    BY <1>0, <1>22, Types, ConsumedFacts DEF WSProxyRead
  <2> QED
    BY <1>0, <1>22, <2>1 DEF WSProxyRead, Targets, Places
<1>26. CASE WSUpstreamTakes
  BY <1>0, <1>26 DEF WSUpstreamTakes, Places
<1>23. CASE WSProxyWaits
  <2>1. link' \in Links
    BY <1>0, <1>23, Types, WriteType DEF WSProxyWaits
  <2> QED
    BY <1>0, <1>23, <2>1 DEF WSProxyWaits, Targets, Places
<1>24. CASE WSProxyCloses
  <2>1. link' \in Links
    BY <1>0, <1>24, Types DEF WSProxyCloses
  <2> QED
    BY <1>0, <1>24, <2>1 DEF WSProxyCloses, Targets, Places
<1> QED
  BY <1>0, <1>1, <1>2, <1>3, <1>4, <1>5, <1>6, <1>7, <1>8, <1>9, <1>10, <1>11, <1>12, <1>13, <1>14, <1>15, <1>16, <1>17, <1>18, <1>19, <1>20, <1>21, <1>22, <1>23, <1>24, <1>25, <1>26
  DEF WSNext

LEMMA StreamTypeStep ==
  ASSUME TypeOK, StreamBreaks, UNCHANGED <<httpVars, wsVars, tunnelVars>>
  PROVE  TypeOK'
<1>1. link' \in Links
  BY TypeParts, BrokenFacts DEF StreamBreaks, CoreType
<1> QED
  BY <1>1 DEF TypeOK, StreamBreaks, httpVars, wsVars, tunnelVars

Sets == [set : SUBSET {"st", "tcp"}, closed : BOOLEAN, closing : SUBSET {"st", "tcp"}]

LEMMA ActiveType ==
  ASSUME active \in [Ends -> Sets], NEW e \in Ends
  PROVE  /\ active[e] \in Sets
         /\ \A s \in SUBSET {"st", "tcp"} : [active EXCEPT ![e].set = s] \in [Ends -> Sets]
         /\ \A s \in SUBSET {"st", "tcp"} : [active EXCEPT ![e].closing = s] \in [Ends -> Sets]
         /\ \A s \in SUBSET {"st", "tcp"} :
              [active EXCEPT ![e].closed = TRUE, ![e].closing = s] \in [Ends -> Sets]
         /\ \A c \in {"st", "tcp"} : Added(e, c) \in [Ends -> Sets]
<1>1. active[e] \in Sets
  OBVIOUS
<1>2. \A s \in SUBSET {"st", "tcp"} : [active EXCEPT ![e].set = s] \in [Ends -> Sets]
  BY DEF Sets
<1>3. \A s \in SUBSET {"st", "tcp"} : [active EXCEPT ![e].closing = s] \in [Ends -> Sets]
  BY DEF Sets
<1>4. \A s \in SUBSET {"st", "tcp"} :
        [active EXCEPT ![e].closed = TRUE, ![e].closing = s] \in [Ends -> Sets]
  BY DEF Sets
<1>5. \A c \in {"st", "tcp"} : active[e].set \cup {c} \in SUBSET {"st", "tcp"}
  BY DEF Sets
<1>6. active[e].set \in SUBSET {"st", "tcp"}
  BY DEF Sets
<1>7. \A c \in {"st", "tcp"} : Added(e, c) \in [Ends -> Sets]
  BY <1>2, <1>5, <1>6 DEF Added
<1> QED
  BY <1>1, <1>2, <1>3, <1>4, <1>7

LEMMA AddedLink ==
  ASSUME link \in Links, NEW e \in Ends, NEW m \in StreamAdded(e)
  PROVE  m \in Links
BY ClosingsFacts DEF StreamAdded

LEMMA ServerTypeStep ==
  ASSUME TypeOK, ServerNext
  PROVE  TypeOK'
<1>0. /\ link \in Links /\ main \in Places /\ want \in Uses /\ cancelled \in [Ends -> BOOLEAN]
      /\ active \in [Ends -> Sets] /\ TunnelType /\ HTTPType /\ WSType
      /\ "client" \in Ends /\ "server" \in Ends /\ "st" \in {"st", "tcp"} /\ "tcp" \in {"st", "tcp"}
  BY TypeParts, Types DEF CoreType, TunnelType, Sets
<1>a. ASSUME link' \in Links, main' \in Places, active' \in [Ends -> Sets],
             run' \in [Ends -> {"off", "on", "returned"}],
             tcp' \in [Ends -> {"none", "open", "closed"}],
             sniff' \in {"off", "on", "yes", "no", "taken"},
             dial' \in {"off", "on", "failed", "reading", "head", "end"},
             reaping' \in BOOLEAN, bridging' \in {"off", "opening", "on", "gone"},
             cancelled' \in [Ends -> BOOLEAN], UNCHANGED <<want, wsVars>>, HTTPType'
      PROVE  TypeOK'
  <2>1. CoreType' /\ TunnelType' /\ WSType'
    BY <1>0, <1>a DEF CoreType, TunnelType, WSType, wsVars, Sets
  <2> QED
    BY <1>a, <2>1, NextTypeParts
<1>b. UNCHANGED httpVars => HTTPType'
  BY <1>0 DEF HTTPType, httpVars
<1>c. /\ run \in [Ends -> {"off", "on", "returned"}] /\ tcp \in [Ends -> {"none", "open", "closed"}]
      /\ sniff \in {"off", "on", "yes", "no", "taken"}
      /\ dial \in {"off", "on", "failed", "reading", "head", "end"}
      /\ reaping \in BOOLEAN /\ bridging \in {"off", "opening", "on", "gone"}
  BY <1>0 DEF TunnelType
<1>1. ASSUME NEW e \in Ends, Cancel(e) PROVE TypeOK'
  <2> QED
    BY <1>0, <1>a, <1>b, <1>c, <1>1 DEF Cancel, tunnelVars
<1>2. ASSUME NEW e \in Ends, CloseAll(e) PROVE TypeOK'
  <2>1. active' \in [Ends -> Sets]
    BY <1>0, <1>b, <1>c, <1>2, ActiveType DEF CloseAll, Sets
  <2> QED
    BY <1>0, <1>a, <1>b, <1>c, <1>2, <2>1 DEF CloseAll
<1>3. ASSUME NEW e \in Ends, CloseMember(e) PROVE TypeOK'
  <2>1. active' \in [Ends -> Sets]
    <3>1. PICK c \in active[e].closing : active' = [active EXCEPT ![e].closing = @ \ {c}]
      BY <1>3 DEF CloseMember
    <3>2. active[e].closing \ {c} \in SUBSET {"st", "tcp"}
      BY <1>0 DEF Sets
    <3> QED
      BY <1>0, <3>1, <3>2, ActiveType
  <2>2. link' \in Links
    BY <1>0, <1>b, <1>c, <1>3, ClosingsFacts DEF CloseMember
  <2>3. tcp' \in [Ends -> {"none", "open", "closed"}]
    BY <1>0, <1>b, <1>c, <1>3 DEF CloseMember
  <2> QED
    BY <1>0, <1>a, <1>b, <1>c, <1>3, <2>1, <2>2, <2>3 DEF CloseMember
<1>4. ASSUME NEW e \in Ends, RunEnds(e) PROVE TypeOK'
  <2> QED
    BY <1>0, <1>a, <1>b, <1>c, <1>4 DEF RunEnds
<1>5. ASSUME NEW e \in Ends, TcpEnds(e) PROVE TypeOK'
  <2> QED
    BY <1>0, <1>a, <1>b, <1>c, <1>5 DEF TcpEnds
<1>6. CASE AcceptTCP
  <2>1. active' \in [Ends -> Sets]
    BY <1>0, <1>b, <1>c, <1>6, ActiveType DEF AcceptTCP
  <2> QED
    BY <1>0, <1>a, <1>b, <1>c, <1>6, <2>1 DEF AcceptTCP
<1>7. CASE OpenStream
  <2>1. active' \in [Ends -> Sets]
    <3>1. \/ active' = Added("client", "st")
          \/ active' = [active EXCEPT !["client"].set = {}]
      BY <1>7 DEF OpenStream
    <3>2. [active EXCEPT !["client"].set = {}] \in [Ends -> Sets]
      BY <1>0 DEF Sets
    <3>3. Added("client", "st") \in [Ends -> Sets]
      BY <1>0, ActiveType
    <3> QED
      BY <3>1, <3>2, <3>3
  <2>2. link' \in Links
    BY <1>0, <1>b, <1>c, <1>7, AddedLink DEF OpenStream
  <2> QED
    BY <1>0, <1>a, <1>b, <1>c, <1>7, <2>1, <2>2 DEF OpenStream, Places
<1>8. CASE ClientSends
  <2>1. link' \in Links
    BY <1>0, <1>b, <1>c, <1>8, Types, WriteType DEF ClientSends
  <2> QED
    BY <1>0, <1>a, <1>b, <1>c, <1>8, <2>1 DEF ClientSends, tunnelVars
<1>9. CASE ClientBridgeEnds
  <2>1. active' \in [Ends -> Sets]
    BY <1>0, <1>b, <1>c, <1>9, ActiveType DEF ClientBridgeEnds
  <2>2. link' \in Links
    BY <1>0, <1>b, <1>c, <1>9, ClosingsFacts DEF ClientBridgeEnds
  <2> QED
    BY <1>0, <1>a, <1>b, <1>c, <1>9, <2>1, <2>2 DEF ClientBridgeEnds
<1>10. CASE AcceptStream
  <2>1. active' \in [Ends -> Sets]
    BY <1>0, <1>b, <1>c, <1>10, ActiveType DEF AcceptStream
  <2>2. link' \in Links
    BY <1>0, <1>b, <1>c, <1>10, AddedLink DEF AcceptStream
  <2> QED
    BY <1>0, <1>a, <1>b, <1>c, <1>10, <2>1, <2>2 DEF AcceptStream, Places
<1>11. CASE Sniff
  <2>1. link' \in Links
    BY <1>0, <1>b, <1>c, <1>11, ConsumedFacts DEF Sniff
  <2> QED
    BY <1>0, <1>a, <1>b, <1>c, <1>11, <2>1 DEF Sniff
<1>12. CASE Dial
  <2> QED
    BY <1>0, <1>a, <1>b, <1>c, <1>12 DEF Dial
<1>13. CASE FirstRead
  <2> QED
    BY <1>0, <1>a, <1>b, <1>c, <1>13 DEF FirstRead
<1>14. CASE Reap
  <2> QED
    BY <1>0, <1>a, <1>b, <1>c, <1>14 DEF Reap
<1>15. CASE TakeVerdict
  <2>1. tcp' \in [Ends -> {"none", "open", "closed"}]
    BY <1>0, <1>b, <1>c, <1>15 DEF TakeVerdict
  <2>2. reaping' \in BOOLEAN
    <3>1. UNCHANGED reaping \/ reaping' = (main \in {"race", "dialed"})
      BY <1>15 DEF TakeVerdict
    <3>2. (main \in {"race", "dialed"}) \in BOOLEAN
      OBVIOUS
    <3> QED
      BY <1>c, <3>1, <3>2
  <2>3. main' \in Places
    BY <1>0, <1>b, <1>c, <1>15 DEF TakeVerdict, Places
  <2> QED
    BY <1>0, <1>a, <1>b, <1>c, <1>15, <2>1, <2>2, <2>3 DEF TakeVerdict
<1>16. CASE UpstreamFirst
  <2> QED
    BY <1>0, <1>a, <1>b, <1>c, <1>16 DEF UpstreamFirst, Places, tunnelVars
<1>17. CASE ToRaw
  <2>1. active' \in [Ends -> Sets]
    BY <1>0, <1>b, <1>c, <1>17, ActiveType DEF ToRaw
  <2>2. tcp' \in [Ends -> {"none", "open", "closed"}]
    BY <1>0, <1>b, <1>c, <1>17 DEF ToRaw, TcpAdded
  <2> QED
    BY <1>0, <1>a, <1>b, <1>c, <1>17, <2>1, <2>2 DEF ToRaw, Places
<1>18. CASE BridgeCopies
  <2>1. link' \in Links
    BY <1>0, <1>b, <1>c, <1>18, ConsumedFacts DEF BridgeCopies
  <2> QED
    BY <1>0, <1>a, <1>b, <1>c, <1>18, <2>1 DEF BridgeCopies, tunnelVars
<1>19. CASE BridgeEnds
  <2>1. link' \in Links
    BY <1>0, <1>b, <1>c, <1>19, ClosingsFacts DEF BridgeEnds
  <2> QED
    BY <1>0, <1>a, <1>b, <1>c, <1>19, <2>1 DEF BridgeEnds, tunnelVars, Places
<1>20. CASE ServeTunnelConn
  <2>1. link' \in Links
    BY <1>0, <1>b, <1>c, <1>20, Types, ConsumedFacts, WriteType DEF ServeTunnelConn
  <2>2. want.kind \in Places
    BY <1>0, <1>b, <1>c, <1>20, TunnelAssumption DEF AllUses, Places
  <2>3. main' \in Places
    BY <1>0, <1>b, <1>c, <1>20, <2>2 DEF ServeTunnelConn, Places
  <2> QED
    BY <1>0, <1>a, <1>b, <1>c, <1>20, <2>1, <2>2, <2>3 DEF ServeTunnelConn, tunnelVars
<1>21. CASE Flush
  <2>1. link' \in Links
    BY <1>0, <1>b, <1>c, <1>21, ClosingsFacts DEF Flush
  <2> QED
    BY <1>0, <1>a, <1>b, <1>c, <1>21, <2>1 DEF Flush, tunnelVars, Places
<1>22. CASE LeaveRaw
  <2>1. active' \in [Ends -> Sets]
    <3>1. active["server"].set \ {"tcp"} \in SUBSET {"st", "tcp"}
      BY <1>0, <1>b, <1>c, Types DEF Sets
    <3>2. active' = [active EXCEPT !["server"].set = active["server"].set \ {"tcp"}]
      BY <1>22 DEF LeaveRaw
    <3> QED
      BY <1>0, <1>b, <1>c, <3>1, <3>2, Types, ActiveType
  <2> QED
    BY <1>0, <1>a, <1>b, <1>c, <1>22, <2>1 DEF LeaveRaw, Places
<1>23. CASE Leave
  <2>1. active' \in [Ends -> Sets]
    BY <1>0, <1>b, <1>c, <1>23, ActiveType DEF Leave, Sets
  <2>2. link' \in Links
    BY <1>0, <1>b, <1>c, <1>23, QuitsFacts DEF Leave
  <2>3. <<>> \in Seq(FrameTypes \cup EndTypes)
    BY <1>0, <1>b, <1>c, <1>23
  <2>4. HTTPType'
    BY <1>0, <1>b, <1>c, <1>23, <2>3 DEF Leave, HTTPType, NewPump, NewServe, Fetches, Pumps, Serves
  <2> QED
    BY <1>0, <1>a, <1>b, <1>c, <1>23, <2>1, <2>2, <2>3, <2>4 DEF Leave, Places
<1> QED
  BY <1>1, <1>2, <1>3, <1>4, <1>5, <1>6, <1>7, <1>8, <1>9, <1>10, <1>11, <1>12, <1>13, <1>14, <1>15, <1>16, <1>17, <1>18, <1>19, <1>20, <1>21, <1>22, <1>23 DEF ServerNext

LEMMA TypeStep == TypeOK /\ [Next]_vars => TypeOK'
<1> SUFFICES ASSUME TypeOK, [Next]_vars PROVE TypeOK'
  OBVIOUS
<1>1. CASE UNCHANGED vars
  BY <1>1 DEF TypeOK, vars, httpVars, wsVars, tunnelVars
<1> QED
  BY <1>1, HTTPTypeStep, WSTypeStep, StreamTypeStep, ServerTypeStep DEF Next

\* Every variable of the tunnel keeps its type, whatever both ends, the network
\* and the upstream do.
THEOREM TypeCorrect == Spec => []TypeOK
<1> QED
  BY TypeInit, TypeStep, PTL DEF Spec

-----------------------------------------------------------------------------
(* One WS_CLOSE. *)

Owed(c) == IF c.owes = "CLOSE" THEN 1 ELSE 0
Sending(c) == IF c.closer = "sending" THEN 1 ELSE 0
Claim(c) == IF c.closeSent THEN 1 ELSE 0
CloseOK(c) == c.closes + Owed(c) + Sending(c) <= Claim(c)

LEMMA CloseInit == TunnelInit => CloseInv
BY DEF TunnelInit, WSInit, NewWS, CloseInv

\* A connection that has not set closeSent has not written and does not owe.
LEMMA Unclaimed ==
  ASSUME NEW c \in Conns, CloseOK(c)
  PROVE  /\ c.closes \in Nat
         /\ ~c.closeSent => c.closes = 0 /\ c.owes # "CLOSE" /\ c.closer # "sending"
         /\ c.closeSent => c.closes + Owed(c) + Sending(c) <= 1
<1>1. c.closes \in Nat
  BY DEF Conns
<1> QED
  BY <1>1 DEF CloseOK, Owed, Sending, Claim

LEMMA ServerKeepsWS == ASSUME ServerNext PROVE UNCHANGED wsVars
BY DEF ServerNext, Cancel, CloseAll, CloseMember, RunEnds, TcpEnds, AcceptTCP, OpenStream,
       ClientSends, ClientBridgeEnds, AcceptStream, Sniff, Dial, FirstRead, Reap, TakeVerdict,
       UpstreamFirst, ToRaw, BridgeCopies, BridgeEnds, ServeTunnelConn, Flush, LeaveRaw, Leave

LEMMA CloseStep == ASSUME TypeOK, CloseInv, [Next]_vars PROVE CloseInv'
<1>0. ws \in [Ends -> Conns] /\ \A e \in Ends : ws[e] \in Conns /\ CloseOK(ws[e])
  BY TypeParts DEF WSType, CloseInv, CloseOK, Owed, Sending, Claim
<1> SUFFICES \A e \in Ends : CloseOK(ws'[e])
  BY DEF CloseInv, CloseOK, Owed, Sending, Claim
<1>1. CASE UNCHANGED ws
  BY <1>0, <1>1
<1>2. ASSUME NEW e \in Ends, NEW c, CloseOK(c), ws' = [ws EXCEPT ![e] = c]
      PROVE  \A x \in Ends : CloseOK(ws'[x])
  BY <1>0, <1>2
<1>e. "client" \in Ends /\ "server" \in Ends
  BY Types
<1>3. CASE WSNext
  <2>1. CASE TunnelWS \/ WSReadResult
    <3>1. \E a \in {"asked", "open", "failed"} : ws' = [ws EXCEPT !["client"].at = a]
      BY <2>1 DEF TunnelWS, WSReadResult
    <3> QED
      BY <1>0, <1>e, <3>1 DEF CloseOK, Owed, Sending, Claim, Conns
  <2>2. CASE ServeWS \/ WSAccept \/ WSReject \/ WSRejectWrites
    <3>1. \/ UNCHANGED ws
          \/ \E a \in {"unanswered", "open"} : ws' = [ws EXCEPT !["server"].at = a]
          \/ ws' = [ws EXCEPT !["server"].at = "open", !["server"].rejecting = TRUE]
          \/ \E k \in {"start", ws["server"].closer} :
               ws' = [ws EXCEPT !["server"] = [ws["server"] EXCEPT
                        !.rejecting = FALSE, !.closed = TRUE, !.closer = k]]
      BY <2>2 DEF ServeWS, WSAccept, WSReject, WSRejectWrites
    <3>2. CASE \E a \in {"unanswered", "open"} : ws' = [ws EXCEPT !["server"].at = a]
      BY <1>0, <1>e, <3>2 DEF CloseOK, Owed, Sending, Claim, Conns
    <3>3. CASE ws' = [ws EXCEPT !["server"].at = "open", !["server"].rejecting = TRUE]
      BY <1>0, <1>e, <3>3 DEF CloseOK, Owed, Sending, Claim, Conns
    <3>4. ASSUME NEW k \in {"start", ws["server"].closer},
                 ws' = [ws EXCEPT !["server"] = [ws["server"] EXCEPT
                          !.rejecting = FALSE, !.closed = TRUE, !.closer = k]]
          PROVE  \A x \in Ends : CloseOK(ws'[x])
      <4> DEFINE c == [ws["server"] EXCEPT !.rejecting = FALSE, !.closed = TRUE, !.closer = k]
      <4>1. CloseOK(c)
        BY <1>0, <1>e DEF CloseOK, Owed, Sending, Claim, Conns
      <4> QED
        BY <1>2, <1>e, <3>4, <4>1
    <3> QED
      BY <1>1, <3>1, <3>2, <3>3, <3>4
  <2>3. ASSUME NEW e \in Ends, WSWrite(e) PROVE \A x \in Ends : CloseOK(ws'[x])
    BY <1>0, <2>3 DEF WSWrite, CloseOK, Owed, Sending, Claim, Conns
  <2>4. ASSUME NEW e \in Ends, WSReadMessage(e) PROVE \A x \in Ends : CloseOK(ws'[x])
    BY <1>0, <2>4 DEF WSReadMessage, CloseOK, Owed, Sending, Claim, Conns
  <2>5. ASSUME NEW e \in Ends, WSReadFails(e) PROVE \A x \in Ends : CloseOK(ws'[x])
    BY <1>0, <2>5 DEF WSReadFails, Terminated, CloseOK, Owed, Sending, Claim, Conns
  <2>6. ASSUME NEW e \in Ends, WSReadFrame(e) PROVE \A x \in Ends : CloseOK(ws'[x])
    <3> DEFINE c == ws[e]
    <3>0. c \in Conns /\ CloseOK(c) /\ (~c.closeSent => c.closes = 0 /\ c.owes # "CLOSE" /\ c.closer # "sending")
      BY <1>0, Unclaimed
    <3>n. c.owes = "no"
      BY <2>6 DEF WSReadFrame, Reading
    <3>1. PICK d \in {c, Terminated(c), [c EXCEPT !.reader = "out"], [c EXCEPT !.owes = "PONG"],
                      [c EXCEPT !.owes = "ABORT"]}
                     \cup {x \in {[Claimed(c) EXCEPT !.owes = "CLOSE"]} : ~c.closeSent} :
            ws' = [ws EXCEPT ![e] = d]
      BY <2>6 DEF WSReadFrame
    <3> HIDE DEF c
    <3>2. CASE ~c.closeSent /\ d = [Claimed(c) EXCEPT !.owes = "CLOSE"]
      <4>1. d.closes = 0 /\ d.owes = "CLOSE" /\ d.closer # "sending" /\ d.closeSent
        BY <3>0, <3>2 DEF Claimed, Conns
      <4>2. CloseOK(d)
        BY <4>1 DEF CloseOK, Owed, Sending, Claim
      <4> QED
        BY <1>2, <3>1, <4>2
    <3>3. CASE d \in {c, Terminated(c), [c EXCEPT !.reader = "out"], [c EXCEPT !.owes = "PONG"],
                      [c EXCEPT !.owes = "ABORT"]}
      <4>1. d.closes = c.closes /\ d.owes # "CLOSE" /\ d.closer = c.closer /\ d.closeSent = c.closeSent
        BY <3>0, <3>n, <3>3 DEF Terminated, Conns
      <4>2. CloseOK(d)
        BY <3>0, <3>n, <4>1 DEF CloseOK, Owed, Sending, Claim, Conns
      <4> QED
        BY <1>2, <3>1, <4>2
    <3> QED
      BY <1>2, <3>1, <3>2, <3>3
  <2>7. ASSUME NEW e \in Ends, WSReply(e) PROVE \A x \in Ends : CloseOK(ws'[x])
    <3> DEFINE c == ws[e]
    <3>0. c \in Conns /\ CloseOK(c) /\ c.owes # "no" /\ c.closes \in Nat
      BY <1>0, <2>7, Unclaimed DEF WSReply
    <3>1. \/ ws' = [ws EXCEPT ![e].owes = "no"]
          \/ c.owes = "CLOSE" /\ ws' = [ws EXCEPT ![e] = [Terminated(c) EXCEPT !.closes = @ + 1]]
          \/ c.owes # "CLOSE" /\ ws' = [ws EXCEPT ![e] = Terminated(c)]
      BY <2>7 DEF WSReply
    <3>2. CASE ws' = [ws EXCEPT ![e].owes = "no"]
      <4>1. CloseOK([c EXCEPT !.owes = "no"])
        BY <3>0 DEF CloseOK, Owed, Sending, Claim, Conns
      <4>2. ws' = [ws EXCEPT ![e] = [c EXCEPT !.owes = "no"]]
        BY <1>0, <3>2
      <4> QED
        BY <1>2, <4>1, <4>2
    <3>3. CASE c.owes = "CLOSE" /\ ws' = [ws EXCEPT ![e] = [Terminated(c) EXCEPT !.closes = @ + 1]]
      <4> DEFINE d == [Terminated(c) EXCEPT !.closes = @ + 1]
      <4>1. d.closes = c.closes + 1 /\ d.owes = "no" /\ d.closer = c.closer /\ d.closeSent = c.closeSent
        BY <3>0 DEF Terminated, Conns
      <4>2. CloseOK(d)
        BY <3>0, <3>3, <4>1 DEF CloseOK, Owed, Sending, Claim
      <4> QED
        BY <1>2, <3>3, <4>2
    <3>4. CASE c.owes # "CLOSE" /\ ws' = [ws EXCEPT ![e] = Terminated(c)]
      <4>1. CloseOK(Terminated(c))
        BY <3>0, <3>4 DEF Terminated, CloseOK, Owed, Sending, Claim, Conns
      <4> QED
        BY <1>2, <3>4, <4>1
    <3> QED
      BY <3>1, <3>2, <3>3, <3>4
  <2>8. ASSUME NEW e \in Ends, WSClose(e) \/ WSAbort(e) PROVE \A x \in Ends : CloseOK(ws'[x])
    <3> DEFINE c == ws[e]
    <3>1. /\ c.closer = "no"
          /\ \/ ws' = [ws EXCEPT ![e] = [c EXCEPT !.closed = TRUE, !.at = "open", !.closer = "flush"]]
             \/ ws' = [ws EXCEPT ![e] = [c EXCEPT !.closed = TRUE, !.closer = "start"]]
             \/ ws' = [ws EXCEPT ![e] = [c EXCEPT !.closed = TRUE, !.closer = "aborting"]]
      BY <2>8 DEF WSClose, WSAbort
    <3>2. /\ CloseOK([c EXCEPT !.closed = TRUE, !.at = "open", !.closer = "flush"])
          /\ CloseOK([c EXCEPT !.closed = TRUE, !.closer = "start"])
          /\ CloseOK([c EXCEPT !.closed = TRUE, !.closer = "aborting"])
      BY <1>0, <3>1 DEF CloseOK, Owed, Sending, Claim, Conns
    <3> QED
      BY <1>2, <3>1, <3>2
  <2>9. ASSUME NEW e \in Ends, WSCloseStarts(e) PROVE \A x \in Ends : CloseOK(ws'[x])
    <3> DEFINE c == ws[e]
    <3>0. /\ c \in Conns /\ CloseOK(c) /\ c.closes \in Nat /\ c.closer = "start"
          /\ (~c.closeSent => c.closes = 0 /\ c.owes # "CLOSE")
      BY <1>0, <2>9, Unclaimed DEF WSCloseStarts
    <3>1. CASE c.closeSent
      <4>1. CloseOK([c EXCEPT !.closer = "flush"])
        BY <3>0, <3>1 DEF CloseOK, Owed, Sending, Claim, Conns
      <4> QED
        BY <1>2, <2>9, <3>1, <4>1 DEF WSCloseStarts
    <3>2. CASE ~c.closeSent
      <4> DEFINE d == [c EXCEPT !.closeSent = TRUE, !.closer = "sending"]
      <4>1. d.closes = 0 /\ d.owes # "CLOSE" /\ d.closeSent
        BY <3>0, <3>2 DEF Conns
      <4>2. CloseOK(d)
        BY <4>1 DEF CloseOK, Owed, Sending, Claim
      <4> QED
        BY <1>2, <2>9, <3>2, <4>2 DEF WSCloseStarts
    <3> QED
      BY <3>1, <3>2
  <2>12. ASSUME NEW e \in Ends, WSCloseSends(e) PROVE \A x \in Ends : CloseOK(ws'[x])
    <3> DEFINE c == ws[e]
    <3>0. c \in Conns /\ CloseOK(c) /\ c.closes \in Nat
      BY <1>0, Unclaimed
    <3>1. CASE c.closer = "sending"
      <4> DEFINE d == [c EXCEPT !.closes = @ + 1, !.closer = "wait"]
      <4>1. /\ d.closes = c.closes + 1 /\ d.owes = c.owes /\ d.closer = "wait"
            /\ d.closeSent = c.closeSent
        BY <3>0 DEF Conns
      <4>2. CloseOK(d)
        BY <3>0, <3>1, <4>1 DEF CloseOK, Owed, Sending, Claim
      <4> QED
        <5>1. ws' = [ws EXCEPT ![e] = d]
          BY <2>12, <3>1 DEF WSCloseSends
        <5> QED
          BY <1>2, <4>2, <5>1
    <3>2. CASE c.closer = "aborting"
      <4>1. CloseOK([c EXCEPT !.closer = "flush"])
        BY <3>0, <3>2 DEF CloseOK, Owed, Sending, Claim, Conns
      <4>2. ws' = [ws EXCEPT ![e] = [c EXCEPT !.closer = "flush"]]
        BY <1>0, <2>12, <3>2 DEF WSCloseSends
      <4> QED
        BY <1>2, <4>1, <4>2
    <3> QED
      BY <2>12, <3>1, <3>2 DEF WSCloseSends
  <2>10. ASSUME NEW e \in Ends, WSCloseReads(e) \/ WSFlush(e) PROVE \A x \in Ends : CloseOK(ws'[x])
    BY <1>0, <2>10 DEF WSCloseReads, WSFlush, CloseOK, Owed, Sending, Claim, Conns
  <2>11. CASE \/ WSCancelled \/ WSHandlerReturns \/ WSHandlerDone
              \/ WSProxyDials \/ WSProxyPump \/ WSProxyRead \/ WSUpstreamTakes \/ WSProxyWaits
              \/ WSProxyCloses
    BY <1>1, <2>11 DEF WSCancelled, WSHandlerReturns, WSHandlerDone, WSProxyDials, WSProxyPump,
                       WSProxyRead, WSUpstreamTakes, WSProxyWaits, WSProxyCloses
  <2> QED
    BY <1>3, <2>1, <2>2, <2>3, <2>4, <2>5, <2>6, <2>7, <2>8, <2>9, <2>10, <2>11, <2>12 DEF WSNext
<1>4. CASE ServerNext
  BY <1>1, <1>4, ServerKeepsWS DEF wsVars
<1> QED
  BY <1>1, <1>3, <1>4 DEF Next, vars, wsVars

\* Both ends, whoever starts and however often both start at once, write at most
\* one WS_CLOSE each: closeSent is claimed before the frame is written, by the
\* reader that answers and by Close.
THEOREM ClosedOnce == Spec => []OneWSClose
<1>1. TypeOK /\ CloseInv => OneWSClose
  <2> SUFFICES ASSUME TypeOK, CloseInv, NEW e \in Ends PROVE ws[e].closes <= 1
    BY DEF OneWSClose
  <2>1. ws[e] \in Conns /\ CloseOK(ws[e])
    BY TypeParts DEF WSType, CloseInv, CloseOK, Owed, Sending, Claim
  <2> QED
    BY <2>1, Unclaimed DEF CloseOK, Owed, Sending, Claim
<1> QED
  BY <1>1, TypeInit, TypeStep, CloseInit, CloseStep, PTL DEF Spec

-----------------------------------------------------------------------------
(* A stream has one use. *)

LEMMA UseInit == TunnelInit => OneUse
BY DEF TunnelInit, Init, WSInit, OneUse, NewLink, NewFetch, NewServe, HTTPPlaces, WSPlaces

\* Without a request only the pump could move, and nobody switches it on.
LEMMA HTTPIdle ==
  ASSUME OneUse, want.kind # "http", HTTPNext
  PROVE  UNCHANGED <<main, fetch, serve>>
BY DEF OneUse, HTTPPlaces, HTTPNext, TunnelFetch, Upload, ReadResult, RespRead, RespClose,
       FetchCancelled, ServeHTTP, PumpRead, PumpPut, BodyRead, WatchAbort, HandlerWrite,
       HandlerReturns, ProxyFails, ProxyResult, ProxyData, ProxyEnds

\* Without a WebSocket session nothing of it can happen.
LEMMA WSIdle ==
  ASSUME OneUse, want.kind # "ws", WSNext
  PROVE  FALSE
<1>1. /\ main \notin WSPlaces /\ target = NewTarget
      /\ \A e \in Ends : ws[e] = NewWS
      /\ ws["client"] = NewWS /\ ws["server"] = NewWS
  BY Types DEF OneUse
<1>2. ASSUME NEW e \in Ends,
             \/ WSWrite(e) \/ WSReadMessage(e) \/ WSReadFails(e) \/ WSReadFrame(e) \/ WSReply(e)
             \/ WSClose(e) \/ WSAbort(e) \/ WSCloseStarts(e) \/ WSCloseSends(e) \/ WSCloseReads(e)
             \/ WSFlush(e)
      PROVE  FALSE
  <2>1. /\ ws[e].at = "off" /\ ws[e].reader = "out" /\ ws[e].closer = "no" /\ ws[e].owes = "no"
    BY <1>1 DEF NewWS
  <2> QED
    BY <1>2, <2>1 DEF WSWrite, WSReadMessage, WSReadFails, WSReadFrame, WSReply, WSClose, WSAbort,
                      WSCloseStarts, WSCloseSends, WSCloseReads, WSFlush, Is, Reading
<1>3. CASE \/ TunnelWS \/ WSReadResult \/ WSCancelled \/ ServeWS \/ WSAccept \/ WSReject
           \/ WSRejectWrites
  BY <1>1, <1>3 DEF TunnelWS, WSReadResult, WSCancelled, ServeWS, WSAccept, WSReject,
                    WSRejectWrites, Is, NewWS, WSPlaces
<1>4. CASE \/ WSHandlerReturns \/ WSHandlerDone
           \/ WSProxyDials \/ WSProxyPump \/ WSProxyRead \/ WSUpstreamTakes \/ WSProxyWaits
           \/ WSProxyCloses
  BY <1>1, <1>4 DEF WSHandlerReturns, WSHandlerDone, WSProxyDials, WSProxyPump, WSProxyRead,
                    WSUpstreamTakes, WSProxyWaits, WSProxyCloses, NewTarget, WSPlaces
<1> QED
  BY <1>2, <1>3, <1>4 DEF WSNext

Resets ==
  /\ main' = "gone" /\ pump' = NewPump
  /\ serve' = [NewServe EXCEPT !.wrote = serve.wrote, !.spoilt = serve.spoilt]

\* The server's own steps enter a session only by the kind of its OPEN.
LEMMA ServerMoves ==
  ASSUME TypeOK, OneUse, ServerNext
  PROVE  /\ UNCHANGED <<want, fetch, ws, target>>
         /\ UNCHANGED <<pump, serve>> \/ Resets
         /\ main' \in HTTPPlaces => main' = main \/ want.kind = "http"
         /\ main' \in WSPlaces => main' = main \/ want.kind = "ws"
         /\ main' = "none" => main' = main
         /\ want.kind # "raw" =>
              /\ main \in Final => main' \in Final
              /\ main' \in Before \cup HTTPPlaces => main \in Before \cup HTTPPlaces
              /\ bridging' = "off"
<1>0. want.kind \in {"raw", "http", "ws"} /\ (want.kind # "raw" => bridging = "off")
  BY TypeParts, TunnelAssumption DEF CoreType, AllUses, OneUse
<1>1. ASSUME NEW e \in Ends,
             Cancel(e) \/ CloseAll(e) \/ CloseMember(e) \/ RunEnds(e) \/ TcpEnds(e)
      PROVE  UNCHANGED <<want, fetch, ws, target, main, pump, serve, bridging>>
  BY <1>1 DEF Cancel, CloseAll, CloseMember, RunEnds, TcpEnds, httpVars, wsVars, tunnelVars
<1>2. CASE ClientSends \/ Sniff \/ Dial \/ FirstRead \/ Reap \/ BridgeCopies
  <2>1. UNCHANGED <<want, fetch, ws, target, main, pump, serve, bridging>>
    BY <1>2 DEF ClientSends, Sniff, Dial, FirstRead, Reap, BridgeCopies, httpVars, wsVars, tunnelVars
  <2> QED
    BY <1>0, <2>1
<1>3. CASE AcceptTCP \/ OpenStream \/ ClientBridgeEnds
  <2>1. want.kind = "raw"
    BY <1>0, <1>3 DEF AcceptTCP, OpenStream, ClientBridgeEnds
  <2>2. UNCHANGED <<want, fetch, ws, target, pump, serve>> /\ main' \in {main, "queued"}
    BY <1>3 DEF AcceptTCP, OpenStream, ClientBridgeEnds, httpVars, wsVars
  <2> QED
    BY <2>1, <2>2 DEF HTTPPlaces, WSPlaces
<1>4. CASE AcceptStream \/ TakeVerdict \/ UpstreamFirst
  <2>1. /\ UNCHANGED <<want, fetch, ws, target, pump, serve, bridging>>
        /\ main \in {"queued", "sniffing", "race", "dialed", "nodial", "headed", "kicking", "needhead"}
        /\ main' \in {"sniffing", "race", "open", "needhead", "toraw", "leave", "nodial", "dialed",
                      "headed", "kicking"}
        /\ main = "needhead" => main' \in {"leave", "toraw"}
    BY <1>4 DEF AcceptStream, TakeVerdict, UpstreamFirst, httpVars, wsVars, tunnelVars
  <2> QED
    BY <1>0, <2>1 DEF HTTPPlaces, WSPlaces, Final, Before
<1>5. CASE ToRaw \/ BridgeEnds \/ ServeTunnelConn \/ Flush \/ LeaveRaw
  <2>1. /\ UNCHANGED <<want, fetch, ws, target, pump, serve, bridging>>
        /\ \/ main = "toraw" /\ main' \in {"leaveraw", "bridge"}
           \/ main = "bridge" /\ main' = "leaveraw"
           \/ main = "open" /\ main' \in {want.kind, "flush", "leave"}
           \/ main = "flush" /\ main' = "leave"
           \/ main = "leaveraw" /\ main' = "leave"
    BY <1>5 DEF ToRaw, BridgeEnds, ServeTunnelConn, Flush, LeaveRaw, httpVars, wsVars, tunnelVars
  <2> QED
    BY <1>0, <2>1 DEF HTTPPlaces, WSPlaces, Final, Before
<1>6. CASE Leave
  <2>1. UNCHANGED <<want, fetch, ws, target, bridging>> /\ main = "leave" /\ Resets
    BY <1>6 DEF Leave, Resets, wsVars
  <2> QED
    BY <1>0, <2>1 DEF Resets, HTTPPlaces, WSPlaces, Final, Before
<1> QED
  BY <1>0, <1>1, <1>2, <1>3, <1>4, <1>5, <1>6 DEF ServerNext

LEMMA HTTPMoves ==
  ASSUME TypeOK, HTTPNext, UNCHANGED <<wsVars, tunnelVars>>
  PROVE  /\ UNCHANGED <<want, ws, target, bridging>>
         /\ main' \in HTTPPlaces => main \in HTTPPlaces
         /\ main' \in WSPlaces => main' = main
         /\ main' = "none" => main' = main
         /\ main \in Final => main' \in Final
         /\ main' \in Before \cup HTTPPlaces => main \in Before \cup HTTPPlaces
<1>1. /\ UNCHANGED <<want, ws, target, bridging>>
      /\ \/ UNCHANGED main
         \/ main = "none" /\ main' = "queued"
         \/ main \in HTTPPlaces /\ main' \in {"handler", "roundtrip", "stream", "flush", "leave"}
  BY DEF wsVars, tunnelVars, HTTPNext, TunnelFetch, Upload, ReadResult, RespRead, RespClose,
     FetchCancelled, ServeHTTP, PumpRead, PumpPut, BodyRead, WatchAbort, HandlerWrite,
     HandlerReturns, ProxyFails, ProxyResult, ProxyData, ProxyEnds, HTTPPlaces
<1> QED
  BY <1>1 DEF HTTPPlaces, WSPlaces, Final, Before

LEMMA WSMoves ==
  ASSUME WSNext, UNCHANGED <<httpVars, tunnelVars>>
  PROVE  /\ UNCHANGED <<want, fetch, pump, serve, bridging>>
         /\ main' \in HTTPPlaces => main' = main
<1>1. UNCHANGED want /\ (UNCHANGED main \/ main' \notin HTTPPlaces)
  <2>1. CASE \E e \in Ends :
               \/ WSWrite(e) \/ WSReadMessage(e) \/ WSReadFails(e) \/ WSReadFrame(e) \/ WSReply(e)
               \/ WSClose(e) \/ WSAbort(e) \/ WSCloseStarts(e) \/ WSCloseSends(e) \/ WSCloseReads(e)
             \/ WSFlush(e)
    BY <2>1 DEF WSWrite, WSReadMessage, WSReadFails, WSReadFrame, WSReply, WSClose, WSAbort,
                WSCloseStarts, WSCloseSends, WSCloseReads, WSFlush
  <2>2. CASE \/ TunnelWS \/ WSReadResult \/ WSCancelled \/ ServeWS \/ WSAccept \/ WSReject
             \/ WSRejectWrites
    BY <2>2 DEF TunnelWS, WSReadResult, WSCancelled, ServeWS, WSAccept, WSReject, WSRejectWrites,
                HTTPPlaces
  <2>3. CASE WSHandlerReturns \/ WSHandlerDone \/ WSProxyDials \/ WSProxyPump
    BY <2>3 DEF WSHandlerReturns, WSHandlerDone, WSProxyDials, WSProxyPump, HTTPPlaces
  <2>4. CASE WSProxyRead \/ WSUpstreamTakes \/ WSProxyWaits \/ WSProxyCloses
    BY <2>4 DEF WSProxyRead, WSUpstreamTakes, WSProxyWaits, WSProxyCloses, HTTPPlaces
  <2> QED
    BY <2>1, <2>2, <2>3, <2>4 DEF WSNext
<1> QED
  BY <1>1 DEF httpVars, tunnelVars

\* Before the request is made nothing is on the way.
LEMMA UnusedStep ==
  ASSUME TypeOK, OneUse, [Next]_vars, want.kind = "http", main = "none", main' = "none"
  PROVE  UNCHANGED <<fetch, serve, pump>> /\ \A e \in Ends : link'.wire[e] = <<>>
<1>0. /\ fetch = NewFetch /\ serve = NewServe /\ pump = NewPump /\ bridging = "off"
      /\ \A e \in Ends : link.wire[e] = <<>> /\ ~HasFrame(e)
      /\ link \in Links /\ "client" \in Ends /\ "server" \in Ends
  BY OtherEnd, TypeParts, Types DEF OneUse, HasFrame, CoreType
<1>1. CASE UNCHANGED vars
  BY <1>0, <1>1 DEF vars, httpVars
<1>2. \A e \in Ends : \A m \in Closings(link, e) : \A x \in Ends : m.wire[x] = <<>>
  <2> SUFFICES ASSUME NEW e \in Ends, NEW m \in Closings(link, e), NEW x \in Ends
               PROVE  m.wire[x] = <<>>
    OBVIOUS
  <2>1. CASE x # e
    BY <1>0, <2>1, ClosingsFacts
  <2>2. CASE x = e
    <3>1. Cut(<<>>, m.wire[e])
      BY <1>0, ClosingsFacts
    <3>2. m.wire[e] = SubSeq(<<>>, 1, 0)
      BY <3>1 DEF Cut
    <3> QED
      BY <2>2, <3>2
  <2> QED
    BY <2>1, <2>2
<1>3. CASE HTTPNext
  <2>1. fetch.at = "off" /\ fetch.upload = "off" /\ pump.on = FALSE
    BY <1>0 DEF NewFetch, NewPump
  <2> QED
    BY <2>1, <1>3 DEF HTTPNext, TunnelFetch, Upload, ReadResult, RespRead, RespClose,
       FetchCancelled, ServeHTTP, PumpRead, PumpPut, BodyRead, WatchAbort, HandlerWrite,
       HandlerReturns, ProxyFails, ProxyResult, ProxyData, ProxyEnds
<1>4. CASE WSNext
  BY <1>4, WSIdle
<1>5. CASE StreamBreaks
  BY <1>5 DEF StreamBreaks
<1>6. CASE ServerNext
  <2>1. UNCHANGED <<fetch, serve, pump>>
    BY <1>6, ServerMoves DEF Resets
  <2>2. \/ UNCHANGED link
        \/ \E e \in Ends : link' \in Closings(link, e)
    BY <1>0, <1>6 DEF ServerNext, Cancel, CloseAll, CloseMember, RunEnds, TcpEnds, AcceptTCP,
       OpenStream, ClientSends, ClientBridgeEnds, AcceptStream, Sniff, Dial, FirstRead, Reap,
       TakeVerdict, UpstreamFirst, ToRaw, BridgeCopies, BridgeEnds, ServeTunnelConn, Flush,
       LeaveRaw, Leave
  <2> QED
    BY <1>0, <1>2, <2>1, <2>2
<1> QED
  BY <1>1, <1>3, <1>4, <1>5, <1>6 DEF Next

LEMMA SameUse == ASSUME TypeOK, OneUse, [Next]_vars PROVE UNCHANGED want
<1>1. CASE ServerNext
  BY <1>1, ServerMoves
<1>2. CASE HTTPNext /\ UNCHANGED <<wsVars, tunnelVars>>
  BY <1>2, HTTPMoves
<1>3. CASE WSNext /\ UNCHANGED <<httpVars, tunnelVars>>
  BY <1>3, WSMoves
<1>4. CASE StreamBreaks
  BY <1>4 DEF StreamBreaks
<1>5. CASE UNCHANGED vars
  BY <1>5 DEF vars
<1> QED
  BY <1>1, <1>2, <1>3, <1>4, <1>5 DEF Next

LEMMA UseStep == ASSUME TypeOK, OneUse, [Next]_vars PROVE OneUse'
<1>1. CASE UNCHANGED vars
  BY <1>1 DEF vars, httpVars, wsVars, tunnelVars, OneUse
<1>0. UNCHANGED want
  BY SameUse
<1>2. want.kind # "http" => /\ fetch'.at = "off" /\ fetch'.saw = "more" /\ fetch'.upload = "off"
                            /\ serve'.body = "more" /\ ~serve'.spoilt /\ main' \notin HTTPPlaces
  <2> SUFFICES ASSUME want.kind # "http"
               PROVE  /\ fetch' = fetch /\ main' \notin HTTPPlaces
                      /\ serve' = serve \/ (serve'.body = "more" /\ serve'.spoilt = serve.spoilt)
    BY DEF OneUse
  <2>0. main \notin HTTPPlaces
    BY DEF OneUse
  <2>1. CASE ServerNext
    BY <2>0, <2>1, ServerMoves DEF Resets, NewServe
  <2>2. CASE HTTPNext /\ UNCHANGED <<wsVars, tunnelVars>>
    BY <2>0, <2>2, HTTPIdle
  <2>3. CASE WSNext /\ UNCHANGED <<httpVars, tunnelVars>>
    BY <2>0, <2>3, WSMoves
  <2>4. CASE StreamBreaks /\ UNCHANGED <<httpVars, wsVars, tunnelVars>>
    BY <2>0, <2>4 DEF StreamBreaks, httpVars
  <2>5. CASE UNCHANGED vars
    BY <2>0, <2>5 DEF vars, httpVars
  <2> QED
    BY <2>1, <2>2, <2>3, <2>4, <2>5 DEF Next
<1>3. want.kind # "ws" => ws' = ws /\ target' = target /\ main' \notin WSPlaces
  <2> SUFFICES ASSUME want.kind # "ws" PROVE ws' = ws /\ target' = target /\ main' \notin WSPlaces
    OBVIOUS
  <2>0. main \notin WSPlaces
    BY DEF OneUse
  <2>1. CASE ServerNext
    BY <2>0, <2>1, ServerMoves
  <2>2. CASE HTTPNext /\ UNCHANGED <<wsVars, tunnelVars>>
    BY <2>0, <2>2, HTTPMoves
  <2>3. CASE WSNext
    BY <2>3, WSIdle
  <2>4. CASE StreamBreaks /\ UNCHANGED <<httpVars, wsVars, tunnelVars>>
    BY <2>0, <2>4 DEF StreamBreaks, wsVars
  <2>5. CASE UNCHANGED vars
    BY <2>0, <2>5 DEF vars, wsVars
  <2> QED
    BY <2>1, <2>2, <2>3, <2>4, <2>5 DEF Next
<1>4. want.kind # "raw" => bridging' = "off"
  <2>1. CASE ServerNext
    BY <2>1, ServerMoves
  <2>2. CASE UNCHANGED bridging
    BY <2>2 DEF OneUse
  <2> QED
    BY <1>1, <2>1, <2>2 DEF Next, vars, tunnelVars
<1>5. want.kind = "http" /\ main' = "none" =>
        /\ fetch' = NewFetch /\ serve' = NewServe /\ pump' = NewPump
        /\ \A e \in Ends : link'.wire[e] = <<>>
  <2> SUFFICES ASSUME want.kind = "http", main' = "none"
               PROVE  /\ fetch' = NewFetch /\ serve' = NewServe /\ pump' = NewPump
                      /\ \A e \in Ends : link'.wire[e] = <<>>
    OBVIOUS
  <2>1. main = "none"
    <3>1. CASE ServerNext
      BY <3>1, ServerMoves
    <3>2. CASE HTTPNext /\ UNCHANGED <<wsVars, tunnelVars>>
      BY <3>2, HTTPMoves
    <3>3. CASE WSNext
      BY <3>3, WSIdle
    <3>4. CASE StreamBreaks \/ UNCHANGED vars
      BY <3>4 DEF StreamBreaks, vars
    <3> QED
      BY <3>1, <3>2, <3>3, <3>4 DEF Next
  <2> QED
    BY <2>1, UnusedStep DEF OneUse
<1> QED
  BY <1>0, <1>2, <1>3, <1>4, <1>5 DEF OneUse

-----------------------------------------------------------------------------
(* The response. *)

R == link.wire["server"]

LEMMA ResponseTypes ==
  ASSUME TypeOK
  PROVE  /\ R \in Seq(FrameTypes) /\ link \in Links
         /\ fetch \in Fetches /\ serve \in Serves
         /\ fetch.got \in Nat /\ serve.wrote \in Nat /\ DataIn(R) \in Nat
         /\ "client" \in Ends /\ "server" \in Ends
<1>1. link \in Links /\ fetch \in Fetches /\ serve \in Serves
  BY TypeParts DEF CoreType, HTTPType
<1>2. R \in Seq(FrameTypes)
  BY <1>1, Types, LinkTypes DEF R
<1> QED
  BY <1>1, <1>2, Types, DataInType DEF Fetches, Serves

LEMMA ResponseInit == TunnelInit => ResponseInv
<1> SUFFICES ASSUME TunnelInit PROVE ResponseInv
  OBVIOUS
<1>1. fetch.at = "off" /\ fetch.saw = "more" /\ serve.spoilt = FALSE
  BY DEF TunnelInit, Init, NewFetch, NewServe
<1> QED
  BY <1>1 DEF ResponseInv, Receiving

\* Steps that at most cut what is on its way.
LEMMA ResponseKept ==
  ASSUME TypeOK, ResponseInv,
         fetch'.at = fetch.at, fetch'.saw = fetch.saw, fetch'.got = fetch.got,
         serve'.wrote = serve.wrote, serve'.spoilt = serve.spoilt,
         main \in Final => main' \in Final,
         Cut(R, R'), Whole' => Whole /\ R' = R
  PROVE  ResponseInv'
<1>1. PICK k \in 0..Len(R) : R' = SubSeq(R, 1, k)
  BY DEF Cut
<1>2. /\ NoEnd(R) => NoEnd(R')
      /\ Guarded(R) => Guarded(R')
      /\ \A b, t : Answered(R, b, t) => Answered(R', b, t)
  BY <1>1, ResponseTypes, CutFacts
<1>3. Receiving' = Receiving
  BY DEF Receiving
<1> QED
  BY <1>2, <1>3 DEF ResponseInv, R

\* The server writes before it is done.
LEMMA ResponseGrows ==
  ASSUME TypeOK, ResponseInv, UNCHANGED fetch, main \notin Final,
         NEW fs \in Seq(FrameTypes), NoEnd(fs),
         Whole => R' = R \o fs /\ serve'.wrote = serve.wrote + DataIn(fs),
         ~Whole => R' = R, Whole' => Whole,
         serve'.spoilt => main' \in Final
  PROVE  ResponseInv'
<1>0. fetch.saw # "END" /\ Receiving' = Receiving /\ fetch' = fetch
  BY DEF ResponseInv, Receiving
<1> SUFFICES ASSUME Receiving
             PROVE  /\ Whole' => fetch.got + DataIn(R') = serve'.wrote
                    /\ NoEnd(R')
  <2>1. NoEnd(R') => Guarded(R') /\ \A b, t : Answered(R', b, t)
    BY DEF NoEnd, Guarded, Answered
  <2> QED
    BY <1>0, <2>1 DEF ResponseInv, R
<1>1. NoEnd(R) /\ (Whole => fetch.got + DataIn(R) = serve.wrote)
  BY DEF ResponseInv, R
<1>2. CASE Whole
  <2>1. R \o fs \in Seq(FrameTypes) /\ DataIn(R \o fs) = DataIn(R) + DataIn(fs) /\ NoEnd(R \o fs)
    <3>1. 0 \in Nat
      OBVIOUS
    <3> QED
      BY <1>1, <3>1, ResponseTypes, JoinFacts
  <2>2. fetch.got \in Nat /\ DataIn(R) \in Nat /\ DataIn(fs) \in Nat
    BY ResponseTypes, DataInType
  <2>3. R' = R \o fs /\ serve'.wrote = serve.wrote + DataIn(fs)
    BY <1>2
  <2>4. fetch.got + (DataIn(R) + DataIn(fs)) = serve.wrote + DataIn(fs)
    BY <1>1, <1>2, <2>2
  <2> QED
    BY <2>1, <2>3, <2>4
<1>3. CASE ~Whole
  BY <1>1, <1>3
<1> QED
  BY <1>2, <1>3

\* The server is done: an END for the whole response, or an ABORT before it.
LEMMA ResponseEnds ==
  ASSUME TypeOK, ResponseInv, UNCHANGED fetch, main \notin Final, main' \in Final,
         NEW fs \in Seq(FrameTypes), DataIn(fs) = 0,
         Guarded(fs) \/ (~serve'.spoilt /\ \A b \in Nat : Answered(fs, b, b)),
         Whole => R' = R \o fs, ~Whole => R' = R, Whole' => Whole,
         serve'.wrote = serve.wrote
  PROVE  ResponseInv'
<1>0. fetch.saw # "END" /\ Receiving' = Receiving /\ fetch' = fetch
  BY DEF ResponseInv, Receiving
<1> SUFFICES ASSUME Receiving
             PROVE  /\ Whole' => fetch.got + DataIn(R') = serve.wrote
                    /\ serve'.spoilt => Guarded(R')
                    /\ Answered(R', fetch.got, serve.wrote)
  BY <1>0 DEF ResponseInv, R
<1>1. NoEnd(R) /\ (Whole => fetch.got + DataIn(R) = serve.wrote)
  BY DEF ResponseInv, R
<1>2. Guarded(R) /\ \A b, t : Answered(R, b, t)
  BY <1>1 DEF NoEnd, Guarded, Answered
<1>3. CASE Whole
  <2>1. /\ DataIn(R \o fs) = DataIn(R) + DataIn(fs)
        /\ Guarded(fs) => Guarded(R \o fs) /\ Answered(R \o fs, fetch.got, serve.wrote)
        /\ Answered(fs, fetch.got + DataIn(R), serve.wrote)
             => Answered(R \o fs, fetch.got, serve.wrote)
    BY <1>2, ResponseTypes, JoinFacts
  <2>2. fetch.got \in Nat /\ DataIn(R) \in Nat /\ serve.wrote \in Nat
    BY ResponseTypes
  <2>3. fetch.got + DataIn(R) = serve.wrote /\ R' = R \o fs
    BY <1>1, <1>3
  <2>4. DataIn(R') = DataIn(R)
    BY <2>1, <2>2, <2>3
  <2> QED
    BY <2>1, <2>2, <2>3, <2>4
<1>4. CASE ~Whole
  BY <1>2, <1>4
<1> QED
  BY <1>3, <1>4

\* The client has read the next frame.
LEMMA ResponseRead ==
  ASSUME TypeOK, ResponseInv, UNCHANGED <<main, serve>>, R # <<>>, R' = Tail(R),
         Whole' => Whole, Receiving,
         \/ /\ Head(R) \notin {"DATA", "END", "ABORT"}
            /\ fetch'.got = fetch.got /\ fetch'.saw = "more"
         \/ /\ Head(R) = "DATA"
            /\ fetch'.got = fetch.got + 1 /\ fetch'.saw = "more"
         \/ /\ Head(R) # "DATA"
            /\ fetch'.got = fetch.got /\ fetch'.saw = Head(R)
  PROVE  ResponseInv'
<1>0. /\ R \in Seq(FrameTypes) /\ fetch.got \in Nat /\ serve.wrote \in Nat
      /\ DataIn(R) \in Nat /\ DataIn(Tail(R)) \in Nat
  BY ResponseTypes, HeadTail, DataInType
<1>1. /\ Whole => fetch.got + DataIn(R) = serve.wrote
      /\ main \notin Final => NoEnd(R) /\ ~serve.spoilt
      /\ serve.spoilt => Guarded(R)
      /\ Answered(R, fetch.got, serve.wrote)
  BY DEF ResponseInv, R
<1>2. /\ DataIn(R) = Weight(Head(R)) + DataIn(Tail(R))
      /\ NoEnd(R) => NoEnd(Tail(R)) /\ Head(R) # "END"
      /\ Answered(R, fetch.got, serve.wrote) /\ Head(R) # "ABORT"
           => Answered(Tail(R), fetch.got + Weight(Head(R)), serve.wrote)
      /\ Answered(R, fetch.got, serve.wrote) /\ Head(R) = "END" => fetch.got = serve.wrote
      /\ Guarded(R) => Head(R) # "END"
      /\ Guarded(R) /\ Head(R) # "ABORT" => Guarded(Tail(R))
  BY <1>0, TailFacts
<1>3. CASE fetch'.saw = Head(R) /\ Head(R) # "DATA" /\ fetch'.got = fetch.got
  <2>1. Head(R) # "more"
    <3>1. Head(R) \in FrameTypes
      BY <1>0, HeadTail
    <3> QED
      BY <3>1 DEF FrameTypes
  <2>2. ~Receiving'
    BY <1>3, <2>1 DEF Receiving
  <2>3. Head(R) = "END" => main \in Final /\ fetch.got = serve.wrote /\ ~serve.spoilt
    BY <1>1, <1>2
  <2> QED
    BY <1>1, <1>3, <2>2, <2>3 DEF ResponseInv
<1>4. ASSUME Head(R) \notin {"END", "ABORT"}, fetch'.saw = "more",
             fetch'.got = fetch.got + Weight(Head(R))
      PROVE  ResponseInv'
  <2>1. Weight(Head(R)) \in Nat
    BY DEF Weight
  <2>2. Whole' => fetch'.got + DataIn(R') = serve'.wrote
    BY <1>0, <1>1, <1>2, <1>4, <2>1
  <2>3. Answered(R', fetch'.got, serve'.wrote)
    BY <1>1, <1>2, <1>4
  <2> QED
    BY <1>1, <1>2, <1>4, <2>2, <2>3 DEF ResponseInv, R
<1>5. fetch.got + 0 = fetch.got
  BY <1>0
<1> QED
  BY <1>3, <1>4, <1>5 DEF Weight

\* Nobody waits for the response any more.
LEMMA ResponseOver ==
  ASSUME ResponseInv, serve'.spoilt = serve.spoilt, serve'.wrote = serve.wrote,
         main \in Final => main' \in Final, ~Receiving',
         fetch'.saw = "END" => fetch.saw = "END" /\ fetch'.got = fetch.got
  PROVE  ResponseInv'
BY DEF ResponseInv

\* Closing an end, or losing every path, cuts both directions.
LEMMA CutBoth ==
  ASSUME TypeOK,
         \/ UNCHANGED link
         \/ \E e \in Ends : link' \in Closings(link, e) \cup Quits(link, e)
         \/ link' \in Broken(link)
  PROVE  /\ \A e \in Ends : Cut(link.wire[e], link'.wire[e])
         /\ Whole' => UNCHANGED link
<1> DEFINE Goal == /\ \A x \in Ends : Cut(link.wire[x], link'.wire[x])
                   /\ Whole' => link' = link
<1>0. link \in Links /\ \A e \in Ends : link.wire[e] \in Seq(FrameTypes)
  BY TypeParts, LinkTypes DEF CoreType
<1>1. ASSUME UNCHANGED link PROVE Goal
  BY <1>0, <1>1, CutAll
<1>2. ASSUME NEW e \in Ends, link' \in Closings(link, e) PROVE Goal
  <2>1. \A x \in Ends : Cut(link.wire[x], link'.wire[x])
    <3> SUFFICES ASSUME NEW x \in Ends PROVE Cut(link.wire[x], link'.wire[x])
      OBVIOUS
    <3>1. CASE x = e
      BY <1>0, <1>2, <3>1, ClosingsFacts
    <3>2. CASE x # e
      BY <1>0, <1>2, <3>2, ClosingsFacts, CutAll
    <3> QED
      BY <3>1, <3>2
  <2>2. link'.closed[e]
    BY <1>0, <1>2, ClosingsFacts
  <2> QED
    BY <2>1, <2>2 DEF Whole
<1>3. ASSUME NEW e \in Ends, link' \in Quits(link, e) PROVE Goal
  <2>1. \A x \in Ends : Cut(link.wire[x], link'.wire[x])
    <3> SUFFICES ASSUME NEW x \in Ends PROVE Cut(link.wire[x], link'.wire[x])
      OBVIOUS
    <3>1. CASE x = e
      BY <1>0, <1>3, <3>1, QuitsFacts
    <3>2. CASE x # e
      BY <1>0, <1>3, <3>2, OtherEnd, QuitsFacts, CutAll
    <3> QED
      BY <3>1, <3>2
  <2>2. link'.closed[e]
    BY <1>0, <1>3, QuitsFacts
  <2> QED
    BY <2>1, <2>2 DEF Whole
<1>4. ASSUME link' \in Broken(link) PROVE Goal
  BY <1>0, <1>4, BrokenFacts, Types DEF Whole
<1> HIDE DEF Goal
<1>5. ASSUME \E e \in Ends : link' \in Closings(link, e) \cup Quits(link, e) PROVE Goal
  <2>1. PICK e \in Ends : link' \in Closings(link, e) \/ link' \in Quits(link, e)
    BY <1>5
  <2>2. CASE link' \in Closings(link, e)
    BY <1>2, <2>1, <2>2
  <2>3. CASE link' \in Quits(link, e)
    BY <1>3, <2>1, <2>3
  <2> QED
    BY <2>1, <2>2, <2>3
<1>6. Goal
  BY <1>1, <1>4, <1>5
<1> QED
  BY <1>6 DEF Goal

\* What a write at one end and a read at the other leave of the directions.
LEMMA Wrote ==
  ASSUME TypeOK, NEW e \in Ends, NEW fs \in Seq(FrameTypes), link' = Written(link, e, fs)
  PROVE  /\ Whole' = Whole
         /\ Whole => link'.wire[e] = link.wire[e] \o fs
         /\ ~Whole => link'.wire[e] = link.wire[e]
         /\ \A x \in Ends : x # e => link'.wire[x] = link.wire[x]
BY TypeParts, WrittenFacts, SMTT(30) DEF CoreType, Whole

LEMMA Took ==
  ASSUME TypeOK, NEW e \in Ends, HasFrame(e), link' = Consumed(e)
  PROVE  /\ Whole' = Whole
         /\ link.wire[Other(e)] # <<>> /\ link.wire[Other(e)] \in Seq(FrameTypes)
         /\ link'.wire[Other(e)] = Tail(link.wire[Other(e)])
         /\ link'.wire[e] = link.wire[e]
         /\ Frame(e) = Head(link.wire[Other(e)])
BY TypeParts, ConsumedFacts DEF CoreType, Whole

LEMMA Silent ==
  /\ NoEnd(<<"ABORT">>) /\ DataIn(<<"ABORT">>) = 0
  /\ NoEnd(<<"RESULT">>) /\ DataIn(<<"RESULT">>) = 0
  /\ NoEnd(<<"DATA">>) /\ DataIn(<<"DATA">>) = 1
  /\ NoEnd(<<>>) /\ DataIn(<<>>) = 0
  /\ DataIn(<<"END">>) = 0 /\ \A b \in Nat : Answered(<<"END">>, b, b) /\ Counted(<<"END">>, b, b)
<1>1. NoEnd(<<"ABORT">>) /\ NoEnd(<<"RESULT">>) /\ NoEnd(<<"DATA">>)
  BY DEF NoEnd
<1>2. DataIn(<<"ABORT">>) = 0 /\ DataIn(<<"RESULT">>) = 0 /\ DataIn(<<"DATA">>) = 1 /\ DataIn(<<"END">>) = 0
  BY Single DEF Weight
<1>3. ASSUME NEW b \in Nat PROVE Answered(<<"END">>, b, b) /\ Counted(<<"END">>, b, b)
  <2>1. DataUpTo(<<"END">>, 1) = 0
    BY DataOne DEF Weight
  <2>2. \A i \in 1..Len(<<"END">>) : b + DataUpTo(<<"END">>, i) = b
    BY <2>1
  <2> QED
    BY <2>2 DEF Answered, Counted
<1> QED
  BY <1>1, <1>2, <1>3, Empty

LEMMA Pairs == \A a, b : <<a, b>> = <<a>> \o <<b>>
<1> SUFFICES ASSUME NEW a, NEW b PROVE <<a>> \o <<b>> = <<a, b>>
  OBVIOUS
<1>1. <<a>> \in Seq({a, b}) /\ <<b>> \in Seq({a, b}) /\ <<a, b>> \in Seq({a, b})
  OBVIOUS
<1>2. /\ <<a>> \o <<b>> \in Seq({a, b}) /\ Len(<<a>> \o <<b>>) = 2
      /\ (<<a>> \o <<b>>)[1] = a /\ (<<a>> \o <<b>>)[2] = b
  BY <1>1
<1>3. Len(<<a, b>>) = 2 /\ \A i \in 1..2 : (<<a>> \o <<b>>)[i] = <<a, b>>[i]
  BY <1>2
<1> QED
  BY <1>1, <1>2, <1>3, SeqEqual

LEMMA PairData == ASSUME NEW a, NEW b PROVE DataIn(<<a, b>>) = Weight(a) + Weight(b)
<1>1. <<a>> \in Seq({a, b}) /\ <<b>> \in Seq({a, b}) /\ 0 \in Nat
  OBVIOUS
<1>2. DataIn(<<a>> \o <<b>>) = DataIn(<<a>>) + DataIn(<<b>>)
  BY <1>1, JoinFacts
<1> QED
  BY <1>2, Pairs, Single

LEMMA Answers ==
  /\ DataIn(<<"RESULT", "END">>) = 0 /\ \A b \in Nat : Answered(<<"RESULT", "END">>, b, b)
  /\ DataIn(<<"ABORT", "END">>) = 0 /\ Guarded(<<"ABORT", "END">>)
  /\ NoEnd(<<"RESULT", "DATA">>) /\ DataIn(<<"RESULT", "DATA">>) = 1
<1>1. DataIn(<<"RESULT", "END">>) = 0
  BY PairData DEF Weight
<1>2. DataIn(<<"ABORT", "END">>) = 0
  BY PairData DEF Weight
<1>3. DataIn(<<"RESULT", "DATA">>) = 1
  BY PairData DEF Weight
<1>5. ASSUME NEW b \in Nat PROVE Answered(<<"RESULT", "END">>, b, b)
  <2>1. <<"RESULT">> \in Seq(FrameTypes) /\ <<"END">> \in Seq(FrameTypes)
    BY Types, FrameSeqs
  <2>2. Answered(<<"RESULT">>, b, b) /\ Answered(<<"END">>, b, b)
    BY Silent DEF NoEnd, Answered
  <2>3. DataIn(<<"RESULT">>) = 0 /\ b + 0 = b
    BY Silent
  <2>4. Answered(<<"RESULT">> \o <<"END">>, b, b)
    BY <2>1, <2>2, <2>3, JoinFacts
  <2> QED
    BY <2>4, Pairs
<1>6. Guarded(<<"ABORT", "END">>)
  BY DEF Guarded, Aborted
<1>7. NoEnd(<<"RESULT", "DATA">>)
  BY DEF NoEnd
<1> QED
  BY <1>1, <1>2, <1>3, <1>5, <1>6, <1>7

\* The same for what one write puts on its way.
LEMMA ResponseSends ==
  ASSUME TypeOK, ResponseInv, UNCHANGED fetch, main \notin Final,
         NEW fs \in Seq(FrameTypes), link' = Written(link, "server", fs),
         \/ NoEnd(fs) /\ serve'.wrote = serve.wrote + DataIn(fs) /\ (serve'.spoilt => main' \in Final)
         \/ /\ DataIn(fs) = 0 /\ main' \in Final /\ serve'.wrote = serve.wrote
            /\ Guarded(fs) \/ (~serve'.spoilt /\ \A b \in Nat : Answered(fs, b, b))
  PROVE  ResponseInv'
<1>1. (Whole => R' = R \o fs) /\ (~Whole => R' = R) /\ (Whole' => Whole)
  BY ResponseTypes, Wrote DEF R
<1>2. CASE NoEnd(fs) /\ serve'.wrote = serve.wrote + DataIn(fs) /\ (serve'.spoilt => main' \in Final)
  BY <1>1, <1>2, ResponseGrows
<1>3. CASE /\ DataIn(fs) = 0 /\ main' \in Final /\ serve'.wrote = serve.wrote
           /\ Guarded(fs) \/ (~serve'.spoilt /\ \A b \in Nat : Answered(fs, b, b))
  BY <1>1, <1>3, ResponseEnds
<1> QED
  BY <1>2, <1>3

\* What the server's own steps do to the stream of a request.
LEMMA ServerLink ==
  ASSUME TypeOK, want.kind = "http", bridging = "off", ServerNext
  PROVE  \/ UNCHANGED link
         \/ \E e \in Ends : link' \in Closings(link, e) \cup Quits(link, e)
         \/ /\ HasFrame("server") /\ link' = Consumed("server")
            /\ Frame("server") # "DATA" \/ main' = "bridge"
         \/ /\ main = "open" /\ main' = "flush" /\ HasFrame("server")
            /\ link' = Written(Consumed("server"), "server", <<"ABORT">>)
            /\ UNCHANGED serve
<1>t. "client" \in Ends /\ "server" \in Ends
  BY Types
<1>1. CASE \E e \in Ends :
             Cancel(e) \/ CloseAll(e) \/ CloseMember(e) \/ RunEnds(e) \/ TcpEnds(e)
  BY <1>1 DEF Cancel, CloseAll, CloseMember, RunEnds, TcpEnds
<1>2. CASE AcceptTCP \/ OpenStream \/ ClientSends \/ ClientBridgeEnds
  BY <1>2 DEF AcceptTCP, OpenStream, ClientSends, ClientBridgeEnds
<1>3. CASE AcceptStream \/ Sniff \/ Dial \/ FirstRead \/ Reap \/ TakeVerdict \/ UpstreamFirst
  BY <1>t, <1>3 DEF AcceptStream, StreamAdded, Sniff, Dial, FirstRead, Reap, TakeVerdict,
                    UpstreamFirst
<1>4. CASE ToRaw \/ BridgeCopies \/ BridgeEnds \/ Flush \/ LeaveRaw \/ Leave
  BY <1>t, <1>4 DEF ToRaw, BridgeCopies, BridgeEnds, Flush, LeaveRaw, Leave
<1>5. CASE ServeTunnelConn
  BY <1>5 DEF ServeTunnelConn, httpVars
<1> QED
  BY <1>1, <1>2, <1>3, <1>4, <1>5 DEF ServerNext

LEMMA ResponseServer ==
  ASSUME TypeOK, OneUse, ResponseInv, want.kind = "http", ServerNext
  PROVE  ResponseInv'
<1>0. /\ fetch' = fetch /\ serve'.wrote = serve.wrote /\ serve'.spoilt = serve.spoilt
      /\ main \in Final => main' \in Final
      /\ bridging = "off"
  BY ServerMoves DEF Resets, NewServe, OneUse
<1>t. /\ R \in Seq(FrameTypes) /\ link \in Links /\ "client" \in Ends /\ "server" \in Ends
      /\ "server" # "client" /\ Other("server") = "client"
  BY ResponseTypes, Types
<1>1. CASE \/ UNCHANGED link
           \/ \E e \in Ends : link' \in Closings(link, e) \cup Quits(link, e)
  <2>1. Cut(R, R') /\ (Whole' => UNCHANGED link)
    BY <1>1, <1>t, CutBoth DEF R
  <2>2. UNCHANGED link => Whole' = Whole /\ R' = R
    BY DEF Whole, R
  <2> QED
    BY <1>0, <2>1, <2>2, ResponseKept
<1>2. CASE HasFrame("server") /\ link' = Consumed("server")
  <2>1. Whole' = Whole /\ R' = R
    BY <1>2, <1>t, Took DEF R
  <2>2. Cut(R, R')
    BY <1>t, <2>1, CutAll
  <2> QED
    BY <1>0, <2>1, <2>2, ResponseKept
<1>3. CASE /\ main = "open" /\ HasFrame("server")
           /\ link' = Written(Consumed("server"), "server", <<"ABORT">>)
           /\ UNCHANGED serve
  <2>1. Consumed("server") \in Links /\ Consumed("server").closed = link.closed
        /\ Consumed("server").wire["server"] = R
    BY <1>t, <1>3, ConsumedFacts DEF R
  <2>2. <<"ABORT">> \in Seq(FrameTypes)
    BY Types, FrameSeqs
  <2> DEFINE l == Consumed("server")
  <2>l. link' = Written(l, "server", <<"ABORT">>)
    BY <1>3
  <2>m. l \in Links /\ l.closed = link.closed /\ l.wire["server"] = R
    BY <2>1
  <2> HIDE DEF l
  <2>w. /\ link'.closed = l.closed
        /\ (\A x \in Ends : ~l.closed[x]) => link'.wire["server"] = l.wire["server"] \o <<"ABORT">>
        /\ (\E x \in Ends : l.closed[x]) => link'.wire["server"] = l.wire["server"]
    <3>1. "server" \in Ends
      BY DEF Ends
    <3> QED
      BY <2>l, <2>m, <2>2, <3>1, WrittenFacts, Zenon
  <2>3. /\ Whole => R' = R \o <<"ABORT">>
        /\ ~Whole => R' = R
        /\ Whole' = Whole
    BY <2>m, <2>w DEF R, Whole
  <2>4. main \notin Final
    BY <1>3 DEF Final
  <2>5. serve'.wrote = serve.wrote + DataIn(<<"ABORT">>)
    BY <1>0, ResponseTypes, Silent
  <2>6. ~serve'.spoilt
    BY <1>0, <2>4 DEF ResponseInv
  <2> QED
    BY <1>0, <2>2, <2>3, <2>4, <2>5, <2>6, ResponseGrows, Silent
<1> QED
  BY <1>0, <1>1, <1>2, <1>3, ServerLink

\* A step that sends nothing to the client and takes nothing from it.
LEMMA ResponseSame ==
  ASSUME TypeOK, ResponseInv, UNCHANGED fetch,
         serve'.wrote = serve.wrote, serve'.spoilt = serve.spoilt,
         main \in Final => main' \in Final,
         R' = R, Whole' <=> Whole
  PROVE  ResponseInv'
BY ResponseTypes, CutAll, ResponseKept

LEMMA ResponseClient ==
  ASSUME TypeOK, OneUse, ResponseInv, want.kind = "http",
         \/ TunnelFetch \/ Upload \/ ReadResult \/ RespRead \/ RespClose \/ FetchCancelled
  PROVE  ResponseInv'
<1>0. /\ R \in Seq(FrameTypes) /\ link \in Links /\ "client" \in Ends /\ "server" \in Ends
      /\ "server" # "client" /\ Other("client") = "server" /\ fetch \in Fetches
  BY ResponseTypes, Types
<1>1. ASSUME link' \in Closings(link, "client") \cup Quits(link, "client")
      PROVE  Cut(R, R') /\ (Whole' => Whole /\ R' = R)
  <2>1. Cut(R, R') /\ (Whole' => UNCHANGED link)
    BY <1>0, <1>1, CutBoth DEF R
  <2>2. UNCHANGED link => Whole' = Whole /\ R' = R
    BY DEF Whole, R
  <2> QED
    BY <2>1, <2>2
<1>2. ASSUME NEW fs \in Seq(FrameTypes), link' = Written(link, "client", fs)
      PROVE  R' = R /\ (Whole' <=> Whole)
  BY <1>0, <1>2, Wrote DEF R
<1>3. CASE TunnelFetch
  <2>1. /\ main = "none" /\ main' = "queued" /\ UNCHANGED serve
        /\ link' = Written(link, "client", <<"MAGIC", "OPEN">>)
        /\ fetch' = [fetch EXCEPT !.at = "wait", !.upload = "on"]
    BY <1>3 DEF TunnelFetch
  <2>2. fetch = NewFetch /\ serve = NewServe /\ R = <<>>
    BY <1>0, <2>1 DEF OneUse, R
  <2>3. R' = <<>> /\ <<"MAGIC", "OPEN">> \in Seq(FrameTypes)
    BY <1>2, <2>1, <2>2, Types, FrameSeqs
  <2>4. /\ fetch'.got = 0 /\ fetch'.saw = "more" /\ serve'.wrote = 0 /\ serve'.spoilt = FALSE
    BY <2>1, <2>2 DEF NewFetch, NewServe
  <2>5. DataIn(R') = 0 /\ NoEnd(R') /\ \A b, t : Answered(R', b, t)
    BY <2>3, Empty DEF NoEnd, Answered
  <2>6. main' \notin Final
    BY <2>1 DEF Final
  <2> QED
    BY <2>4, <2>5, <2>6 DEF ResponseInv, R
<1>4. CASE Upload
  <2>1. /\ UNCHANGED <<main, serve>>
        /\ fetch'.at = fetch.at /\ fetch'.saw = fetch.saw /\ fetch'.got = fetch.got
    BY <1>0, <1>4 DEF Upload, Fetches
  <2>2. Cut(R, R') /\ (Whole' => Whole /\ R' = R)
    <3>1. CASE link' = Written(link, "client", <<"DATA">>) \/ link' = Written(link, "client", <<"END">>)
      BY <1>0, <1>2, <3>1, Types, FrameSeqs, CutAll
    <3> QED
      BY <1>1, <1>4, <3>1 DEF Upload
  <2> QED
    BY <2>1, <2>2, ResponseKept
<1>5. CASE FetchCancelled
  BY <1>1, <1>5, ResponseKept DEF FetchCancelled
<1>6. CASE ReadResult
  <2>1. CASE /\ HasFrame("client") /\ Frame("client") = "RESULT"
             /\ link' = Consumed("client")
             /\ fetch' = [fetch EXCEPT !.at = "body"]
    <3>1. /\ R # <<>> /\ R' = Tail(R) /\ Head(R) = "RESULT" /\ Whole' = Whole
      BY <1>0, <2>1, Took DEF R
    <3>2. /\ fetch.at = "wait" /\ UNCHANGED <<main, serve>>
          /\ fetch'.got = fetch.got /\ fetch'.saw = fetch.saw /\ fetch'.at = "body"
      BY <1>0, <1>6, <2>1 DEF ReadResult, Fetches
    <3>3. CASE fetch.saw = "more"
      BY <3>1, <3>2, <3>3, ResponseRead DEF Receiving
    <3>4. CASE fetch.saw # "more"
      BY <3>2, <3>4, ResponseOver DEF Receiving
    <3> QED
      BY <3>3, <3>4
  <2>2. CASE fetch' = [fetch EXCEPT !.at = "over"]
    BY <1>0, <1>6, <2>2, ResponseOver DEF ReadResult, Fetches, Receiving
  <2> QED
    BY <1>6, <2>1, <2>2 DEF ReadResult
<1>7. CASE RespRead
  <2>0. fetch.at = "body" /\ fetch.saw = "more" /\ UNCHANGED <<main, serve>>
    BY <1>7 DEF RespRead
  <2>1. CASE HasFrame("client") /\ link' = Consumed("client")
    <3>1. /\ R # <<>> /\ R' = Tail(R) /\ Head(R) = Frame("client") /\ Whole' = Whole
      BY <1>0, <2>1, Took DEF R
    <3>2. CASE Frame("client") = "DATA" /\ fetch' = [fetch EXCEPT !.got = @ + 1]
      BY <1>0, <2>0, <3>1, <3>2, ResponseRead DEF Receiving, Fetches
    <3>3. CASE Frame("client") # "DATA" /\ fetch' = [fetch EXCEPT !.saw = Frame("client")]
      BY <1>0, <2>0, <3>1, <3>3, ResponseRead DEF Receiving, Fetches
    <3>4. \/ Frame("client") = "DATA" /\ fetch' = [fetch EXCEPT !.got = @ + 1]
          \/ Frame("client") # "DATA" /\ fetch' = [fetch EXCEPT !.saw = Frame("client")]
          \/ UNCHANGED link
      BY <1>7 DEF RespRead
    <3>5. ~UNCHANGED link
      <4>1. Len(Tail(R)) # Len(R)
        BY <1>0, <3>1, HeadTail
      <4> QED
        BY <3>1, <4>1 DEF R
    <3> QED
      BY <3>2, <3>3, <3>4, <3>5
  <2>2. CASE UNCHANGED link /\ \E r \in ReadErrors("client") : fetch' = [fetch EXCEPT !.saw = r]
    <3>1. PICK r \in ReadErrors("client") : fetch' = [fetch EXCEPT !.saw = r]
      BY <2>2
    <3>2. r \in EndTypes
      BY <1>0, <3>1, ErrorTypes
    <3>3. r # "more" /\ r # "END"
      BY <3>2 DEF EndTypes
    <3>4. fetch'.saw = r
      BY <1>0, <3>1 DEF Fetches
    <3> QED
      BY <2>0, <3>3, <3>4, ResponseOver DEF Receiving
  <2> QED
    BY <1>7, <2>1, <2>2 DEF RespRead
<1>8. CASE RespClose
  <2>1. UNCHANGED <<main, serve>> /\ fetch'.at = "over" /\ fetch'.saw = "more"
    BY <1>0, <1>8 DEF RespClose, Fetches
  <2> QED
    BY <2>1, ResponseOver DEF Receiving
<1> QED
  BY <1>3, <1>4, <1>5, <1>6, <1>7, <1>8

LEMMA ResponseHandler ==
  ASSUME TypeOK, OneUse, ResponseInv, want.kind = "http",
         \/ ServeHTTP \/ PumpRead \/ PumpPut \/ BodyRead \/ WatchAbort
         \/ HandlerWrite \/ HandlerReturns
  PROVE  ResponseInv'
<1>0. /\ R \in Seq(FrameTypes) /\ link \in Links /\ "client" \in Ends /\ "server" \in Ends
      /\ "server" # "client" /\ Other("server") = "client" /\ serve \in Serves
      /\ serve.wrote \in Nat /\ serve.header \in BOOLEAN
  BY ResponseTypes, Types DEF Serves
<1>t. /\ <<"RESULT">> \in Seq(FrameTypes) /\ <<"DATA">> \in Seq(FrameTypes)
      /\ <<"RESULT", "DATA">> \in Seq(FrameTypes) /\ <<>> \in Seq(FrameTypes)
      /\ <<"RESULT", "END">> \in Seq(FrameTypes) /\ <<"ABORT", "END">> \in Seq(FrameTypes)
      /\ <<"END">> \in Seq(FrameTypes)
  BY Types, FrameSeqs
<1>j. /\ <<>> \o <<"END">> = <<"END">> /\ <<"RESULT">> \o <<"END">> = <<"RESULT", "END">>
      /\ <<"ABORT">> \o <<"END">> = <<"ABORT", "END">>
      /\ <<>> \o <<"DATA">> = <<"DATA">> /\ <<"RESULT">> \o <<"DATA">> = <<"RESULT", "DATA">>
      /\ <<>> \o <<>> = <<>> /\ <<"RESULT">> \o <<>> = <<"RESULT">>
  <2>1. \A q \in Seq(FrameTypes) : <<>> \o q = q /\ q \o <<>> = q
    OBVIOUS
  <2>2. /\ <<"RESULT">> \o <<"END">> = <<"RESULT", "END">>
        /\ <<"ABORT">> \o <<"END">> = <<"ABORT", "END">>
        /\ <<"RESULT">> \o <<"DATA">> = <<"RESULT", "DATA">>
    BY Pairs
  <2> QED
    BY <1>t, <2>1, <2>2
<1>1. CASE PumpRead \/ PumpPut \/ BodyRead \/ WatchAbort
  <2>1. UNCHANGED <<main, fetch>> /\ serve'.wrote = serve.wrote /\ serve'.spoilt = serve.spoilt
    BY <1>0, <1>1 DEF PumpRead, PumpPut, BodyRead, WatchAbort, Serves
  <2>2. R' = R /\ (Whole' <=> Whole)
    <3>1. CASE UNCHANGED link
      BY <3>1 DEF R, Whole
    <3>2. CASE HasFrame("server") /\ link' = Consumed("server")
      BY <1>0, <3>2, Took DEF R
    <3> QED
      BY <1>1, <3>1, <3>2 DEF PumpRead, PumpPut, BodyRead, WatchAbort
  <2> QED
    BY <2>1, <2>2, ResponseSame
<1>2. CASE ServeHTTP
  <2>0. main = "http" /\ main \notin Final /\ UNCHANGED <<fetch, serve>> /\ ~serve.spoilt
    BY <1>2 DEF ServeHTTP, Final, ResponseInv
  <2>1. CASE UNCHANGED link
    <3>1. R' = R /\ (Whole' <=> Whole)
      BY <2>1 DEF R, Whole
    <3> QED
      BY <2>0, <3>1, ResponseSame
  <2>2. CASE main' = "flush" /\ link' = Written(link, "server", <<"RESULT", "END">>)
    <3>1. main' \in Final
      BY <2>2 DEF Final
    <3> QED
      BY <1>t, <2>0, <2>2, <3>1, Answers, ResponseSends
  <2> QED
    BY <1>2, <2>1, <2>2 DEF ServeHTTP
<1>3. CASE HandlerWrite
  <2>0. main = "handler" /\ main \notin Final /\ UNCHANGED <<fetch, main>> /\ serve.spoilt = FALSE
    BY <1>0, <1>3 DEF HandlerWrite, Final, ResponseInv, Serves
  <2>1. PICK n \in 0..1 :
          /\ link' = Written(link, "server", (IF serve.header THEN <<>> ELSE <<"RESULT">>)
                                            \o (IF n = 1 THEN <<"DATA">> ELSE <<>>))
          /\ serve' = [serve EXCEPT !.header = TRUE, !.wrote = @ + n]
    BY <1>3 DEF HandlerWrite
  <2>2. serve'.wrote = serve.wrote + n /\ serve'.spoilt = FALSE
    BY <1>0, <2>0, <2>1 DEF Serves
  <2>3. PICK fs \in Seq(FrameTypes) : NoEnd(fs) /\ DataIn(fs) = n /\ link' = Written(link, "server", fs)
    <3>1. CASE n = 0
      <4>1. link' = Written(link, "server", <<>>) \/ link' = Written(link, "server", <<"RESULT">>)
        BY <2>1, <3>1
      <4> QED
        BY <1>t, <3>1, <4>1, Silent
    <3>2. CASE n = 1
      <4>1. link' = Written(link, "server", <<"DATA">>) \/ link' = Written(link, "server", <<"RESULT", "DATA">>)
        BY <1>j, <2>1, <3>2
      <4> QED
        BY <1>t, <3>2, <4>1, Silent, Answers
    <3> QED
      BY <3>1, <3>2
  <2> QED
    BY <2>0, <2>2, <2>3, ResponseSends
<1>4. CASE HandlerReturns
  <2>0. /\ main = "handler" /\ main \notin Final /\ UNCHANGED fetch /\ main' \in Final
        /\ serve.spoilt = FALSE
    BY <1>0, <1>4 DEF HandlerReturns, Final, ResponseInv, Serves
  <2>1. CASE /\ link' = Written(link, "server", (IF serve.header THEN <<>> ELSE <<"RESULT">>) \o <<"END">>)
             /\ serve' = [serve EXCEPT !.header = TRUE]
    <3>1. serve'.wrote = serve.wrote /\ serve'.spoilt = FALSE
      BY <1>0, <2>0, <2>1 DEF Serves
    <3>2. link' = Written(link, "server", <<"END">>) \/ link' = Written(link, "server", <<"RESULT", "END">>)
      BY <1>j, <2>1
    <3> QED
      BY <1>t, <2>0, <3>1, <3>2, Silent, Answers, ResponseSends
  <2>2. CASE /\ link' = Written(link, "server", PanicFrames \o <<"END">>)
             /\ serve' = [serve EXCEPT !.header = TRUE, !.spoilt = serve.header]
    <3>1. serve'.wrote = serve.wrote /\ serve'.spoilt = serve.header
      BY <1>0, <2>2 DEF Serves
    <3>2. CASE serve.header
      <4>1. link' = Written(link, "server", <<"ABORT", "END">>)
        BY <1>j, <2>2, <3>2 DEF PanicFrames
      <4> QED
        BY <1>t, <2>0, <3>1, <4>1, Answers, ResponseSends
    <3>3. CASE ~serve.header
      <4>1. link' = Written(link, "server", <<"RESULT", "END">>)
        BY <1>j, <2>2, <3>3 DEF PanicFrames
      <4> QED
        BY <1>t, <2>0, <3>1, <3>3, <4>1, Answers, ResponseSends
    <3> QED
      BY <3>2, <3>3
  <2> QED
    BY <1>4, <2>1, <2>2 DEF HandlerReturns
<1> QED
  BY <1>1, <1>2, <1>3, <1>4

LEMMA ResponseProxy ==
  ASSUME TypeOK, OneUse, ResponseInv, want.kind = "http",
         ProxyFails \/ ProxyResult \/ ProxyData \/ ProxyEnds
  PROVE  ResponseInv'
<1>0. /\ R \in Seq(FrameTypes) /\ link \in Links /\ "client" \in Ends /\ "server" \in Ends
      /\ "server" # "client" /\ Other("server") = "client" /\ serve \in Serves
      /\ serve.wrote \in Nat
  BY ResponseTypes, Types
<1>t. /\ <<"RESULT">> \in Seq(FrameTypes) /\ <<"DATA">> \in Seq(FrameTypes)
      /\ <<"END">> \in Seq(FrameTypes) /\ <<"ABORT">> \in Seq(FrameTypes)
      /\ <<"RESULT", "END">> \in Seq(FrameTypes)
  BY Types, FrameSeqs
<1>m. main \in {"roundtrip", "stream"} /\ main \notin Final /\ UNCHANGED fetch /\ serve.spoilt = FALSE
  BY <1>0 DEF ProxyFails, ProxyResult, ProxyData, ProxyEnds, Final, ResponseInv, Serves
<1>u. UNCHANGED link => R' = R /\ (Whole' <=> Whole)
  BY DEF R, Whole
<1>1. CASE ProxyFails
  <2>1. /\ main' \in Final /\ serve'.wrote = serve.wrote /\ serve'.wrote = serve.wrote + 0
        /\ serve'.spoilt = FALSE
    BY <1>0, <1>1, <1>m DEF ProxyFails, Final, Serves
  <2>2. CASE link' = Written(link, "server", <<"RESULT", "END">>)
    BY <1>m, <1>t, <2>1, <2>2, Answers, ResponseSends
  <2>3. CASE link' = Written(link, "server", <<"ABORT">>)
    BY <1>m, <1>t, <2>1, <2>3, Silent, ResponseSends
  <2> QED
    BY <1>1, <2>2, <2>3 DEF ProxyFails
<1>2. CASE ProxyResult
  <2>1. serve'.wrote = serve.wrote /\ serve'.wrote = serve.wrote + 0 /\ serve'.spoilt = FALSE
    BY <1>0, <1>2, <1>m DEF ProxyResult, Serves
  <2>2. CASE link' = Written(link, "server", <<"RESULT">>)
    BY <1>m, <1>t, <2>1, <2>2, Silent, ResponseSends
  <2>3. CASE UNCHANGED link
    BY <1>m, <1>u, <2>1, <2>3, ResponseSame
  <2> QED
    BY <1>2, <2>2, <2>3 DEF ProxyResult
<1>3. CASE ProxyData
  <2>1. /\ link' = Written(link, "server", <<"DATA">>)
        /\ serve'.wrote = serve.wrote + 1 /\ serve'.spoilt = FALSE
    BY <1>0, <1>3, <1>m DEF ProxyData, Serves
  <2> QED
    BY <1>m, <1>t, <2>1, Silent, ResponseSends
<1>4. CASE ProxyEnds
  <2>1. serve'.wrote = serve.wrote /\ serve'.wrote = serve.wrote + 0 /\ main' \in Final
    BY <1>0, <1>4 DEF ProxyEnds, Serves, Final
  <2>2. CASE link' = Written(link, "server", <<"END">>) /\ UNCHANGED serve
    BY <1>m, <1>t, <2>1, <2>2, Silent, ResponseSends
  <2>3. CASE link' = Written(link, "server", <<"ABORT">>)
    BY <1>m, <1>t, <2>1, <2>3, Silent, ResponseSends
  <2>4. CASE UNCHANGED <<link, serve>>
    BY <1>m, <1>u, <2>1, <2>4, ResponseSame
  <2> QED
    BY <1>4, <2>2, <2>3, <2>4 DEF ProxyEnds
<1> QED
  BY <1>1, <1>2, <1>3, <1>4

LEMMA ResponseStep == ASSUME TypeOK, OneUse, ResponseInv, [Next]_vars PROVE ResponseInv'
<1>1. CASE want.kind # "http"
  <2>1. /\ fetch'.at = "off" /\ fetch'.saw = "more" /\ ~serve'.spoilt
    <3>1. OneUse' /\ want' = want
      BY UseStep, SameUse
    <3> QED
      BY <1>1, <3>1 DEF OneUse
  <2> QED
    BY <2>1 DEF ResponseInv, Receiving
<1>2. CASE want.kind = "http" /\ ServerNext
  BY <1>2, ResponseServer
<1>3. CASE want.kind = "http" /\ HTTPNext
  BY <1>3, ResponseClient, ResponseHandler, ResponseProxy DEF HTTPNext
<1>4. CASE want.kind = "http" /\ WSNext
  BY <1>4, WSIdle
<1>5. CASE StreamBreaks /\ UNCHANGED <<httpVars, wsVars, tunnelVars>>
  <2>1. Cut(R, R') /\ (Whole' => UNCHANGED link)
    BY <1>5, Types, CutBoth DEF R, StreamBreaks
  <2>2. UNCHANGED link => Whole' = Whole /\ R' = R
    BY DEF Whole, R
  <2>3. UNCHANGED <<main, fetch, serve>>
    BY <1>5 DEF StreamBreaks, httpVars
  <2> QED
    BY <2>1, <2>2, <2>3, ResponseKept
<1>6. CASE UNCHANGED vars
  <2>1. UNCHANGED <<main, fetch, serve, link>>
    BY <1>6 DEF vars, httpVars
  <2>2. R' = R /\ (Whole' <=> Whole)
    BY <2>1 DEF R, Whole
  <2> QED
    BY <2>1, <2>2, ResponseSame
<1> QED
  BY <1>1, <1>2, <1>3, <1>4, <1>5, <1>6 DEF Next

-----------------------------------------------------------------------------
(* The request. *)

Items == FrameTypes \cup EndTypes

LEMMA RequestTypes ==
  ASSUME TypeOK
  PROVE  /\ W \in Seq(FrameTypes) /\ link \in Links
         /\ pump.ch \in Seq(Items) /\ pump.hand \in Seq(Items)
         /\ fetch \in Fetches /\ serve \in Serves /\ pump \in Pumps
         /\ serve.got \in Nat /\ fetch.sent \in Nat
         /\ DataIn(W) \in Nat /\ DataIn(pump.ch) \in Nat /\ DataIn(pump.hand) \in Nat
         /\ InCh \in Nat /\ InHand \in Nat
<1>1. link \in Links /\ fetch \in Fetches /\ serve \in Serves /\ pump \in Pumps
  BY TypeParts DEF CoreType, HTTPType
<1>2. W \in Seq(FrameTypes)
  BY <1>1, Types, LinkTypes DEF W
<1>3. /\ pump.ch \in Seq(Items) /\ pump.hand \in Seq(Items)
      /\ serve.got \in Nat /\ fetch.sent \in Nat
  BY <1>1 DEF Pumps, Fetches, Serves, Items
<1>4. DataIn(W) \in Nat /\ DataIn(pump.ch) \in Nat /\ DataIn(pump.hand) \in Nat
  BY <1>2, <1>3, DataInType
<1> QED
  BY <1>1, <1>2, <1>3, <1>4 DEF InCh, InHand

LEMMA RequestInit == TunnelInit => RequestInv
<1> SUFFICES ASSUME TunnelInit PROVE RequestInv
  OBVIOUS
<1>1. /\ pump.ch = <<>> /\ pump.hand = <<>> /\ W = <<>>
      /\ serve.got = 0 /\ serve.body = "more" /\ fetch.sent = 0
  BY Types DEF TunnelInit, Init, NewFetch, NewServe, NewPump, NewLink, W
<1>2. DataIn(pump.ch) = 0 /\ DataIn(pump.hand) = 0 /\ DataIn(W) = 0
  BY <1>1, Empty
<1>3. NoEnd(<<>>) /\ \A b, t : Counted(<<>>, b, t)
  BY DEF NoEnd, Counted
<1> QED
  BY <1>1, <1>2, <1>3 DEF RequestInv, Flowing, InCh, InHand

\* Steps that at most cut what is on its way, or give up the upload.
LEMMA FlowCut ==
  ASSUME TypeOK, Flowing, pump'.ch = pump.ch, pump'.hand = pump.hand, serve'.got = serve.got,
         fetch'.sent = fetch.sent, fetch'.upload # "done" => fetch.upload # "done",
         Cut(W, W'), Whole' => Whole /\ W' = W
  PROVE  Flowing'
<1>1. PICK k \in 0..Len(W) : W' = SubSeq(W, 1, k)
  BY DEF Cut
<1>2. (NoEnd(W) => NoEnd(W')) /\ \A b, t : Counted(W, b, t) => Counted(W', b, t)
  BY <1>1, RequestTypes, CutFacts
<1>3. InCh' = InCh /\ InHand' = InHand
  BY DEF InCh, InHand
<1> QED
  BY <1>2, <1>3 DEF Flowing

LEMMA FlowSame ==
  ASSUME TypeOK, Flowing, pump'.ch = pump.ch, pump'.hand = pump.hand, serve'.got = serve.got,
         fetch'.sent = fetch.sent, fetch'.upload # "done" => fetch.upload # "done",
         W' = W, Whole' <=> Whole
  PROVE  Flowing'
BY RequestTypes, CutAll, FlowCut

\* The magic and OPEN are read.
LEMMA FlowSkip ==
  ASSUME TypeOK, Flowing, UNCHANGED <<pump, fetch>>, serve'.got = serve.got,
         W # <<>>, W' = Tail(W), Head(W) # "DATA", Whole' => Whole
  PROVE  Flowing'
<1>1. /\ DataIn(W) = Weight(Head(W)) + DataIn(Tail(W))
      /\ NoEnd(W) => NoEnd(Tail(W))
      /\ \A t : Counted(W, InHand, t) => Counted(Tail(W), InHand + Weight(Head(W)), t)
  BY RequestTypes, TailFacts
<1>2. Weight(Head(W)) = 0 /\ Tail(W) \in Seq(FrameTypes)
  BY RequestTypes, HeadTail DEF Weight
<1>3. InHand + 0 = InHand /\ DataIn(Tail(W)) \in Nat
  <2>1. InHand \in Nat
    BY RequestTypes
  <2>2. DataIn(Tail(W)) \in Nat
    BY <1>2, DataInType
  <2> QED
    BY <2>1, <2>2
<1>4. DataIn(W') = DataIn(W)
  BY <1>1, <1>2, <1>3
<1>5. InCh' = InCh /\ InHand' = InHand
  BY DEF InCh, InHand
<1> QED
  BY <1>1, <1>2, <1>3, <1>4, <1>5 DEF Flowing

\* The frame pump takes a frame from the wire.
LEMMA FlowTake ==
  ASSUME TypeOK, Flowing, UNCHANGED fetch, serve'.got = serve.got, Whole' => Whole,
         pump'.ch = pump.ch, pump.hand = <<>>, pump'.hand = <<Head(W)>>,
         W # <<>>, W' = Tail(W)
  PROVE  Flowing'
<1>1. /\ DataIn(W) = Weight(Head(W)) + DataIn(Tail(W))
      /\ NoEnd(W) => NoEnd(Tail(W)) /\ Head(W) # "END"
      /\ \A t : Counted(W, InHand, t) => Counted(Tail(W), InHand + Weight(Head(W)), t)
      /\ \A t : Counted(W, InHand, t) /\ Head(W) = "END" => InHand = t
  BY RequestTypes, TailFacts
<1>2. Weight(Head(W)) \in Nat /\ Tail(W) \in Seq(FrameTypes) /\ DataIn(Tail(W)) \in Nat
  BY RequestTypes, HeadTail, DataInType DEF Weight
<1>3. InCh' = InCh /\ InHand = InCh
  BY RequestTypes, Empty DEF InCh, InHand
<1>4. InHand' = InHand + Weight(Head(W))
  BY <1>3, Single DEF InHand
<1>5. Whole' => InHand' + DataIn(W') = fetch.sent
  BY <1>1, <1>2, <1>4, RequestTypes DEF Flowing
<1>6. NoEnd(W) => NoEnd(<<Head(W)>>)
  BY <1>1 DEF NoEnd
<1>7. Counted(<<Head(W)>>, InCh, fetch.sent)
  <2>1. ASSUME Head(W) = "END" PROVE InCh + DataUpTo(<<Head(W)>>, 1) = fetch.sent
    <3>1. InHand = fetch.sent /\ DataUpTo(<<Head(W)>>, 1) = 0
      BY <1>1, <2>1, DataOne DEF Flowing, Weight
    <3> QED
      BY <1>3, <3>1, RequestTypes
  <2> QED
    BY <2>1 DEF Counted
<1> QED
  BY <1>1, <1>3, <1>4, <1>5, <1>6, <1>7 DEF Flowing

\* It reads an error instead.
LEMMA FlowFails ==
  ASSUME TypeOK, Flowing, UNCHANGED fetch, serve'.got = serve.got, Whole' => Whole,
         pump'.ch = pump.ch, pump.hand = <<>>, W' = W,
         NEW r \in EndTypes, pump'.hand = <<r>>
  PROVE  Flowing'
<1>1. r # "END" /\ r # "DATA"
  BY DEF EndTypes
<1>2. DataIn(<<r>>) = 0 /\ NoEnd(<<r>>) /\ \A b, t : Counted(<<r>>, b, t)
  BY <1>1, Single DEF Weight, NoEnd, Counted
<1>3. InCh' = InCh /\ InHand' = InHand
  BY <1>2, Empty DEF InCh, InHand
<1> QED
  BY <1>2, <1>3 DEF Flowing

\* It puts what it holds into the channel.
LEMMA FlowPut ==
  ASSUME TypeOK, Flowing, UNCHANGED fetch, serve'.got = serve.got, Whole' => Whole, W' = W,
         pump'.ch = pump.ch \o pump.hand, pump'.hand = <<>>
  PROVE  Flowing'
<1>1. /\ DataIn(pump'.ch) = DataIn(pump.ch) + DataIn(pump.hand)
      /\ NoEnd(pump.ch) /\ NoEnd(pump.hand) => NoEnd(pump'.ch)
      /\ \A t : Counted(pump.ch, serve.got, t) /\ Counted(pump.hand, serve.got + DataIn(pump.ch), t)
                  => Counted(pump'.ch, serve.got, t)
  <2>1. /\ pump.ch \in Seq(Items) /\ pump.hand \in Seq(Items)
        /\ serve.got \in Nat
    BY RequestTypes
  <2> DEFINE p == pump.ch \o pump.hand
  <2>2. /\ DataIn(p) = DataIn(pump.ch) + DataIn(pump.hand)
        /\ NoEnd(pump.ch) /\ NoEnd(pump.hand) => NoEnd(p)
        /\ \A t : Counted(pump.ch, serve.got, t)
                     /\ Counted(pump.hand, serve.got + DataIn(pump.ch), t)
                  => Counted(p, serve.got, t)
    BY ONLY <2>1, JoinFacts, Zenon
  <2>3. pump'.ch = p
    OBVIOUS
  <2> QED
    BY ONLY <2>2, <2>3, Zenon
<1>2. DataIn(<<>>) = 0 /\ NoEnd(<<>>) /\ \A b, t : Counted(<<>>, b, t)
  BY Empty DEF NoEnd, Counted
<1>3. InHand' = InHand
  BY <1>1, <1>2, RequestTypes DEF InCh, InHand
<1>4. Counted(pump'.ch, serve.got, fetch.sent)
  BY <1>1 DEF Flowing, InCh
<1> QED
  BY <1>1, <1>2, <1>3, <1>4 DEF Flowing

\* The handler or the proxy reads DATA.
LEMMA FlowRead ==
  ASSUME TypeOK, Flowing, UNCHANGED fetch, Whole' => Whole, W' = W,
         pump.ch # <<>>, Head(pump.ch) = "DATA", pump'.ch = Tail(pump.ch),
         pump'.hand = pump.hand, serve'.got = serve.got + 1
  PROVE  Flowing'
<1>1. /\ DataIn(pump.ch) = 1 + DataIn(Tail(pump.ch))
      /\ NoEnd(pump.ch) => NoEnd(Tail(pump.ch))
      /\ \A t : Counted(pump.ch, serve.got, t) => Counted(Tail(pump.ch), serve.got + 1, t)
  BY RequestTypes, TailFacts DEF Weight
<1>2. DataIn(Tail(pump.ch)) \in Nat
  BY RequestTypes, HeadTail, DataInType
<1>3. InCh' = InCh
  <2>1. serve.got \in Nat
    BY RequestTypes
  <2>2. DataIn(pump'.ch) = DataIn(Tail(pump.ch))
    OBVIOUS
  <2>3. (serve.got + 1) + DataIn(Tail(pump.ch)) = serve.got + (1 + DataIn(Tail(pump.ch)))
    BY <1>2, <2>1
  <2> QED
    BY <1>1, <2>2, <2>3 DEF InCh
<1>4. InHand' = InHand
  BY <1>3 DEF InHand
<1> QED
  BY <1>1, <1>3, <1>4 DEF Flowing

\* The body's goroutine writes a DATA frame.
LEMMA FlowSend ==
  ASSUME TypeOK, Flowing, UNCHANGED <<pump, serve>>, fetch.upload # "done",
         fetch'.sent = fetch.sent + 1, fetch'.upload = fetch.upload,
         Whole' => Whole, Whole => W' = W \o <<"DATA">>, ~Whole => W' = W
  PROVE  Flowing'
<1>1. <<"DATA">> \in Seq(FrameTypes)
  BY Types, FrameSeqs
<1>2. /\ DataIn(W \o <<"DATA">>) = DataIn(W) + 1
      /\ NoEnd(W) => NoEnd(W \o <<"DATA">>)
  <2>1. 0 \in Nat /\ W \in Seq(FrameTypes)
    BY RequestTypes
  <2>2. /\ DataIn(W \o <<"DATA">>) = DataIn(W) + DataIn(<<"DATA">>)
        /\ NoEnd(W) /\ NoEnd(<<"DATA">>) => NoEnd(W \o <<"DATA">>)
    BY <1>1, <2>1, JoinFacts
  <2> QED
    BY <2>2, Silent
<1>3. \A q, b, t : NoEnd(q) => Counted(q, b, t)
  BY DEF NoEnd, Counted
<1>4. InCh' = InCh /\ InHand' = InHand
  BY DEF InCh, InHand
<1>5. NoEnd(pump.ch) /\ NoEnd(pump.hand) /\ NoEnd(W')
  <2>1. NoEnd(pump.ch) /\ NoEnd(pump.hand) /\ NoEnd(W)
    BY DEF Flowing
  <2>2. W' = W \/ W' = W \o <<"DATA">>
    OBVIOUS
  <2> QED
    BY <1>2, <2>1, <2>2
<1>6. Whole' => InHand + DataIn(W') = fetch.sent + 1
  <2> SUFFICES ASSUME Whole' PROVE InHand + DataIn(W') = fetch.sent + 1
    OBVIOUS
  <2>1. W' = W \o <<"DATA">> /\ InHand + DataIn(W) = fetch.sent
    BY DEF Flowing
  <2>2. InHand \in Nat /\ DataIn(W) \in Nat /\ fetch.sent \in Nat
    BY RequestTypes
  <2>3. DataIn(W') = DataIn(W) + 1
    BY <1>2, <2>1
  <2> QED
    BY <2>1, <2>2, <2>3
<1> QED
  BY <1>3, <1>4, <1>5, <1>6 DEF Flowing

\* END, after all of the body.
LEMMA FlowEnds ==
  ASSUME TypeOK, Flowing, UNCHANGED <<pump, serve>>,
         fetch'.sent = fetch.sent, fetch'.upload = "done",
         Whole' => Whole, Whole => W' = W \o <<"END">>, ~Whole => W' = W
  PROVE  Flowing'
<1>0. InCh' = InCh /\ InHand' = InHand
  BY DEF InCh, InHand
<1>1. CASE Whole
  <2>1. InHand + DataIn(W) = fetch.sent
    BY <1>1 DEF Flowing
  <2>2. <<"END">> \in Seq(FrameTypes) /\ DataIn(<<"END">>) = 0 /\ Counted(<<"END">>, fetch.sent, fetch.sent)
    BY RequestTypes, Types, FrameSeqs, Silent
  <2>3. DataIn(W \o <<"END">>) = DataIn(W) + 0
        /\ Counted(W \o <<"END">>, InHand, fetch.sent)
    BY <2>1, <2>2, RequestTypes, JoinFacts DEF Flowing
  <2>4. DataIn(W') = DataIn(W)
    <3>1. DataIn(W) \in Nat
      BY RequestTypes
    <3>2. DataIn(W) + 0 = DataIn(W)
      BY <3>1
    <3> QED
      BY <1>1, <2>3, <3>2
  <2> QED
    BY <1>0, <1>1, <2>1, <2>3, <2>4 DEF Flowing
<1>2. CASE ~Whole
  BY <1>0, <1>2 DEF Flowing
<1> QED
  BY <1>1, <1>2

\* The client gives up its request: ABORT and the end of the stream.
LEMMA FlowStops ==
  ASSUME TypeOK, Flowing, UNCHANGED <<pump, serve>>,
         fetch'.sent = fetch.sent, fetch'.upload = fetch.upload, ~Whole',
         Cut(W, W') \/ Cut(W \o <<"ABORT">>, W')
  PROVE  Flowing'
<1>0. InCh' = InCh /\ InHand' = InHand
  BY DEF InCh, InHand
<1>1. PICK q \in {W, W \o <<"ABORT">>} : Cut(q, W')
  OBVIOUS
<1>2. q \in Seq(FrameTypes) /\ (NoEnd(W) => NoEnd(q)) /\ (Counted(W, InHand, fetch.sent) => Counted(q, InHand, fetch.sent))
  <2>1. <<"ABORT">> \in Seq(FrameTypes) /\ NoEnd(<<"ABORT">>)
    BY Types, FrameSeqs, Silent
  <2>2. \A b, t : Counted(<<"ABORT">>, b, t)
    BY <2>1 DEF NoEnd, Counted
  <2> QED
    BY <2>1, <2>2, RequestTypes, JoinFacts
<1>3. PICK k \in 0..Len(q) : W' = SubSeq(q, 1, k)
  BY <1>1 DEF Cut
<1>4. (NoEnd(q) => NoEnd(W')) /\ \A b, t : Counted(q, b, t) => Counted(W', b, t)
  BY <1>2, <1>3, CutFacts
<1> QED
  BY <1>0, <1>2, <1>4 DEF Flowing

LEMMA RequestServer ==
  ASSUME TypeOK, OneUse, RequestInv, want.kind = "http", ServerNext
  PROVE  RequestInv'
<1>0. /\ UNCHANGED <<want, fetch>> /\ bridging = "off"
      /\ UNCHANGED <<pump, serve>> \/ Resets
      /\ main' \in Before \cup HTTPPlaces => main \in Before \cup HTTPPlaces
  BY ServerMoves DEF OneUse
<1>t. /\ W \in Seq(FrameTypes) /\ link \in Links /\ "client" \in Ends /\ "server" \in Ends
      /\ "server" # "client" /\ Other("server") = "client"
  BY RequestTypes, Types
<1>1. CASE Resets
  <2>1. main' = "gone" /\ serve'.body = "more"
    BY <1>1 DEF Resets, NewServe
  <2>2. main' \notin Before \cup HTTPPlaces
    BY <2>1 DEF Before, HTTPPlaces
  <2> QED
    BY <2>1, <2>2 DEF RequestInv, BodyOpen
<1>2. CASE UNCHANGED <<pump, serve>>
  <2> SUFFICES ASSUME BodyOpen', BodyOpen, Flowing PROVE Flowing'
    BY <1>0, <1>2 DEF RequestInv, BodyOpen
  <2>0. main' \in Before \cup HTTPPlaces
    BY DEF BodyOpen
  <2>1. CASE \/ UNCHANGED link
             \/ \E e \in Ends : link' \in Closings(link, e) \cup Quits(link, e)
    <3>1. Cut(W, W') /\ (Whole' => UNCHANGED link)
      BY <1>t, <2>1, CutBoth DEF W
    <3>2. UNCHANGED link => (Whole' <=> Whole) /\ W' = W
      BY DEF Whole, W
    <3> QED
      BY <1>0, <1>2, <3>1, <3>2, FlowCut
  <2>2. CASE /\ HasFrame("server") /\ link' = Consumed("server")
             /\ Frame("server") # "DATA" \/ main' = "bridge"
    <3>1. Frame("server") # "DATA"
      BY <2>0, <2>2 DEF Before, HTTPPlaces
    <3>2. /\ W # <<>> /\ W' = Tail(W) /\ Head(W) = Frame("server") /\ (Whole' => Whole)
      BY <1>t, <2>2, Took DEF W
    <3> QED
      BY <1>0, <1>2, <3>1, <3>2, FlowSkip
  <2>3. main' # "flush"
    BY <2>0 DEF Before, HTTPPlaces
  <2> QED
    BY <1>0, <2>1, <2>2, <2>3, ServerLink
<1> QED
  BY <1>0, <1>1, <1>2

LEMMA RequestClient ==
  ASSUME TypeOK, OneUse, RequestInv, want.kind = "http",
         \/ TunnelFetch \/ Upload \/ ReadResult \/ RespRead \/ RespClose \/ FetchCancelled
  PROVE  RequestInv'
<1>0. /\ W \in Seq(FrameTypes) /\ link \in Links /\ "client" \in Ends /\ "server" \in Ends
      /\ "server" # "client" /\ Other("client") = "server" /\ fetch \in Fetches
      /\ UNCHANGED <<want, serve, pump>>
  BY RequestTypes, Types DEF TunnelFetch, Upload, ReadResult, RespRead, RespClose, FetchCancelled
<1>b. BodyOpen' => BodyOpen
  <2>1. UNCHANGED main \/ main = "none"
    BY DEF TunnelFetch, Upload, ReadResult, RespRead, RespClose, FetchCancelled
  <2> QED
    BY <1>0, <2>1 DEF BodyOpen, Before
<1>1. ASSUME fetch'.sent = fetch.sent, fetch'.upload = fetch.upload, Flowing => Flowing'
      PROVE  RequestInv'
  BY <1>0, <1>b, <1>1 DEF RequestInv
<1>2. ASSUME link' \in Closings(link, "client") \cup Quits(link, "client")
      PROVE  Cut(W, W') /\ (Whole' => Whole /\ W' = W)
  <2>1. Cut(W, W') /\ (Whole' => UNCHANGED link)
    BY <1>0, <1>2, CutBoth DEF W
  <2>2. UNCHANGED link => (Whole' <=> Whole) /\ W' = W
    BY DEF Whole, W
  <2> QED
    BY <2>1, <2>2
<1>3. CASE TunnelFetch
  <2>1. /\ main = "none"
        /\ link' = Written(link, "client", <<"MAGIC", "OPEN">>)
        /\ fetch' = [fetch EXCEPT !.at = "wait", !.upload = "on"]
    BY <1>3 DEF TunnelFetch
  <2>2. fetch = NewFetch /\ serve = NewServe /\ pump = NewPump /\ W = <<>>
    BY <1>0, <2>1 DEF OneUse, W
  <2>3. <<"MAGIC", "OPEN">> \in Seq(FrameTypes)
    BY Types, FrameSeqs
  <2>4. W' = <<>> \/ W' = <<"MAGIC", "OPEN">>
    <3>1. W' = W \o <<"MAGIC", "OPEN">> \/ W' = W
      BY <1>0, <2>1, <2>3, Wrote DEF W
    <3>2. <<>> \o <<"MAGIC", "OPEN">> = <<"MAGIC", "OPEN">>
      BY <2>3, ConcatEmptySeq
    <3> QED
      BY <2>2, <3>1, <3>2
  <2>5. DataIn(W') = 0 /\ NoEnd(W') /\ \A b, t : Counted(W', b, t)
    <3>1. DataIn(<<"MAGIC", "OPEN">>) = 0
      BY PairData DEF Weight
    <3>3. NoEnd(<<"MAGIC", "OPEN">>)
      BY DEF NoEnd
    <3>4. \A q, b, t : NoEnd(q) => Counted(q, b, t)
      BY DEF NoEnd, Counted
    <3> QED
      BY <2>4, <3>1, <3>3, <3>4, Empty
  <2>6. fetch'.sent = 0 /\ serve'.got = 0 /\ pump'.ch = <<>> /\ pump'.hand = <<>>
    BY <1>0, <2>1, <2>2 DEF NewFetch, NewServe, NewPump
  <2>7. Flowing'
    BY <2>5, <2>6, Empty DEF Flowing, InCh, InHand
  <2>8. serve'.body = "more"
    BY <1>0, <2>2 DEF NewServe
  <2> QED
    BY <2>7, <2>8 DEF RequestInv
<1>4. CASE Upload
  <2>0. fetch.upload = "on" /\ serve.body # "END"
    BY <1>4 DEF Upload, RequestInv
  <2>1. ASSUME Flowing => Flowing' PROVE RequestInv'
    BY <1>0, <1>b, <2>0, <2>1 DEF RequestInv
  <2>2. CASE link' = Written(link, "client", <<"DATA">>) /\ fetch' = [fetch EXCEPT !.sent = @ + 1]
    <3>1. fetch'.sent = fetch.sent + 1 /\ fetch'.upload = fetch.upload
      BY <1>0, <2>2 DEF Fetches
    <3>2. (Whole' => Whole) /\ (Whole => W' = W \o <<"DATA">>) /\ (~Whole => W' = W)
      BY <1>0, <2>2, Types, FrameSeqs, Wrote DEF W
    <3> QED
      BY <1>0, <2>0, <2>1, <3>1, <3>2, FlowSend
  <2>3. CASE link' = Written(link, "client", <<"END">>) /\ fetch' = [fetch EXCEPT !.upload = "done"]
    <3>1. fetch'.sent = fetch.sent /\ fetch'.upload = "done"
      BY <1>0, <2>3 DEF Fetches
    <3>2. (Whole' => Whole) /\ (Whole => W' = W \o <<"END">>) /\ (~Whole => W' = W)
      BY <1>0, <2>3, Types, FrameSeqs, Wrote DEF W
    <3> QED
      BY <1>0, <2>1, <3>1, <3>2, FlowEnds
  <2>4. CASE link' \in Closings(link, "client") /\ fetch' = [fetch EXCEPT !.upload = "failed"]
    <3>1. fetch'.sent = fetch.sent /\ fetch'.upload = "failed"
      BY <1>0, <2>4 DEF Fetches
    <3> QED
      BY <1>0, <1>2, <2>0, <2>1, <2>4, <3>1, FlowCut
  <2> QED
    BY <1>4, <2>2, <2>3, <2>4 DEF Upload
<1>5. CASE FetchCancelled
  <2>1. link' \in Closings(link, "client") /\ fetch' = fetch
    BY <1>5 DEF FetchCancelled
  <2> QED
    BY <1>0, <1>1, <1>2, <2>1, FlowCut
<1>6. CASE ReadResult \/ RespRead
  <2>1. fetch'.sent = fetch.sent /\ fetch'.upload = fetch.upload
    BY <1>0, <1>6 DEF ReadResult, RespRead, Fetches
  <2>2. Cut(W, W') /\ (Whole' => Whole /\ W' = W)
    <3>1. CASE UNCHANGED link
      <4>1. W' = W /\ (Whole' <=> Whole)
        BY <3>1 DEF W, Whole
      <4> QED
        BY <1>0, <4>1, CutAll
    <3>2. CASE HasFrame("client") /\ link' = Consumed("client")
      <4>1. W' = W /\ (Whole' <=> Whole)
        BY <1>0, <3>2, Took DEF W
      <4> QED
        BY <1>0, <4>1, CutAll
    <3> QED
      BY <1>2, <1>6, <3>1, <3>2 DEF ReadResult, RespRead
  <2> QED
    BY <1>0, <1>1, <2>1, <2>2, FlowCut
<1>7. CASE RespClose
  <2>1. fetch'.sent = fetch.sent /\ fetch'.upload = fetch.upload
    BY <1>0, <1>7 DEF RespClose, Fetches
  <2>2. PICK l \in {link, Written(link, "client", <<"ABORT">>)} : link' \in Quits(l, "client")
    BY <1>7 DEF RespClose
  <2>3. l \in Links /\ (l.wire["client"] = W \/ l.wire["client"] = W \o <<"ABORT">>)
    <3>1. <<"ABORT">> \in Seq(FrameTypes)
      BY Types, FrameSeqs
    <3>2. /\ Written(link, "client", <<"ABORT">>) \in Links
          /\ Written(link, "client", <<"ABORT">>).wire["client"] \in {W, W \o <<"ABORT">>}
      BY <1>0, <3>1, WrittenFacts DEF W
    <3> QED
      BY <1>0, <3>2 DEF W
  <2>4. ~Whole' /\ Cut(l.wire["client"], W')
    BY <1>0, <2>2, <2>3, QuitsFacts DEF Whole, W
  <2> QED
    BY <1>0, <1>1, <2>1, <2>3, <2>4, FlowStops
<1> QED
  BY <1>3, <1>4, <1>5, <1>6, <1>7

\* All that a handler and the proxy do to the stream is to write.
LEMMA ServerWrites ==
  ASSUME TypeOK,
         \/ ServeHTTP \/ HandlerWrite \/ HandlerReturns
         \/ ProxyFails \/ ProxyResult \/ ProxyData \/ ProxyEnds
  PROVE  \/ UNCHANGED link
         \/ \E fs \in Seq(FrameTypes) : link' = Written(link, "server", fs)
<1>1. /\ <<>> \in Seq(FrameTypes) /\ <<"RESULT">> \in Seq(FrameTypes)
      /\ <<"DATA">> \in Seq(FrameTypes) /\ <<"END">> \in Seq(FrameTypes)
      /\ <<"ABORT">> \in Seq(FrameTypes) /\ <<"RESULT", "END">> \in Seq(FrameTypes)
  BY Types, FrameSeqs
<1>2. \A q, r \in Seq(FrameTypes) : q \o r \in Seq(FrameTypes)
  OBVIOUS
<1>3. CASE HandlerWrite
  <2>1. PICK n \in 0..1 : link' = Written(link, "server", (IF serve.header THEN <<>> ELSE <<"RESULT">>)
                                            \o (IF n = 1 THEN <<"DATA">> ELSE <<>>))
    BY <1>3 DEF HandlerWrite
  <2> QED
    BY <1>1, <1>2, <2>1
<1>4. CASE HandlerReturns
  <2>1. \E q \in {<<>>, <<"RESULT">>, <<"ABORT">>} : link' = Written(link, "server", q \o <<"END">>)
    BY <1>4 DEF HandlerReturns, PanicFrames
  <2> QED
    BY <1>1, <1>2, <2>1
<1>5. CASE ServeHTTP \/ ProxyFails \/ ProxyResult \/ ProxyData \/ ProxyEnds
  <2>1. \/ UNCHANGED link
        \/ \E q \in {<<"RESULT">>, <<"ABORT">>, <<"DATA">>, <<"END">>, <<"RESULT", "END">>} :
             link' = Written(link, "server", q)
    BY <1>5 DEF ServeHTTP, ProxyFails, ProxyResult, ProxyData, ProxyEnds
  <2> QED
    BY <1>1, <2>1
<1> QED
  BY <1>3, <1>4, <1>5

LEMMA RequestHandler ==
  ASSUME TypeOK, OneUse, RequestInv, want.kind = "http",
         \/ ServeHTTP \/ PumpRead \/ PumpPut \/ BodyRead \/ WatchAbort
         \/ HandlerWrite \/ HandlerReturns
         \/ ProxyFails \/ ProxyResult \/ ProxyData \/ ProxyEnds
  PROVE  RequestInv'
<1>0. /\ W \in Seq(FrameTypes) /\ link \in Links /\ "client" \in Ends /\ "server" \in Ends
      /\ "server" # "client" /\ Other("server") = "client" /\ serve \in Serves /\ pump \in Pumps
      /\ UNCHANGED <<want, fetch>>
  BY RequestTypes, Types DEF ServeHTTP, PumpRead, PumpPut, BodyRead, WatchAbort, HandlerWrite,
     HandlerReturns, ProxyFails, ProxyResult, ProxyData, ProxyEnds
<1>b. main' \in Before \cup HTTPPlaces => main \in Before \cup HTTPPlaces
  <2>1. UNCHANGED main \/ main \in HTTPPlaces
    BY DEF ServeHTTP, PumpRead, PumpPut, BodyRead, WatchAbort, HandlerWrite,
       HandlerReturns, ProxyFails, ProxyResult, ProxyData, ProxyEnds, HTTPPlaces
  <2> QED
    BY <2>1
<1>1. ASSUME serve'.body = serve.body, serve'.got = serve.got, Flowing => Flowing'
      PROVE  RequestInv'
  BY <1>0, <1>b, <1>1 DEF RequestInv, BodyOpen
<1>2. CASE ServeHTTP \/ HandlerWrite \/ HandlerReturns \/ ProxyFails \/ ProxyResult \/ ProxyData
           \/ ProxyEnds
  <2>1. /\ serve'.body = serve.body /\ serve'.got = serve.got
        /\ pump'.ch = pump.ch /\ pump'.hand = pump.hand
    BY <1>0, <1>2 DEF ServeHTTP, HandlerWrite, HandlerReturns, ProxyFails, ProxyResult, ProxyData,
       ProxyEnds, Serves, Pumps
  <2>2. W' = W /\ (Whole' <=> Whole)
    <3>1. \/ UNCHANGED link
          \/ \E fs \in Seq(FrameTypes) : link' = Written(link, "server", fs)
      BY <1>2, ServerWrites
    <3>2. CASE UNCHANGED link
      BY <3>2 DEF W, Whole
    <3>3. ASSUME NEW fs \in Seq(FrameTypes), link' = Written(link, "server", fs)
          PROVE  W' = W /\ (Whole' <=> Whole)
      BY <1>0, <3>3, Wrote DEF W
    <3> QED
      BY <3>1, <3>2, <3>3
  <2> QED
    BY <1>0, <1>1, <2>1, <2>2, FlowSame
<1>3. CASE PumpRead
  <2>0. UNCHANGED serve /\ pump.hand = <<>>
    BY <1>3 DEF PumpRead
  <2>1. CASE /\ HasFrame("server") /\ link' = Consumed("server")
             /\ pump' = [pump EXCEPT !.hand = <<Frame("server")>>,
                                     !.aborted = @ \/ Frame("server") = "ABORT"]
    <3>1. /\ W # <<>> /\ W' = Tail(W) /\ Head(W) = Frame("server") /\ (Whole' => Whole)
      BY <1>0, <2>1, Took DEF W
    <3>2. pump'.ch = pump.ch /\ pump'.hand = <<Head(W)>>
      BY <1>0, <2>1, <3>1 DEF Pumps
    <3> QED
      BY <1>0, <1>1, <2>0, <3>1, <3>2, FlowTake
  <2>2. CASE /\ UNCHANGED link
             /\ \E r \in ReadErrors("server") :
                  pump' = [pump EXCEPT !.hand = <<r>>, !.aborted = TRUE]
    <3>1. PICK r \in ReadErrors("server") : pump' = [pump EXCEPT !.hand = <<r>>, !.aborted = TRUE]
      BY <2>2
    <3>2. r \in EndTypes /\ W' = W /\ (Whole' <=> Whole)
      BY <1>0, <2>2, ErrorTypes DEF W, Whole
    <3>3. pump'.ch = pump.ch /\ pump'.hand = <<r>>
      BY <1>0, <3>1 DEF Pumps
    <3> QED
      BY <1>0, <1>1, <2>0, <3>2, <3>3, FlowFails
  <2> QED
    BY <1>3, <2>1, <2>2 DEF PumpRead
<1>4. CASE PumpPut
  <2>1. UNCHANGED <<serve, link>> /\ pump'.ch = pump.ch \o pump.hand /\ pump'.hand = <<>>
    BY <1>0, <1>4 DEF PumpPut, Pumps
  <2>2. W' = W /\ (Whole' <=> Whole)
    BY <2>1 DEF W, Whole
  <2> QED
    BY <1>0, <1>1, <2>1, <2>2, FlowPut
<1>5. CASE BodyRead
  <2>0. /\ main \in HTTPPlaces /\ serve.body = "more" /\ pump.ch # <<>> /\ UNCHANGED <<link, main>>
        /\ pump'.ch = Tail(pump.ch) /\ pump'.hand = pump.hand
    BY <1>0, <1>5 DEF BodyRead, Pumps, HTTPPlaces
  <2>1. BodyOpen /\ Flowing
    BY <2>0 DEF BodyOpen, RequestInv
  <2>2. W' = W /\ (Whole' <=> Whole)
    BY <2>0 DEF W, Whole
  <2>3. CASE Head(pump.ch) = "DATA"
    <3>1. serve'.got = serve.got + 1 /\ serve'.body = serve.body
      BY <1>0, <1>5, <2>3 DEF BodyRead, Serves
    <3>2. Flowing'
      BY <1>0, <2>0, <2>1, <2>2, <2>3, <3>1, FlowRead
    <3> QED
      BY <2>0, <3>1, <3>2 DEF RequestInv
  <2>4. CASE Head(pump.ch) # "DATA"
    <3>1. serve'.got = serve.got /\ serve'.body = Head(pump.ch)
      BY <1>0, <1>5, <2>4 DEF BodyRead, Serves
    <3>2. Head(pump.ch) # "more"
      <4>1. Head(pump.ch) \in Items
        BY <2>0, RequestTypes, HeadTail
      <4> QED
        BY <4>1 DEF Items, FrameTypes, EndTypes
    <3>3. Head(pump.ch) = "END" => serve.got = fetch.sent /\ fetch.upload = "done"
      <4>1. /\ NoEnd(pump.ch) => Head(pump.ch) # "END"
            /\ \A t : Counted(pump.ch, serve.got, t) /\ Head(pump.ch) = "END" => serve.got = t
        BY <2>0, RequestTypes, TailFacts
      <4> QED
        BY <2>1, <4>1 DEF Flowing
    <3> QED
      BY <1>0, <3>1, <3>2, <3>3 DEF RequestInv, BodyOpen
  <2> QED
    BY <2>3, <2>4
<1>6. CASE WatchAbort
  <2>1. serve'.body = serve.body /\ serve'.got = serve.got /\ UNCHANGED link
    BY <1>0, <1>6 DEF WatchAbort, Serves
  <2>2. CASE UNCHANGED pump
    <3>1. W' = W /\ (Whole' <=> Whole)
      BY <2>1 DEF W, Whole
    <3> QED
      BY <1>0, <1>1, <2>1, <2>2, <3>1, FlowSame
  <2>3. CASE serve.body = "END"
    BY <1>0, <2>1, <2>3 DEF RequestInv, BodyOpen
  <2> QED
    BY <1>6, <2>2, <2>3 DEF WatchAbort
<1> QED
  BY <1>2, <1>3, <1>4, <1>5, <1>6

LEMMA RequestStep == ASSUME TypeOK, OneUse, RequestInv, [Next]_vars PROVE RequestInv'
<1>1. CASE want.kind # "http"
  <2>1. serve'.body = "more" /\ want'.kind # "http"
    <3>1. OneUse' /\ want' = want
      BY UseStep, SameUse
    <3> QED
      BY <1>1, <3>1 DEF OneUse
  <2> QED
    BY <2>1 DEF RequestInv, BodyOpen
<1>2. CASE want.kind = "http" /\ ServerNext
  BY <1>2, RequestServer
<1>3. CASE want.kind = "http" /\ HTTPNext
  BY <1>3, RequestClient, RequestHandler DEF HTTPNext
<1>4. CASE want.kind = "http" /\ WSNext
  BY <1>4, WSIdle
<1>5. CASE StreamBreaks /\ UNCHANGED <<httpVars, wsVars, tunnelVars>>
  <2>1. Cut(W, W') /\ (Whole' => UNCHANGED link)
    BY <1>5, Types, CutBoth DEF W, StreamBreaks
  <2>2. UNCHANGED link => (Whole' <=> Whole) /\ W' = W
    BY DEF Whole, W
  <2>3. UNCHANGED <<want, main, fetch, serve, pump>>
    BY <1>5 DEF StreamBreaks, httpVars
  <2>4. Flowing => Flowing'
    BY <2>1, <2>2, <2>3, FlowCut
  <2> QED
    BY <2>3, <2>4 DEF RequestInv, BodyOpen
<1>6. CASE UNCHANGED vars
  <2>1. UNCHANGED <<want, main, fetch, serve, pump, link>>
    BY <1>6 DEF vars, httpVars
  <2> QED
    BY <2>1 DEF RequestInv, BodyOpen, Flowing, InCh, InHand, W, Whole
<1> QED
  BY <1>1, <1>2, <1>3, <1>4, <1>5, <1>6 DEF Next

-----------------------------------------------------------------------------
(* Whole bodies. *)

\* EndMeansComplete: the reader of a response or request body that gets END has
\* got every DATA frame that was written, and the writer did not give up after
\* RESULT; whatever the stream lost when an end closed it (tunnelRespBody.Read,
\* httpBody.Read; panic500, streamBody and the upload goroutine).
THEOREM BodiesAreWhole == Spec => []EndMeansComplete
<1>1. ResponseInv /\ RequestInv => EndMeansComplete
  BY DEF ResponseInv, RequestInv, EndMeansComplete
<1> QED
  BY <1>1, TypeInit, TypeStep, UseInit, UseStep, ResponseInit, ResponseStep, RequestInit,
     RequestStep, PTL DEF Spec

=============================================================================

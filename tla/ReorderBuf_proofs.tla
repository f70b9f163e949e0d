-------------------------- MODULE ReorderBuf_proofs --------------------------
(***************************************************************************)
(* Proofs about the reorder buffer, for any set of frames, any capacities  *)
(* and any number of arrivals.                                             *)
(*                                                                         *)
(* drain and ranges are folds over the heap.  The first section shows that *)
(* a fold takes one step per element, the rest reasons about one step.     *)
(***************************************************************************)
EXTENDS ReorderBuf, FiniteSetTheorems, SequenceTheorems, WellFoundedInduction, TLAPS

-----------------------------------------------------------------------------
(* Numbers. *)

LEMMA LeastNat ==
  ASSUME NEW T \in SUBSET Nat, T # {}
  PROVE  \E m \in T : \A k \in T : m <= k
<1>1. PICK m \in T : \A k \in T : ~(<<k, m>> \in OpToRel(<, Nat))
  BY NatLessThanWellFounded, WFMin
<1>2. \A k \in T : ~(k < m)
  BY <1>1 DEF OpToRel
<1> QED
  BY <1>2

\* A set of numbers that contains 0 and with every number the next one
\* contains everything up to n.
LEMMA StepByStep ==
  ASSUME NEW n \in Nat, NEW T, 0 \in T,
         \A i \in 1..n : i - 1 \in T => i \in T
  PROVE  \A i \in 0..n : i \in T
<1> DEFINE Bad == {i \in 0..n : i \notin T}
<1> SUFFICES ASSUME Bad # {} PROVE FALSE
  OBVIOUS
<1>0. Bad \in SUBSET Nat
  OBVIOUS
<1> HIDE DEF Bad
<1>1. PICK m \in Bad : \A k \in Bad : m <= k
  BY <1>0, LeastNat
<1>2. m \in 1..n /\ m \notin T
  BY <1>1 DEF Bad
<1>3. m - 1 \notin Bad
  BY <1>0, <1>1
<1>4. m - 1 \in T
  BY <1>2, <1>3 DEF Bad
<1> QED
  BY <1>2, <1>4

LEMMA MaxOfRange ==
  ASSUME NEW n \in Nat, NEW s \in SUBSET (1..n), s # {}
  PROVE  /\ Max(s) \in s
         /\ \A i \in s : i <= Max(s)
<1> DEFINE T == {n - i : i \in s}
<1>0. PICK x : x \in s
  OBVIOUS
<1>1. T \in SUBSET Nat /\ n - x \in T
  <2>1. \A i \in s : n - i \in Nat
    OBVIOUS
  <2> QED
    BY <1>0, <2>1
<1>2. PICK t \in T : \A k \in T : t <= k
  BY <1>1, LeastNat, Zenon
<1>3. PICK m \in s : t = n - m
  BY <1>2
<1>4. \A i \in s : m >= i
  <2> SUFFICES ASSUME NEW i \in s PROVE m >= i
    OBVIOUS
  <2>1. n - m <= n - i
    BY <1>2, <1>3
  <2> QED
    BY <2>1, i \in Int, m \in Int
<1> QED
  BY <1>3, <1>4 DEF Max

LEMMA MaxOfPrefix ==
  ASSUME NEW n \in Nat \ {0}
  PROVE  Max(1..n) = n /\ (1..n) \ {n} = 1 .. n - 1
<1>1. Max(1..n) \in 1..n /\ \A i \in 1..n : i <= Max(1..n)
  BY MaxOfRange, n \in 1..n, 1..n # {}
<1> QED
  BY <1>1, n \in 1..n

-----------------------------------------------------------------------------
(* Folds over 1..n, the largest index last. *)

\* g is the recursion that defines the fold, if step is the folded operation.
IsFold(g, step, base, n) ==
  g = [s \in SUBSET (1..n) |->
         IF s = {} THEN base ELSE step[g[s \ {Max(s)}], Max(s)]]

\* The recursion has a solution for an operation that stays within D.
LEMMA FoldExists ==
  ASSUME NEW D, NEW base \in D, NEW n \in Nat, NEW step \in [D \X (1..n) -> D]
  PROVE  \E g \in [SUBSET (1..n) -> D] : IsFold(g, step, base, n)
<1> DEFINE T == {m \in 0..n : \E g \in [SUBSET (1..m) -> D] : IsFold(g, step, base, m)}
<1>1. 0 \in T
  <2> DEFINE g == [s \in SUBSET (1..0) |-> base]
  <2>1. SUBSET (1..0) = {{}}
    OBVIOUS
  <2>2. g \in [SUBSET (1..0) -> D]
    OBVIOUS
  <2>3. IsFold(g, step, base, 0)
    BY <2>1 DEF IsFold
  <2> QED
    BY <2>2, <2>3
<1>2. ASSUME NEW m \in 1..n, m - 1 \in T PROVE m \in T
  <2>1. PICK g \in [SUBSET (1..m-1) -> D] : IsFold(g, step, base, m - 1)
    BY <1>2
  <2> DEFINE h == [s \in SUBSET (1..m) |->
                     IF s = {} THEN base ELSE step[g[s \ {Max(s)}], Max(s)]]
  <2>2. ASSUME NEW s \in SUBSET (1..m), s # {}
        PROVE  /\ s \ {Max(s)} \in SUBSET (1..m-1)
               /\ Max(s) \in 1..n
    <3>1. Max(s) \in s /\ \A i \in s : i <= Max(s)
      BY <2>2, m \in Nat, MaxOfRange
    <3> DEFINE x == Max(s)
    <3>2. x \in 1..m /\ x \in s /\ \A i \in s : i \in 1..m /\ i <= x
      BY <3>1
    <3> HIDE DEF x
    <3>3. \A i \in s : i # x => i \in 1 .. m - 1
      BY <3>2
    <3>4. s \ {x} \in SUBSET (1 .. m - 1)
      BY <3>3, Zenon
    <3>5. x \in 1..n
      BY <3>2
    <3> QED
      BY <3>4, <3>5 DEF x
  <2>3. h \in [SUBSET (1..m) -> D]
    <3> SUFFICES ASSUME NEW s \in SUBSET (1..m) PROVE h[s] \in D
      OBVIOUS
    <3>1. CASE s = {}
      BY <3>1
    <3>2. CASE s # {}
      <4>1. g[s \ {Max(s)}] \in D /\ Max(s) \in 1..n
        BY <2>2, <3>2
      <4>2. step[g[s \ {Max(s)}], Max(s)] \in D
        BY <4>1
      <4> QED
        BY <3>2, <4>2
    <3> QED
      BY <3>1, <3>2
  <2>4. ASSUME NEW t \in SUBSET (1..m-1) PROVE h[t] = g[t]
    <3>1. g[t] = IF t = {} THEN base ELSE step[g[t \ {Max(t)}], Max(t)]
      BY <2>1 DEF IsFold
    <3>2. t \in SUBSET (1..m)
      OBVIOUS
    <3> QED
      BY <3>1, <3>2
  <2>5. \A s \in SUBSET (1..m) : s # {} => h[s \ {Max(s)}] = g[s \ {Max(s)}]
    BY <2>2, <2>4
  <2>6. IsFold(h, step, base, m)
    <3>1. h = [s \in SUBSET (1..m) |->
                 IF s = {} THEN base ELSE step[h[s \ {Max(s)}], Max(s)]]
      BY <2>5
    <3> QED
      BY <3>1 DEF IsFold
  <2> HIDE DEF h
  <2> QED
    BY <2>3, <2>6
<1>3. n \in T
  <2> HIDE DEF T
  <2> QED
    BY <1>1, <1>2, StepByStep, n \in 0..n
<1> QED
  BY <1>3

-----------------------------------------------------------------------------
(* Bytes of the stream. *)

LEMMA BytesFacts ==
  ASSUME NEW off \in Nat, NEW len \in Nat
  PROVE  /\ Bytes(off, len) \in Seq(Nat)
         /\ Len(Bytes(off, len)) = len
         /\ \A i \in 1..len : Bytes(off, len)[i] = off + i - 1
<1>1. \A i \in 1..len : off + i - 1 \in Nat
  OBVIOUS
<1>2. Bytes(off, len) \in [1..len -> Nat]
  BY <1>1 DEF Bytes
<1> QED
  BY <1>2 DEF Bytes

\* data[n:] keeps the bytes from offset off + n on.
LEMMA BytesCut ==
  ASSUME NEW off \in Nat, NEW len \in Nat, NEW n \in 0..len
  PROVE  Cut(Bytes(off, len), n) = Bytes(off + n, len - n)
<1> DEFINE c == Cut(Bytes(off, len), n)
           d == Bytes(off + n, len - n)
<1>1. Len(Bytes(off, len)) = len /\ \A i \in 1..len : Bytes(off, len)[i] = off + i - 1
  BY BytesFacts
<1>2. \A i \in n+1 .. len : Bytes(off, len)[i] \in Nat
  BY <1>1
<1>3. /\ c \in Seq(Nat)
      /\ Len(c) = IF n + 1 <= len THEN len - (n + 1) + 1 ELSE 0
      /\ \A i \in 1 .. len - (n + 1) + 1 : c[i] = Bytes(off, len)[n + 1 + i - 1]
  BY <1>1, <1>2, SubSeqProperties, n + 1 \in Int, len \in Int DEF Cut
<1>4. d \in Seq(Nat) /\ Len(d) = len - n /\ \A i \in 1 .. len - n : d[i] = off + n + i - 1
  BY BytesFacts, off + n \in Nat, len - n \in Nat
<1>5. Len(c) = Len(d)
  BY <1>3, <1>4
<1>6. ASSUME NEW i \in 1 .. Len(c) PROVE c[i] = d[i]
  <2>1. i \in 1 .. len - n
    BY <1>4, <1>5
  <2>2. c[i] = Bytes(off, len)[n + i] /\ n + i \in 1..len
    BY <1>3, <2>1
  <2> QED
    BY <1>1, <1>4, <2>1, <2>2
<1> HIDE DEF c, d
<1>7. c = d
  BY <1>3, <1>4, <1>5, <1>6, SeqEqual
<1> QED
  BY <1>7 DEF c, d

LEMMA BytesConcat ==
  ASSUME NEW off \in Nat, NEW m \in Nat, NEW n \in Nat
  PROVE  Bytes(off, m) \o Bytes(off + m, n) = Bytes(off, m + n)
<1> DEFINE a == Bytes(off, m)
           b == Bytes(off + m, n)
           c == Bytes(off, m + n)
<1>1. a \in Seq(Nat) /\ Len(a) = m /\ \A i \in 1..m : a[i] = off + i - 1
  BY BytesFacts
<1>2. b \in Seq(Nat) /\ Len(b) = n /\ \A i \in 1..n : b[i] = off + m + i - 1
  BY BytesFacts, off + m \in Nat
<1>3. c \in Seq(Nat) /\ Len(c) = m + n /\ \A i \in 1 .. m + n : c[i] = off + i - 1
  BY BytesFacts, m + n \in Nat
<1> HIDE DEF a, b, c
<1>4. /\ a \o b \in Seq(Nat)
      /\ Len(a \o b) = m + n
      /\ \A i \in 1 .. m + n : (a \o b)[i] = IF i <= m THEN a[i] ELSE b[i - m]
  BY <1>1, <1>2, ConcatProperties
<1>5. ASSUME NEW i \in 1 .. m + n PROVE (a \o b)[i] = c[i]
  <2>1. CASE i <= m
    BY <1>1, <1>3, <1>4, <2>1
  <2>2. CASE ~(i <= m)
    <3>1. i - m \in 1..n /\ off + m + (i - m) - 1 = off + i - 1
      BY <2>2
    <3>2. (a \o b)[i] = b[i - m]
      BY <1>4, <2>2
    <3>3. b[i - m] = off + m + (i - m) - 1
      BY <1>2, <3>1, Zenon
    <3> QED
      BY <1>3, <3>1, <3>2, <3>3
  <2> QED
    BY <2>1, <2>2
<1>6. a \o b = c
  BY <1>3, <1>4, <1>5, SeqEqual
<1> QED
  BY <1>6 DEF a, b, c

LEMMA BytesNone == ASSUME NEW off \in Nat PROVE Bytes(off, 0) = << >>
<1>1. Bytes(off, 0) \in Seq(Nat) /\ Len(Bytes(off, 0)) = 0
  BY BytesFacts, 0 \in Nat
<1> QED
  BY <1>1

-----------------------------------------------------------------------------
(* Buffers. *)

\* The segments that carry the bytes of the stream at their offset.
Segment == {[off |-> o, data |-> Bytes(o, n)] : o \in Nat, n \in Nat \ {0}}

End(s) == s.off + Len(s.data)

Buffer ==
  [cap : Nat, next : Nat, segs : Seq(Segment), ready : Seq(Nat), size : Int,
   dropped : Nat, panicked : BOOLEAN]

LEMMA SegmentFacts ==
  ASSUME NEW s \in Segment
  PROVE  /\ s.off \in Nat /\ s.data \in Seq(Nat) /\ Len(s.data) \in Nat \ {0}
         /\ s.data = Bytes(s.off, Len(s.data))
         /\ End(s) \in Nat /\ End(s) > s.off
<1>1. PICK o \in Nat, n \in Nat \ {0} : s = [off |-> o, data |-> Bytes(o, n)]
  BY DEF Segment
<1>2. Bytes(o, n) \in Seq(Nat) /\ Len(Bytes(o, n)) = n
  BY BytesFacts
<1> QED
  BY <1>1, <1>2 DEF End

\* One turn of drain's loop: the segment stays, the loop panics, or what the
\* segment has beyond next becomes ready.
LEMMA DrainOneCases ==
  ASSUME NEW b \in Buffer, NEW s \in Segment, NEW c, c = DrainOne(b, s)
  PROVE  /\ c \in Buffer
         /\ b.panicked => c.panicked
         /\ \/ /\ b.panicked \/ s.off > b.next
               /\ c = [b EXCEPT !.segs = Append(b.segs, s)]
            \/ /\ ~b.panicked /\ s.off <= b.next /\ End(s) < b.next
               /\ c = [b EXCEPT !.panicked = TRUE]
            \/ /\ ~b.panicked /\ s.off <= b.next /\ End(s) >= b.next
               /\ c = [b EXCEPT !.next = End(s),
                                !.ready = b.ready \o Bytes(b.next, End(s) - b.next),
                                !.size = b.size - (b.next - s.off)]
<1> DEFINE trim == Overlap(b, s.off)
           rest == Cut(s.data, trim)
<1>0. /\ s.off \in Nat /\ s.data \in Seq(Nat) /\ Len(s.data) \in Nat \ {0}
      /\ s.data = Bytes(s.off, Len(s.data)) /\ End(s) = s.off + Len(s.data)
      /\ b.next \in Nat /\ b.panicked \in BOOLEAN /\ b.size \in Int
      /\ b.ready \in Seq(Nat) /\ b.segs \in Seq(Segment)
  BY SegmentFacts DEF Buffer, End
<1>1. CASE b.panicked \/ s.off > b.next
  <2>1. c = [b EXCEPT !.segs = Append(b.segs, s)]
    BY <1>0, <1>1 DEF DrainOne, Touches
  <2>2. Append(b.segs, s) \in Seq(Segment)
    BY <1>0
  <2>3. c \in Buffer /\ c.panicked = b.panicked
    BY <2>1, <2>2 DEF Buffer
  <2> QED
    BY <1>1, <2>1, <2>3
<1>2. CASE ~b.panicked /\ s.off <= b.next
  <2>1. trim = b.next - s.off /\ trim \in Nat
    BY <1>0, <1>2 DEF Overlap
  <2>2. CASE End(s) < b.next
    <3>1. c = [b EXCEPT !.panicked = TRUE]
      BY <1>0, <1>2, <2>1, <2>2 DEF DrainOne, Touches
    <3> QED
      BY <1>2, <2>2, <3>1 DEF Buffer
  <2>3. CASE End(s) >= b.next
    <3>1. c = [WriteOff(b, trim) EXCEPT !.next = @ + Len(rest), !.ready = @ \o rest]
      BY <1>0, <1>2, <2>1, <2>3 DEF DrainOne, Touches
    <3>2. trim \in 0 .. Len(s.data) /\ s.off + trim = b.next
          /\ Len(s.data) - trim = End(s) - b.next /\ End(s) - b.next \in Nat
      BY <1>0, <2>1, <2>3, SMTT(30)
    <3>3. rest = Bytes(b.next, End(s) - b.next)
      <4>1. s.data = Bytes(s.off, Len(s.data)) /\ s.off \in Nat /\ Len(s.data) \in Nat
        BY <1>0
      <4>2. Cut(Bytes(s.off, Len(s.data)), trim) = Bytes(s.off + trim, Len(s.data) - trim)
        BY <3>2, <4>1, BytesCut
      <4>3. rest = Cut(Bytes(s.off, Len(s.data)), trim)
        BY <4>1, Zenon
      <4>4. rest = Bytes(s.off + trim, Len(s.data) - trim)
        BY <4>2, <4>3, Zenon
      <4> HIDE DEF rest, trim
      <4> QED
        BY <3>2, <4>4, Zenon
    <3>4. rest \in Seq(Nat) /\ Len(rest) = End(s) - b.next
      <4>1. /\ Bytes(b.next, End(s) - b.next) \in Seq(Nat)
            /\ Len(Bytes(b.next, End(s) - b.next)) = End(s) - b.next
        BY <1>0, <3>2, BytesFacts
      <4> QED
        BY <3>3, <4>1, Zenon
    <3> HIDE DEF trim, rest
    <3>5. b.next + Len(rest) = End(s) /\ b.size - trim = b.size - (b.next - s.off)
      BY <1>0, <2>1, <3>4
    <3>6. c = [b EXCEPT !.next = End(s), !.ready = b.ready \o rest,
                        !.size = b.size - (b.next - s.off)]
      <4>1. WriteOff(b, trim) = [b EXCEPT !.size = b.size - (b.next - s.off)]
        BY <3>5, Zenon DEF WriteOff
      <4>2. WriteOff(b, trim).next = b.next /\ WriteOff(b, trim).ready = b.ready
        BY <4>1 DEF Buffer
      <4>3. c = [WriteOff(b, trim) EXCEPT !.next = End(s), !.ready = b.ready \o rest]
        BY <3>1, <3>5, <4>2, Zenon
      <4> QED
        BY <4>1, <4>3 DEF Buffer
    <3>7. End(s) \in Nat /\ b.ready \o rest \in Seq(Nat) /\ b.size - (b.next - s.off) \in Int
      <4>1. End(s) \in Nat /\ b.size - (b.next - s.off) \in Int
        BY ONLY <1>0
      <4>2. b.ready \o rest \in Seq(Nat)
        BY <1>0, <3>4, ConcatProperties, Zenon
      <4> QED
        BY ONLY <4>1, <4>2
    <3>8. c \in Buffer
      BY <3>6, <3>7 DEF Buffer
    <3> QED
      BY <1>2, <2>3, <3>3, <3>6, <3>8
  <2> QED
    BY <1>0, <2>2, <2>3
<1> QED
  BY <1>0, <1>1, <1>2

LEMMA DrainOneType ==
  ASSUME NEW b \in Buffer, NEW s \in Segment
  PROVE  DrainOne(b, s) \in Buffer
<1> DEFINE c == DrainOne(b, s)
<1>1. c = DrainOne(b, s)
  OBVIOUS
<1> HIDE DEF c
<1>2. c \in Buffer
  BY <1>1, DrainOneCases
<1> QED
  BY <1>1, <1>2

\* drain takes one such turn for each segment of the heap.
LEMMA DrainSteps ==
  ASSUME NEW b \in Buffer
  PROVE  \E d \in [0 .. Len(b.segs) -> Buffer] :
           /\ d[0] = [b EXCEPT !.segs = << >>]
           /\ \A i \in 1 .. Len(b.segs) : d[i] = DrainOne(d[i-1], b.segs[i])
           /\ Drain(b) = d[Len(b.segs)]
<1> DEFINE n == Len(b.segs)
           base == [b EXCEPT !.segs = << >>]
           Rec(g) == g = [s \in SUBSET (1..n) |->
                            IF s = {} THEN base
                            ELSE DrainOne(g[s \ {Max(s)}], b.segs[Max(s)])]
           step == [p \in Buffer \X (1..n) |-> DrainOne(p[1], b.segs[p[2]])]
<1>0. n \in Nat /\ b.segs \in Seq(Segment) /\ DOMAIN b.segs = 1..n
      /\ \A i \in 1..n : b.segs[i] \in Segment
  BY DEF Buffer
<1>1. base \in Buffer
  <2>1. << >> \in Seq(Segment)
    OBVIOUS
  <2> QED
    BY <2>1 DEF Buffer
<1>2. step \in [Buffer \X (1..n) -> Buffer]
  <2>1. \A x \in Buffer, i \in 1..n : DrainOne(x, b.segs[i]) \in Buffer
    BY <1>0, DrainOneType
  <2> QED
    BY <2>1
<1>3. Drain(b) = (CHOOSE g : Rec(g))[1..n]
  BY <1>0 DEF Drain, FoldLeft, MapThenFoldSet
<1>4. \E g : Rec(g)
  <2> HIDE DEF n, base
  <2>1. PICK g \in [SUBSET (1..n) -> Buffer] : IsFold(g, step, base, n)
    BY <1>0, <1>1, <1>2, FoldExists
  <2>2. ASSUME NEW s \in SUBSET (1..n), s # {}
        PROVE  step[g[s \ {Max(s)}], Max(s)] = DrainOne(g[s \ {Max(s)}], b.segs[Max(s)])
    <3>1. Max(s) \in 1..n
      BY <1>0, <2>2, MaxOfRange
    <3>2. g[s \ {Max(s)}] \in Buffer
      OBVIOUS
    <3> QED
      BY <3>1, <3>2
  <2> HIDE DEF step
  <2>3. Rec(g)
    BY <2>1, <2>2 DEF IsFold
  <2> QED
    BY <2>3
<1> DEFINE g == CHOOSE g : Rec(g)
           d == [i \in 0..n |-> g[1..i]]
<1>5. Rec(g)
  BY <1>4
<1> HIDE DEF g
<1>6. d[0] = base
  <2>1. 1..0 = {} /\ {} \in SUBSET (1..n) /\ d[0] = g[1..0]
    BY <1>0
  <2>2. g[{}] = base
    BY <1>5, <2>1
  <2> QED
    BY <2>1, <2>2
<1>7. ASSUME NEW i \in 1..n PROVE d[i] = DrainOne(d[i-1], b.segs[i])
  <2>0. i \in 0..n /\ i - 1 \in 0..n
    BY <1>0
  <2>1. 1..i # {} /\ 1..i \in SUBSET (1..n) /\ d[i] = g[1..i] /\ d[i-1] = g[1 .. i-1]
    <3>1. i \in 1..i /\ \A k \in 1..i : k \in 1..n
      BY <1>0
    <3> QED
      BY <2>0, <3>1
  <2>2. Max(1..i) = i /\ (1..i) \ {i} = 1 .. i-1
    BY <1>0, MaxOfPrefix, i \in Nat \ {0}
  <2>3. g[1..i] = DrainOne(g[(1..i) \ {Max(1..i)}], b.segs[Max(1..i)])
    BY <1>5, <2>1
  <2> QED
    BY <2>1, <2>2, <2>3
<1>8. Drain(b) = d[n]
  BY <1>0, <1>3 DEF g
<1>9. d \in [0..n -> Buffer]
  <2> DEFINE T == {i \in 0..n : d[i] \in Buffer}
  <2>1. 0 \in T
    BY <1>0, <1>1, <1>6
  <2>2. ASSUME NEW i \in 1..n, i - 1 \in T PROVE i \in T
    <3>1. d[i-1] \in Buffer /\ b.segs[i] \in Segment
      BY <1>0, <2>2
    <3>2. d[i] \in Buffer
      BY <1>7, <3>1, DrainOneType, Zenon
    <3> QED
      BY <3>2
  <2> HIDE DEF T
  <2>3. \A i \in 0..n : i \in T
    BY <1>0, <2>1, <2>2, StepByStep
  <2> QED
    BY <2>3 DEF T
<1> QED
  BY <1>6, <1>7, <1>8, <1>9

-----------------------------------------------------------------------------
(* The ready queue. *)

\* The offset of the first byte in the ready queue.
Start(b) == b.next - Len(b.ready)

\* The ready queue holds the stream from Start up to next.
Exact(b) == Start(b) \in Nat /\ b.ready = Bytes(Start(b), Len(b.ready))

LEMMA DrainOneExact ==
  ASSUME NEW b \in Buffer, NEW s \in Segment, Exact(b), NEW c, c = DrainOne(b, s)
  PROVE  /\ Exact(c)
         /\ Start(c) = Start(b)
         /\ c.next >= b.next
<1>0. b.next \in Nat /\ b.ready \in Seq(Nat) /\ Len(b.ready) \in Nat /\ End(s) \in Nat
  BY SegmentFacts DEF Buffer
<1>1. CASE c.next = b.next /\ c.ready = b.ready
  BY <1>0, <1>1 DEF Exact, Start
<1>2. CASE /\ End(s) >= b.next
           /\ c.next = End(s)
           /\ c.ready = b.ready \o Bytes(b.next, End(s) - b.next)
  <2> DEFINE n == End(s) - b.next
             l == Len(b.ready)
  <2>0. n \in Nat /\ l \in Nat /\ Start(b) \in Nat /\ Start(b) + l = b.next
        /\ l + n \in Nat
    BY <1>0, <1>2 DEF Exact, Start
  <2>1. c.ready = Bytes(Start(b), l) \o Bytes(Start(b) + l, n)
    BY <1>2, <2>0 DEF Exact
  <2>2. c.ready = Bytes(Start(b), l + n)
    BY <2>0, <2>1, BytesConcat
  <2>3. Len(c.ready) = l + n
    <3>1. Len(Bytes(Start(b), l + n)) = l + n
      BY <2>0, BytesFacts
    <3> QED
      BY <2>2, <3>1
  <2>4. Start(c) = Start(b)
    <3>1. End(s) - (l + n) = b.next - l
      BY <1>0, <2>0
    <3> QED
      BY <1>2, <2>3, <3>1 DEF Start
  <2> QED
    BY <1>0, <1>2, <2>0, <2>2, <2>3, <2>4 DEF Exact
<1>3. \/ c.next = b.next /\ c.ready = b.ready
      \/ /\ End(s) >= b.next
         /\ c.next = End(s)
         /\ c.ready = b.ready \o Bytes(b.next, End(s) - b.next)
  <2>1. CASE c = [b EXCEPT !.segs = Append(b.segs, s)]
    BY <2>1 DEF Buffer
  <2>2. CASE c = [b EXCEPT !.panicked = TRUE]
    BY <2>2 DEF Buffer
  <2>3. CASE /\ End(s) >= b.next
             /\ c = [b EXCEPT !.next = End(s),
                              !.ready = b.ready \o Bytes(b.next, End(s) - b.next),
                              !.size = b.size - (b.next - s.off)]
    BY <2>3 DEF Buffer
  <2> QED
    BY <2>1, <2>2, <2>3, DrainOneCases
<1> QED
  BY <1>1, <1>2, <1>3

LEMMA DrainExact ==
  ASSUME NEW b \in Buffer, Exact(b), NEW c, c = Drain(b)
  PROVE  /\ c \in Buffer /\ Exact(c)
         /\ Start(c) = Start(b)
         /\ c.next >= b.next
<1> DEFINE n == Len(b.segs)
<1>0. n \in Nat /\ \A i \in 1..n : b.segs[i] \in Segment
  BY DEF Buffer
<1>1. PICK d \in [0..n -> Buffer] :
        /\ d[0] = [b EXCEPT !.segs = << >>]
        /\ \A i \in 1..n : d[i] = DrainOne(d[i-1], b.segs[i])
        /\ Drain(b) = d[n]
  BY DrainSteps
<1> DEFINE T == {i \in 0..n : Exact(d[i]) /\ Start(d[i]) = Start(b) /\ d[i].next >= b.next}
<1>2. 0 \in T
  <2>1. d[0].next = b.next /\ d[0].ready = b.ready /\ b.next \in Nat
    BY <1>1 DEF Buffer
  <2> QED
    BY <1>0, <2>1 DEF Exact, Start
<1>3. ASSUME NEW i \in 1..n, i - 1 \in T PROVE i \in T
  <2>1. /\ d[i-1] \in Buffer /\ d[i] \in Buffer /\ b.segs[i] \in Segment
        /\ d[i] = DrainOne(d[i-1], b.segs[i])
    BY <1>0, <1>1
  <2>2. Exact(d[i]) /\ Start(d[i]) = Start(d[i-1]) /\ d[i].next >= d[i-1].next
    BY <1>3, <2>1, DrainOneExact
  <2>3. d[i].next \in Nat /\ d[i-1].next \in Nat /\ b.next \in Nat
    BY <2>1 DEF Buffer
  <2> QED
    BY <1>3, <2>2, <2>3
<1> HIDE DEF T
<1>4. n \in T
  BY <1>0, <1>2, <1>3, StepByStep, n \in 0..n
<1> QED
  BY <1>0, <1>1, <1>4 DEF T

-----------------------------------------------------------------------------
(* What add leaves behind. *)

\* ConcatProperties with names for the lengths.
LEMMA ConcatFacts ==
  ASSUME NEW S, NEW s \in Seq(S), NEW t \in Seq(S),
         NEW m, m = Len(s), NEW n, n = Len(s) + Len(t)
  PROVE  /\ s \o t \in Seq(S)
         /\ Len(s \o t) = n
         /\ \A k \in 1..n : (s \o t)[k] = IF k <= m THEN s[k] ELSE t[k - m]
BY ConcatProperties

LEMMA InsertFacts ==
  ASSUME NEW S, NEW s \in Seq(S), NEW e \in S, NEW i \in 1 .. Len(s) + 1,
         NEW t, t = InsertAt(s, i, e)
  PROVE  /\ t \in Seq(S)
         /\ Len(t) = Len(s) + 1
         /\ \A j \in 1 .. i - 1 : t[j] = s[j]
         /\ t[i] = e
         /\ \A j \in i + 1 .. Len(s) + 1 : t[j] = s[j - 1]
<1> DEFINE n == Len(s)
           u == SubSeq(s, 1, i - 1)
           v == SubSeq(s, i, n)
<1>0. n \in Nat /\ i \in Nat /\ 1 <= i /\ i <= n + 1 /\ i - 1 \in Int
      /\ \A k \in 1..n : s[k] \in S
  OBVIOUS
<1>1. /\ u \in Seq(S) /\ Len(u) = IF 1 <= i - 1 THEN i - 1 - 1 + 1 ELSE 0
      /\ \A k \in 1 .. i - 1 - 1 + 1 : u[k] = s[1 + k - 1]
  <2>1. \A k \in 1 .. i - 1 : s[k] \in S
    BY <1>0
  <2> QED
    BY <1>0, <2>1, SubSeqProperties
<1>2. /\ v \in Seq(S) /\ Len(v) = IF i <= n THEN n - i + 1 ELSE 0
      /\ \A k \in 1 .. n - i + 1 : v[k] = s[i + k - 1]
  <2>1. \A k \in i .. n : s[k] \in S
    BY <1>0
  <2> QED
    BY <1>0, <2>1, SubSeqProperties
<1>3. Len(u) = i - 1 /\ Len(v) = n + 1 - i
  BY <1>0, <1>1, <1>2
<1> HIDE DEF u, v
<1>4. <<e>> \in Seq(S) /\ Len(<<e>>) = 1 /\ <<e>>[1] = e
  OBVIOUS
<1> DEFINE w == u \o <<e>>
<1>5. /\ w \in Seq(S) /\ Len(w) = i
      /\ \A k \in 1..i : w[k] = IF k <= i - 1 THEN u[k] ELSE <<e>>[k - (i - 1)]
  <2>1. i - 1 = Len(u) /\ i = Len(u) + Len(<<e>>)
    BY <1>0, <1>3, <1>4
  <2> QED
    BY <1>1, <1>4, <2>1, ConcatFacts
<1> HIDE DEF w
<1>6. /\ w \o v \in Seq(S) /\ Len(w \o v) = n + 1
      /\ \A k \in 1 .. n + 1 : (w \o v)[k] = IF k <= i THEN w[k] ELSE v[k - i]
  <2>1. i = Len(w) /\ n + 1 = Len(w) + Len(v)
    BY <1>0, <1>3, <1>5
  <2> QED
    BY <1>2, <1>5, <2>1, ConcatFacts
<1>7. t = w \o v
  BY DEF InsertAt, u, v, w
<1>8. ASSUME NEW j \in 1 .. i - 1 PROVE t[j] = s[j]
  <2>1. j \in 1 .. n + 1 /\ j <= i /\ j \in 1..i /\ j \in 1 .. i - 1 - 1 + 1 /\ 1 + j - 1 = j
    BY <1>0
  <2>2. u[j] = s[1 + j - 1]
    BY <1>1, <2>1, Zenon
  <2>3. w[j] = u[j]
    BY <1>5, <2>1
  <2>4. t[j] = w[j]
    BY <1>6, <1>7, <2>1
  <2> QED
    BY <2>1, <2>2, <2>3, <2>4
<1>9. t[i] = e
  <2>1. i \in 1 .. n + 1 /\ i \in 1..i /\ ~(i <= i - 1) /\ i - (i - 1) = 1
    BY <1>0
  <2> QED
    BY <1>4, <1>5, <1>6, <1>7, <2>1
<1>10. ASSUME NEW j \in i + 1 .. n + 1 PROVE t[j] = s[j - 1]
  <2>1. j \in 1 .. n + 1 /\ ~(j <= i) /\ j - i \in 1 .. n - i + 1 /\ i + (j - i) - 1 = j - 1
    BY <1>0
  <2>2. t[j] = v[j - i]
    BY <1>6, <1>7, <2>1
  <2>3. v[j - i] = s[i + (j - i) - 1]
    BY <1>2, <2>1, Zenon
  <2> QED
    BY <2>1, <2>2, <2>3
<1> QED
  BY <1>6, <1>7, <1>8, <1>9, <1>10

\* What add puts on the heap: the part of the frame beyond next.
Fresh(b, off, len) ==
  LET o == off + Overlap(b, off)
  IN [off |-> o, data |-> Bytes(o, off + len - o)]

\* The buffer with s on the heap at place i, before it is drained.
Pushed(b, i, s) ==
  [b EXCEPT !.segs = InsertAt(b.segs, i, s), !.size = b.size + Len(s.data)]

LEMMA AddCases ==
  ASSUME NEW b \in Buffer, NEW off \in Nat, NEW len \in Nat,
         NEW c \in AddResults(b, off, Bytes(off, len))
  PROVE  \/ /\ len = 0 \/ off + len <= b.next
            /\ c = b
         \/ /\ OverCap(b, off, len)
            /\ c = [b EXCEPT !.dropped = b.dropped + len]
         \/ /\ off + len > b.next /\ len # 0 /\ ~OverCap(b, off, len)
            /\ \E s \in Segment, i \in 1 .. Len(b.segs) + 1 :
                 /\ s = Fresh(b, off, len)
                 /\ End(s) = off + len
                 /\ \A k \in 1 .. i - 1 : b.segs[k].off <= s.off
                 /\ \A k \in i .. Len(b.segs) : b.segs[k].off >= s.off
                 /\ Pushed(b, i, s) \in Buffer
                 /\ c = Drain(Pushed(b, i, s))
<1> DEFINE data == Bytes(off, len)
           cut == Overlap(b, off)
           seg == [off |-> off + cut, data |-> Cut(data, cut)]
<1>0. b.next \in Nat /\ b.size \in Int /\ b.segs \in Seq(Segment) /\ Len(b.segs) \in Nat
  BY DEF Buffer
<1>1. data \in Seq(Nat) /\ Len(data) = len
  BY BytesFacts
<1>2. data = << >> <=> len = 0
  BY <1>1
<1>3. CASE len = 0 \/ off + len <= b.next
  BY <1>1, <1>2, <1>3 DEF AddResults
<1>4. CASE ~(len = 0 \/ off + len <= b.next)
  <2>1. cut \in 0..len /\ off + cut \in Nat /\ len - cut = off + len - (off + cut)
        /\ len - cut \in Nat \ {0} /\ (off > b.next => cut = 0)
        /\ off + len - (off + cut) \in Nat
    BY <1>0, <1>4 DEF Overlap
  <2>2. Cut(data, cut) = Bytes(off + cut, off + len - (off + cut))
    BY <2>1, BytesCut
  <2>3. seg = Fresh(b, off, len)
    BY <2>2 DEF Fresh
  <2>4. Len(seg.data) = len - cut
    <3>1. Len(Bytes(off + cut, off + len - (off + cut))) = off + len - (off + cut)
      BY <2>1, BytesFacts
    <3> QED
      BY <2>1, <2>2, <3>1
  <2>5. seg \in Segment
    BY <2>1, <2>2 DEF Segment
  <2>6. End(seg) = off + len
    BY <2>1, <2>4 DEF End
  <2>7. c \in IF OverCap(b, seg.off, Len(seg.data))
                THEN {[b EXCEPT !.dropped = @ + Len(seg.data)]}
                ELSE {Drain([b EXCEPT !.segs = sg, !.size = @ + Len(seg.data)]) :
                        sg \in Insertions(b.segs, seg)}
    BY <1>1, <1>2, <1>4 DEF AddResults
  <2> HIDE DEF seg, data
  <2>8. CASE OverCap(b, seg.off, Len(seg.data))
    <3>1. cut = 0 /\ seg.off = off /\ Len(seg.data) = len
      BY <1>0, <2>1, <2>4, <2>8 DEF OverCap, Overlap, seg
    <3> QED
      BY <2>7, <2>8, <3>1
  <2>9. CASE ~OverCap(b, seg.off, Len(seg.data))
    <3>1. PICK sg \in Insertions(b.segs, seg) :
            c = Drain([b EXCEPT !.segs = sg, !.size = @ + Len(seg.data)])
      BY <2>7, <2>9
    <3>2. PICK i \in 1 .. Len(b.segs) + 1 :
            /\ sg = InsertAt(b.segs, i, seg)
            /\ \A k \in 1 .. i - 1 : b.segs[k].off <= seg.off
            /\ \A k \in i .. Len(b.segs) : b.segs[k].off >= seg.off
      BY <3>1 DEF Insertions
    <3>3. c = Drain(Pushed(b, i, seg))
      BY <3>1, <3>2 DEF Pushed
    <3>4. InsertAt(b.segs, i, seg) \in Seq(Segment) /\ b.size + Len(seg.data) \in Int
      <4> DEFINE u == b.segs
                 t == InsertAt(u, i, seg)
      <4>1. u \in Seq(Segment) /\ seg \in Segment /\ i \in 1 .. Len(u) + 1
        BY <1>0, <2>1, <2>4, <2>5
      <4>2. b.size \in Int /\ Len(seg.data) \in Int
        BY <1>0, <2>1, <2>4, <2>5
      <4> HIDE DEF u
      <4>3. t \in Seq(Segment)
        BY <4>1, InsertFacts
      <4>4. InsertAt(b.segs, i, seg) \in Seq(Segment)
        BY <4>3 DEF u
      <4> QED
        BY <4>2, <4>4
    <3>5. Pushed(b, i, seg) \in Buffer
      BY <3>4 DEF Pushed, Buffer
    <3>6. \E s \in Segment, k \in 1 .. Len(b.segs) + 1 :
            /\ s = Fresh(b, off, len)
            /\ End(s) = off + len
            /\ \A j \in 1 .. k - 1 : b.segs[j].off <= s.off
            /\ \A j \in k .. Len(b.segs) : b.segs[j].off >= s.off
            /\ Pushed(b, k, s) \in Buffer
            /\ c = Drain(Pushed(b, k, s))
      BY <2>3, <2>5, <2>6, <3>2, <3>3, <3>5, Zenon
    <3>7. off + len > b.next /\ len # 0
      BY <1>0, <1>4
    <3>8. ~OverCap(b, off, len)
      <4> SUFFICES ASSUME OverCap(b, off, len) PROVE FALSE
        OBVIOUS
      <4>1. cut = 0 /\ seg.off = off /\ Len(seg.data) = len
        BY <1>0, <2>1, <2>4 DEF OverCap, Overlap, seg
      <4> QED
        BY <2>9, <4>1
    <3> QED
      BY <3>6, <3>7, <3>8, Zenon
  <2> QED
    BY <2>8, <2>9
<1> QED
  BY <1>3, <1>4

-----------------------------------------------------------------------------
(* The buffer in use. *)

LEMMA MaxOfNats ==
  ASSUME NEW C \in SUBSET Nat, IsFiniteSet(C), C # {}
  PROVE  \E m \in C : \A k \in C : k <= m
<1> DEFINE T == {n \in Nat : \A S \in SUBSET Nat :
                   IsFiniteSet(S) /\ S # {} /\ Cardinality(S) = n
                     => \E m \in S : \A k \in S : k <= m}
<1>0. Cardinality(C) \in Nat
  BY FS_CardinalityType
<1>1. 0 \in T
  BY FS_EmptySet
<1>2. ASSUME NEW n \in 1 .. Cardinality(C), n - 1 \in T PROVE n \in T
  <2> SUFFICES ASSUME NEW S \in SUBSET Nat, IsFiniteSet(S), S # {}, Cardinality(S) = n
               PROVE  \E m \in S : \A k \in S : k <= m
    BY <1>0
  <2>1. PICK x : x \in S
    OBVIOUS
  <2>2. CASE S = {x}
    BY <2>1, <2>2
  <2>3. CASE S # {x}
    <3>1. IsFiniteSet(S \ {x}) /\ Cardinality(S \ {x}) = n - 1
      BY <2>1, FS_RemoveElement
    <3>2. S \ {x} # {} /\ S \ {x} \in SUBSET Nat
      BY <2>1, <2>3
    <3>3. PICK m \in S \ {x} : \A k \in S \ {x} : k <= m
      BY <1>2, <3>1, <3>2
    <3>4. CASE x <= m
      BY <3>3, <3>4
    <3>5. CASE m <= x
      <4>1. \A k \in S : k <= x
        BY <2>1, <3>3, <3>5
      <4> QED
        BY <2>1, <4>1
    <3> QED
      BY <2>1, <3>4, <3>5
  <2> QED
    BY <2>2, <2>3
<1> HIDE DEF T
<1>3. Cardinality(C) \in T
  BY <1>0, <1>1, <1>2, StepByStep, Cardinality(C) \in 0 .. Cardinality(C)
<1> QED
  BY <1>3 DEF T

LEMMA CapIsNat == (CHOOSE c \in Caps : \A d \in Caps : d <= c) \in Nat
<1>1. \E c \in Caps : \A d \in Caps : d <= c
  BY MaxOfNats, CapsAssumption
<1> QED
  BY <1>1, CapsAssumption

\* The first m bytes.
LEMMA BytesPrefix ==
  ASSUME NEW off \in Nat, NEW len \in Nat, NEW m \in 0..len
  PROVE  SubSeq(Bytes(off, len), 1, m) = Bytes(off, m)
<1> DEFINE a == SubSeq(Bytes(off, len), 1, m)
           b == Bytes(off, m)
<1>1. Len(Bytes(off, len)) = len /\ \A i \in 1..len : Bytes(off, len)[i] = off + i - 1
  BY BytesFacts
<1>2. \A i \in 1..m : Bytes(off, len)[i] \in Nat
  BY <1>1
<1>3. /\ a \in Seq(Nat)
      /\ Len(a) = IF 1 <= m THEN m - 1 + 1 ELSE 0
      /\ \A i \in 1 .. m - 1 + 1 : a[i] = Bytes(off, len)[1 + i - 1]
  BY <1>2, SubSeqProperties, m \in Int
<1>4. b \in Seq(Nat) /\ Len(b) = m /\ \A i \in 1..m : b[i] = off + i - 1
  BY BytesFacts, m \in Nat
<1>5. Len(a) = Len(b)
  BY <1>3, <1>4
<1>6. ASSUME NEW i \in 1 .. Len(a) PROVE a[i] = b[i]
  <2>1. i \in 1..m /\ i \in 1 .. m - 1 + 1 /\ 1 + i - 1 = i /\ i \in 1..len
    BY <1>4, <1>5
  <2>2. a[i] = Bytes(off, len)[1 + i - 1]
    BY <1>3, <2>1, Zenon
  <2> QED
    BY <1>1, <1>4, <2>1, <2>2
<1> HIDE DEF a, b
<1>7. a = b
  BY <1>3, <1>4, <1>5, <1>6, SeqEqual
<1> QED
  BY <1>7 DEF a, b

LEMMA ReadExact ==
  ASSUME NEW b \in Buffer, Exact(b), NEW n \in Nat, NEW c, c = ReadBuf(b, n)
  PROVE  LET m == IF n < Len(b.ready) THEN n ELSE Len(b.ready)
         IN  /\ c \in Buffer /\ Exact(c)
             /\ c = [b EXCEPT !.ready = Bytes(Start(b) + m, Len(b.ready) - m), !.size = b.size - m]
             /\ Len(c.ready) = Len(b.ready) - m
             /\ Start(c) = Start(b) + m
             /\ SubSeq(b.ready, 1, Len(b.ready) - Len(c.ready)) = Bytes(Start(b), m)
<1> DEFINE l == Len(b.ready)
           m == IF n < l THEN n ELSE l
<1>0. /\ l \in Nat /\ m \in 0..l /\ l - m \in Nat /\ m \in Nat /\ Start(b) \in Nat
      /\ Start(b) + m \in Nat /\ l - (l - m) = m /\ b.size \in Int /\ b.next \in Nat
      /\ Start(b) = b.next - l
  BY DEF Buffer, Exact, Start
<1>1. SubSeq(b.ready, m + 1, l) = Bytes(Start(b) + m, l - m)
  <2>1. /\ b.ready = Bytes(Start(b), l)
        /\ Len(Bytes(Start(b), l)) = l
    BY <1>0, BytesFacts DEF Exact
  <2> DEFINE o == Start(b)
             k == m
  <2>2. o \in Nat /\ l \in Nat /\ k \in 0..l
    BY <1>0
  <2> HIDE DEF o, k, l
  <2>3. Cut(Bytes(o, l), k) = Bytes(o + k, l - k)
    BY <2>2, BytesCut
  <2>4. Cut(Bytes(Start(b), l), m) = Bytes(Start(b) + m, l - m)
    BY <2>3 DEF o, k
  <2> QED
    BY <2>1, <2>4 DEF Cut, l
<1>2. c = [b EXCEPT !.ready = Bytes(Start(b) + m, l - m), !.size = b.size - m]
  BY <1>1 DEF ReadBuf
<1>3. Bytes(Start(b) + m, l - m) \in Seq(Nat) /\ Len(Bytes(Start(b) + m, l - m)) = l - m
  BY <1>0, BytesFacts
<1> HIDE DEF m
<1>4. c \in Buffer
  <2>1. b.size - m \in Int
    BY <1>0
  <2> QED
    BY <1>2, <1>3, <2>1 DEF Buffer
<1>5. c.ready = Bytes(Start(b) + m, l - m) /\ Len(c.ready) = l - m /\ c.next = b.next
  BY <1>2, <1>3 DEF Buffer
<1>6. Start(c) = Start(b) + m
  BY <1>0, <1>5 DEF Start
<1>7. Exact(c)
  BY <1>0, <1>5, <1>6 DEF Exact
<1>8. SubSeq(b.ready, 1, l - Len(c.ready)) = Bytes(Start(b), m)
  <2>1. l - Len(c.ready) = m /\ b.ready = Bytes(Start(b), l)
    BY <1>0, <1>5 DEF Exact
  <2>2. SubSeq(Bytes(Start(b), l), 1, m) = Bytes(Start(b), m)
    BY <1>0, BytesPrefix
  <2> QED
    BY <2>1, <2>2
<1> QED
  BY <1>2, <1>4, <1>5, <1>6, <1>7, <1>8 DEF m

\* The inductive invariant for delivery: the ready queue is the stream from
\* Start to next, and the application has had everything before Start.
DeliveryInv ==
  /\ rb \in Buffer
  /\ Exact(rb)
  /\ out = Bytes(0, Start(rb))

LEMMA DeliveryInit == Init => DeliveryInv
<1> SUFFICES ASSUME Init PROVE DeliveryInv
  OBVIOUS
<1> DEFINE c == CHOOSE c \in Caps : \A d \in Caps : d <= c
<1>1. c \in Nat
  BY CapIsNat
<1> HIDE DEF c
<1>2. rb = [cap |-> c, next |-> 0, segs |-> << >>, ready |-> << >>,
            size |-> 0, dropped |-> 0, panicked |-> FALSE]
  BY DEF Init, NewBuf, c
<1>3. rb \in Buffer
  <2>1. << >> \in Seq(Segment) /\ << >> \in Seq(Nat)
    OBVIOUS
  <2> QED
    BY <1>1, <1>2, <2>1 DEF Buffer
<1>4. rb.next = 0 /\ rb.ready = << >> /\ Start(rb) = 0 /\ Len(rb.ready) = 0
  BY <1>2 DEF Start
<1>5. Bytes(0, 0) = << >>
  BY BytesNone
<1> QED
  BY <1>3, <1>4, <1>5 DEF DeliveryInv, Exact, Init

\* What add does to the queue, whatever it does with the frame.
LEMMA AddExact ==
  ASSUME NEW b \in Buffer, Exact(b), NEW off \in Nat, NEW len \in Nat,
         NEW c \in AddResults(b, off, Bytes(off, len))
  PROVE  c \in Buffer /\ Exact(c) /\ Start(c) = Start(b) /\ c.next >= b.next
<1>0. b.next \in Nat
  BY DEF Buffer
<1>1. CASE c = b
  BY <1>0, <1>1
<1>2. CASE c = [b EXCEPT !.dropped = b.dropped + len]
  <2>0. b.dropped + len \in Nat
    BY DEF Buffer
  <2>1. c \in Buffer
    BY <1>2, <2>0 DEF Buffer
  <2> QED
    BY <1>0, <1>2, <2>1 DEF Exact, Start, Buffer
<1>3. ASSUME NEW s \in Segment, NEW i \in 1 .. Len(b.segs) + 1,
             Pushed(b, i, s) \in Buffer, c = Drain(Pushed(b, i, s))
      PROVE  c \in Buffer /\ Exact(c) /\ Start(c) = Start(b) /\ c.next >= b.next
  <2> DEFINE p == Pushed(b, i, s)
  <2>1. p.next = b.next /\ p.ready = b.ready
    BY DEF Pushed, Buffer
  <2>2. Exact(p) /\ Start(p) = Start(b)
    BY <2>1 DEF Exact, Start
  <2> HIDE DEF p
  <2>3. c \in Buffer /\ Exact(c) /\ Start(c) = Start(p) /\ c.next >= p.next
    BY <1>3, <2>2, DrainExact DEF p
  <2> QED
    BY <2>1, <2>2, <2>3
<1> QED
  BY <1>1, <1>2, <1>3, AddCases

LEMMA FrameFacts ==
  ASSUME NEW f \in Frames
  PROVE  f.off \in Nat /\ f.len \in Nat
BY FramesAssumption

LEMMA DeliveryStep == DeliveryInv /\ [Next]_vars => DeliveryInv'
<1> SUFFICES ASSUME DeliveryInv, [Next]_vars PROVE DeliveryInv'
  OBVIOUS
<1> USE DEF DeliveryInv
<1>1. ASSUME NEW f \in Frames, Add(f) PROVE DeliveryInv'
  <2>1. rb' \in AddResults(rb, f.off, Bytes(f.off, f.len)) /\ out' = out
    BY <1>1 DEF Add
  <2>2. rb' \in Buffer /\ Exact(rb') /\ Start(rb') = Start(rb)
    BY <2>1, FrameFacts, AddExact
  <2> QED
    BY <2>1, <2>2 DEF Exact, Start
<1>2. ASSUME NEW n \in 1..2, Read(n) PROVE DeliveryInv'
  <2> DEFINE l == Len(rb.ready)
             m == IF n < l THEN n ELSE l
  <2>1. rb' = ReadBuf(rb, n) /\ out' = out \o SubSeq(rb.ready, 1, l - Len(rb'.ready))
    BY <1>2 DEF Read
  <2>2. /\ rb' \in Buffer /\ Exact(rb') /\ Start(rb') = Start(rb) + m
        /\ SubSeq(rb.ready, 1, l - Len(rb'.ready)) = Bytes(Start(rb), m)
    BY <2>1, n \in Nat, ReadExact
  <2>3. m \in Nat /\ Start(rb) \in Nat /\ 0 + Start(rb) = Start(rb)
    BY DEF Buffer, Exact
  <2> HIDE DEF m
  <2>4. out' = Bytes(0, Start(rb)) \o Bytes(0 + Start(rb), m)
    BY <2>1, <2>2, <2>3
  <2>5. out' = Bytes(0, Start(rb) + m)
    BY <2>3, <2>4, BytesConcat, 0 \in Nat
  <2> QED
    BY <2>2, <2>5 DEF Exact, Start
<1>3. ASSUME NEW c \in Caps, SetCap(c) PROVE DeliveryInv'
  <2>1. rb' = [rb EXCEPT !.cap = c] /\ out' = out /\ c \in Nat
    BY <1>3, CapsAssumption DEF SetCap
  <2>2. rb' \in Buffer /\ rb'.next = rb.next /\ rb'.ready = rb.ready
    BY <2>1 DEF Buffer
  <2> QED
    BY <2>1, <2>2 DEF Exact, Start
<1>4. CASE UNCHANGED vars
  BY <1>4 DEF vars, Exact, Start
<1> QED
  BY <1>1, <1>2, <1>3, <1>4 DEF Next

\* What the application has read and can still read is the stream up to the
\* cumulative ACK point, byte for byte: add and drain trim overlaps at the
\* right place, read and setCap lose nothing.
THEOREM DeliversTheStream == Spec => []DeliveredIsPrefix
<1>1. DeliveryInv => DeliveredIsPrefix
  <2> SUFFICES ASSUME DeliveryInv PROVE out \o rb.ready = Bytes(0, rb.next)
    BY DEF DeliveredIsPrefix
  <2> DEFINE l == Len(rb.ready)
  <2>1. /\ Start(rb) \in Nat /\ l \in Nat /\ Start(rb) + l = rb.next /\ 0 + Start(rb) = Start(rb)
        /\ rb.ready = Bytes(Start(rb), l) /\ out = Bytes(0, Start(rb))
    BY DEF DeliveryInv, Exact, Start, Buffer
  <2>2. Bytes(0, Start(rb)) \o Bytes(0 + Start(rb), l) = Bytes(0, Start(rb) + l)
    BY <2>1, BytesConcat, 0 \in Nat
  <2> QED
    BY <2>1, <2>2
<1> QED
  BY <1>1, DeliveryInit, DeliveryStep, PTL DEF Spec

-----------------------------------------------------------------------------
(* Nothing that has been accepted is lost. *)

\* The bytes of s have been delivered, or s is on the heap.
Kept(b, s) == b.next >= End(s) \/ \E k \in 1 .. Len(b.segs) : b.segs[k] = s

LEMMA DrainOneKeeps ==
  ASSUME NEW b \in Buffer, NEW s \in Segment, NEW c, c = DrainOne(b, s)
  PROVE  /\ b.panicked => c.panicked
         /\ c.next >= b.next
         /\ \/ c.panicked
            \/ /\ Kept(c, s)
               /\ s.off <= b.next => c.next >= End(s)
               /\ \A t \in Segment : Kept(b, t) => Kept(c, t)
<1>0. /\ b.next \in Nat /\ b.segs \in Seq(Segment) /\ Len(b.segs) \in Nat
      /\ b.panicked \in BOOLEAN /\ s.off \in Nat /\ End(s) \in Nat
  BY SegmentFacts DEF Buffer
<1>1. CASE (b.panicked \/ s.off > b.next) /\ c = [b EXCEPT !.segs = Append(b.segs, s)]
  <2>1. c.next = b.next /\ c.segs = Append(b.segs, s) /\ c.panicked = b.panicked
    BY <1>1 DEF Buffer
  <2>2. /\ Len(c.segs) = Len(b.segs) + 1 /\ c.segs[Len(b.segs) + 1] = s
        /\ \A k \in 1 .. Len(b.segs) : c.segs[k] = b.segs[k]
    BY <1>0, <2>1, AppendProperties
  <2>3. Kept(c, s)
    BY <1>0, <2>2 DEF Kept
  <2>4. ASSUME NEW t \in Segment, Kept(b, t) PROVE Kept(c, t)
    <3>1. End(t) \in Nat
      BY SegmentFacts
    <3> QED
      BY <1>0, <2>1, <2>2, <2>4, <3>1 DEF Kept
  <2>5. c.next >= b.next
    BY <1>0, <2>1
  <2>6. CASE b.panicked
    BY <2>1, <2>5, <2>6
  <2>7. CASE ~b.panicked
    <3>1. ~(s.off <= b.next)
      BY <1>0, <1>1, <2>7
    <3> QED
      BY <2>1, <2>3, <2>4, <2>5, <2>7, <3>1
  <2> QED
    BY <2>6, <2>7
<1>2. CASE c = [b EXCEPT !.panicked = TRUE]
  BY <1>0, <1>2 DEF Buffer
<1>3. CASE /\ ~b.panicked /\ s.off <= b.next /\ End(s) >= b.next
           /\ c = [b EXCEPT !.next = End(s),
                            !.ready = b.ready \o Bytes(b.next, End(s) - b.next),
                            !.size = b.size - (b.next - s.off)]
  <2>1. c.next = End(s) /\ c.segs = b.segs
    BY <1>3 DEF Buffer
  <2>2. ASSUME NEW t \in Segment, Kept(b, t) PROVE Kept(c, t)
    <3>1. End(t) \in Nat
      BY SegmentFacts
    <3> QED
      BY <1>0, <1>3, <2>1, <2>2, <3>1 DEF Kept
  <2> QED
    BY <1>0, <1>3, <2>1, <2>2 DEF Kept
<1> QED
  BY <1>1, <1>2, <1>3, DrainOneCases

LEMMA DrainKeeps ==
  ASSUME NEW b \in Buffer, NEW c, c = Drain(b)
  PROVE  /\ c \in Buffer
         /\ c.next >= b.next
         /\ \/ c.panicked
            \/ \A j \in 1 .. Len(b.segs) :
                 /\ Kept(c, b.segs[j])
                 /\ b.segs[j].off <= b.next => c.next >= End(b.segs[j])
<1> DEFINE n == Len(b.segs)
<1>0. n \in Nat /\ b.next \in Nat /\ \A i \in 1..n : b.segs[i] \in Segment
  BY DEF Buffer
<1>1. PICK d \in [0..n -> Buffer] :
        /\ d[0] = [b EXCEPT !.segs = << >>]
        /\ \A i \in 1..n : d[i] = DrainOne(d[i-1], b.segs[i])
        /\ Drain(b) = d[n]
  BY DrainSteps
<1> DEFINE Good(i, j) == /\ Kept(d[i], b.segs[j])
                         /\ b.segs[j].off <= b.next => d[i].next >= End(b.segs[j])
           T == {i \in 0..n : d[i].next >= b.next /\ (d[i].panicked \/ \A j \in 1..i : Good(i, j))}
<1>2. 0 \in T
  <2>1. d[0].next = b.next
    BY <1>1 DEF Buffer
  <2>2. d[0].next >= b.next /\ 0 \in 0..n /\ \A j \in 1..0 : Good(0, j)
    BY <1>0, <2>1
  <2> HIDE DEF Good
  <2> QED
    BY <2>2
<1>3. ASSUME NEW i \in 1..n, i - 1 \in T PROVE i \in T
  <2> DEFINE x == d[i-1]
             y == d[i]
             s == b.segs[i]
  <2>1. x \in Buffer /\ y \in Buffer /\ s \in Segment /\ y = DrainOne(x, s)
    BY <1>0, <1>1
  <2>2. x.next \in Nat /\ y.next \in Nat /\ s.off \in Nat /\ End(s) \in Nat
        /\ x.next >= b.next
    BY <1>3, <2>1, SegmentFacts DEF Buffer
  <2> HIDE DEF x, y, s
  <2>3. /\ x.panicked => y.panicked
        /\ y.next >= x.next
        /\ \/ y.panicked
           \/ /\ Kept(y, s)
              /\ s.off <= x.next => y.next >= End(s)
              /\ \A t \in Segment : Kept(x, t) => Kept(y, t)
    BY <2>1, DrainOneKeeps
  <2>4. y.next >= b.next
    BY <1>0, <2>2, <2>3
  <2>5. ASSUME ~y.panicked, NEW j \in 1..i PROVE Good(i, j)
    <3>1. CASE j = i
      <4>1. Kept(y, s) /\ (s.off <= b.next => y.next >= End(s))
        BY <1>0, <2>2, <2>3, <2>5
      <4> QED
        BY <3>1, <4>1 DEF y, s
    <3>2. CASE j # i
      <4>1. j \in 1 .. i - 1 /\ j \in 1..n
        BY <1>0, <3>2
      <4>2. Good(i - 1, j)
        BY <1>3, <2>3, <2>5, <4>1 DEF x
      <4> DEFINE t == b.segs[j]
      <4>3. t \in Segment /\ End(t) \in Nat
        BY <1>0, <4>1, SegmentFacts
      <4>4. Kept(x, t) /\ (t.off <= b.next => x.next >= End(t))
        BY <4>2 DEF x
      <4> HIDE DEF t
      <4>5. Kept(y, t) /\ (t.off <= b.next => y.next >= End(t))
        BY <2>2, <2>3, <2>5, <4>3, <4>4
      <4> QED
        BY <4>5 DEF y, t
    <3> QED
      BY <3>1, <3>2
  <2> HIDE DEF Good
  <2> QED
    BY <2>4, <2>5 DEF y
<1> HIDE DEF T
<1>4. n \in T
  BY <1>0, <1>2, <1>3, StepByStep, n \in 0..n
<1> QED
  BY <1>0, <1>1, <1>4 DEF T

\* The buffer keeps its type, whatever happens.
LEMMA BufferKept == Spec => [](rb \in Buffer)
<1>1. DeliveryInv => rb \in Buffer
  BY DEF DeliveryInv
<1> QED
  BY <1>1, DeliveryInit, DeliveryStep, PTL DEF Spec

\* A segment that fills the hole at the cumulative point is accepted and
\* delivered even when the buffer is full (the deadlock described in add).
THEOREM HolesCanBeFilled == Spec => HoleFillAccepted
<1> DEFINE A == \A f \in Frames :
                  Add(f) /\ f.off <= rb.next /\ f.off + f.len > rb.next
                    => rb'.next >= f.off + f.len \/ rb'.panicked
<1>1. rb \in Buffer /\ [Next]_vars => [A]_vars
  <2> SUFFICES ASSUME rb \in Buffer, NEW f \in Frames, Add(f),
                      f.off <= rb.next, f.off + f.len > rb.next
               PROVE  rb'.next >= f.off + f.len \/ rb'.panicked
    OBVIOUS
  <2>0. f.off \in Nat /\ f.len \in Nat /\ rb.next \in Nat /\ rb.segs \in Seq(Segment)
    BY FrameFacts DEF Buffer
  <2>1. rb' \in AddResults(rb, f.off, Bytes(f.off, f.len))
    BY DEF Add
  <2>2. ~OverCap(rb, f.off, f.len) /\ ~(f.len = 0 \/ f.off + f.len <= rb.next)
    BY <2>0 DEF OverCap
  <2>3. PICK s \in Segment, i \in 1 .. Len(rb.segs) + 1 :
          /\ s = Fresh(rb, f.off, f.len)
          /\ End(s) = f.off + f.len
          /\ Pushed(rb, i, s) \in Buffer
          /\ rb' = Drain(Pushed(rb, i, s))
    BY <2>0, <2>1, <2>2, AddCases
  <2> DEFINE p == Pushed(rb, i, s)
  <2>4. p.next = rb.next /\ p.segs = InsertAt(rb.segs, i, s)
    BY DEF Pushed, Buffer
  <2>5. Len(p.segs) = Len(rb.segs) + 1 /\ p.segs[i] = s
    BY <2>0, <2>4, InsertFacts
  <2>6. s.off = rb.next
    BY <2>0, <2>3 DEF Fresh, Overlap
  <2> HIDE DEF p
  <2>7. \/ rb'.panicked
        \/ \A j \in 1 .. Len(p.segs) : p.segs[j].off <= p.next => rb'.next >= End(p.segs[j])
    BY <2>3, DrainKeeps DEF p
  <2> QED
    BY <2>0, <2>3, <2>4, <2>5, <2>6, <2>7
<1>2. Spec => [][Next]_vars
  BY DEF Spec
<1> QED
  BY <1>1, <1>2, BufferKept, PTL DEF HoleFillAccepted

-----------------------------------------------------------------------------
(* The account of buffered bytes. *)

\* p sums up the segments one by one.
IsPrefixSum(p, segs) ==
  /\ p \in [0 .. Len(segs) -> Nat]
  /\ p[0] = 0
  /\ \A i \in 1 .. Len(segs) : p[i] = p[i-1] + Len(segs[i].data)

LEMMA HeapBytesSteps ==
  ASSUME NEW segs \in Seq(Segment)
  PROVE  \E p : IsPrefixSum(p, segs) /\ HeapBytes(segs) = p[Len(segs)]
<1> DEFINE n == Len(segs)
           Rec(g) == g = [s \in SUBSET (1..n) |->
                            IF s = {} THEN 0
                            ELSE g[s \ {Max(s)}] + Len(segs[Max(s)].data)]
           step == [q \in Nat \X (1..n) |-> q[1] + Len(segs[q[2]].data)]
<1>0. n \in Nat /\ DOMAIN segs = 1..n
      /\ \A i \in 1..n : segs[i] \in Segment /\ Len(segs[i].data) \in Nat
  BY SegmentFacts
<1>1. step \in [Nat \X (1..n) -> Nat]
  <2>1. \A x \in Nat, i \in 1..n : x + Len(segs[i].data) \in Nat
    BY <1>0
  <2> QED
    BY <2>1
<1>2. HeapBytes(segs) = (CHOOSE g : Rec(g))[1..n]
  BY <1>0 DEF HeapBytes, FoldLeft, MapThenFoldSet
<1>3. \E g : Rec(g)
  <2> HIDE DEF n
  <2>1. PICK g \in [SUBSET (1..n) -> Nat] : IsFold(g, step, 0, n)
    BY <1>0, <1>1, FoldExists, 0 \in Nat
  <2>2. ASSUME NEW s \in SUBSET (1..n), s # {}
        PROVE  step[g[s \ {Max(s)}], Max(s)] = g[s \ {Max(s)}] + Len(segs[Max(s)].data)
    <3>1. Max(s) \in 1..n
      BY <1>0, <2>2, MaxOfRange
    <3>2. g[s \ {Max(s)}] \in Nat
      OBVIOUS
    <3> QED
      BY <3>1, <3>2
  <2> HIDE DEF step
  <2>3. Rec(g)
    BY <2>1, <2>2 DEF IsFold
  <2> QED
    BY <2>3
<1> DEFINE g == CHOOSE g : Rec(g)
           p == [i \in 0..n |-> g[1..i]]
<1>4. Rec(g)
  BY <1>3
<1> HIDE DEF g
<1>5. p[0] = 0
  <2>1. 1..0 = {} /\ {} \in SUBSET (1..n) /\ p[0] = g[1..0]
    BY <1>0
  <2>2. g[{}] = 0
    BY <1>4, <2>1
  <2> QED
    BY <2>1, <2>2
<1>6. ASSUME NEW i \in 1..n PROVE p[i] = p[i-1] + Len(segs[i].data)
  <2>0. i \in 0..n /\ i - 1 \in 0..n
    BY <1>0
  <2>1. 1..i # {} /\ 1..i \in SUBSET (1..n) /\ p[i] = g[1..i] /\ p[i-1] = g[1 .. i-1]
    <3>1. i \in 1..i /\ \A k \in 1..i : k \in 1..n
      BY <1>0
    <3> QED
      BY <2>0, <3>1
  <2>2. Max(1..i) = i /\ (1..i) \ {i} = 1 .. i-1
    BY <1>0, MaxOfPrefix, i \in Nat \ {0}
  <2>3. g[1..i] = g[(1..i) \ {Max(1..i)}] + Len(segs[Max(1..i)].data)
    BY <1>4, <2>1
  <2> QED
    BY <2>1, <2>2, <2>3
<1>7. HeapBytes(segs) = p[n]
  BY <1>0, <1>2 DEF g
<1>8. p \in [0..n -> Nat]
  <2> DEFINE T == {i \in 0..n : p[i] \in Nat}
  <2>1. 0 \in T
    BY <1>0, <1>5
  <2>2. ASSUME NEW i \in 1..n, i - 1 \in T PROVE i \in T
    <3>1. p[i-1] \in Nat /\ Len(segs[i].data) \in Nat
      BY <1>0, <2>2
    <3>2. p[i-1] + Len(segs[i].data) \in Nat
      BY <3>1
    <3>3. p[i] \in Nat
      BY <1>6, <3>2, Zenon
    <3> QED
      BY <3>3
  <2> HIDE DEF T
  <2>3. \A i \in 0..n : i \in T
    BY <1>0, <2>1, <2>2, StepByStep
  <2> QED
    BY <2>3 DEF T
<1> QED
  BY <1>5, <1>6, <1>7, <1>8 DEF IsPrefixSum

LEMMA PrefixSumUnique ==
  ASSUME NEW segs \in Seq(Segment), NEW p, IsPrefixSum(p, segs)
  PROVE  HeapBytes(segs) = p[Len(segs)]
<1> DEFINE n == Len(segs)
<1>0. n \in Nat /\ n \in 0..n
  OBVIOUS
<1>1. PICK q : IsPrefixSum(q, segs) /\ HeapBytes(segs) = q[n]
  BY HeapBytesSteps
<1> DEFINE T == {i \in 0..n : p[i] = q[i]}
<1>2. 0 \in T
  BY <1>0, <1>1 DEF IsPrefixSum
<1>3. ASSUME NEW i \in 1..n, i - 1 \in T PROVE i \in T
  BY <1>1, <1>3 DEF IsPrefixSum
<1> HIDE DEF T
<1>4. n \in T
  BY <1>0, <1>2, <1>3, StepByStep
<1> QED
  BY <1>1, <1>4 DEF T

LEMMA HeapBytesNone == HeapBytes(<< >>) = 0
<1>1. << >> \in Seq(Segment) /\ Len(<< >>) = 0
  OBVIOUS
<1>2. IsPrefixSum([i \in 0..0 |-> 0], << >>)
  BY <1>1 DEF IsPrefixSum
<1> QED
  BY <1>1, <1>2, PrefixSumUnique

LEMMA HeapBytesNat ==
  ASSUME NEW segs \in Seq(Segment)
  PROVE  HeapBytes(segs) \in Nat
BY HeapBytesSteps DEF IsPrefixSum

\* A segment added at any place adds its length.
LEMMA HeapBytesAdded ==
  ASSUME NEW s \in Seq(Segment), NEW t \in Seq(Segment), NEW e \in Segment,
         NEW i \in 1 .. Len(s) + 1,
         Len(t) = Len(s) + 1,
         \A j \in 1 .. i - 1 : t[j] = s[j],
         t[i] = e,
         \A j \in i + 1 .. Len(s) + 1 : t[j] = s[j - 1]
  PROVE  HeapBytes(t) = HeapBytes(s) + Len(e.data)
<1> DEFINE n == Len(s)
           l == Len(e.data)
<1>0. n \in Nat /\ l \in Nat /\ i \in Nat /\ 1 <= i /\ i <= n + 1
      /\ \A j \in 1..n : Len(s[j].data) \in Nat
  BY SegmentFacts
<1>1. PICK p : IsPrefixSum(p, s) /\ HeapBytes(s) = p[n]
  BY HeapBytesSteps
<1>2. /\ \A j \in 0..n : p[j] \in Nat
      /\ p[0] = 0
      /\ \A j \in 1..n : p[j] = p[j-1] + Len(s[j].data)
  BY <1>1 DEF IsPrefixSum
<1> DEFINE q == [j \in 0 .. n + 1 |-> IF j < i THEN p[j] ELSE p[j-1] + l]
<1>3. q \in [0 .. n + 1 -> Nat]
  <2> SUFFICES ASSUME NEW j \in 0 .. n + 1
               PROVE  (IF j < i THEN p[j] ELSE p[j-1] + l) \in Nat
    OBVIOUS
  <2>1. CASE j < i
    <3>1. j \in 0..n
      BY <1>0, <2>1
    <3> QED
      BY <1>2, <2>1, <3>1
  <2>2. CASE ~(j < i)
    <3>1. j - 1 \in 0..n
      BY <1>0, <2>2
    <3>2. p[j-1] + l \in Nat
      BY <1>0, <1>2, <3>1, SMTT(30)
    <3> QED
      BY <2>2, <3>2
  <2> QED
    BY <2>1, <2>2
<1>4. q[0] = 0
  <2>1. 0 \in 0 .. n + 1 /\ 0 < i
    BY <1>0
  <2> QED
    BY <1>2, <2>1
<1>5. ASSUME NEW j \in 1 .. n + 1 PROVE q[j] = q[j-1] + Len(t[j].data)
  <2>0. j \in 0 .. n + 1 /\ j - 1 \in 0 .. n + 1 /\ j - 1 \in 0..n
    BY <1>0
  <2>1. CASE j < i
    <3>1. j \in 1..n /\ j - 1 < i /\ j \in 1 .. i - 1
      BY <1>0, <2>1
    <3>2. q[j] = p[j] /\ q[j-1] = p[j-1] /\ t[j] = s[j]
      BY <2>0, <2>1, <3>1
    <3> QED
      BY <1>2, <3>1, <3>2
  <2>2. CASE j = i
    <3>1. j - 1 < i /\ ~(j < i)
      BY <1>0, <2>2
    <3>2. q[j] = p[j-1] + l /\ q[j-1] = p[j-1] /\ t[j] = e
      BY <2>0, <2>2, <3>1
    <3> QED
      BY <3>2
  <2>3. CASE j > i
    <3>1. ~(j - 1 < i) /\ ~(j < i) /\ j - 1 \in 1..n /\ j \in i + 1 .. n + 1
          /\ j - 1 - 1 \in 0..n
      BY <1>0, <2>3
    <3>2. q[j] = p[j-1] + l
      BY <2>0, <3>1
    <3>3. q[j-1] = p[j-1-1] + l
      BY <2>0, <3>1
    <3>4. t[j] = s[j-1] /\ p[j-1] = p[j-1-1] + Len(s[j-1].data)
      BY <1>2, <3>1
    <3>5. Len(s[j-1].data) \in Nat /\ p[j-1-1] \in Nat
      BY <1>0, <1>2, <3>1
    <3> QED
      BY <1>0, <3>2, <3>3, <3>4, <3>5, SMTT(30)
  <2> QED
    BY <1>0, <2>1, <2>2, <2>3
<1>6. q[n+1] = p[n] + l
  <2>1. n + 1 \in 0 .. n + 1 /\ ~(n + 1 < i) /\ n + 1 - 1 = n
    BY <1>0
  <2> QED
    BY <2>1
<1> HIDE DEF q
<1>7. IsPrefixSum(q, t)
  BY <1>3, <1>4, <1>5 DEF IsPrefixSum
<1> QED
  BY <1>1, <1>6, <1>7, PrefixSumUnique

LEMMA HeapBytesInserted ==
  ASSUME NEW s \in Seq(Segment), NEW e \in Segment, NEW i \in 1 .. Len(s) + 1
  PROVE  HeapBytes(InsertAt(s, i, e)) = HeapBytes(s) + Len(e.data)
<1> DEFINE t == InsertAt(s, i, e)
<1>1. t = InsertAt(s, i, e)
  OBVIOUS
<1> HIDE DEF t
<1>2. /\ t \in Seq(Segment)
      /\ Len(t) = Len(s) + 1
      /\ \A j \in 1 .. i - 1 : t[j] = s[j]
      /\ t[i] = e
      /\ \A j \in i + 1 .. Len(s) + 1 : t[j] = s[j - 1]
  BY <1>1, InsertFacts
<1>3. HeapBytes(t) = HeapBytes(s) + Len(e.data)
  BY <1>2, HeapBytesAdded
<1> QED
  BY <1>1, <1>3

\* What size is off by.
Loss(b) == b.size - Len(b.ready) - HeapBytes(b.segs)

\* One turn of the loop takes one segment off the account, whether the
\* segment stays on the heap or becomes ready, trimmed or not.
LEMMA DrainOneLoss ==
  ASSUME NEW b \in Buffer, NEW s \in Segment, NEW c, c = DrainOne(b, s), ~c.panicked
  PROVE  Loss(c) = Loss(b) - Len(s.data)
<1> DEFINE h == HeapBytes(b.segs)
           r == Len(b.ready)
           l == Len(s.data)
<1>0. /\ b.next \in Nat /\ b.segs \in Seq(Segment) /\ Len(b.segs) \in Nat
      /\ b.ready \in Seq(Nat) /\ r \in Nat /\ b.size \in Int /\ h \in Nat
      /\ s.off \in Nat /\ l \in Nat /\ End(s) = s.off + l
  BY SegmentFacts, HeapBytesNat DEF Buffer, End
<1>1. CASE c = [b EXCEPT !.segs = Append(b.segs, s)]
  <2>1. c.size = b.size /\ c.ready = b.ready /\ c.segs = Append(b.segs, s)
    BY <1>1 DEF Buffer
  <2>2. /\ c.segs \in Seq(Segment) /\ Len(c.segs) = Len(b.segs) + 1
        /\ c.segs[Len(b.segs) + 1] = s
        /\ \A k \in 1 .. Len(b.segs) : c.segs[k] = b.segs[k]
    BY <1>0, <2>1, AppendProperties
  <2>3. HeapBytes(c.segs) = h + l
    <3> DEFINE i == Len(b.segs) + 1
    <3>1. i \in 1 .. Len(b.segs) + 1 /\ \A j \in 1 .. i - 1 : j \in 1 .. Len(b.segs)
      BY <1>0
    <3>2. \A j \in i + 1 .. Len(b.segs) + 1 : c.segs[j] = b.segs[j-1]
      BY <1>0
    <3>3. c.segs[i] = s /\ \A j \in 1 .. i - 1 : c.segs[j] = b.segs[j]
      BY <2>2, <3>1
    <3> HIDE DEF i
    <3> QED
      BY <1>0, <2>2, <3>1, <3>2, <3>3, HeapBytesAdded
  <2> QED
    BY <1>0, <2>1, <2>3 DEF Loss
<1>2. CASE c = [b EXCEPT !.panicked = TRUE]
  BY <1>2 DEF Buffer
<1>3. CASE /\ s.off <= b.next /\ End(s) >= b.next
           /\ c = [b EXCEPT !.next = End(s),
                            !.ready = b.ready \o Bytes(b.next, End(s) - b.next),
                            !.size = b.size - (b.next - s.off)]
  <2> DEFINE n == End(s) - b.next
  <2>0. n \in Nat
    BY <1>0, <1>3
  <2>1. /\ c.size = b.size - (b.next - s.off) /\ c.segs = b.segs
        /\ c.ready = b.ready \o Bytes(b.next, n)
    BY <1>3 DEF Buffer
  <2>2. Bytes(b.next, n) \in Seq(Nat) /\ Len(Bytes(b.next, n)) = n
    BY <1>0, <2>0, BytesFacts
  <2>3. Len(c.ready) = r + n
    <3> DEFINE z == Bytes(b.next, n)
    <3>1. z \in Seq(Nat) /\ Len(z) = n /\ c.ready = b.ready \o z
      BY <2>1, <2>2
    <3> HIDE DEF z, n
    <3> QED
      <4> DEFINE y == b.ready
      <4>1. y \in Seq(Nat) /\ r = Len(y)
        BY <1>0
      <4> HIDE DEF y
      <4>2. Len(y \o z) = Len(y) + Len(z)
        BY <3>1, <4>1, ConcatProperties
      <4> QED
        BY <3>1, <4>1, <4>2 DEF y
  <2>4. b.size - (b.next - s.off) - (r + n) - h = b.size - r - h - l
    BY <1>0, SMTT(30)
  <2>5. HeapBytes(c.segs) = h
    BY <2>1
  <2> HIDE DEF n, h, r, l
  <2>6. c.size - Len(c.ready) - HeapBytes(c.segs) = b.size - r - h - l
    BY <2>1, <2>3, <2>4, <2>5
  <2> QED
    BY <2>6 DEF Loss, h, r, l
<1> QED
  BY <1>1, <1>2, <1>3, DrainOneCases

LEMMA DrainLoss ==
  ASSUME NEW b \in Buffer, NEW c, c = Drain(b), ~c.panicked
  PROVE  Loss(c) = Loss(b)
<1> DEFINE n == Len(b.segs)
<1>0. n \in Nat /\ b.segs \in Seq(Segment) /\ b.size \in Int /\ Len(b.ready) \in Nat
      /\ \A i \in 1..n : b.segs[i] \in Segment /\ Len(b.segs[i].data) \in Nat
  BY SegmentFacts DEF Buffer
<1>1. PICK d \in [0..n -> Buffer] :
        /\ d[0] = [b EXCEPT !.segs = << >>]
        /\ \A i \in 1..n : d[i] = DrainOne(d[i-1], b.segs[i])
        /\ Drain(b) = d[n]
  BY DrainSteps
<1>2. PICK p : IsPrefixSum(p, b.segs) /\ HeapBytes(b.segs) = p[n]
  BY <1>0, HeapBytesSteps
<1>3. /\ \A j \in 0..n : p[j] \in Nat
      /\ p[0] = 0
      /\ \A j \in 1..n : p[j] = p[j-1] + Len(b.segs[j].data)
  BY <1>2 DEF IsPrefixSum
<1> DEFINE total == b.size - Len(b.ready)
           T == {i \in 0..n : d[i].panicked \/ Loss(d[i]) = total - p[i]}
<1>4. 0 \in T
  <2>1. d[0].size = b.size /\ d[0].ready = b.ready /\ d[0].segs = << >>
    BY <1>1 DEF Buffer
  <2>2. Loss(d[0]) = total - p[0]
    BY <1>0, <1>3, <2>1, HeapBytesNone DEF Loss
  <2> QED
    BY <1>0, <2>2
<1>5. ASSUME NEW i \in 1..n, i - 1 \in T PROVE i \in T
  <2>1. d[i-1] \in Buffer /\ d[i] \in Buffer /\ b.segs[i] \in Segment
        /\ d[i] = DrainOne(d[i-1], b.segs[i])
    BY <1>0, <1>1
  <2>2. d[i-1].panicked => d[i].panicked
    BY <2>1, DrainOneKeeps
  <2>3. ASSUME ~d[i].panicked PROVE Loss(d[i]) = total - p[i]
    <3>1. Loss(d[i]) = Loss(d[i-1]) - Len(b.segs[i].data)
      BY <2>1, <2>3, DrainOneLoss
    <3>2. Loss(d[i-1]) = total - p[i-1]
      BY <1>5, <2>2, <2>3
    <3>3. p[i-1] \in Nat /\ p[i] = p[i-1] + Len(b.segs[i].data) /\ total \in Int
          /\ Len(b.segs[i].data) \in Nat
      BY <1>0, <1>3, SMTT(30)
    <3> HIDE DEF total
    <3> QED
      BY <3>1, <3>2, <3>3
  <2> HIDE DEF total
  <2> QED
    BY <2>3
<1> HIDE DEF T
<1>6. n \in T
  BY <1>0, <1>4, <1>5, StepByStep, n \in 0..n
<1>7. Loss(d[n]) = total - p[n]
  BY <1>1, <1>6 DEF T
<1> QED
  BY <1>1, <1>2, <1>7 DEF Loss

\* The inductive invariant for the account.
SizeInv == ~rb.panicked => Loss(rb) = 0

LEMMA SizeStep == DeliveryInv /\ SizeInv /\ [Next]_vars => SizeInv'
<1> SUFFICES ASSUME DeliveryInv, SizeInv, [Next]_vars, ~rb'.panicked
             PROVE  Loss(rb') = 0
  BY DEF SizeInv
<1>0. rb \in Buffer /\ Exact(rb)
  BY DEF DeliveryInv
<1>1. /\ rb.next \in Nat /\ rb.segs \in Seq(Segment) /\ rb.size \in Int
      /\ Len(rb.ready) \in Nat /\ HeapBytes(rb.segs) \in Nat
  BY <1>0, HeapBytesNat DEF Buffer
<1>2. ASSUME NEW f \in Frames, Add(f) PROVE Loss(rb') = 0
  <2>1. rb' \in AddResults(rb, f.off, Bytes(f.off, f.len)) /\ Loss(rb) = 0
    BY <1>2 DEF Add, SizeInv
  <2>2. CASE rb' = rb
    BY <2>1, <2>2
  <2>3. CASE rb' = [rb EXCEPT !.dropped = rb.dropped + f.len]
    <3>1. rb'.size = rb.size /\ rb'.ready = rb.ready /\ rb'.segs = rb.segs
      BY <1>0, <2>3 DEF Buffer
    <3> QED
      BY <2>1, <3>1 DEF Loss
  <2>4. ASSUME NEW s \in Segment, NEW i \in 1 .. Len(rb.segs) + 1,
               Pushed(rb, i, s) \in Buffer, rb' = Drain(Pushed(rb, i, s))
        PROVE  Loss(rb') = 0
    <3> DEFINE p == Pushed(rb, i, s)
               t == InsertAt(rb.segs, i, s)
    <3>1. p.size = rb.size + Len(s.data) /\ p.ready = rb.ready /\ p.segs = t
      BY <1>0 DEF Pushed, Buffer
    <3>2. HeapBytes(t) = HeapBytes(rb.segs) + Len(s.data)
      BY <1>1, HeapBytesInserted
    <3> HIDE DEF p, t
    <3>3. Loss(rb') = Loss(p)
      BY <2>4, DrainLoss DEF p
    <3>4. Len(s.data) \in Nat
      BY SegmentFacts
    <3> QED
      BY <1>1, <2>1, <3>1, <3>2, <3>3, <3>4 DEF Loss
  <2> QED
    BY <1>0, <2>1, <2>2, <2>3, <2>4, AddCases, FrameFacts
<1>3. ASSUME NEW n \in 1..2, Read(n) PROVE Loss(rb') = 0
  <2> DEFINE l == Len(rb.ready)
             m == IF n < l THEN n ELSE l
  <2>1. rb' = ReadBuf(rb, n) /\ Loss(rb) = 0
    BY <1>3 DEF Read, SizeInv
  <2>2. /\ rb' = [rb EXCEPT !.ready = Bytes(Start(rb) + m, l - m), !.size = rb.size - m]
        /\ Len(rb'.ready) = l - m
    BY <1>0, <2>1, n \in Nat, ReadExact
  <2>3. m \in Nat
    BY <1>1
  <2> HIDE DEF m
  <2>4. rb'.size = rb.size - m /\ rb'.segs = rb.segs
    BY <1>0, <2>2 DEF Buffer
  <2> QED
    BY <1>1, <2>1, <2>2, <2>3, <2>4 DEF Loss
<1>4. ASSUME NEW c \in Caps, SetCap(c) PROVE Loss(rb') = 0
  <2>1. rb' = [rb EXCEPT !.cap = c] /\ Loss(rb) = 0
    BY <1>4 DEF SetCap, SizeInv
  <2>2. rb'.size = rb.size /\ rb'.ready = rb.ready /\ rb'.segs = rb.segs
    BY <1>0, <2>1 DEF Buffer
  <2> QED
    BY <2>1, <2>2 DEF Loss
<1>5. CASE UNCHANGED vars
  BY <1>5 DEF vars, SizeInv
<1> QED
  BY <1>2, <1>3, <1>4, <1>5 DEF Next

\* size is the number of buffered bytes, so the advertised window is what is
\* really free: overlaps trimmed by drain are written off, no more, no less.
THEOREM SizeIsExact == Spec => []SizeLedger
<1>1. Init => SizeInv
  <2> SUFFICES ASSUME Init PROVE Loss(rb) = 0
    BY DEF SizeInv
  <2>1. rb.size = 0 /\ rb.ready = << >> /\ rb.segs = << >>
    BY DEF Init, NewBuf
  <2> QED
    BY <2>1, HeapBytesNone DEF Loss
<1>2. DeliveryInv /\ SizeInv => SizeLedger
  <2> SUFFICES ASSUME DeliveryInv, ~rb.panicked, Loss(rb) = 0
               PROVE  rb.size = Len(rb.ready) + HeapBytes(rb.segs)
    BY DEF SizeInv, SizeLedger
  <2>1. rb.size \in Int /\ Len(rb.ready) \in Nat /\ HeapBytes(rb.segs) \in Nat
    BY HeapBytesNat DEF DeliveryInv, Buffer
  <2> QED
    BY <2>1 DEF Loss
<1> QED
  BY <1>1, <1>2, DeliveryInit, DeliveryStep, SizeStep, PTL DEF Spec

-----------------------------------------------------------------------------
(* The heap. *)

Sorted(segs) ==
  \A i, j \in 1 .. Len(segs) : i <= j => segs[i].off <= segs[j].off

\* Every segment on the heap leaves a gap after what is in order.
Gapped(b) == \A k \in 1 .. Len(b.segs) : b.segs[k].off > b.next

LEMMA InsertSorted ==
  ASSUME NEW s \in Seq(Segment), Sorted(s), NEW e \in Segment, NEW i \in 1 .. Len(s) + 1,
         \A k \in 1 .. i - 1 : s[k].off <= e.off,
         \A k \in i .. Len(s) : s[k].off >= e.off,
         NEW t, t = InsertAt(s, i, e)
  PROVE  Sorted(t)
<1> DEFINE n == Len(s)
<1>0. n \in Nat /\ i \in Nat /\ 1 <= i /\ i <= n + 1 /\ e.off \in Nat
      /\ \A k \in 1..n : s[k].off \in Nat
  BY SegmentFacts
<1>1. /\ Len(t) = n + 1
      /\ \A j \in 1 .. i - 1 : t[j] = s[j]
      /\ t[i] = e
      /\ \A j \in i + 1 .. n + 1 : t[j] = s[j - 1]
  <2> HIDE DEF n
  <2> QED
    BY InsertFacts DEF n
<1>2. \A k, l \in 1..n : k <= l => s[k].off <= s[l].off
  BY DEF Sorted
<1> SUFFICES ASSUME NEW j \in 1 .. n + 1, NEW k \in 1 .. n + 1, j <= k
             PROVE  t[j].off <= t[k].off
  BY <1>1 DEF Sorted
<1>3. CASE j < i
  <2>1. t[j] = s[j] /\ j \in 1..n /\ s[j].off <= e.off
    BY <1>0, <1>1, <1>3
  <2>2. CASE k < i
    <3>1. t[k] = s[k] /\ k \in 1..n
      BY <1>0, <1>1, <2>2
    <3> QED
      BY <1>2, <2>1, <3>1
  <2>3. CASE k = i
    BY <1>1, <2>1, <2>3
  <2>4. CASE k > i
    <3>1. t[k] = s[k-1] /\ k - 1 \in 1..n /\ j <= k - 1
      BY <1>0, <1>1, <1>3, <2>4
    <3> QED
      BY <1>2, <2>1, <3>1
  <2> QED
    BY <1>0, <2>2, <2>3, <2>4
<1>4. CASE j = i
  <2>1. CASE k = i
    BY <1>0, <1>1, <1>4, <2>1
  <2>2. CASE k > i
    <3>1. t[k] = s[k-1] /\ k - 1 \in i..n
      BY <1>0, <1>1, <2>2
    <3> QED
      BY <1>1, <1>4, <3>1
  <2> QED
    BY <1>0, <1>4, <2>1, <2>2
<1>5. CASE j > i
  <2>1. t[j] = s[j-1] /\ t[k] = s[k-1] /\ j - 1 \in 1..n /\ k - 1 \in 1..n /\ j - 1 <= k - 1
    BY <1>0, <1>1, <1>5
  <2> QED
    BY <1>2, <2>1
<1> QED
  BY <1>0, <1>3, <1>4, <1>5

\* One turn of the loop keeps the heap sorted and gapped.
LEMMA DrainOneShape ==
  ASSUME NEW x \in Buffer, NEW s \in Segment, NEW y, y = DrainOne(x, s),
         Sorted(x.segs), x.panicked \/ Gapped(x),
         \A k \in 1 .. Len(x.segs) : x.segs[k].off <= s.off
  PROVE  /\ Sorted(y.segs)
         /\ y.panicked \/ Gapped(y)
         /\ \A k \in 1 .. Len(y.segs) :
              y.segs[k] = s \/ \E j \in 1 .. Len(x.segs) : y.segs[k] = x.segs[j]
<1>0. /\ x.segs \in Seq(Segment) /\ Len(x.segs) \in Nat /\ x.next \in Nat
      /\ x.panicked \in BOOLEAN /\ s.off \in Nat
      /\ \A k \in 1 .. Len(x.segs) : x.segs[k].off \in Nat
  <2>1. \A k \in 1 .. Len(x.segs) : x.segs[k] \in Segment
    BY DEF Buffer
  <2> QED
    BY <2>1, SegmentFacts DEF Buffer
<1>1. CASE (x.panicked \/ s.off > x.next) /\ y = [x EXCEPT !.segs = Append(x.segs, s)]
  <2>1. y.next = x.next /\ y.segs = Append(x.segs, s) /\ y.panicked = x.panicked
    BY <1>1 DEF Buffer
  <2> DEFINE l == Len(x.segs)
  <2>2. /\ Len(y.segs) = l + 1 /\ y.segs[l + 1] = s
        /\ \A k \in 1..l : y.segs[k] = x.segs[k]
    BY <1>0, <2>1, AppendProperties
  <2>3. Sorted(y.segs)
    <3> SUFFICES ASSUME NEW j \in 1 .. l + 1, NEW k \in 1 .. l + 1, j <= k
                 PROVE  y.segs[j].off <= y.segs[k].off
      BY <2>2 DEF Sorted
    <3>1. CASE k \in 1..l
      <4>1. j \in 1..l
        BY <1>0, <3>1
      <4> QED
        BY <2>2, <3>1, <4>1 DEF Sorted
    <3>2. CASE k = l + 1 /\ j \in 1..l
      BY <2>2, <3>2
    <3>3. CASE k = l + 1 /\ j = l + 1
      BY <1>0, <2>2, <3>3
    <3> QED
      BY <1>0, <3>1, <3>2, <3>3
  <2>4. \A k \in 1 .. Len(y.segs) :
          y.segs[k] = s \/ \E j \in 1 .. Len(x.segs) : y.segs[k] = x.segs[j]
    BY <1>0, <2>2
  <2>5. CASE x.panicked
    BY <2>1, <2>3, <2>4, <2>5
  <2>6. CASE ~x.panicked
    <3>1. Gapped(y)
      <4> SUFFICES ASSUME NEW k \in 1 .. l + 1 PROVE y.segs[k].off > y.next
        BY <2>2 DEF Gapped
      <4>1. CASE k \in 1..l
        BY <2>1, <2>2, <2>6, <4>1 DEF Gapped
      <4>2. CASE k = l + 1
        BY <1>1, <2>1, <2>2, <2>6, <4>2
      <4> QED
        BY <1>0, <4>1, <4>2
    <3> QED
      BY <2>3, <2>4, <3>1
  <2> QED
    BY <2>5, <2>6
<1>2. CASE y = [x EXCEPT !.panicked = TRUE]
  BY <1>2 DEF Buffer
<1>3. CASE /\ ~x.panicked /\ s.off <= x.next
           /\ y = [x EXCEPT !.next = End(s),
                            !.ready = x.ready \o Bytes(x.next, End(s) - x.next),
                            !.size = x.size - (x.next - s.off)]
  <2>1. y.segs = x.segs
    BY <1>3 DEF Buffer
  <2>2. ASSUME NEW k \in 1 .. Len(x.segs) PROVE FALSE
    <3>1. x.segs[k].off > x.next
      BY <1>3 DEF Gapped
    <3> QED
      BY <1>0, <1>3, <3>1
  <2> QED
    BY <2>1, <2>2 DEF Gapped
<1> QED
  BY <1>1, <1>2, <1>3, DrainOneCases

\* Draining a sorted heap leaves a sorted heap, of segments that were there,
\* and nothing on it that touches next.
LEMMA DrainShape ==
  ASSUME NEW b \in Buffer, Sorted(b.segs), NEW c, c = Drain(b)
  PROVE  /\ Sorted(c.segs)
         /\ \A k \in 1 .. Len(c.segs) : \E j \in 1 .. Len(b.segs) : c.segs[k] = b.segs[j]
         /\ c.panicked \/ Gapped(c)
<1> DEFINE n == Len(b.segs)
<1>0. n \in Nat /\ (\A i \in 1..n : b.segs[i] \in Segment)
      /\ \A i, j \in 1..n : i <= j => b.segs[i].off <= b.segs[j].off
  BY DEF Buffer, Sorted
<1>1. PICK d \in [0..n -> Buffer] :
        /\ d[0] = [b EXCEPT !.segs = << >>]
        /\ \A i \in 1..n : d[i] = DrainOne(d[i-1], b.segs[i])
        /\ Drain(b) = d[n]
  BY DrainSteps
<1> DEFINE From(x, i) == \A k \in 1 .. Len(x.segs) : \E j \in 1..i : x.segs[k] = b.segs[j]
           Good(i) == Sorted(d[i].segs) /\ From(d[i], i) /\ (d[i].panicked \/ Gapped(d[i]))
           T == {i \in 0..n : Good(i)}
<1>2. 0 \in T
  <2>1. d[0].segs = << >> /\ Len(d[0].segs) = 0
    BY <1>1 DEF Buffer
  <2>2. Good(0)
    BY <2>1 DEF Sorted, Gapped
  <2> HIDE DEF Good
  <2> QED
    BY <1>0, <2>2
<1>3. ASSUME NEW i \in 1..n, i - 1 \in T PROVE i \in T
  <2> DEFINE x == d[i-1]
             y == d[i]
             s == b.segs[i]
  <2>1. /\ x \in Buffer /\ s \in Segment /\ y = DrainOne(x, s)
        /\ Good(i - 1) /\ i \in Nat
    BY <1>0, <1>1, <1>3
  <2>2. \A k \in 1 .. Len(x.segs) : x.segs[k].off <= s.off
    <3> SUFFICES ASSUME NEW k \in 1 .. Len(x.segs) PROVE x.segs[k].off <= s.off
      OBVIOUS
    <3>1. PICK j \in 1 .. i - 1 : x.segs[k] = b.segs[j]
      BY <2>1
    <3>2. j \in 1..n /\ j <= i
      BY <1>0
    <3> QED
      BY <1>0, <3>1, <3>2
  <2>3. Sorted(x.segs) /\ (x.panicked \/ Gapped(x)) /\ From(x, i - 1)
    BY <2>1
  <2> HIDE DEF x, y, s, Good, From
  <2>4. /\ Sorted(y.segs)
        /\ y.panicked \/ Gapped(y)
        /\ \A k \in 1 .. Len(y.segs) :
             y.segs[k] = s \/ \E j \in 1 .. Len(x.segs) : y.segs[k] = x.segs[j]
    BY <2>1, <2>2, <2>3, DrainOneShape
  <2>5. From(y, i)
    <3> SUFFICES ASSUME NEW k \in 1 .. Len(y.segs)
                 PROVE  \E j \in 1..i : y.segs[k] = b.segs[j]
      BY DEF From
    <3>1. CASE y.segs[k] = s
      <4>1. i \in 1..i
        BY <2>1
      <4> QED
        BY <3>1, <4>1 DEF s
    <3>2. ASSUME NEW l \in 1 .. Len(x.segs), y.segs[k] = x.segs[l]
          PROVE  \E j \in 1..i : y.segs[k] = b.segs[j]
      <4>1. PICK j \in 1 .. i - 1 : x.segs[l] = b.segs[j]
        BY <2>3 DEF From
      <4>2. j \in 1..i
        BY <2>1
      <4> QED
        BY <3>2, <4>1, <4>2
    <3> QED
      BY <2>4, <3>1, <3>2
  <2>6. Good(i)
    BY <2>4, <2>5 DEF Good, y
  <2> QED
    BY <2>6
<1> HIDE DEF T
<1>4. n \in T
  BY <1>0, <1>2, <1>3, StepByStep, n \in 0..n
<1> QED
  BY <1>0, <1>1, <1>4 DEF T

\* The shape of the heap, an invariant of the buffer in use.
ShapeInv == Sorted(rb.segs) /\ (rb.panicked \/ Gapped(rb))

LEMMA ShapeStep == DeliveryInv /\ ShapeInv /\ [Next]_vars => ShapeInv'
<1> SUFFICES ASSUME DeliveryInv, ShapeInv, [Next]_vars
             PROVE  Sorted(rb'.segs) /\ (rb'.panicked \/ Gapped(rb'))
  BY DEF ShapeInv
<1>0. rb \in Buffer /\ rb.segs \in Seq(Segment) /\ Sorted(rb.segs) /\ Exact(rb)
      /\ rb.next \in Nat /\ Len(rb.segs) \in Nat
  BY DEF DeliveryInv, ShapeInv, Buffer
<1>1. CASE rb'.segs = rb.segs /\ rb'.next = rb.next /\ (rb.panicked => rb'.panicked)
  BY <1>1 DEF ShapeInv, Gapped
<1>2. ASSUME NEW f \in Frames, Add(f)
      PROVE  Sorted(rb'.segs) /\ (rb'.panicked \/ Gapped(rb'))
  <2>1. rb' \in AddResults(rb, f.off, Bytes(f.off, f.len))
    BY <1>2 DEF Add
  <2>2. CASE rb' = rb
    BY <1>1, <2>2
  <2>3. CASE rb' = [rb EXCEPT !.dropped = rb.dropped + f.len]
    <3>1. rb'.segs = rb.segs /\ rb'.next = rb.next /\ rb'.panicked = rb.panicked
      BY <1>0, <2>3 DEF Buffer
    <3> QED
      BY <1>1, <3>1
  <2>4. ASSUME NEW s \in Segment, NEW i \in 1 .. Len(rb.segs) + 1,
               \A k \in 1 .. i - 1 : rb.segs[k].off <= s.off,
               \A k \in i .. Len(rb.segs) : rb.segs[k].off >= s.off,
               Pushed(rb, i, s) \in Buffer, rb' = Drain(Pushed(rb, i, s))
        PROVE  Sorted(rb'.segs) /\ (rb'.panicked \/ Gapped(rb'))
    <3> DEFINE p == Pushed(rb, i, s)
    <3>1. p.segs = InsertAt(rb.segs, i, s)
      BY <1>0 DEF Pushed, Buffer
    <3> HIDE DEF p
    <3>2. Sorted(p.segs)
      BY <1>0, <2>4, <3>1, InsertSorted
    <3> QED
      BY <2>4, <3>2, DrainShape DEF p
  <2> QED
    BY <1>0, <2>1, <2>2, <2>3, <2>4, AddCases, FrameFacts, SMTT(30)
<1>3. ASSUME NEW n \in 1..2, Read(n)
      PROVE  rb'.segs = rb.segs /\ rb'.next = rb.next /\ rb'.panicked = rb.panicked
  <2>1. rb' = ReadBuf(rb, n)
    BY <1>3 DEF Read
  <2> QED
    BY <1>0, <2>1 DEF ReadBuf, Buffer
<1>4. ASSUME NEW c \in Caps, SetCap(c)
      PROVE  rb'.segs = rb.segs /\ rb'.next = rb.next /\ rb'.panicked = rb.panicked
  BY <1>0, <1>4 DEF SetCap, Buffer
<1>5. CASE UNCHANGED vars
  BY <1>1, <1>5 DEF vars
<1> QED
  BY <1>1, <1>2, <1>3, <1>4, <1>5 DEF Next

LEMMA ShapeInit == Init => ShapeInv
<1> SUFFICES ASSUME Init PROVE ShapeInv
  OBVIOUS
<1>1. rb.segs = << >> /\ Len(rb.segs) = 0
  BY DEF Init, NewBuf
<1> QED
  BY <1>1 DEF ShapeInv, Sorted, Gapped

-----------------------------------------------------------------------------
(* Merging the heap into ranges. *)

Interval == [start : Nat, end : Nat]

\* x lies in one of the intervals of rs.
InRanges(rs, x) == \E k \in 1 .. Len(rs) : x \in rs[k].start .. rs[k].end - 1

\* One step of the merge covers what was covered and the segment, as long as
\* segments come by ascending offset.
LEMMA MergeOneFacts ==
  ASSUME NEW rs \in Seq(Interval), NEW s \in Segment, NEW t, t = MergeOne(rs, s),
         rs # << >> => rs[Len(rs)].start <= s.off
  PROVE  /\ t \in Seq(Interval) /\ t # << >> /\ Len(t) <= Len(rs) + 1
         /\ t[Len(t)].start <= s.off
         /\ \A x \in Nat : InRanges(t, x) <=> InRanges(rs, x) \/ x \in s.off .. End(s) - 1
<1> DEFINE n == Len(rs)
           e == End(s)
<1>0. n \in Nat /\ s.off \in Nat /\ e \in Nat /\ s.off < e
      /\ \A k \in 1..n : rs[k].start \in Nat /\ rs[k].end \in Nat /\ rs[k] \in Interval
  <2>1. s.off \in Nat /\ e \in Nat /\ e > s.off
    BY SegmentFacts
  <2>2. s.off < e
    BY <2>1
  <2>3. \A k \in 1..n : rs[k] \in Interval
    OBVIOUS
  <2>4. \A r \in Interval : r.start \in Nat /\ r.end \in Nat
    BY DEF Interval
  <2> QED
    BY <2>1, <2>2, <2>3, <2>4
<1>1. CASE rs # << >> /\ Joins(Last(rs), s)
  <2> DEFINE last == rs[n]
             m == IF e > last.end THEN e ELSE last.end
  <2>1. n \in 1..n /\ last \in Interval /\ last.start <= s.off /\ s.off <= last.end
    BY <1>0, <1>1 DEF Joins, Last
  <2>2. last.start \in Nat /\ last.end \in Nat /\ m \in Nat
    BY <1>0, <2>1 DEF Interval
  <2>3. t = [rs EXCEPT ![n] = [last EXCEPT !.end = m]]
    BY <1>1 DEF MergeOne, End
  <2>4. [last EXCEPT !.end = m] = [start |-> last.start, end |-> m]
    BY <2>1 DEF Interval
  <2> DEFINE r == [start |-> last.start, end |-> m]
  <2>5. r \in Interval /\ r.start = last.start /\ r.end = m
    BY <2>2 DEF Interval
  <2> HIDE DEF r
  <2>6. t = [rs EXCEPT ![n] = r]
    BY <2>3, <2>4 DEF r
  <2>7. t \in Seq(Interval) /\ Len(t) = n /\ \A j \in 1..n : t[j] = IF j = n THEN r ELSE rs[j]
    BY <2>1, <2>5, <2>6, ExceptSeq
  <2>8. t # << >> /\ t[n] = r
    BY <2>1, <2>7
  <2>9. ASSUME NEW x \in Nat
        PROVE  InRanges(t, x) <=> InRanges(rs, x) \/ x \in s.off .. e - 1
    <3>1. x \in r.start .. r.end - 1 <=> x \in last.start .. last.end - 1 \/ x \in s.off .. e - 1
      BY <1>0, <2>1, <2>2, <2>5
    <3> HIDE DEF e, m
    <3>2. ASSUME NEW k \in 1..n, x \in t[k].start .. t[k].end - 1
          PROVE  InRanges(rs, x) \/ x \in s.off .. e - 1
      <4>1. CASE k = n
        BY <2>1, <2>8, <3>1, <3>2, <4>1 DEF InRanges
      <4>2. CASE k # n
        <5>1. t[k] = rs[k]
          BY <2>7, <4>2
        <5> QED
          BY <3>2, <5>1 DEF InRanges
      <4> QED
        BY <4>1, <4>2
    <3>3. ASSUME NEW k \in 1..n, x \in rs[k].start .. rs[k].end - 1
          PROVE  InRanges(t, x)
      <4>1. CASE k = n
        BY <2>1, <2>7, <2>8, <3>1, <3>3, <4>1 DEF InRanges
      <4>2. CASE k # n
        <5>1. t[k] = rs[k]
          BY <2>7, <4>2
        <5> QED
          BY <2>7, <3>3, <5>1 DEF InRanges
      <4> QED
        BY <4>1, <4>2
    <3>4. x \in s.off .. e - 1 => InRanges(t, x)
      BY <2>1, <2>7, <2>8, <3>1 DEF InRanges
    <3>5. InRanges(t, x) => InRanges(rs, x) \/ x \in s.off .. e - 1
      BY <2>7, <3>2 DEF InRanges
    <3>6. InRanges(rs, x) => InRanges(t, x)
      BY <3>3 DEF InRanges
    <3> QED
      BY <3>4, <3>5, <3>6
  <2> QED
    BY <1>0, <2>1, <2>5, <2>7, <2>8, <2>9
<1>2. CASE ~(rs # << >> /\ Joins(Last(rs), s))
  <2> DEFINE r == [start |-> s.off, end |-> e]
  <2>1. r \in Interval /\ r.start = s.off /\ r.end = e
    BY <1>0 DEF Interval
  <2>2. t = Append(rs, r)
    BY <1>2 DEF MergeOne, End
  <2> HIDE DEF r
  <2>3. /\ t \in Seq(Interval) /\ Len(t) = n + 1 /\ t[n+1] = r /\ t # << >>
        /\ \A k \in 1..n : t[k] = rs[k]
    BY <2>1, <2>2, AppendProperties
  <2>4. ASSUME NEW x \in Nat
        PROVE  InRanges(t, x) <=> InRanges(rs, x) \/ x \in s.off .. e - 1
    <3> HIDE DEF e
    <3>1. ASSUME NEW k \in 1 .. n + 1, x \in t[k].start .. t[k].end - 1
          PROVE  InRanges(rs, x) \/ x \in s.off .. e - 1
      <4>1. CASE k = n + 1
        BY <2>1, <2>3, <3>1, <4>1
      <4>2. CASE k \in 1..n
        BY <2>3, <3>1, <4>2 DEF InRanges
      <4> QED
        BY <1>0, <4>1, <4>2
    <3>2. InRanges(rs, x) => InRanges(t, x)
      <4>1. \A k \in 1..n : k \in 1 .. n + 1
        BY <1>0
      <4> QED
        BY <2>3, <4>1 DEF InRanges
    <3>3. x \in s.off .. e - 1 => InRanges(t, x)
      <4>1. n + 1 \in 1 .. n + 1
        BY <1>0
      <4> QED
        BY <2>1, <2>3, <4>1 DEF InRanges
    <3>4. InRanges(t, x) => InRanges(rs, x) \/ x \in s.off .. e - 1
      BY <2>3, <3>1 DEF InRanges
    <3> QED
      BY <3>2, <3>3, <3>4
  <2>5. t[Len(t)].start <= s.off /\ Len(t) <= n + 1
    BY <1>0, <2>1, <2>3
  <2> QED
    BY <2>3, <2>4, <2>5
<1> QED
  BY <1>1, <1>2

\* The ranges ascend, and a gap is left between any two of them.
Apart(rs) ==
  /\ \A k \in 1 .. Len(rs) : rs[k].start < rs[k].end
  /\ \A i, j \in 1 .. Len(rs) : i < j => rs[i].end < rs[j].start

LEMMA MergeOneApart ==
  ASSUME NEW rs \in Seq(Interval), Apart(rs), NEW s \in Segment, NEW t, t = MergeOne(rs, s),
         rs # << >> => rs[Len(rs)].start <= s.off
  PROVE  /\ Apart(t)
         /\ \A k \in 1 .. Len(t) : \/ t[k].start = s.off
                                   \/ \E j \in 1 .. Len(rs) : t[k].start = rs[j].start
<1> DEFINE n == Len(rs)
           e == End(s)
<1>0. n \in Nat /\ s.off \in Nat /\ e \in Nat /\ s.off < e
      /\ \A k \in 1..n : rs[k].start \in Nat /\ rs[k].end \in Nat /\ rs[k] \in Interval
  <2>1. s.off \in Nat /\ e \in Nat /\ e > s.off
    BY SegmentFacts
  <2>2. s.off < e
    BY <2>1
  <2>3. \A k \in 1..n : rs[k] \in Interval
    OBVIOUS
  <2>4. \A r \in Interval : r.start \in Nat /\ r.end \in Nat
    BY DEF Interval
  <2> QED
    BY <2>1, <2>2, <2>3, <2>4
<1>1. CASE rs # << >> /\ Joins(Last(rs), s)
  <2> DEFINE last == rs[n]
             m == IF e > last.end THEN e ELSE last.end
             r == [start |-> last.start, end |-> m]
  <2>1. n \in 1..n /\ last \in Interval /\ last.start \in Nat /\ last.end \in Nat
        /\ last.start < last.end /\ m \in Nat
    BY <1>0, <1>1 DEF Apart
  <2>2. t = [rs EXCEPT ![n] = [last EXCEPT !.end = m]]
    BY <1>1 DEF MergeOne, End
  <2>3. [last EXCEPT !.end = m] = r
    BY <2>1 DEF Interval
  <2>4. r \in Interval /\ r.start = last.start /\ r.start < r.end
    BY <1>0, <2>1 DEF Interval
  <2> HIDE DEF r
  <2>5. t = [rs EXCEPT ![n] = r]
    BY <2>2, <2>3
  <2>6. t \in Seq(Interval) /\ Len(t) = n /\ \A j \in 1..n : t[j] = IF j = n THEN r ELSE rs[j]
    BY <2>1, <2>4, <2>5, ExceptSeq
  <2>7. \A k \in 1..n : t[k].start = rs[k].start
    BY <2>4, <2>6
  <2>8. \A k \in 1..n : t[k].start < t[k].end
    BY <2>4, <2>6 DEF Apart
  <2>9. ASSUME NEW i \in 1..n, NEW j \in 1..n, i < j PROVE t[i].end < t[j].start
    <3>1. i # n
      BY <1>0, <2>9
    <3>2. t[i].end = rs[i].end
      BY <2>6, <3>1
    <3> QED
      BY <2>7, <2>9, <3>2 DEF Apart
  <2> QED
    BY <2>6, <2>7, <2>8, <2>9 DEF Apart
<1>2. CASE ~(rs # << >> /\ Joins(Last(rs), s))
  <2> DEFINE r == [start |-> s.off, end |-> e]
  <2>1. r \in Interval /\ r.start = s.off /\ r.end = e
    BY <1>0 DEF Interval
  <2>2. t = Append(rs, r)
    BY <1>2 DEF MergeOne, End
  <2> HIDE DEF r
  <2>3. /\ t \in Seq(Interval) /\ Len(t) = n + 1 /\ t[n+1] = r
        /\ \A k \in 1..n : t[k] = rs[k]
    BY <2>1, <2>2, AppendProperties
  <2>4. ASSUME NEW i \in 1..n PROVE rs[i].end < s.off
    <3>1. n \in 1..n /\ rs # << >> /\ ~Joins(rs[n], s)
      BY <1>0, <1>2, <2>4 DEF Last
    <3>2. rs[n].end < s.off
      BY <1>0, <3>1 DEF Joins
    <3>3. CASE i # n
      <4>1. rs[i].end < rs[n].start /\ rs[n].start < rs[n].end
        BY <1>0, <3>1, <3>3 DEF Apart
      <4> QED
        BY <1>0, <3>1, <3>2, <4>1
    <3> QED
      BY <3>2, <3>3
  <2>5. ASSUME NEW k \in 1 .. n + 1
        PROVE  /\ t[k].start < t[k].end
               /\ t[k].start = s.off \/ \E j \in 1..n : t[k].start = rs[j].start
    <3>1. CASE k = n + 1
      BY <1>0, <2>1, <2>3, <3>1
    <3>2. CASE k \in 1..n
      BY <2>3, <3>2 DEF Apart
    <3> QED
      BY <1>0, <3>1, <3>2
  <2>6. ASSUME NEW i \in 1 .. n + 1, NEW j \in 1 .. n + 1, i < j PROVE t[i].end < t[j].start
    <3>1. i \in 1..n /\ t[i] = rs[i]
      BY <1>0, <2>3, <2>6
    <3>2. CASE j = n + 1
      BY <2>1, <2>3, <2>4, <3>1, <3>2
    <3>3. CASE j \in 1..n
      BY <2>3, <2>6, <3>1, <3>3 DEF Apart
    <3> QED
      BY <1>0, <3>2, <3>3
  <2> QED
    BY <2>3, <2>5, <2>6 DEF Apart
<1> QED
  BY <1>1, <1>2

LEMMA MergeOneType ==
  ASSUME NEW rs \in Seq(Interval), NEW s \in Segment
  PROVE  MergeOne(rs, s) \in Seq(Interval)
<1> DEFINE n == Len(rs)
           e == s.off + Len(s.data)
<1>0. n \in Nat /\ s.off \in Nat /\ e \in Nat
  BY SegmentFacts
<1>1. CASE rs # << >> /\ Joins(Last(rs), s)
  <2>1. n \in 1..n /\ rs[n] \in Interval
    BY <1>0, <1>1
  <2> DEFINE r == [rs[n] EXCEPT !.end = IF e > rs[n].end THEN e ELSE rs[n].end]
  <2>2. r \in Interval
    BY <1>0, <2>1 DEF Interval
  <2>3. MergeOne(rs, s) = [rs EXCEPT ![n] = r]
    BY <1>1 DEF MergeOne
  <2> HIDE DEF r
  <2> QED
    BY <2>1, <2>2, <2>3, ExceptSeq
<1>2. CASE ~(rs # << >> /\ Joins(Last(rs), s))
  <2> DEFINE r == [start |-> s.off, end |-> e]
  <2>1. r \in Interval
    BY <1>0 DEF Interval
  <2>2. MergeOne(rs, s) = Append(rs, r)
    BY <1>2 DEF MergeOne
  <2> HIDE DEF r
  <2> QED
    BY <2>1, <2>2, AppendProperties
<1> QED
  BY <1>1, <1>2

LEMMA MergeSteps ==
  ASSUME NEW segs \in Seq(Segment), Sorted(segs)
  PROVE  \E m \in [0 .. Len(segs) -> Seq(Interval)] :
           /\ m[0] = << >>
           /\ \A i \in 1 .. Len(segs) : m[i] = MergeOne(m[i-1], segs[i])
           /\ FoldLeft(MergeOne, << >>, segs) = m[Len(segs)]
<1> DEFINE n == Len(segs)
           Rec(g) == g = [s \in SUBSET (1..n) |->
                            IF s = {} THEN << >>
                            ELSE MergeOne(g[s \ {Max(s)}], segs[Max(s)])]
           step == [p \in Seq(Interval) \X (1..n) |-> MergeOne(p[1], segs[p[2]])]
<1>0. n \in Nat /\ DOMAIN segs = 1..n /\ \A i \in 1..n : segs[i] \in Segment
  OBVIOUS
<1>1. step \in [Seq(Interval) \X (1..n) -> Seq(Interval)]
  <2>1. \A x \in Seq(Interval), i \in 1..n : MergeOne(x, segs[i]) \in Seq(Interval)
    BY <1>0, MergeOneType
  <2> QED
    BY <2>1
<1>2. FoldLeft(MergeOne, << >>, segs) = (CHOOSE g : Rec(g))[1..n]
  BY <1>0 DEF FoldLeft, MapThenFoldSet
<1>3. \E g : Rec(g)
  <2> HIDE DEF n
  <2>0. << >> \in Seq(Interval)
    OBVIOUS
  <2>1. PICK g \in [SUBSET (1..n) -> Seq(Interval)] : IsFold(g, step, << >>, n)
    BY <1>0, <1>1, <2>0, FoldExists
  <2>2. ASSUME NEW s \in SUBSET (1..n), s # {}
        PROVE  step[g[s \ {Max(s)}], Max(s)] = MergeOne(g[s \ {Max(s)}], segs[Max(s)])
    <3>1. Max(s) \in 1..n
      BY <1>0, <2>2, MaxOfRange
    <3>2. g[s \ {Max(s)}] \in Seq(Interval)
      OBVIOUS
    <3> QED
      BY <3>1, <3>2
  <2> HIDE DEF step
  <2>3. Rec(g)
    BY <2>1, <2>2 DEF IsFold
  <2> QED
    BY <2>3
<1> DEFINE g == CHOOSE g : Rec(g)
           m == [i \in 0..n |-> g[1..i]]
<1>4. Rec(g)
  BY <1>3
<1> HIDE DEF g
<1>5. m[0] = << >>
  <2>1. 1..0 = {} /\ {} \in SUBSET (1..n) /\ m[0] = g[1..0]
    BY <1>0
  <2>2. g[{}] = << >>
    BY <1>4, <2>1
  <2> QED
    BY <2>1, <2>2
<1>6. ASSUME NEW i \in 1..n PROVE m[i] = MergeOne(m[i-1], segs[i])
  <2>0. i \in 0..n /\ i - 1 \in 0..n
    BY <1>0
  <2>1. 1..i # {} /\ 1..i \in SUBSET (1..n) /\ m[i] = g[1..i] /\ m[i-1] = g[1 .. i-1]
    <3>1. i \in 1..i /\ \A k \in 1..i : k \in 1..n
      BY <1>0
    <3> QED
      BY <2>0, <3>1
  <2>2. Max(1..i) = i /\ (1..i) \ {i} = 1 .. i-1
    BY <1>0, MaxOfPrefix, i \in Nat \ {0}
  <2>3. g[1..i] = MergeOne(g[(1..i) \ {Max(1..i)}], segs[Max(1..i)])
    BY <1>4, <2>1
  <2> QED
    BY <2>1, <2>2, <2>3
<1>7. FoldLeft(MergeOne, << >>, segs) = m[n]
  BY <1>0, <1>2 DEF g
<1>8. m \in [0..n -> Seq(Interval)]
  <2> DEFINE T == {i \in 0..n : m[i] \in Seq(Interval)}
  <2>1. 0 \in T
    <3>1. << >> \in Seq(Interval)
      OBVIOUS
    <3> HIDE DEF m
    <3>2. m[0] \in Seq(Interval) /\ 0 \in 0..n
      BY <1>0, <1>5, <3>1
    <3> QED
      BY <3>2
  <2>2. ASSUME NEW i \in 1..n, i - 1 \in T PROVE i \in T
    <3>1. m[i-1] \in Seq(Interval) /\ segs[i] \in Segment
      BY <1>0, <2>2
    <3>2. m[i] \in Seq(Interval)
      BY <1>6, <3>1, MergeOneType, Zenon
    <3> QED
      BY <3>2
  <2> HIDE DEF T
  <2>3. \A i \in 0..n : i \in T
    BY <1>0, <2>1, <2>2, StepByStep
  <2> QED
    BY <2>3 DEF T
<1> QED
  BY <1>5, <1>6, <1>7, <1>8

\* All the ranges there are, before ranges cuts them off at its limit: they
\* ascend, leave gaps and cover exactly the heap.
LEMMA MergedFacts ==
  ASSUME NEW b \in Buffer, Sorted(b.segs),
         NEW rs, rs = FoldLeft(MergeOne, << >>, b.segs)
  PROVE  /\ rs \in Seq(Interval) /\ Len(rs) <= Len(b.segs) /\ Apart(rs)
         /\ \A k \in 1 .. Len(rs) : \E j \in 1 .. Len(b.segs) : rs[k].start = b.segs[j].off
         /\ \A x \in Nat :
              InRanges(rs, x) <=>
                \E j \in 1 .. Len(b.segs) : x \in b.segs[j].off .. End(b.segs[j]) - 1
<1> DEFINE n == Len(b.segs)
<1>0. n \in Nat /\ b.segs \in Seq(Segment) /\ (\A i \in 1..n : b.segs[i] \in Segment)
      /\ \A i, j \in 1..n : i <= j => b.segs[i].off <= b.segs[j].off
  BY DEF Buffer, Sorted
<1>1. PICK m \in [0..n -> Seq(Interval)] :
        /\ m[0] = << >>
        /\ \A i \in 1..n : m[i] = MergeOne(m[i-1], b.segs[i])
        /\ FoldLeft(MergeOne, << >>, b.segs) = m[n]
  BY <1>0, MergeSteps
<1> DEFINE Covers(i) == \A x \in Nat :
             InRanges(m[i], x) <=> \E j \in 1..i : x \in b.segs[j].off .. End(b.segs[j]) - 1
           Starts(i) == \A k \in 1 .. Len(m[i]) : \E j \in 1..i : m[i][k].start = b.segs[j].off
           Good(i) == /\ Len(m[i]) <= i /\ Apart(m[i]) /\ Starts(i)
                      /\ m[i] # << >> => i \in 1..n /\ m[i][Len(m[i])].start <= b.segs[i].off
                      /\ Covers(i)
           T == {i \in 0..n : Good(i)}
<1>2. 0 \in T
  <2>1. Good(0)
    BY <1>1 DEF InRanges, Apart
  <2> HIDE DEF Good
  <2> QED
    BY <1>0, <2>1
<1>3. ASSUME NEW i \in 1..n, i - 1 \in T PROVE i \in T
  <2> DEFINE rs0 == m[i-1]
             t == m[i]
             s == b.segs[i]
  <2>0. i \in Nat /\ i - 1 \in 0..n /\ i \in 0..n /\ i - 1 \in Nat
    BY <1>0
  <2>1. rs0 \in Seq(Interval) /\ s \in Segment /\ t = MergeOne(rs0, s) /\ Len(rs0) \in Nat
        /\ t \in Seq(Interval) /\ Len(t) \in Nat
    <3>1. rs0 \in Seq(Interval) /\ t \in Seq(Interval)
      BY <2>0
    <3>2. s \in Segment /\ t = MergeOne(rs0, s)
      BY <1>0, <1>1
    <3> HIDE DEF rs0, t, s
    <3>3. Len(rs0) \in Nat /\ Len(t) \in Nat
      BY <3>1
    <3> QED
      BY <3>1, <3>2, <3>3
  <2>2. Good(i - 1)
    BY <1>3
  <2>3. rs0 # << >> => rs0[Len(rs0)].start <= s.off
    <3> SUFFICES ASSUME rs0 # << >> PROVE rs0[Len(rs0)].start <= s.off
      OBVIOUS
    <3> DEFINE u == b.segs[i-1]
    <3>1. i - 1 \in 1..n /\ rs0[Len(rs0)].start <= u.off
      BY <2>2
    <3>2. u.off <= s.off
      BY <1>0, <2>0, <3>1
    <3>3. u.off \in Nat /\ s.off \in Nat
      BY <1>0, <3>1, SegmentFacts
    <3>4. rs0[Len(rs0)].start \in Nat
      <4>1. Len(rs0) \in 1 .. Len(rs0) /\ rs0[Len(rs0)] \in Interval
        BY <2>1
      <4> QED
        BY <4>1 DEF Interval
    <3> HIDE DEF u, rs0, s
    <3> QED
      BY <3>1, <3>2, <3>3, <3>4
  <2>4. /\ t # << >> /\ Len(t) <= Len(rs0) + 1 /\ t[Len(t)].start <= s.off
        /\ \A x \in Nat : InRanges(t, x) <=> InRanges(rs0, x) \/ x \in s.off .. End(s) - 1
    <3> HIDE DEF rs0, t, s
    <3> QED
      BY <2>1, <2>3, MergeOneFacts
  <2>5. Len(t) <= i
    <3>1. Len(rs0) <= i - 1
      BY <2>2
    <3> HIDE DEF t, rs0
    <3> QED
      BY <2>0, <2>1, <2>4, <3>1
  <2>6. ASSUME NEW x \in Nat
        PROVE  InRanges(t, x) <=> \E j \in 1..i : x \in b.segs[j].off .. End(b.segs[j]) - 1
    <3> DEFINE In(j) == x \in b.segs[j].off .. End(b.segs[j]) - 1
    <3>1. InRanges(rs0, x) <=> \E j \in 1 .. i - 1 : In(j)
      BY <2>2
    <3>2. InRanges(t, x) <=> InRanges(rs0, x) \/ In(i)
      BY <2>4
    <3> HIDE DEF In, t, rs0
    <3>3. \A j \in 1..i : j = i \/ j \in 1 .. i - 1
      BY <2>0
    <3>4. i \in 1..i /\ \A j \in 1 .. i - 1 : j \in 1..i
      BY <2>0
    <3>5. InRanges(t, x) <=> \E j \in 1..i : In(j)
      BY <3>1, <3>2, <3>3, <3>4
    <3> QED
      BY <3>5 DEF In
  <2>7. /\ Apart(t)
        /\ \A k \in 1 .. Len(t) : \/ t[k].start = s.off
                                  \/ \E j \in 1 .. Len(rs0) : t[k].start = rs0[j].start
    <3>1. Apart(rs0)
      BY <2>2
    <3>2. rs0 \in Seq(Interval) /\ s \in Segment /\ t = MergeOne(rs0, s)
      BY <2>1
    <3> HIDE DEF rs0, t, s
    <3> QED
      BY <2>3, <3>1, <3>2, MergeOneApart
  <2>8. ASSUME NEW k \in 1 .. Len(t) PROVE \E j \in 1..i : t[k].start = b.segs[j].off
    <3>1. CASE t[k].start = s.off
      BY <2>0, <3>1
    <3>2. ASSUME NEW l \in 1 .. Len(rs0), t[k].start = rs0[l].start
          PROVE  \E j \in 1..i : t[k].start = b.segs[j].off
      <4>1. PICK j \in 1 .. i - 1 : rs0[l].start = b.segs[j].off
        BY <2>2
      <4>2. j \in 1..i
        BY <2>0
      <4> HIDE DEF t, rs0
      <4> QED
        BY <3>2, <4>1, <4>2
    <3> HIDE DEF t, rs0
    <3> QED
      BY <2>7, <3>1, <3>2
  <2>9. Good(i)
    BY <2>4, <2>5, <2>6, <2>7, <2>8
  <2> HIDE DEF Good
  <2> QED
    BY <2>0, <2>9
<1> HIDE DEF T
<1>4. Good(n)
  <2>1. n \in T
    BY <1>0, <1>2, <1>3, StepByStep, n \in 0..n
  <2> QED
    BY <2>1 DEF T
<1> QED
  BY <1>0, <1>1, <1>4, n \in 0..n

\* ranges, asked for all of them, cover exactly the heap.
LEMMA RangesCoverHeap ==
  ASSUME NEW b \in Buffer, Sorted(b.segs),
         NEW rs, rs = Ranges(b, Len(b.segs))
  PROVE  /\ rs \in Seq(Interval)
         /\ \A x \in Nat :
              InRanges(rs, x) <=>
                \E j \in 1 .. Len(b.segs) : x \in b.segs[j].off .. End(b.segs[j]) - 1
<1> DEFINE all == FoldLeft(MergeOne, << >>, b.segs)
<1>1. /\ all \in Seq(Interval) /\ Len(all) <= Len(b.segs)
      /\ \A x \in Nat : InRanges(all, x) <=>
           \E j \in 1 .. Len(b.segs) : x \in b.segs[j].off .. End(b.segs[j]) - 1
  BY MergedFacts
<1>2. rs = IF Len(all) > Len(b.segs) THEN SubSeq(all, 1, Len(b.segs)) ELSE all
  BY DEF Ranges
<1> HIDE DEF all
<1>3. Len(all) \in Nat /\ Len(b.segs) \in Nat
  BY <1>1 DEF Buffer
<1> QED
  BY <1>1, <1>2, <1>3

\* Held, without the detour over the ranges.
Holds(b, x) ==
  x < b.next \/ \E j \in 1 .. Len(b.segs) : x \in b.segs[j].off .. End(b.segs[j]) - 1

LEMMA HeldIsHolds ==
  ASSUME NEW b \in Buffer, Sorted(b.segs)
  PROVE  Held(b) = {x \in Nat : Holds(b, x)}
<1> DEFINE rs == Ranges(b, Len(b.segs))
<1>1. /\ rs \in Seq(Interval)
      /\ \A x \in Nat : InRanges(rs, x) <=>
           \E j \in 1 .. Len(b.segs) : x \in b.segs[j].off .. End(b.segs[j]) - 1
  BY RangesCoverHeap
<1>2. Held(b) = 0 .. b.next - 1 \cup UNION {r.start .. r.end - 1 : r \in Range(rs)}
  BY DEF Held
<1> HIDE DEF rs
<1>3. Len(rs) \in Nat /\ DOMAIN rs = 1 .. Len(rs)
      /\ \A k \in 1 .. Len(rs) : rs[k].start \in Nat /\ rs[k].end \in Nat
  <2>1. \A k \in 1 .. Len(rs) : rs[k] \in Interval
    BY <1>1
  <2>2. \A r \in Interval : r.start \in Nat /\ r.end \in Nat
    BY DEF Interval
  <2> QED
    BY <1>1, <2>1, <2>2
<1>4. ASSUME NEW x
      PROVE  x \in UNION {r.start .. r.end - 1 : r \in Range(rs)} <=> x \in Nat /\ InRanges(rs, x)
  <2>1. ASSUME NEW k \in 1 .. Len(rs), x \in rs[k].start .. rs[k].end - 1
        PROVE  /\ x \in Nat
               /\ x \in UNION {r.start .. r.end - 1 : r \in Range(rs)}
    <3>1. rs[k] \in Range(rs)
      BY <1>3 DEF Range
    <3>2. x \in Nat
      BY <1>3, <2>1
    <3> QED
      BY <2>1, <3>1, <3>2, Zenon
  <2>2. ASSUME NEW r \in Range(rs), x \in r.start .. r.end - 1
        PROVE  x \in Nat /\ InRanges(rs, x)
    <3>1. PICK k \in 1 .. Len(rs) : r = rs[k]
      BY <1>3 DEF Range
    <3> QED
      BY <2>1, <2>2, <3>1 DEF InRanges
  <2>3. (x \in Nat /\ InRanges(rs, x)) => x \in UNION {r.start .. r.end - 1 : r \in Range(rs)}
    BY <2>1 DEF InRanges
  <2>4. x \in UNION {r.start .. r.end - 1 : r \in Range(rs)} => x \in Nat /\ InRanges(rs, x)
    BY <2>2, Zenon
  <2> QED
    BY <2>3, <2>4
<1>5. b.next \in Nat
  BY DEF Buffer
<1>6. ASSUME NEW x PROVE x \in 0 .. b.next - 1 <=> x \in Nat /\ x < b.next
  BY <1>5
<1>7. ASSUME NEW x PROVE x \in Held(b) <=> x \in Nat /\ Holds(b, x)
  <2>1. x \in Held(b) <=> x \in 0 .. b.next - 1 \/ x \in UNION {r.start .. r.end - 1 : r \in Range(rs)}
    BY <1>2
  <2>2. x \in Nat => (InRanges(rs, x) <=>
           \E j \in 1 .. Len(b.segs) : x \in b.segs[j].off .. End(b.segs[j]) - 1)
    BY <1>1
  <2> QED
    BY <1>4, <1>6, <2>1, <2>2 DEF Holds
<1> QED
  BY <1>7

\* Draining keeps what the buffer holds.
LEMMA DrainHolds ==
  ASSUME NEW b \in Buffer, NEW c, c = Drain(b), ~c.panicked, NEW x \in Nat, Holds(b, x)
  PROVE  Holds(c, x)
<1>0. /\ b.next \in Nat /\ c.next \in Nat /\ c.next >= b.next
      /\ \A j \in 1 .. Len(b.segs) : Kept(c, b.segs[j])
      /\ \A j \in 1 .. Len(b.segs) : b.segs[j] \in Segment
  <2>1. /\ c \in Buffer /\ c.next >= b.next
        /\ \A j \in 1 .. Len(b.segs) : Kept(c, b.segs[j])
    BY DrainKeeps
  <2>2. \A j \in 1 .. Len(b.segs) : b.segs[j] \in Segment
    BY DEF Buffer
  <2> QED
    BY <2>1, <2>2 DEF Buffer
<1>1. CASE x < b.next
  BY <1>0, <1>1 DEF Holds
<1>2. ASSUME NEW j \in 1 .. Len(b.segs), x \in b.segs[j].off .. End(b.segs[j]) - 1
      PROVE  Holds(c, x)
  <2> DEFINE s == b.segs[j]
  <2>1. s.off \in Nat /\ End(s) \in Nat /\ Kept(c, s) /\ x \in s.off .. End(s) - 1
    BY <1>0, <1>2, SegmentFacts
  <2> HIDE DEF s
  <2>2. CASE c.next >= End(s)
    BY <1>0, <2>1, <2>2 DEF Holds
  <2>3. ASSUME NEW k \in 1 .. Len(c.segs), c.segs[k] = s PROVE Holds(c, x)
    BY <2>1, <2>3 DEF Holds
  <2> QED
    BY <2>1, <2>2, <2>3 DEF Kept
<1> QED
  BY <1>1, <1>2 DEF Holds

\* So does putting a segment on the heap.
LEMMA PushedHolds ==
  ASSUME NEW b \in Buffer, NEW s \in Segment, NEW i \in 1 .. Len(b.segs) + 1,
         NEW x \in Nat, Holds(b, x)
  PROVE  Holds(Pushed(b, i, s), x)
<1> DEFINE p == Pushed(b, i, s)
           n == Len(b.segs)
<1>1. p.next = b.next /\ p.segs = InsertAt(b.segs, i, s) /\ b.segs \in Seq(Segment) /\ n \in Nat
  BY DEF Pushed, Buffer
<1> HIDE DEF p
<1>2. /\ Len(p.segs) = n + 1
      /\ \A j \in 1 .. i - 1 : p.segs[j] = b.segs[j]
      /\ \A j \in i + 1 .. n + 1 : p.segs[j] = b.segs[j - 1]
  <2> DEFINE u == b.segs
             t == p.segs
  <2>1. u \in Seq(Segment) /\ i \in 1 .. Len(u) + 1 /\ t = InsertAt(u, i, s)
    BY <1>1
  <2> HIDE DEF u, t
  <2>2. /\ Len(t) = Len(u) + 1
        /\ \A j \in 1 .. i - 1 : t[j] = u[j]
        /\ \A j \in i + 1 .. Len(u) + 1 : t[j] = u[j - 1]
    BY ONLY s \in Segment, <2>1, InsertFacts
  <2> QED
    BY <2>2 DEF u, t
<1>3. ASSUME NEW j \in 1..n, x \in b.segs[j].off .. End(b.segs[j]) - 1 PROVE Holds(p, x)
  <2>1. CASE j < i
    <3>1. j \in 1 .. n + 1 /\ p.segs[j] = b.segs[j]
      BY <1>1, <1>2, <2>1
    <3> QED
      BY <1>2, <1>3, <3>1 DEF Holds
  <2>2. CASE j >= i
    <3>1. j + 1 \in 1 .. n + 1 /\ p.segs[j + 1] = b.segs[j]
      <4>1. j + 1 \in i + 1 .. n + 1 /\ j + 1 \in 1 .. n + 1 /\ j + 1 - 1 = j
        BY <1>1, <2>2
      <4>2. PICK k : k = j + 1
        OBVIOUS
      <4>3. p.segs[k] = b.segs[k - 1]
        BY <1>2, <4>1, <4>2
      <4> QED
        BY <4>1, <4>2, <4>3
    <3> QED
      BY <1>2, <1>3, <3>1 DEF Holds
  <2> QED
    BY <2>1, <2>2
<1>4. Holds(p, x)
  BY <1>1, <1>3 DEF Holds
<1> QED
  BY <1>4 DEF p

LEMMA HoldsStep ==
  ASSUME DeliveryInv, ShapeInv, [Next]_vars, ~rb'.panicked, NEW x \in Nat, Holds(rb, x)
  PROVE  Holds(rb', x)
<1>0. rb \in Buffer
  BY DEF DeliveryInv
<1>1. CASE rb'.segs = rb.segs /\ rb'.next = rb.next
  BY <1>1 DEF Holds
<1>2. ASSUME NEW f \in Frames, Add(f) PROVE Holds(rb', x)
  <2>1. rb' \in AddResults(rb, f.off, Bytes(f.off, f.len))
    BY <1>2 DEF Add
  <2>2. CASE rb' = rb
    BY <1>1, <2>2
  <2>3. CASE rb' = [rb EXCEPT !.dropped = rb.dropped + f.len]
    <3>1. rb'.segs = rb.segs /\ rb'.next = rb.next
      BY <1>0, <2>3 DEF Buffer
    <3> QED
      BY <1>1, <3>1
  <2>4. ASSUME NEW s \in Segment, NEW i \in 1 .. Len(rb.segs) + 1,
               Pushed(rb, i, s) \in Buffer, rb' = Drain(Pushed(rb, i, s))
        PROVE  Holds(rb', x)
    <3>1. Holds(Pushed(rb, i, s), x)
      BY <1>0, PushedHolds
    <3> QED
      BY <2>4, <3>1, DrainHolds
  <2> QED
    BY <1>0, <2>1, <2>2, <2>3, <2>4, AddCases, FrameFacts
<1>3. ASSUME NEW n \in 1..2, Read(n) PROVE rb'.segs = rb.segs /\ rb'.next = rb.next
  <2>1. rb' = ReadBuf(rb, n)
    BY <1>3 DEF Read
  <2> QED
    BY <1>0, <2>1 DEF ReadBuf, Buffer
<1>4. ASSUME NEW c \in Caps, SetCap(c) PROVE rb'.segs = rb.segs /\ rb'.next = rb.next
  BY <1>0, <1>4 DEF SetCap, Buffer
<1>5. CASE UNCHANGED vars
  BY <1>1, <1>5 DEF vars
<1> QED
  BY <1>1, <1>2, <1>3, <1>4, <1>5 DEF Next

\* The receiver never reneges: what a cumulative ACK or a SACK range has
\* reported stays held through arrivals, reads and shrinking capacity.  The
\* sender never sends again what it has marked by such a report.
THEOREM NeverReneges == Spec => NoRenege
<1> DEFINE A == ~rb'.panicked => Held(rb) \subseteq Held(rb')
<1>1. DeliveryInv /\ ShapeInv /\ DeliveryInv' /\ ShapeInv' /\ [Next]_vars => [A]_vars
  <2> SUFFICES ASSUME DeliveryInv, ShapeInv, DeliveryInv', ShapeInv', [Next]_vars,
                      ~rb'.panicked
               PROVE  Held(rb) \subseteq Held(rb')
    OBVIOUS
  <2>1. Held(rb) = {x \in Nat : Holds(rb, x)}
    BY HeldIsHolds DEF DeliveryInv, ShapeInv
  <2>2. Held(rb') = {x \in Nat : Holds(rb', x)}
    <3>1. rb' \in Buffer /\ Sorted(rb'.segs)
      BY DEF DeliveryInv, ShapeInv
    <3> QED
      BY <3>1, HeldIsHolds
  <2>3. \A x \in Nat : Holds(rb, x) => Holds(rb', x)
    BY HoldsStep
  <2> QED
    BY <2>1, <2>2, <2>3
<1> QED
  BY <1>1, DeliveryInit, DeliveryStep, ShapeInit, ShapeStep, PTL DEF Spec, NoRenege

-----------------------------------------------------------------------------
(* drain slices past the end of a segment only if an accepted frame lies    *)
(* within another one (reorder.go:90).                                      *)

\* Segments whose ends come in the order of their offsets drain well.
LEMMA DrainDoesNotPanic ==
  ASSUME NEW b \in Buffer, ~b.panicked, NEW c, c = Drain(b),
         \A i, j \in 1 .. Len(b.segs) : i <= j => End(b.segs[i]) <= End(b.segs[j]),
         \A j \in 1 .. Len(b.segs) : End(b.segs[j]) >= b.next
  PROVE  ~c.panicked
<1> DEFINE n == Len(b.segs)
<1>0. n \in Nat /\ b.next \in Nat /\ (\A i \in 1..n : b.segs[i] \in Segment)
  BY DEF Buffer
<1>1. PICK d \in [0..n -> Buffer] :
        /\ d[0] = [b EXCEPT !.segs = << >>]
        /\ \A i \in 1..n : d[i] = DrainOne(d[i-1], b.segs[i])
        /\ Drain(b) = d[n]
  BY DrainSteps
<1> DEFINE Good(i) == /\ ~d[i].panicked
                      /\ d[i].next = b.next \/ \E j \in 1..i : d[i].next = End(b.segs[j])
           T == {i \in 0..n : Good(i)}
<1>2. 0 \in T
  <2>1. d[0].next = b.next /\ d[0].panicked = b.panicked
    BY <1>1 DEF Buffer
  <2> QED
    BY <1>0, <2>1
<1>3. ASSUME NEW i \in 1..n, i - 1 \in T PROVE i \in T
  <2> DEFINE x == d[i-1]
             y == d[i]
             s == b.segs[i]
  <2>1. x \in Buffer /\ s \in Segment /\ y = DrainOne(x, s) /\ i \in Nat /\ Good(i - 1)
    BY <1>0, <1>1, <1>3
  <2>2. End(s) >= x.next
    <3>1. CASE x.next = b.next
      BY <3>1
    <3>2. ASSUME NEW j \in 1 .. i - 1, x.next = End(b.segs[j]) PROVE End(s) >= x.next
      <4>1. j \in 1..n /\ j <= i
        BY <1>0
      <4>2. End(b.segs[j]) <= End(s)
        BY <4>1
      <4>3. End(b.segs[j]) \in Nat /\ End(s) \in Nat
        BY <1>0, <4>1, SegmentFacts
      <4> QED
        BY <3>2, <4>2, <4>3
    <3> QED
      BY <2>1, <3>1, <3>2
  <2>3. x.next \in Nat /\ End(s) \in Nat /\ ~x.panicked
        /\ (x.next = b.next \/ \E j \in 1 .. i - 1 : x.next = End(b.segs[j]))
    BY <2>1, SegmentFacts DEF Buffer
  <2> HIDE DEF x, y, s, Good
  <2>4. ~y.panicked /\ (y.next = x.next \/ y.next = End(s))
    <3>1. CASE y = [x EXCEPT !.segs = Append(x.segs, s)]
      BY <2>1, <2>3, <3>1 DEF Buffer
    <3>2. CASE y = [x EXCEPT !.next = End(s),
                             !.ready = x.ready \o Bytes(x.next, End(s) - x.next),
                             !.size = x.size - (x.next - s.off)]
      BY <2>1, <2>3, <3>2 DEF Buffer
    <3>3. ~(End(s) < x.next)
      BY <2>2, <2>3
    <3> QED
      BY <2>1, <3>1, <3>2, <3>3, DrainOneCases
  <2>5. y.next = b.next \/ \E j \in 1..i : y.next = End(b.segs[j])
    <3>1. CASE y.next = End(s)
      <4>1. i \in 1..i
        BY <2>1
      <4> QED
        BY <3>1, <4>1 DEF s
    <3>2. CASE y.next = x.next
      <4>1. \A j \in 1 .. i - 1 : j \in 1..i
        BY <2>1
      <4> QED
        BY <2>3, <3>2, <4>1
    <3> QED
      BY <2>4, <3>1, <3>2
  <2>6. Good(i)
    BY <2>4, <2>5 DEF Good, y
  <2> QED
    BY <2>6
<1> HIDE DEF T
<1>4. n \in T
  BY <1>0, <1>2, <1>3, StepByStep, n \in 0..n
<1> QED
  BY <1>1, <1>4 DEF T

\* What is where on the heap once a segment has been pushed.
LEMMA PushedFacts ==
  ASSUME NEW b \in Buffer, NEW s \in Segment, NEW i \in 1 .. Len(b.segs) + 1,
         NEW p, p = Pushed(b, i, s)
  PROVE  /\ Len(p.segs) = Len(b.segs) + 1 /\ p.segs[i] = s
         /\ \A j \in 1 .. i - 1 : p.segs[j] = b.segs[j]
         /\ \A j \in i + 1 .. Len(b.segs) + 1 : p.segs[j] = b.segs[j - 1]
<1> DEFINE u == b.segs
           t == p.segs
<1>1. u \in Seq(Segment) /\ i \in 1 .. Len(u) + 1 /\ t = InsertAt(u, i, s)
  BY DEF Pushed, Buffer
<1> HIDE DEF u, t
<1>2. /\ Len(t) = Len(u) + 1 /\ t[i] = s
      /\ \A j \in 1 .. i - 1 : t[j] = u[j]
      /\ \A j \in i + 1 .. Len(u) + 1 : t[j] = u[j - 1]
  BY <1>1, InsertFacts, SMTT(30)
<1> QED
  BY <1>2 DEF u, t

\* Draining puts nothing new on the heap and leaves nothing at next on it.
LEMMA DrainedFrom ==
  ASSUME NEW b \in Buffer, NEW c, c = Drain(b), Sorted(b.segs), ~c.panicked
  PROVE  /\ Gapped(c)
         /\ \A k \in 1 .. Len(c.segs) : \E j \in 1 .. Len(b.segs) : c.segs[k] = b.segs[j]
BY DrainShape

\* A segment on the heap is a whole frame: only what touches next is trimmed.
IsFrame(s, F) == \E f \in F : f.off = s.off /\ f.off + f.len = End(s)

SomeNest(F) == \E f, g \in F : Nested(g, f)

PanicInv ==
  /\ taken \subseteq Frames
  /\ ~SomeNest(taken) => /\ ~rb.panicked
                         /\ \A k \in 1 .. Len(rb.segs) : IsFrame(rb.segs[k], taken)

LEMMA AddDoesNotPanic ==
  ASSUME DeliveryInv, ShapeInv, ~rb.panicked,
         NEW F \in SUBSET Frames, ~SomeNest(F), NEW f \in F,
         \A k \in 1 .. Len(rb.segs) : IsFrame(rb.segs[k], F),
         NEW s \in Segment, NEW i \in 1 .. Len(rb.segs) + 1,
         s = Fresh(rb, f.off, f.len), End(s) = f.off + f.len,
         \A k \in 1 .. i - 1 : rb.segs[k].off <= s.off,
         \A k \in i .. Len(rb.segs) : rb.segs[k].off >= s.off,
         Pushed(rb, i, s) \in Buffer, NEW c, c = Drain(Pushed(rb, i, s))
  PROVE  ~c.panicked /\ \A k \in 1 .. Len(c.segs) : IsFrame(c.segs[k], F)
<1> DEFINE p == Pushed(rb, i, s)
           u == rb.segs
           n == Len(u)
<1>0. /\ rb \in Buffer /\ u \in Seq(Segment) /\ n \in Nat /\ rb.next \in Nat /\ i \in 1 .. n + 1
      /\ Sorted(u) /\ Gapped(rb)
      /\ f.off \in Nat /\ f.len \in Nat /\ s.off \in Nat /\ End(s) \in Nat /\ s.off < End(s)
      /\ \A k \in 1..n : u[k] \in Segment
  <2>1. s.off \in Nat /\ End(s) \in Nat /\ End(s) > s.off
    BY SegmentFacts
  <2> QED
    BY <2>1, FrameFacts, SMTT(30) DEF DeliveryInv, ShapeInv, Buffer
<1>1. p.next = rb.next /\ p.segs = InsertAt(u, i, s) /\ p.panicked = rb.panicked
  BY <1>0 DEF Pushed, Buffer
<1>2. s.off >= rb.next /\ f.off <= s.off /\ (s.off = f.off \/ s.off = rb.next)
  BY <1>0 DEF Fresh, Overlap
<1> HIDE DEF p
<1> DEFINE t == p.segs
<1>3. /\ Len(t) = n + 1 /\ t[i] = s
      /\ \A j \in 1 .. i - 1 : t[j] = u[j]
      /\ \A j \in i + 1 .. n + 1 : t[j] = u[j - 1]
  <2>1. p = Pushed(rb, i, s)
    BY DEF p
  <2> QED
    BY <1>0, <2>1, PushedFacts, SMTT(30)
<1>4. Sorted(t)
  BY <1>0, <1>1, InsertSorted
<1> HIDE DEF t
\* where the segments come from
<1>5. ASSUME NEW j \in 1 .. n + 1, j # i
      PROVE  /\ t[j].off > rb.next /\ t[j].off \in Nat /\ End(t[j]) \in Nat
             /\ t[j].off < End(t[j]) /\ IsFrame(t[j], F)
  <2>1. PICK k \in 1..n : t[j] = u[k]
    <3>1. CASE j < i
      <4>1. j \in 1..n /\ j \in 1 .. i - 1
        BY <1>0, <3>1
      <4> QED
        BY <1>3, <4>1
    <3>2. CASE j > i
      <4>1. j - 1 \in 1..n /\ j \in i + 1 .. n + 1
        BY <1>0, <3>2
      <4> QED
        BY <1>3, <4>1
    <3> QED
      BY <1>0, <1>5, <3>1, <3>2
  <2>2. u[k] \in Segment /\ u[k].off > rb.next /\ IsFrame(u[k], F)
    BY <1>0 DEF Gapped
  <2>3. u[k].off \in Nat /\ End(u[k]) \in Nat /\ End(u[k]) > u[k].off
    BY <2>2, SegmentFacts
  <2>4. u[k].off < End(u[k])
    BY <2>3
  <2> QED
    BY <2>1, <2>2, <2>3, <2>4
<1>6. ASSUME NEW j \in 1 .. n + 1, NEW k \in 1 .. n + 1, j <= k
      PROVE  End(t[j]) <= End(t[k])
  <2>1. t[j].off <= t[k].off
    BY <1>3, <1>4, <1>6 DEF Sorted
  <2>2. PICK g \in F : g.off <= t[j].off /\ g.off + g.len = End(t[j])
    <3>1. CASE j = i
      BY <1>2, <1>3, <3>1
    <3>2. CASE j # i
      <4>1. t[j].off \in Nat /\ IsFrame(t[j], F)
        BY <1>5, <3>2
      <4> QED
        BY <4>1 DEF IsFrame
    <3> QED
      BY <3>1, <3>2
  <2>3. g.off \in Nat /\ g.len \in Nat /\ t[j].off \in Nat /\ t[k].off \in Nat
        /\ End(t[k]) \in Nat /\ End(t[j]) \in Nat /\ t[k].off < End(t[k])
    BY <1>0, <1>3, <1>5, FrameFacts
  <2>4. ASSUME NEW h \in F, h.off = t[k].off, h.off + h.len = End(t[k])
        PROVE  End(t[j]) <= End(t[k])
    <3>1. h.off \in Nat /\ h.len \in Nat
      BY FrameFacts
    <3>2. h.len # 0 /\ g.off <= h.off
      BY <2>1, <2>2, <2>3, <2>4, <3>1, SMTT(30)
    <3>3. g.off + g.len <= h.off + h.len
      BY <2>3, <3>1, <3>2 DEF SomeNest, Nested
    <3> QED
      BY <2>2, <2>4, <3>3
  <2>5. CASE k # i
    <3>1. IsFrame(t[k], F)
      BY <1>5, <2>5
    <3> QED
      BY <2>4, <3>1 DEF IsFrame
  <2>6. CASE k = i /\ s.off = f.off
    BY <1>3, <2>4, <2>6
  <2>7. CASE k = i /\ s.off = rb.next
    <3>1. j = i
      <4>1. t[j].off <= rb.next
        BY <1>3, <2>1, <2>7
      <4>2. j # i => t[j].off > rb.next
        BY <1>5
      <4> QED
        BY <1>0, <2>3, <4>1, <4>2
    <3> QED
      BY <2>3, <2>7, <3>1
  <2> QED
    BY <1>2, <2>5, <2>6, <2>7
<1>7. ASSUME NEW j \in 1 .. n + 1 PROVE End(t[j]) >= rb.next
  <2>1. CASE j = i
    BY <1>0, <1>2, <1>3, <2>1
  <2>2. CASE j # i
    <3>1. t[j].off > rb.next /\ t[j].off \in Nat /\ End(t[j]) \in Nat /\ t[j].off < End(t[j])
      BY <1>5, <2>2
    <3> QED
      BY <1>0, <3>1
  <2> QED
    BY <2>1, <2>2
<1>8. p \in Buffer /\ c = Drain(p) /\ ~p.panicked
  BY <1>1 DEF p
<1>9. ~c.panicked
  BY <1>1, <1>3, <1>6, <1>7, <1>8, DrainDoesNotPanic DEF t
<1>10. /\ \A k \in 1 .. Len(c.segs) : \E j \in 1 .. n + 1 : c.segs[k] = t[j]
       /\ Gapped(c)
  <2>1. Sorted(p.segs) /\ Len(p.segs) = n + 1
    BY <1>3, <1>4 DEF t
  <2>2. Gapped(c) /\ \A k \in 1 .. Len(c.segs) : \E j \in 1 .. Len(p.segs) : c.segs[k] = p.segs[j]
    <3>1. p \in Buffer /\ c = Drain(p) /\ Sorted(p.segs) /\ ~c.panicked
      BY <1>8, <1>9, <2>1
    <3>2. \A b \in Buffer : Sorted(b.segs) /\ ~Drain(b).panicked
            => /\ Gapped(Drain(b))
               /\ \A k \in 1 .. Len(Drain(b).segs) :
                    \E j \in 1 .. Len(b.segs) : Drain(b).segs[k] = b.segs[j]
      BY DrainedFrom
    <3>3. p \in Buffer /\ Sorted(p.segs) /\ ~Drain(p).panicked /\ c = Drain(p)
      BY <3>1, Zenon
    <3>4. Gapped(Drain(p))
      BY <3>2, <3>3, Zenon
    <3>5. \A k \in 1 .. Len(Drain(p).segs) : \E j \in 1 .. Len(p.segs) : Drain(p).segs[k] = p.segs[j]
      BY <3>2, <3>3, Zenon
    <3>6. Gapped(c)
      BY <3>3, <3>4, Zenon
    <3> QED
      BY <3>3, <3>5, <3>6, Zenon
  <2> QED
    BY <2>1, <2>2 DEF t
<1>11. c.next >= rb.next /\ c.next \in Nat
  <2>1. c \in Buffer /\ c.next >= p.next
    BY <1>8, DrainKeeps
  <2> QED
    BY <1>1, <2>1 DEF Buffer
<1>12. ASSUME NEW k \in 1 .. Len(c.segs) PROVE IsFrame(c.segs[k], F)
  <2>1. PICK j \in 1 .. n + 1 : c.segs[k] = t[j]
    BY <1>10
  <2>2. t[j].off > c.next
    BY <1>10, <2>1 DEF Gapped
  <2>3. CASE j = i
    <3>1. s.off # rb.next
      BY <1>0, <1>3, <1>11, <2>2, <2>3
    <3> QED
      BY <1>2, <1>3, <2>1, <2>3, <3>1 DEF IsFrame
  <2>4. CASE j # i
    BY <1>5, <2>1, <2>4
  <2> QED
    BY <2>3, <2>4
<1> QED
  BY <1>9, <1>12

\* drain slices a segment past its end only after two frames have been accepted
\* one of which lies within the other, whatever frames arrive in whatever order.
\* The comment below the slice (reorder.go:94-95) takes that case as handled.
THEOREM OnlyNestedFramesPanic == Spec => []PanicMeansNested
<1>1. Init => PanicInv
  <2> SUFFICES ASSUME Init PROVE PanicInv
    OBVIOUS
  <2>1. rb.segs = << >> /\ rb.panicked = FALSE /\ Len(rb.segs) = 0 /\ taken = {}
    BY DEF Init, NewBuf
  <2> QED
    BY <2>1 DEF PanicInv
<1>2. DeliveryInv /\ ShapeInv /\ PanicInv /\ [Next]_vars => PanicInv'
  <2> SUFFICES ASSUME DeliveryInv, ShapeInv, PanicInv, [Next]_vars
               PROVE  PanicInv'
    OBVIOUS
  <2>0. rb \in Buffer /\ taken \subseteq Frames
    BY DEF DeliveryInv, PanicInv
  <2>1. CASE rb'.segs = rb.segs /\ rb'.panicked = rb.panicked /\ taken' = taken
    BY <2>1 DEF PanicInv, IsFrame
  <2>2. ASSUME NEW f \in Frames, Add(f) PROVE PanicInv'
    <3> DEFINE F == taken'
    <3>1. /\ rb' \in AddResults(rb, f.off, Bytes(f.off, f.len)) /\ ~rb.panicked
          /\ F = IF Refused(f) THEN taken ELSE taken \cup {f}
      BY <2>2 DEF Add
    <3>2. F \in SUBSET Frames /\ taken \subseteq F
      BY <2>0, <3>1
    <3> SUFFICES ASSUME ~SomeNest(F)
                 PROVE  ~rb'.panicked /\ \A k \in 1 .. Len(rb'.segs) : IsFrame(rb'.segs[k], F)
      BY <3>2 DEF PanicInv, SomeNest, IsFrame
    <3> HIDE DEF F
    <3>3. ~SomeNest(taken)
      BY <3>2 DEF SomeNest
    <3>4. \A k \in 1 .. Len(rb.segs) : IsFrame(rb.segs[k], F)
      BY <3>2, <3>3 DEF PanicInv, IsFrame
    <3>5. CASE rb'.segs = rb.segs /\ rb'.panicked = rb.panicked
      BY <3>1, <3>4, <3>5
    <3>6. ASSUME f.off + f.len > rb.next, ~OverCap(rb, f.off, f.len),
                 NEW s \in Segment, NEW i \in 1 .. Len(rb.segs) + 1,
                 s = Fresh(rb, f.off, f.len), End(s) = f.off + f.len,
                 \A k \in 1 .. i - 1 : rb.segs[k].off <= s.off,
                 \A k \in i .. Len(rb.segs) : rb.segs[k].off >= s.off,
                 Pushed(rb, i, s) \in Buffer, rb' = Drain(Pushed(rb, i, s))
          PROVE  ~rb'.panicked /\ \A k \in 1 .. Len(rb'.segs) : IsFrame(rb'.segs[k], F)
      <4>1. f \in F
        BY <3>1, <3>6 DEF Refused
      <4> QED
        BY <3>1, <3>2, <3>4, <3>6, <4>1, AddDoesNotPanic
    <3>7. f.off \in Nat /\ f.len \in Nat
      BY FrameFacts
    <3>8. \/ (f.len = 0 \/ f.off + f.len <= rb.next) /\ rb' = rb
          \/ OverCap(rb, f.off, f.len) /\ rb' = [rb EXCEPT !.dropped = rb.dropped + f.len]
          \/ /\ f.off + f.len > rb.next /\ ~OverCap(rb, f.off, f.len)
             /\ \E s \in Segment, i \in 1 .. Len(rb.segs) + 1 :
                  /\ s = Fresh(rb, f.off, f.len)
                  /\ End(s) = f.off + f.len
                  /\ \A k \in 1 .. i - 1 : rb.segs[k].off <= s.off
                  /\ \A k \in i .. Len(rb.segs) : rb.segs[k].off >= s.off
                  /\ Pushed(rb, i, s) \in Buffer
                  /\ rb' = Drain(Pushed(rb, i, s))
      BY <2>0, <3>1, <3>7, AddCases, SMTT(30)
    <3>9. CASE rb' = [rb EXCEPT !.dropped = rb.dropped + f.len]
      BY <2>0, <3>5, <3>9 DEF Buffer
    <3> QED
      BY <3>5, <3>6, <3>8, <3>9
  <2>3. ASSUME NEW n \in 1..2, Read(n)
        PROVE  rb'.segs = rb.segs /\ rb'.panicked = rb.panicked /\ taken' = taken
    <3>1. rb' = ReadBuf(rb, n) /\ taken' = taken
      BY <2>3 DEF Read
    <3> QED
      BY <2>0, <3>1 DEF ReadBuf, Buffer
  <2>4. ASSUME NEW c \in Caps, SetCap(c)
        PROVE  rb'.segs = rb.segs /\ rb'.panicked = rb.panicked /\ taken' = taken
    BY <2>0, <2>4 DEF SetCap, Buffer
  <2>5. CASE UNCHANGED vars
    BY <2>1, <2>5 DEF vars
  <2> QED
    BY <2>1, <2>2, <2>3, <2>4, <2>5 DEF Next
<1>3. PanicInv => PanicMeansNested
  BY DEF PanicInv, SomeNest, PanicMeansNested
<1> QED
  BY <1>1, <1>2, <1>3, DeliveryInit, DeliveryStep, ShapeInit, ShapeStep, PTL DEF Spec

-----------------------------------------------------------------------------
(* What has been accepted and what is held are the same bytes.              *)

\* What drain makes ready comes from the heap.
LEMMA DrainOneNothingNew ==
  ASSUME NEW b \in Buffer, NEW s \in Segment, NEW c, c = DrainOne(b, s), ~c.panicked,
         NEW x \in Nat, x < c.next
  PROVE  ~b.panicked /\ (x < b.next \/ x \in s.off .. End(s) - 1)
<1>0. b.next \in Nat /\ s.off \in Nat /\ End(s) \in Nat
  BY SegmentFacts DEF Buffer
<1>1. ~b.panicked
  BY DrainOneCases
<1>2. CASE c = [b EXCEPT !.segs = Append(b.segs, s)]
  <2>1. c.next = b.next
    BY <1>2 DEF Buffer
  <2> QED
    BY <1>1, <2>1
<1>3. CASE c = [b EXCEPT !.panicked = TRUE]
  BY <1>3 DEF Buffer
<1>4. CASE /\ s.off <= b.next
           /\ c = [b EXCEPT !.next = End(s),
                            !.ready = b.ready \o Bytes(b.next, End(s) - b.next),
                            !.size = b.size - (b.next - s.off)]
  <2>1. c.next = End(s)
    BY <1>4 DEF Buffer
  <2> QED
    BY <1>0, <1>1, <1>4, <2>1
<1> QED
  BY <1>2, <1>3, <1>4, DrainOneCases

LEMMA DrainNothingNew ==
  ASSUME NEW b \in Buffer, NEW c, c = Drain(b), ~c.panicked, Sorted(b.segs),
         NEW x \in Nat, Holds(c, x)
  PROVE  Holds(b, x)
<1> DEFINE n == Len(b.segs)
           In(j) == x \in b.segs[j].off .. End(b.segs[j]) - 1
<1>0. n \in Nat /\ b.next \in Nat /\ (\A i \in 1..n : b.segs[i] \in Segment)
  BY DEF Buffer
<1>1. PICK d \in [0..n -> Buffer] :
        /\ d[0] = [b EXCEPT !.segs = << >>]
        /\ \A i \in 1..n : d[i] = DrainOne(d[i-1], b.segs[i])
        /\ Drain(b) = d[n]
  BY DrainSteps
<1> DEFINE Good(i) == ~d[i].panicked /\ x < d[i].next => x < b.next \/ \E j \in 1..i : In(j)
           T == {i \in 0..n : Good(i)}
<1>2. 0 \in T
  <2>1. d[0].next = b.next
    BY <1>1 DEF Buffer
  <2> QED
    BY <1>0, <2>1
<1>3. ASSUME NEW i \in 1..n, i - 1 \in T PROVE i \in T
  <2>1. d[i-1] \in Buffer /\ b.segs[i] \in Segment /\ d[i] = DrainOne(d[i-1], b.segs[i])
    BY <1>0, <1>1
  <2>2. Good(i - 1) /\ i \in Nat
    BY <1>0, <1>3
  <2>3. ASSUME ~d[i].panicked, x < d[i].next PROVE x < b.next \/ \E j \in 1..i : In(j)
    <3>1. ~d[i-1].panicked /\ (x < d[i-1].next \/ In(i))
      BY <2>1, <2>3, DrainOneNothingNew
    <3>2. i \in 1..i /\ \A j \in 1 .. i - 1 : j \in 1..i
      BY <2>2
    <3> HIDE DEF In
    <3> QED
      BY <2>2, <3>1, <3>2
  <2>4. Good(i)
    BY <2>3
  <2> HIDE DEF Good
  <2> QED
    BY <2>4
<1> HIDE DEF T
<1>4. Good(n)
  <2>1. n \in T
    BY <1>0, <1>2, <1>3, StepByStep, n \in 0..n
  <2> QED
    BY <2>1 DEF T
<1>5. CASE x < c.next
  BY <1>1, <1>4, <1>5 DEF Holds
<1>6. ASSUME NEW k \in 1 .. Len(c.segs), x \in c.segs[k].off .. End(c.segs[k]) - 1
      PROVE  Holds(b, x)
  <2>1. PICK j \in 1..n : c.segs[k] = b.segs[j]
    BY DrainedFrom
  <2> QED
    BY <1>6, <2>1 DEF Holds
<1> QED
  BY <1>5, <1>6 DEF Holds

\* An accepted frame adds its own bytes to what the buffer holds, no others.
LEMMA AcceptedHolds ==
  ASSUME NEW b \in Buffer, Sorted(b.segs), NEW off \in Nat, NEW len \in Nat,
         off + len > b.next,
         NEW s \in Segment, NEW i \in 1 .. Len(b.segs) + 1,
         s = Fresh(b, off, len), End(s) = off + len,
         \A k \in 1 .. i - 1 : b.segs[k].off <= s.off,
         \A k \in i .. Len(b.segs) : b.segs[k].off >= s.off,
         Pushed(b, i, s) \in Buffer,
         NEW c, c = Drain(Pushed(b, i, s)), ~c.panicked, NEW x \in Nat
  PROVE  Holds(c, x) <=> Holds(b, x) \/ x \in Offsets(off, len)
<1> DEFINE p == Pushed(b, i, s)
           u == b.segs
           n == Len(u)
<1>0. n \in Nat /\ b.next \in Nat /\ u \in Seq(Segment) /\ i \in 1 .. n + 1
      /\ p.next = b.next /\ p.segs = InsertAt(u, i, s)
  BY DEF Pushed, Buffer
<1>1. s.off = IF off < b.next THEN b.next ELSE off
  BY <1>0 DEF Fresh, Overlap
<1>2. x \in s.off .. End(s) - 1 \/ x < b.next <=> x \in Offsets(off, len) \/ x < b.next
  BY <1>0, <1>1 DEF Offsets
<1> HIDE DEF p
<1>3. /\ Len(p.segs) = n + 1 /\ p.segs[i] = s
      /\ \A j \in 1 .. i - 1 : p.segs[j] = u[j]
      /\ \A j \in i + 1 .. n + 1 : p.segs[j] = u[j - 1]
  <2>1. p = Pushed(b, i, s)
    BY Zenon DEF p
  <2> QED
    BY <2>1, PushedFacts
<1>4. Sorted(p.segs)
  <2> HIDE DEF u
  <2> QED
    BY <1>0, InsertSorted DEF u
<1>5. Holds(c, x) <=> Holds(p, x)
  <2>1. Holds(c, x) => Holds(p, x)
    BY <1>4, DrainNothingNew DEF p
  <2>2. Holds(p, x) => Holds(c, x)
    BY DrainHolds DEF p
  <2> QED
    BY <2>1, <2>2
<1>6. Holds(b, x) => Holds(p, x)
  BY PushedHolds DEF p
<1>7. x \in s.off .. End(s) - 1 => Holds(p, x)
  <2>1. i \in 1 .. Len(p.segs)
    BY <1>0, <1>3
  <2> QED
    BY <1>3, <2>1 DEF Holds
<1>8. ASSUME NEW j \in 1 .. n + 1, x \in p.segs[j].off .. End(p.segs[j]) - 1
      PROVE  Holds(b, x) \/ x \in s.off .. End(s) - 1
  <2>1. CASE j = i
    BY <1>3, <1>8, <2>1
  <2>2. CASE j \in 1 .. i - 1
    <3>1. j \in 1..n /\ p.segs[j] = u[j]
      BY <1>0, <1>3, <2>2
    <3> QED
      BY <1>8, <3>1 DEF Holds
  <2>3. CASE j \in i + 1 .. n + 1
    <3>1. j - 1 \in 1..n
      BY <1>0, <2>3
    <3>2. p.segs[j] = u[j - 1]
      BY <1>3, <2>3
    <3>3. PICK k : k = j - 1
      OBVIOUS
    <3>4. k \in 1..n /\ x \in u[k].off .. End(u[k]) - 1
      BY <1>8, <3>1, <3>2, <3>3
    <3> QED
      BY <3>4 DEF Holds
  <2> QED
    BY <1>0, <2>1, <2>2, <2>3
<1>9. Holds(p, x) => Holds(b, x) \/ x \in s.off .. End(s) - 1
  BY <1>0, <1>3, <1>8 DEF Holds
<1>10. x < b.next => Holds(b, x)
  BY DEF Holds
<1> QED
  BY <1>2, <1>5, <1>6, <1>7, <1>9, <1>10

\* What has been accepted is just what the buffer holds.
KeptInv ==
  /\ kept \subseteq Nat
  /\ ~rb.panicked => \A x \in Nat : x \in kept <=> Holds(rb, x)

LEMMA KeptGrows ==
  ASSUME NEW f, taken' = taken \cup {f}
  PROVE  kept' = kept \cup Offsets(f.off, f.len)
BY DEF kept

LEMMA KeptStep == DeliveryInv /\ ShapeInv /\ KeptInv /\ [Next]_vars => KeptInv'
<1> SUFFICES ASSUME DeliveryInv, ShapeInv, KeptInv, [Next]_vars
             PROVE  KeptInv'
  OBVIOUS
<1>0. rb \in Buffer /\ Sorted(rb.segs) /\ rb.next \in Nat /\ kept \subseteq Nat
  BY DEF DeliveryInv, ShapeInv, KeptInv, Buffer
<1>1. CASE /\ rb'.segs = rb.segs /\ rb'.next = rb.next /\ (rb.panicked => rb'.panicked)
           /\ kept' = kept
  BY <1>1 DEF KeptInv, Holds
<1>2. ASSUME NEW f \in Frames, Add(f) PROVE KeptInv'
  <2> DEFINE new == Offsets(f.off, f.len)
  <2>0. f.off \in Nat /\ f.len \in Nat /\ new \subseteq Nat
    BY FrameFacts DEF Offsets
  <2>1. /\ rb' \in AddResults(rb, f.off, Bytes(f.off, f.len)) /\ ~rb.panicked
        /\ kept' = IF Refused(f) THEN kept ELSE kept \cup new
    <3>1. taken' = IF Refused(f) THEN taken ELSE taken \cup {f}
      BY <1>2 DEF Add
    <3>2. CASE Refused(f)
      BY <1>2, <3>1, <3>2 DEF Add, kept
    <3>3. CASE ~Refused(f)
      BY <1>2, <3>1, <3>3, KeptGrows DEF Add
    <3> QED
      BY <3>2, <3>3
  <2>2. CASE (f.len = 0 \/ f.off + f.len <= rb.next) /\ rb' = rb
    <3>1. ASSUME NEW x \in new PROVE x \in kept
      <4>1. x \in Nat /\ x < rb.next
        BY <1>0, <2>0, <2>2, <3>1 DEF Offsets
      <4> QED
        BY <2>1, <4>1 DEF KeptInv, Holds
    <3>2. kept' = kept
      BY <2>1, <3>1
    <3> QED
      BY <1>1, <2>2, <3>2
  <2>3. CASE OverCap(rb, f.off, f.len) /\ rb' = [rb EXCEPT !.dropped = rb.dropped + f.len]
    <3>1. rb'.segs = rb.segs /\ rb'.next = rb.next /\ rb'.panicked = rb.panicked
      BY <1>0, <2>3 DEF Buffer
    <3>2. CASE f.len = 0
      BY <1>1, <2>1, <3>1, <3>2, <2>0 DEF Offsets
    <3>3. CASE f.len # 0
      <4>1. Refused(f)
        BY <1>0, <2>0, <2>3, <3>3 DEF Refused, OverCap
      <4> QED
        BY <1>1, <2>1, <3>1, <4>1
    <3> QED
      BY <3>2, <3>3
  <2>4. ASSUME f.off + f.len > rb.next, ~OverCap(rb, f.off, f.len),
               NEW s \in Segment, NEW i \in 1 .. Len(rb.segs) + 1,
               s = Fresh(rb, f.off, f.len), End(s) = f.off + f.len,
               \A k \in 1 .. i - 1 : rb.segs[k].off <= s.off,
               \A k \in i .. Len(rb.segs) : rb.segs[k].off >= s.off,
               Pushed(rb, i, s) \in Buffer, rb' = Drain(Pushed(rb, i, s))
        PROVE  KeptInv'
    <3>1. kept' = kept \cup new
      BY <2>1, <2>4 DEF Refused
    <3>2. ASSUME ~rb'.panicked, NEW x \in Nat PROVE x \in kept' <=> Holds(rb', x)
      <4>1. Holds(rb', x) <=> Holds(rb, x) \/ x \in new
        BY <1>0, <2>0, <2>4, <3>2, AcceptedHolds
      <4>2. x \in kept <=> Holds(rb, x)
        BY <2>1 DEF KeptInv
      <4> QED
        BY <3>1, <4>1, <4>2
    <3>3. kept' \subseteq Nat
      BY <1>0, <2>0, <3>1
    <3> QED
      BY <3>2, <3>3 DEF KeptInv
  <2>5. \/ (f.len = 0 \/ f.off + f.len <= rb.next) /\ rb' = rb
        \/ OverCap(rb, f.off, f.len) /\ rb' = [rb EXCEPT !.dropped = rb.dropped + f.len]
        \/ /\ f.off + f.len > rb.next /\ ~OverCap(rb, f.off, f.len)
           /\ \E s \in Segment, i \in 1 .. Len(rb.segs) + 1 :
                /\ s = Fresh(rb, f.off, f.len)
                /\ End(s) = f.off + f.len
                /\ \A k \in 1 .. i - 1 : rb.segs[k].off <= s.off
                /\ \A k \in i .. Len(rb.segs) : rb.segs[k].off >= s.off
                /\ Pushed(rb, i, s) \in Buffer
                /\ rb' = Drain(Pushed(rb, i, s))
    BY <1>0, <2>0, <2>1, AddCases, SMTT(30)
  <2> QED
    BY <2>2, <2>3, <2>4, <2>5
<1>3. ASSUME NEW n \in 1..2, Read(n)
      PROVE  rb'.segs = rb.segs /\ rb'.next = rb.next /\ rb'.panicked = rb.panicked
             /\ kept' = kept
  <2>1. rb' = ReadBuf(rb, n) /\ kept' = kept
    BY <1>3 DEF Read, kept
  <2> QED
    BY <1>0, <2>1 DEF ReadBuf, Buffer
<1>4. ASSUME NEW c \in Caps, SetCap(c)
      PROVE  rb'.segs = rb.segs /\ rb'.next = rb.next /\ rb'.panicked = rb.panicked
             /\ kept' = kept
  BY <1>0, <1>4 DEF SetCap, Buffer, kept
<1>5. CASE UNCHANGED vars
  BY <1>1, <1>5 DEF vars, kept
<1> QED
  BY <1>1, <1>2, <1>3, <1>4, <1>5 DEF Next

LEMMA KeptInit == Init => KeptInv
<1> SUFFICES ASSUME Init PROVE KeptInv
  OBVIOUS
<1>1. rb.next = 0 /\ rb.segs = << >> /\ kept = {} /\ Len(<< >>) = 0
  BY DEF Init, NewBuf, kept
<1> QED
  BY <1>1 DEF KeptInv, Holds

-----------------------------------------------------------------------------
(* ranges and its reference definition.                                     *)

\* Ranges that ascend with gaps above the cumulative point, and the bytes they
\* cover together with those below that point: neither the byte before a range
\* nor the byte after it is among them.
LEMMA RangeEdges ==
  ASSUME NEW rs \in Seq(Interval), Apart(rs), NEW next \in Nat,
         \A k \in 1 .. Len(rs) : next < rs[k].start,
         NEW S \in SUBSET Nat, \A x \in Nat : x \in S <=> x < next \/ InRanges(rs, x),
         NEW k \in 1 .. Len(rs)
  PROVE  /\ rs[k].start \in S /\ rs[k].end - 1 \in S
         /\ rs[k].start .. rs[k].end - 1 \subseteq S
         /\ rs[k].start - 1 \notin S /\ rs[k].end \notin S
<1> DEFINE a == rs[k].start
           e == rs[k].end
<1>0. /\ Len(rs) \in Nat /\ a \in Nat /\ e \in Nat /\ a < e /\ next < a
      /\ \A j \in 1 .. Len(rs) : rs[j].start \in Nat /\ rs[j].end \in Nat
  <2>1. \A j \in 1 .. Len(rs) : rs[j] \in Interval
    OBVIOUS
  <2>2. \A r \in Interval : r.start \in Nat /\ r.end \in Nat
    BY DEF Interval
  <2> QED
    BY <2>1, <2>2 DEF Apart
<1>1. a .. e - 1 \subseteq S
  <2> SUFFICES ASSUME NEW x \in a .. e - 1 PROVE x \in S
    OBVIOUS
  <2>1. x \in Nat /\ InRanges(rs, x)
    BY <1>0 DEF InRanges
  <2> QED
    BY <2>1
<1>2. a \in a .. e - 1 /\ e - 1 \in a .. e - 1
  BY <1>0
<1>3. ASSUME NEW j \in 1 .. Len(rs)
      PROVE  a - 1 \notin rs[j].start .. rs[j].end - 1 /\ e \notin rs[j].start .. rs[j].end - 1
  <2>1. CASE j = k
    BY <1>0, <2>1
  <2>2. CASE j < k
    <3>1. rs[j].end < a
      BY <2>2 DEF Apart
    <3> QED
      BY <1>0, <3>1
  <2>3. CASE j > k
    <3>1. k < j
      BY <2>3
    <3>2. e < rs[j].start
      BY <3>1 DEF Apart
    <3> QED
      BY <1>0, <3>2
  <2> QED
    BY <2>1, <2>2, <2>3
<1>4. a - 1 \in Nat /\ ~(a - 1 < next) /\ ~(e < next)
  BY <1>0
<1>5. ~InRanges(rs, a - 1) /\ ~InRanges(rs, e)
  BY <1>3 DEF InRanges
<1>6. a - 1 \notin S /\ e \notin S
  BY <1>0, <1>4, <1>5
<1> QED
  BY <1>1, <1>2, <1>6

\* The blocks are the ranges, when those cover what has been accepted.
LEMMA RangesAreTheBlocks ==
  ASSUME NEW rs \in Seq(Interval), Apart(rs), rb.next \in Nat,
         \A k \in 1 .. Len(rs) : rb.next < rs[k].start,
         kept \in SUBSET Nat,
         \A x \in Nat : x \in kept <=> x < rb.next \/ InRanges(rs, x)
  PROVE  Blocks = {rs[k] : k \in 1 .. Len(rs)}
<1>0. /\ Len(rs) \in Nat
      /\ \A k \in 1 .. Len(rs) : /\ rs[k].start \in Nat /\ rs[k].end \in Nat
                                 /\ rs[k].start < rs[k].end
                                 /\ rs[k] = [start |-> rs[k].start, end |-> rs[k].end]
  <2>1. \A k \in 1 .. Len(rs) : rs[k] \in Interval
    OBVIOUS
  <2>2. \A r \in Interval : r.start \in Nat /\ r.end \in Nat
                            /\ r = [start |-> r.start, end |-> r.end]
    BY DEF Interval
  <2> QED
    BY <2>1, <2>2 DEF Apart
<1>1. \A k \in 1 .. Len(rs) : /\ rs[k].start \in kept /\ rs[k].end - 1 \in kept
                              /\ rs[k].start .. rs[k].end - 1 \subseteq kept
                              /\ rs[k].start - 1 \notin kept /\ rs[k].end \notin kept
  BY RangeEdges
<1>2. ASSUME NEW k \in 1 .. Len(rs) PROVE rs[k] \in Blocks
  <2> DEFINE a == rs[k].start
             e == rs[k].end
  <2>1. /\ a \in Nat /\ e \in Nat /\ a < e /\ rs[k] = [start |-> a, end |-> e]
        /\ a \in kept /\ e - 1 \in kept /\ a .. e - 1 \subseteq kept
        /\ a - 1 \notin kept /\ e \notin kept /\ rb.next < a
    BY <1>0, <1>1
  <2> HIDE DEF a, e
  <2>2. e = (e - 1) + 1
    BY <2>1
  <2>3. e \in {x + 1 : x \in kept}
    BY <2>1, <2>2
  <2> DEFINE r == [start |-> a, end |-> e]
  <2>4. r \in [start : kept, end : {x + 1 : x \in kept}] /\ r.start = a /\ r.end = e
    BY <2>1, <2>3
  <2> HIDE DEF r
  <2>5. r \in Blocks
    BY <2>1, <2>4 DEF Blocks
  <2> QED
    BY <2>1, <2>5 DEF r
<1>3. ASSUME NEW r \in Blocks PROVE \E k \in 1 .. Len(rs) : r = rs[k]
  <2>1. /\ r \in [start : kept, end : {x + 1 : x \in kept}]
        /\ rb.next < r.start /\ r.start < r.end /\ r.start .. r.end - 1 \subseteq kept
        /\ r.start - 1 \notin kept /\ r.end \notin kept
    BY DEF Blocks
  <2> DEFINE a == r.start
             e == r.end
  <2>2. a \in kept /\ (\E y \in kept : e = y + 1) /\ r = [start |-> a, end |-> e]
    BY <2>1
  <2>3. a \in Nat /\ e \in Nat
    BY <2>2
  <2>4. rb.next < a /\ a < e /\ a .. e - 1 \subseteq kept /\ a - 1 \notin kept /\ e \notin kept
    BY <2>1
  <2> HIDE DEF a, e
  <2>5. InRanges(rs, a)
    BY <2>2, <2>3, <2>4
  <2>6. PICK k \in 1 .. Len(rs) : a \in rs[k].start .. rs[k].end - 1
    BY <2>5 DEF InRanges
  <2> DEFINE b == rs[k].start
             f == rs[k].end
  <2>7. b \in Nat /\ f \in Nat /\ a \in b .. f - 1 /\ b .. f - 1 \subseteq kept /\ f \notin kept
        /\ rs[k] = [start |-> b, end |-> f]
    BY <1>0, <1>1, <2>6
  <2> HIDE DEF b, f
  <2>8. a = b
    <3> SUFFICES ASSUME a # b PROVE FALSE
      OBVIOUS
    <3>1. a - 1 \in b .. f - 1
      BY <2>3, <2>4, <2>7
    <3> QED
      BY <2>3, <2>4, <2>7, <3>1
  <2>9. ~(e < f)
    <3> SUFFICES ASSUME e < f PROVE FALSE
      OBVIOUS
    <3>1. e \in b .. f - 1
      BY <2>3, <2>4, <2>7
    <3> QED
      BY <2>3, <2>4, <2>7, <3>1
  <2>10. ~(f < e)
    <3> SUFFICES ASSUME f < e PROVE FALSE
      OBVIOUS
    <3>1. f \in a .. e - 1
      BY <2>3, <2>4, <2>7
    <3> QED
      BY <2>3, <2>4, <2>7, <3>1
  <2>11. e = f
    BY <2>3, <2>4, <2>7, <2>9, <2>10
  <2> QED
    BY <2>2, <2>7, <2>8, <2>11
<1> QED
  BY <1>2, <1>3, Zenon

\* The range at place k has k - 1 ranges below it.
LEMMA RangesBelow ==
  ASSUME NEW rs \in Seq(Interval), Apart(rs), NEW k \in 1 .. Len(rs),
         NEW B, B = {rs[j] : j \in 1 .. Len(rs)}
  PROVE  Cardinality({q \in B : q.start < rs[k].start}) = k - 1
<1> DEFINE L == {q \in B : q.start < rs[k].start}
           f == [j \in 1 .. k - 1 |-> rs[j]]
<1>0. /\ Len(rs) \in Nat /\ k \in Nat
      /\ \A j \in 1 .. Len(rs) : rs[j].start \in Nat /\ rs[j].end \in Nat
  <2>1. \A j \in 1 .. Len(rs) : rs[j] \in Interval
    OBVIOUS
  <2>2. \A r \in Interval : r.start \in Nat /\ r.end \in Nat
    BY DEF Interval
  <2> QED
    BY <2>1, <2>2
<1>1. ASSUME NEW i \in 1 .. Len(rs), NEW j \in 1 .. Len(rs), i < j
      PROVE  rs[i].start < rs[j].start
  <2>1. rs[i].start < rs[i].end /\ rs[i].end < rs[j].start
    BY <1>1 DEF Apart
  <2> QED
    BY <1>0, <2>1
<1>2. \A j \in 1 .. Len(rs) : rs[j].start < rs[k].start <=> j < k
  <2> SUFFICES ASSUME NEW j \in 1 .. Len(rs)
               PROVE  rs[j].start < rs[k].start <=> j < k
    OBVIOUS
  <2>1. CASE j < k
    BY <1>1, <2>1
  <2>2. CASE j = k
    BY <1>0, <2>2
  <2>3. CASE k < j
    <3>1. rs[k].start < rs[j].start
      BY <1>1, <2>3
    <3> QED
      BY <1>0, <2>3, <3>1
  <2> QED
    BY <1>0, <2>1, <2>2, <2>3
<1>3. \A j \in 1 .. k - 1 : j \in 1 .. Len(rs) /\ j < k
  BY <1>0
<1>4. f \in [1 .. k - 1 -> L]
  BY <1>2, <1>3
<1>5. IsInjective(f)
  <2> SUFFICES ASSUME NEW i \in 1 .. k - 1, NEW j \in 1 .. k - 1, rs[i] = rs[j] PROVE i = j
    BY DEF IsInjective
  <2>1. ~(i < j) /\ ~(j < i)
    <3>1. i \in 1 .. Len(rs) /\ j \in 1 .. Len(rs)
      BY <1>3
    <3>2. i < j => rs[i].start < rs[j].start
      BY <1>1, <3>1
    <3>3. j < i => rs[j].start < rs[i].start
      BY <1>1, <3>1
    <3> QED
      BY <1>0, <3>1, <3>2, <3>3
  <2> QED
    BY <1>0, <2>1
<1>6. ASSUME NEW q \in L PROVE \E j \in 1 .. k - 1 : f[j] = q
  <2>1. PICK j \in 1 .. Len(rs) : q = rs[j]
    OBVIOUS
  <2>2. j \in 1 .. k - 1
    BY <1>0, <1>2, <2>1
  <2> QED
    BY <2>1, <2>2
<1>7. f \in Bijection(1 .. k - 1, L)
  BY <1>4, <1>5, <1>6 DEF Bijection, Injection, Surjection
<1> HIDE DEF f, L
<1>8. IsFiniteSet(1 .. k - 1) /\ Cardinality(1 .. k - 1) = k - 1
  <2>1. k - 1 \in Int /\ 1 \in Int /\ IF 1 > k - 1 THEN k - 1 = 0 ELSE (k - 1) - 1 + 1 = k - 1
    BY <1>0
  <2> QED
    BY <2>1, FS_Interval
<1>9. Cardinality(L) = Cardinality(1 .. k - 1)
  BY <1>7, <1>8, FS_Bijection DEF ExistsBijection
<1> QED
  BY <1>8, <1>9 DEF L

\* A state in which the buffer holds what has been accepted.
LEMMA RangesMatch ==
  ASSUME DeliveryInv, ShapeInv, KeptInv
  PROVE  RangesAreBlocks
<1> SUFFICES ASSUME ~rb.panicked,
                    NEW rs, rs = Ranges(rb, MaxRanges)
             PROVE  /\ Range(rs) = Lowest(MaxRanges)
                    /\ \A i, j \in DOMAIN rs : i < j => rs[i].start < rs[j].start
  BY DEF RangesAreBlocks
<1> DEFINE all == FoldLeft(MergeOne, << >>, rb.segs)
<1>0. rb \in Buffer /\ Sorted(rb.segs) /\ Gapped(rb) /\ rb.next \in Nat /\ MaxRanges \in Nat
      /\ \A j \in 1 .. Len(rb.segs) : rb.segs[j] \in Segment
  BY RangesAssumption DEF DeliveryInv, ShapeInv, Buffer
<1>1. /\ all \in Seq(Interval) /\ Apart(all)
      /\ \A k \in 1 .. Len(all) : \E j \in 1 .. Len(rb.segs) : all[k].start = rb.segs[j].off
      /\ \A x \in Nat : InRanges(all, x) <=>
           \E j \in 1 .. Len(rb.segs) : x \in rb.segs[j].off .. End(rb.segs[j]) - 1
  BY <1>0, MergedFacts
<1>2. rs = IF Len(all) > MaxRanges THEN SubSeq(all, 1, MaxRanges) ELSE all
  BY DEF Ranges
<1> HIDE DEF all
<1> DEFINE n == Len(all)
           m == IF n > MaxRanges THEN MaxRanges ELSE n
<1>3. n \in Nat /\ m \in 0..n /\ DOMAIN all = 1..n
  BY <1>0, <1>1
<1>4. \A k \in 1..n : rb.next < all[k].start
  <2> SUFFICES ASSUME NEW k \in 1..n PROVE rb.next < all[k].start
    OBVIOUS
  <2>1. PICK j \in 1 .. Len(rb.segs) : all[k].start = rb.segs[j].off
    BY <1>1
  <2>2. rb.segs[j].off > rb.next /\ rb.segs[j].off \in Nat
    BY <1>0, SegmentFacts DEF Gapped
  <2> QED
    BY <1>0, <2>1, <2>2
<1>5. \A x \in Nat : x \in kept <=> x < rb.next \/ InRanges(all, x)
  BY <1>1 DEF KeptInv, Holds
<1>6. Blocks = {all[k] : k \in 1..n}
  BY <1>0, <1>1, <1>4, <1>5, RangesAreTheBlocks DEF KeptInv
<1>7. \A k \in 1..n : Cardinality({q \in Blocks : q.start < all[k].start}) = k - 1
  <2> HIDE DEF n
  <2>1. \A k \in 1 .. Len(all) : Cardinality({q \in Blocks : q.start < all[k].start}) = k - 1
    BY <1>1, <1>6, RangesBelow DEF n
  <2> QED
    BY <2>1 DEF n
<1>8. Lowest(MaxRanges) = {all[k] : k \in 1..m}
  <2>1. ASSUME NEW k \in 1..m PROVE all[k] \in Lowest(MaxRanges)
    <3>1. k \in 1..n /\ k - 1 < MaxRanges
      BY <1>0, <1>3
    <3>2. all[k] \in Blocks /\ Cardinality({q \in Blocks : q.start < all[k].start}) < MaxRanges
      BY <1>6, <1>7, <3>1
    <3> QED
      BY <3>2 DEF Lowest
  <2>2. ASSUME NEW r \in Lowest(MaxRanges) PROVE \E k \in 1..m : r = all[k]
    <3>1. r \in Blocks /\ Cardinality({q \in Blocks : q.start < r.start}) < MaxRanges
      BY DEF Lowest
    <3>2. PICK k \in 1..n : r = all[k]
      BY <1>6, <3>1
    <3>3. k - 1 < MaxRanges
      BY <1>7, <3>1, <3>2
    <3>4. k \in 1..m
      BY <1>0, <1>3, <3>3
    <3> QED
      BY <3>2, <3>4
  <2> HIDE DEF m
  <2> QED
    BY <2>1, <2>2, Zenon
<1>9. Len(rs) = m /\ DOMAIN rs = 1..m /\ \A k \in 1..m : rs[k] = all[k]
  <2>1. CASE n > MaxRanges
    <3>1. rs = SubSeq(all, 1, MaxRanges) /\ m = MaxRanges /\ MaxRanges <= n
      BY <1>0, <1>2, <1>3, <2>1
    <3> QED
      BY <1>0, <1>1, <3>1
  <2>2. CASE ~(n > MaxRanges)
    BY <1>2, <1>3, <2>2
  <2> QED
    BY <2>1, <2>2
<1>10. Range(rs) = {all[k] : k \in 1..m}
  BY <1>9 DEF Range
<1>11. ASSUME NEW i \in 1..m, NEW j \in 1..m, i < j PROVE rs[i].start < rs[j].start
  <2>1. i \in 1..n /\ j \in 1..n
    BY <1>3
  <2>2. all[i].start < all[i].end /\ all[i].end < all[j].start
    BY <1>11, <2>1, <1>1 DEF Apart
  <2>3. all[i] \in Interval /\ all[j] \in Interval
    BY <1>1, <2>1
  <2>4. all[i].start < all[j].start
    BY <2>2, <2>3 DEF Interval
  <2> QED
    BY <1>9, <2>4
<1> QED
  BY <1>8, <1>9, <1>10, <1>11

\* ranges merges the heap into the maximal intervals of accepted bytes above the
\* cumulative point, for any frames and any order of arrival, and an ACK carries
\* the lowest maxAckRanges of them: the sender strikes nothing it should not.
THEOREM RangesAreExact == Spec => []RangesAreBlocks
<1>1. DeliveryInv /\ ShapeInv /\ KeptInv => RangesAreBlocks
  BY RangesMatch
<1> QED
  BY <1>1, DeliveryInit, DeliveryStep, ShapeInit, ShapeStep, KeptInit, KeptStep, PTL DEF Spec

\* Everything the buffer reports begins and ends where an accepted frame does:
\* the cumulative point is the end of one, and so are both edges of every range.
EdgesOfFrames ==
  ~rb.panicked =>
    /\ rb.next = 0 \/ \E f \in taken : f.off + f.len = rb.next
    /\ \A r \in Range(Ranges(rb, MaxRanges)) :
         (\E f \in taken : f.off = r.start) /\ (\E g \in taken : g.off + g.len = r.end)

LEMMA AcceptedEnd ==
  ASSUME taken \subseteq Frames, NEW x \in Nat, x \in kept, x + 1 \notin kept
  PROVE  \E f \in taken : f.off + f.len = x + 1
<1>1. PICK f \in taken : x \in Offsets(f.off, f.len)
  BY DEF kept
<1>2. f.off \in Nat /\ f.len \in Nat /\ x + 1 \notin Offsets(f.off, f.len)
  BY FrameFacts DEF kept
<1> QED
  BY <1>1, <1>2 DEF Offsets

LEMMA AcceptedStart ==
  ASSUME taken \subseteq Frames, NEW x \in Nat, x \in kept, x - 1 \notin kept
  PROVE  \E f \in taken : f.off = x
<1>1. PICK f \in taken : x \in Offsets(f.off, f.len)
  BY DEF kept
<1>2. f.off \in Nat /\ f.len \in Nat /\ x - 1 \notin Offsets(f.off, f.len)
  BY FrameFacts DEF kept
<1> QED
  BY <1>1, <1>2 DEF Offsets

\* A receiver reports no boundary that its peer's frames did not have: a sender
\* that splits a segment only where a report begins or ends (markSacked) cuts
\* no two frames across each other, so the frames of an honest pair of
\* endpoints are those of the first transmission and never nest.
THEOREM ReportsKeepBoundaries == Spec => []EdgesOfFrames
<1> DEFINE TakenInv == taken \subseteq Frames
<1>1. Init => TakenInv
  BY DEF Init
<1>2. TakenInv /\ [Next]_vars => TakenInv'
  BY DEF Next, Add, Read, SetCap, vars
<1>3. DeliveryInv /\ ShapeInv /\ KeptInv /\ TakenInv => EdgesOfFrames
  <2> SUFFICES ASSUME DeliveryInv, ShapeInv, KeptInv, TakenInv, ~rb.panicked
               PROVE  /\ rb.next = 0 \/ \E f \in taken : f.off + f.len = rb.next
                      /\ \A r \in Range(Ranges(rb, MaxRanges)) :
                           /\ \E f \in taken : f.off = r.start
                           /\ \E g \in taken : g.off + g.len = r.end
    BY DEF EdgesOfFrames
  <2>0. rb.next \in Nat /\ Gapped(rb) /\ taken \subseteq Frames /\ kept \subseteq Nat
        /\ \A j \in 1 .. Len(rb.segs) : rb.segs[j] \in Segment
    BY DEF DeliveryInv, ShapeInv, KeptInv, Buffer
  <2>1. ASSUME rb.next # 0 PROVE \E f \in taken : f.off + f.len = rb.next
    <3> DEFINE x == rb.next - 1
    <3>1. x \in Nat /\ x < rb.next /\ x + 1 = rb.next
      BY <2>0, <2>1
    <3> HIDE DEF x
    <3>2. x \in kept
      BY <3>1 DEF KeptInv, Holds
    <3>3. ~Holds(rb, rb.next)
      <4> SUFFICES ASSUME NEW j \in 1 .. Len(rb.segs),
                          rb.next \in rb.segs[j].off .. End(rb.segs[j]) - 1
                   PROVE  FALSE
        BY <2>0 DEF Holds
      <4>1. rb.segs[j].off > rb.next /\ rb.segs[j].off \in Nat /\ End(rb.segs[j]) \in Nat
        BY <2>0, SegmentFacts DEF Gapped
      <4> QED
        BY <2>0, <4>1
    <3>4. x + 1 \notin kept
      BY <2>0, <3>1, <3>3 DEF KeptInv
    <3> QED
      BY <2>0, <3>1, <3>2, <3>4, AcceptedEnd
  <2>2. ASSUME NEW r \in Range(Ranges(rb, MaxRanges))
        PROVE  (\E f \in taken : f.off = r.start) /\ (\E g \in taken : g.off + g.len = r.end)
    <3>1. r \in Blocks
      BY RangesMatch DEF RangesAreBlocks, Lowest
    <3>2. /\ r.start \in kept /\ (\E y \in kept : r.end = y + 1)
          /\ r.start - 1 \notin kept /\ r.end \notin kept
      BY <3>1 DEF Blocks
    <3>3. \E f \in taken : f.off = r.start
      BY <2>0, <3>2, AcceptedStart
    <3>4. PICK y \in kept : r.end = y + 1
      BY <3>2
    <3>5. \E g \in taken : g.off + g.len = y + 1
      BY <2>0, <3>2, <3>4, AcceptedEnd
    <3> QED
      BY <3>3, <3>4, <3>5
  <2> QED
    BY <2>1, <2>2
<1> HIDE DEF TakenInv
<1> QED
  BY <1>1, <1>2, <1>3, DeliveryInit, DeliveryStep, ShapeInit, ShapeStep, KeptInit, KeptStep,
     PTL DEF Spec

=============================================================================

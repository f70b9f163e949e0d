-------------------------- MODULE SendLedger_proofs --------------------------
(***************************************************************************)
(* Proofs about the sender's book-keeping, for any set of paths, any       *)
(* number of bytes, any frame size and any in-flight cap.                  *)
(*                                                                         *)
(* Sums over segments are handled without an induction principle: a        *)
(* statement about all finite sets is proved from its counterexample of    *)
(* least cardinality.                                                      *)
(***************************************************************************)
EXTENDS SendLedger, FiniteSetTheorems, WellFoundedInduction, TLAPS

-----------------------------------------------------------------------------
(* The least element of a set of numbers. *)

LEMMA LeastNat ==
  ASSUME NEW T \in SUBSET Nat, T # {}
  PROVE  \E m \in T : \A k \in T : m <= k
<1>1. PICK m \in T : \A k \in T : ~(<<k, m>> \in OpToRel(<, Nat))
  BY NatLessThanWellFounded, WFMin
<1>2. \A k \in T : ~(k < m)
  BY <1>1 DEF OpToRel
<1> QED
  BY <1>2

-----------------------------------------------------------------------------
(* SumFunctionOnSet of the community module Functions. *)

Any(S) == CHOOSE x \in S : TRUE

\* What its recursion computes, if it computes anything.
IsSum(g, f, S) ==
  g = [s \in SUBSET S |-> IF s = {} THEN 0 ELSE f[Any(s)] + g[s \ {Any(s)}]]

LEMMA SumUnfold ==
  ASSUME NEW f, NEW S
  PROVE  SumFunctionOnSet(f, S) = (CHOOSE g : IsSum(g, f, S))[S]
BY DEF SumFunctionOnSet, FoldFunctionOnSet, MapThenFoldSet, IsSum, Any

\* The recursion cut off above n elements.
IsSumTo(g, f, S, n) ==
  g = [s \in SUBSET S |-> IF Cardinality(s) > n THEN 0
                          ELSE IF s = {} THEN 0 ELSE f[Any(s)] + g[s \ {Any(s)}]]

LEMMA SubCard ==
  ASSUME NEW S, IsFiniteSet(S), NEW s \in SUBSET S
  PROVE  /\ IsFiniteSet(s) /\ Cardinality(s) \in Nat /\ Cardinality(s) <= Cardinality(S)
         /\ Cardinality(s) = 0 <=> s = {}
         /\ s # {} => /\ Any(s) \in s
                      /\ s \ {Any(s)} \in SUBSET S
                      /\ Cardinality(s \ {Any(s)}) = Cardinality(s) - 1
<1>1. IsFiniteSet(s) /\ Cardinality(s) <= Cardinality(S)
  BY FS_Subset
<1>2. Cardinality(s) \in Nat
  BY <1>1, FS_CardinalityType
<1>3. Cardinality(s) = 0 <=> s = {}
  BY <1>1, FS_EmptySet
<1>4. s # {} => Any(s) \in s
  BY DEF Any
<1> QED
  BY <1>1, <1>2, <1>3, <1>4, FS_RemoveElement

LEMMA SumToExists ==
  ASSUME NEW f, NEW S, IsFiniteSet(S), NEW n \in Nat
  PROVE  \E g : IsSumTo(g, f, S, n)
<1> DEFINE Bad == {k \in Nat : ~ \E g : IsSumTo(g, f, S, k)}
<1> SUFFICES ASSUME Bad # {} PROVE FALSE
  OBVIOUS
<1>1. PICK m \in Bad : \A k \in Bad : m <= k
  BY LeastNat
<1>2. CASE m = 0
  <2> DEFINE g == [s \in SUBSET S |-> 0]
  <2>1. ASSUME NEW s \in SUBSET S PROVE Cardinality(s) > 0 \/ s = {}
    <3>1. Cardinality(s) \in Nat /\ (Cardinality(s) = 0 <=> s = {})
      BY SubCard
    <3> QED
      BY <3>1
  <2>2. g = [s \in SUBSET S |-> IF Cardinality(s) > 0 THEN 0
                                ELSE IF s = {} THEN 0 ELSE f[Any(s)] + g[s \ {Any(s)}]]
    BY <2>1
  <2> QED
    BY <1>1, <1>2, <2>2 DEF IsSumTo
<1>3. CASE m # 0
  <2>1. m - 1 \in Nat /\ m - 1 \notin Bad
    BY <1>1, <1>3
  <2>2. PICK g : IsSumTo(g, f, S, m - 1)
    BY <2>1
  <2> DEFINE h == [s \in SUBSET S |-> IF Cardinality(s) > m THEN 0
                                      ELSE IF s = {} THEN 0 ELSE f[Any(s)] + g[s \ {Any(s)}]]
  <2>3. ASSUME NEW t \in SUBSET S, Cardinality(t) <= m - 1 PROVE h[t] = g[t]
    <3>1. Cardinality(t) \in Nat
      BY SubCard
    <3>2. h[t] = IF t = {} THEN 0 ELSE f[Any(t)] + g[t \ {Any(t)}]
      BY <2>1, <2>3, <3>1
    <3>3. g[t] = IF t = {} THEN 0 ELSE f[Any(t)] + g[t \ {Any(t)}]
      <4>1. g[t] = IF Cardinality(t) > m - 1 THEN 0
                   ELSE IF t = {} THEN 0 ELSE f[Any(t)] + g[t \ {Any(t)}]
        BY <2>2 DEF IsSumTo
      <4>2. ~(Cardinality(t) > m - 1)
        BY <2>1, <2>3, <3>1
      <4> QED
        BY <4>1, <4>2
    <3> QED
      BY <3>2, <3>3
  <2>4. \A s \in SUBSET S : Cardinality(s) > m \/ s = {} \/ h[s \ {Any(s)}] = g[s \ {Any(s)}]
    <3> SUFFICES ASSUME NEW s \in SUBSET S, ~(Cardinality(s) > m), s # {}
                 PROVE  h[s \ {Any(s)}] = g[s \ {Any(s)}]
      OBVIOUS
    <3>1. s \ {Any(s)} \in SUBSET S /\ Cardinality(s \ {Any(s)}) <= m - 1
      BY <2>1, SubCard
    <3> QED
      BY <2>3, <3>1
  <2>5. IsSumTo(h, f, S, m)
    <3>1. h = [s \in SUBSET S |-> IF Cardinality(s) > m THEN 0
                                  ELSE IF s = {} THEN 0 ELSE f[Any(s)] + h[s \ {Any(s)}]]
      BY <2>4
    <3> QED
      BY <3>1 DEF IsSumTo
  <2> QED
    BY <1>1, <2>5
<1> QED
  BY <1>2, <1>3

LEMMA SumExists ==
  ASSUME NEW f, NEW S, IsFiniteSet(S)
  PROVE  \E g : IsSum(g, f, S)
<1>1. Cardinality(S) \in Nat
  BY FS_CardinalityType
<1>2. PICK g : IsSumTo(g, f, S, Cardinality(S))
  BY <1>1, SumToExists
<1>3. ASSUME NEW s \in SUBSET S PROVE ~(Cardinality(s) > Cardinality(S))
  <2>1. Cardinality(s) \in Nat /\ Cardinality(s) <= Cardinality(S)
    BY SubCard
  <2> QED
    BY <1>1, <2>1
<1>4. IsSum(g, f, S)
  BY <1>2, <1>3 DEF IsSumTo, IsSum
<1> QED
  BY <1>4

\* Two functions that satisfy the recursion agree where both are defined.
LEMMA SumUnique ==
  ASSUME NEW f, NEW S, IsFiniteSet(S), NEW T \in SUBSET S,
         NEW g, IsSum(g, f, S), NEW h, IsSum(h, f, T)
  PROVE  g[T] = h[T]
<1> DEFINE Bad == {k \in Nat : \E s \in SUBSET T : Cardinality(s) = k /\ g[s] # h[s]}
<1>0. IsFiniteSet(T) /\ SUBSET T \subseteq SUBSET S
  BY FS_Subset
<1> SUFFICES ASSUME g[T] # h[T] PROVE FALSE
  OBVIOUS
<1>1. Bad # {}
  <2>1. Cardinality(T) \in Nat /\ T \in SUBSET T
    BY <1>0, FS_CardinalityType
  <2> QED
    BY <2>1
<1>2. PICK m \in Bad : \A k \in Bad : m <= k
  BY <1>1, LeastNat
<1>3. PICK s \in SUBSET T : Cardinality(s) = m /\ g[s] # h[s]
  BY <1>2
<1>4. /\ g[s] = IF s = {} THEN 0 ELSE f[Any(s)] + g[s \ {Any(s)}]
      /\ h[s] = IF s = {} THEN 0 ELSE f[Any(s)] + h[s \ {Any(s)}]
  BY <1>0, <1>3 DEF IsSum
<1>5. s # {} /\ g[s \ {Any(s)}] # h[s \ {Any(s)}]
  BY <1>3, <1>4
<1>6. s \ {Any(s)} \in SUBSET T /\ Cardinality(s \ {Any(s)}) = m - 1 /\ m \in Nat /\ m - 1 \in Nat
  BY <1>0, <1>3, <1>5, SubCard
<1>7. m - 1 \in Bad
  BY <1>5, <1>6
<1> QED
  BY <1>2, <1>6, <1>7

LEMMA SumEmpty == ASSUME NEW f PROVE SumFunctionOnSet(f, {}) = 0
<1>1. IsFiniteSet({})
  BY FS_EmptySet
<1>2. IsSum(CHOOSE g : IsSum(g, f, {}), f, {})
  BY <1>1, SumExists
<1> QED
  BY <1>2, SumUnfold DEF IsSum

LEMMA SumAny ==
  ASSUME NEW f, NEW S, IsFiniteSet(S), S # {}
  PROVE  SumFunctionOnSet(f, S) = f[Any(S)] + SumFunctionOnSet(f, S \ {Any(S)})
<1> DEFINE T == S \ {Any(S)}
           g == CHOOSE x : IsSum(x, f, S)
           h == CHOOSE x : IsSum(x, f, T)
<1>1. IsFiniteSet(T) /\ T \in SUBSET S
  BY FS_Subset
<1>2. IsSum(g, f, S) /\ IsSum(h, f, T)
  <2>1. \E x : IsSum(x, f, S)
    BY SumExists
  <2>2. \E x : IsSum(x, f, T)
    BY <1>1, SumExists
  <2> QED
    BY <2>1, <2>2
<1>3. SumFunctionOnSet(f, S) = g[S] /\ SumFunctionOnSet(f, T) = h[T]
  BY SumUnfold
<1> HIDE DEF g, h
<1>4. g[T] = h[T]
  BY <1>1, <1>2, SumUnique
<1>5. g[S] = f[Any(S)] + g[T]
  BY <1>2 DEF IsSum
<1> QED
  BY <1>3, <1>4, <1>5

\* The sum is a number, and any element can be taken out of it.
LEMMA SumRemove ==
  ASSUME NEW f, NEW S, IsFiniteSet(S), \A x \in S : f[x] \in Int
  PROVE  /\ SumFunctionOnSet(f, S) \in Int
         /\ \A x \in S : SumFunctionOnSet(f, S) = f[x] + SumFunctionOnSet(f, S \ {x})
<1> DEFINE Good(T) == /\ SumFunctionOnSet(f, T) \in Int
                      /\ \A x \in T : SumFunctionOnSet(f, T) = f[x] + SumFunctionOnSet(f, T \ {x})
           Bad == {k \in Nat : \E T \in SUBSET S : Cardinality(T) = k /\ ~Good(T)}
<1> SUFFICES ASSUME ~Good(S) PROVE FALSE
  OBVIOUS
<1>1. Bad # {}
  <2>1. Cardinality(S) \in Nat /\ S \in SUBSET S
    BY FS_CardinalityType
  <2> QED
    BY <2>1
<1>2. PICK m \in Bad : \A k \in Bad : m <= k
  BY <1>1, LeastNat
<1>3. PICK T \in SUBSET S : Cardinality(T) = m /\ ~Good(T)
  BY <1>2
<1>4. T # {}
  <2>1. Good({})
    BY SumEmpty
  <2> QED
    BY <1>3, <2>1
<1>5. IsFiniteSet(T) /\ m \in Nat /\ \A x \in T : f[x] \in Int
  BY <1>3, FS_Subset
<1>6. ASSUME NEW x \in T PROVE Good(T \ {x})
  <2>1. T \ {x} \in SUBSET S /\ Cardinality(T \ {x}) = m - 1
    BY <1>3, <1>5, FS_RemoveElement
  <2>2. IsFiniteSet(T \ {x}) /\ Cardinality(T \ {x}) \in Nat
    BY <1>5, FS_RemoveElement, FS_CardinalityType
  <2>3. m - 1 \in Nat /\ m - 1 \notin Bad
    BY <1>2, <1>5, <2>1, <2>2
  <2> QED
    BY <2>1, <2>3
<1> DEFINE c == Any(T)
<1>7. c \in T
  BY <1>4 DEF Any
<1>8. SumFunctionOnSet(f, T) = f[c] + SumFunctionOnSet(f, T \ {c})
  BY <1>4, <1>5, SumAny
<1> HIDE DEF c
<1>9. SumFunctionOnSet(f, T) \in Int
  BY <1>5, <1>6, <1>7, <1>8
<1>10. ASSUME NEW x \in T PROVE SumFunctionOnSet(f, T) = f[x] + SumFunctionOnSet(f, T \ {x})
  <2>1. CASE x = c
    BY <1>8, <2>1
  <2>2. CASE x # c
    <3>1. x \in T \ {c} /\ c \in T \ {x} /\ (T \ {c}) \ {x} = (T \ {x}) \ {c}
      BY <1>7, <2>2
    <3>2. SumFunctionOnSet(f, T \ {c}) = f[x] + SumFunctionOnSet(f, (T \ {c}) \ {x})
      BY <1>6, <1>7, <3>1
    <3>3. SumFunctionOnSet(f, T \ {x}) = f[c] + SumFunctionOnSet(f, (T \ {x}) \ {c})
      BY <1>6, <3>1
    <3>4. SumFunctionOnSet(f, (T \ {x}) \ {c}) \in Int
      <4>1. (T \ {x}) \in SUBSET S /\ Cardinality(T \ {x}) = m - 1
        BY <1>3, <1>5, FS_RemoveElement
      <4>2. (T \ {x}) \ {c} \in SUBSET S /\ Cardinality((T \ {x}) \ {c}) = m - 2
        <5>1. IsFiniteSet(T \ {x})
          BY <1>5, FS_RemoveElement
        <5>2. Cardinality((T \ {x}) \ {c}) = Cardinality(T \ {x}) - 1
          BY <3>1, <5>1, FS_RemoveElement
        <5> QED
          BY <1>5, <4>1, <5>2
      <4>3. Cardinality((T \ {x}) \ {c}) \in Nat
        BY <1>5, FS_RemoveElement, FS_CardinalityType
      <4>4. m - 2 \in Nat /\ m - 2 \notin Bad
        BY <1>2, <1>5, <4>2, <4>3
      <4> QED
        BY <4>2, <4>4
    <3>5. f[x] \in Int /\ f[c] \in Int
      BY <1>5, <1>7
    <3>6. SumFunctionOnSet(f, T \ {c}) = f[x] + SumFunctionOnSet(f, (T \ {x}) \ {c})
      BY <3>1, <3>2
    <3> HIDE DEF Bad
    <3> QED
      BY <1>8, <3>3, <3>4, <3>5, <3>6
  <2> QED
    BY <2>1, <2>2
<1> QED
  BY <1>3, <1>9, <1>10

Pieces(B, S) == UNION {B[x] : x \in S}

\* The sum of the sizes of disjoint sets is the size of their union.
LEMMA SumIsCardinality ==
  ASSUME NEW f, NEW S, IsFiniteSet(S), NEW B,
         \A x \in S : IsFiniteSet(B[x]) /\ Cardinality(B[x]) = f[x],
         \A x \in S, y \in S : x # y => B[x] \cap B[y] = {}
  PROVE  /\ IsFiniteSet(Pieces(B, S))
         /\ SumFunctionOnSet(f, S) = Cardinality(Pieces(B, S))
<1> DEFINE Whole(T) == Pieces(B, T)
           Good(T) == IsFiniteSet(Whole(T)) /\ SumFunctionOnSet(f, T) = Cardinality(Whole(T))
           Bad == {k \in Nat : \E T \in SUBSET S : Cardinality(T) = k /\ ~Good(T)}
<1> SUFFICES ASSUME ~Good(S) PROVE FALSE
  OBVIOUS
<1>0. \A x \in S : f[x] \in Int
  BY FS_CardinalityType
<1>1. Bad # {}
  <2>1. Cardinality(S) \in Nat /\ S \in SUBSET S
    BY FS_CardinalityType
  <2> QED
    BY <2>1
<1>2. PICK m \in Bad : \A k \in Bad : m <= k
  BY <1>1, LeastNat
<1>3. PICK T \in SUBSET S : Cardinality(T) = m /\ ~Good(T)
  BY <1>2
<1>4. T # {}
  <2>1. Whole({}) = {}
    BY DEF Pieces
  <2>2. Good({})
    BY <2>1, SumEmpty, FS_EmptySet
  <2> QED
    BY <1>3, <2>2
<1>5. PICK x \in T : TRUE
  BY <1>4
<1>6. IsFiniteSet(T) /\ m \in Nat
  BY <1>3, FS_Subset
<1>7. T \ {x} \in SUBSET S /\ Cardinality(T \ {x}) = m - 1 /\ Cardinality(T \ {x}) \in Nat
  BY <1>3, <1>5, <1>6, FS_RemoveElement, FS_CardinalityType
<1>8. Good(T \ {x})
  <2>1. m - 1 \in Nat
    BY <1>6, <1>7
  <2>2. m - 1 \notin Bad
    <3> HIDE DEF Bad
    <3> QED
      BY <1>2, <1>6
  <2> QED
    BY <1>7, <2>1, <2>2
<1>9. Whole(T) = B[x] \cup Whole(T \ {x}) /\ B[x] \cap Whole(T \ {x}) = {}
  BY <1>5 DEF Pieces
<1>10. SumFunctionOnSet(f, T) = f[x] + SumFunctionOnSet(f, T \ {x})
  BY <1>0, <1>5, <1>6, SumRemove
<1> DEFINE W == Whole(T \ {x})
<1>11. /\ IsFiniteSet(B[x]) /\ Cardinality(B[x]) = f[x] /\ f[x] \in Int
       /\ IsFiniteSet(W) /\ Cardinality(W) = SumFunctionOnSet(f, T \ {x}) /\ Cardinality(W) \in Nat
  BY <1>0, <1>5, <1>8, FS_CardinalityType
<1>12. Whole(T) = B[x] \cup W /\ B[x] \cap W = {}
  BY <1>9
<1> HIDE DEF W
<1>13. IsFiniteSet(B[x] \cup W) /\ Cardinality(B[x] \cup W) = f[x] + Cardinality(W)
  <2>1. /\ IsFiniteSet(B[x] \cup W)
        /\ Cardinality(B[x] \cup W) = Cardinality(B[x]) + Cardinality(W) - Cardinality(B[x] \cap W)
    BY <1>11, FS_Union
  <2>2. Cardinality(B[x] \cap W) = 0
    BY <1>12, FS_EmptySet
  <2> QED
    BY <1>11, <2>1, <2>2
<1> QED
  BY <1>3, <1>10, <1>11, <1>12, <1>13

LEMMA SumPlus ==
  ASSUME NEW f, NEW g, NEW h, NEW S, IsFiniteSet(S),
         \A x \in S : f[x] \in Int /\ g[x] \in Int /\ h[x] = f[x] + g[x]
  PROVE  SumFunctionOnSet(h, S) = SumFunctionOnSet(f, S) + SumFunctionOnSet(g, S)
<1> DEFINE Good(T) == SumFunctionOnSet(h, T) = SumFunctionOnSet(f, T) + SumFunctionOnSet(g, T)
           Bad == {k \in Nat : \E T \in SUBSET S : Cardinality(T) = k /\ ~Good(T)}
<1> SUFFICES ASSUME ~Good(S) PROVE FALSE
  OBVIOUS
<1>1. Bad # {}
  <2>1. Cardinality(S) \in Nat /\ S \in SUBSET S
    BY FS_CardinalityType
  <2> QED
    BY <2>1
<1>2. PICK m \in Bad : \A k \in Bad : m <= k
  BY <1>1, LeastNat
<1>3. PICK T \in SUBSET S : Cardinality(T) = m /\ ~Good(T)
  BY <1>2
<1>4. T # {}
  <2>1. Good({})
    BY SumEmpty
  <2> QED
    BY <1>3, <2>1
<1>5. PICK x \in T : TRUE
  BY <1>4
<1>6. IsFiniteSet(T) /\ m \in Nat
  BY <1>3, FS_Subset
<1>7. /\ T \ {x} \in SUBSET S /\ Cardinality(T \ {x}) = m - 1 /\ Cardinality(T \ {x}) \in Nat
      /\ IsFiniteSet(T \ {x})
  BY <1>3, <1>5, <1>6, FS_RemoveElement, FS_CardinalityType
<1>8. Good(T \ {x})
  <2>1. m - 1 \in Nat /\ m - 1 \notin Bad
    BY <1>2, <1>6, <1>7
  <2> QED
    BY <1>7, <2>1
<1>9. /\ SumFunctionOnSet(f, T) = f[x] + SumFunctionOnSet(f, T \ {x})
      /\ SumFunctionOnSet(g, T) = g[x] + SumFunctionOnSet(g, T \ {x})
      /\ SumFunctionOnSet(h, T) = h[x] + SumFunctionOnSet(h, T \ {x})
      /\ SumFunctionOnSet(f, T \ {x}) \in Int
      /\ SumFunctionOnSet(g, T \ {x}) \in Int
  <2>1. \A y \in T : f[y] \in Int /\ g[y] \in Int /\ h[y] \in Int
    OBVIOUS
  <2> QED
    BY <1>5, <1>6, <1>7, <2>1, SumRemove
<1>10. f[x] \in Int /\ g[x] \in Int /\ h[x] = f[x] + g[x]
  BY <1>5
<1> QED
  BY <1>3, <1>8, <1>9, <1>10

-----------------------------------------------------------------------------
(* Sequences of segments that tile an interval of bytes. *)

Tiles(ss, a, b) ==
  /\ ss = << >> => a = b
  /\ ss # << >> => ss[1].off = a /\ End(ss[Len(ss)]) = b
  /\ \A i \in 1 .. Len(ss) - 1 : End(ss[i]) = ss[i + 1].off

LEMMA SegmentType ==
  ASSUME NEW s \in Segment
  PROVE  /\ s.off \in Nat /\ s.len \in Nat \ {0} /\ End(s) \in Nat /\ s.off < End(s)
         /\ s.path \in Path \cup {None} /\ s.sacked \in BOOLEAN
BY DEF Segment, End

LEMMA TilingTiles == ASSUME TypeOK PROVE Tiling <=> Tiles(segs, cumAcked, sentOff)
<1> DEFINE ends == <<cumAcked>> \o [i \in DOMAIN segs |-> End(segs[i])]
<1>1. segs \in Seq(Segment) /\ Len(segs) \in Nat /\ DOMAIN segs = 1 .. Len(segs)
  BY DEF TypeOK
<1>2. \A i \in DOMAIN segs : End(segs[i]) \in Nat
  BY <1>1, SegmentType
<1>3. [i \in DOMAIN segs |-> End(segs[i])] \in Seq(Nat)
  BY <1>1, <1>2
<1>4. /\ ends \in Seq(Nat) /\ Len(ends) = Len(segs) + 1 /\ ends[1] = cumAcked
      /\ \A i \in DOMAIN segs : ends[i + 1] = End(segs[i])
  <2>1. Len([i \in DOMAIN segs |-> End(segs[i])]) = Len(segs)
    BY <1>1
  <2>2. <<cumAcked>> \in Seq(Nat)
    BY DEF TypeOK
  <2> QED
    BY <1>1, <1>3, <2>1, <2>2
<1>5. Tiling <=> /\ \A i \in DOMAIN segs : segs[i].off = ends[i]
                 /\ ends[Len(ends)] = sentOff
  BY DEF Tiling
<1> HIDE DEF ends
<1>6. CASE segs = << >>
  BY <1>4, <1>5, <1>6 DEF Tiles
<1>7. CASE segs # << >>
  <2>1. Len(segs) >= 1
    BY <1>1, <1>7
  <2>2. ends[Len(ends)] = End(segs[Len(segs)])
    BY <1>1, <1>4, <2>1
  <2>3. (\A i \in DOMAIN segs : segs[i].off = ends[i])
          <=> /\ segs[1].off = cumAcked
              /\ \A i \in 1 .. Len(segs) - 1 : segs[i + 1].off = End(segs[i])
    <3>1. ASSUME \A i \in DOMAIN segs : segs[i].off = ends[i]
          PROVE  /\ segs[1].off = cumAcked
                 /\ \A i \in 1 .. Len(segs) - 1 : segs[i + 1].off = End(segs[i])
      BY <1>1, <1>4, <2>1, <3>1, SMTT(30)
    <3>2. ASSUME segs[1].off = cumAcked,
                 \A i \in 1 .. Len(segs) - 1 : segs[i + 1].off = End(segs[i]),
                 NEW i \in DOMAIN segs
          PROVE  segs[i].off = ends[i]
      <4>1. CASE i = 1
        BY <1>4, <3>2, <4>1
      <4>2. CASE i # 1
        <5>1. i - 1 \in 1 .. Len(segs) - 1 /\ i - 1 \in DOMAIN segs /\ (i - 1) + 1 = i
          BY <1>1, <3>2, <4>2
        <5>2. segs[i].off = End(segs[i - 1])
          BY <3>2, <5>1
        <5>3. ends[i] = End(segs[i - 1])
          BY <1>4, <5>1
        <5> QED
          BY <5>2, <5>3
      <4> QED
        BY <4>1, <4>2
    <3> QED
      BY <3>1, <3>2
  <2> QED
    BY <1>5, <1>7, <2>2, <2>3 DEF Tiles
<1> QED
  BY <1>6, <1>7

\* Later segments lie behind earlier ones.
LEMMA TilesOrdered ==
  ASSUME NEW ss \in Seq(Segment), NEW a \in Nat, NEW b \in Nat, Tiles(ss, a, b),
         NEW i \in DOMAIN ss, NEW j \in DOMAIN ss, i < j
  PROVE  End(ss[i]) <= ss[j].off
<1> DEFINE Bad == {k \in DOMAIN ss : i < k /\ ~(End(ss[i]) <= ss[k].off)}
<1>0. DOMAIN ss = 1 .. Len(ss) /\ Len(ss) \in Nat
  OBVIOUS
<1>1. SUFFICES ASSUME Bad # {} PROVE FALSE
  OBVIOUS
<1>2. Bad \in SUBSET Nat
  BY <1>0
<1>3. PICK m \in Bad : \A k \in Bad : m <= k
  BY <1>1, <1>2, LeastNat
<1>4. m - 1 \in 1 .. Len(ss) - 1 /\ m - 1 \in DOMAIN ss /\ m \in DOMAIN ss /\ i < m
  BY <1>0, <1>3
<1>5. End(ss[m - 1]) = ss[m].off
  BY <1>4 DEF Tiles
<1>6. ss[i] \in Segment /\ ss[m - 1] \in Segment /\ ss[m] \in Segment
  BY <1>4
<1>7. CASE m - 1 = i
  BY <1>3, <1>5, <1>6, <1>7, SegmentType
<1>8. CASE m - 1 # i
  <2>1. i < m - 1
    BY <1>0, <1>4, <1>8
  <2>2. m - 1 \notin Bad
    BY <1>0, <1>3
  <2>3. End(ss[i]) <= ss[m - 1].off
    BY <1>4, <2>1, <2>2
  <2>4. End(ss[i]) \in Int /\ ss[m - 1].off \in Int /\ End(ss[m - 1]) \in Int
        /\ ss[m - 1].off <= End(ss[m - 1])
    BY <1>6, SegmentType
  <2>5. End(ss[i]) <= ss[m].off
    BY ONLY <1>5, <2>3, <2>4
  <2> QED
    BY <1>3, <2>5, Zenon
<1> QED
  BY <1>7, <1>8

LEMMA TilesWithin ==
  ASSUME NEW ss \in Seq(Segment), NEW a \in Nat, NEW b \in Nat, Tiles(ss, a, b)
  PROVE  /\ a <= b
         /\ \A i \in DOMAIN ss : a <= ss[i].off /\ End(ss[i]) <= b
<1>0. DOMAIN ss = 1 .. Len(ss) /\ Len(ss) \in Nat
  OBVIOUS
<1>1. ASSUME NEW i \in DOMAIN ss PROVE a <= ss[i].off /\ End(ss[i]) <= b
  <2>1. 1 \in DOMAIN ss /\ Len(ss) \in DOMAIN ss /\ ss # << >>
    BY <1>0, <1>1
  <2>2. ss[1].off = a /\ End(ss[Len(ss)]) = b
    BY <2>1 DEF Tiles
  <2>3. /\ ss[1].off < End(ss[1]) /\ ss[i].off < End(ss[i])
        /\ ss[Len(ss)].off < End(ss[Len(ss)])
        /\ ss[1].off \in Nat /\ End(ss[1]) \in Nat /\ ss[i].off \in Nat /\ End(ss[i]) \in Nat
        /\ ss[Len(ss)].off \in Nat /\ End(ss[Len(ss)]) \in Nat
    BY <2>1, <1>1, SegmentType
  <2>4. i = 1 \/ End(ss[1]) <= ss[i].off
    BY <1>0, <1>1, <2>1, TilesOrdered
  <2>5. i = Len(ss) \/ End(ss[i]) <= ss[Len(ss)].off
    BY <1>0, <1>1, <2>1, TilesOrdered
  <2> QED
    BY <2>2, <2>3, <2>4, <2>5
<1>2. a <= b
  <2>1. CASE ss = << >>
    BY <2>1 DEF Tiles
  <2>2. CASE ss # << >>
    <3>1. 1 \in DOMAIN ss
      BY <1>0, <2>2
    <3> QED
      BY <1>1, <3>1, SegmentType
  <2> QED
    BY <2>1, <2>2
<1> QED
  BY <1>1, <1>2

LEMMA TilesConcat ==
  ASSUME NEW s \in Seq(Segment), NEW t \in Seq(Segment), NEW a, NEW b, NEW c,
         Tiles(s, a, b), Tiles(t, b, c)
  PROVE  s \o t \in Seq(Segment) /\ Tiles(s \o t, a, c)
<1>0. s \o t \in Seq(Segment) /\ Len(s \o t) = Len(s) + Len(t) /\ Len(s) \in Nat /\ Len(t) \in Nat
  OBVIOUS
<1>1. /\ \A i \in 1 .. Len(s) : (s \o t)[i] = s[i]
      /\ \A i \in 1 .. Len(t) : (s \o t)[Len(s) + i] = t[i]
  OBVIOUS
<1>2. CASE s = << >>
  <2>1. a = b /\ s \o t = t
    BY <1>2 DEF Tiles
  <2> QED
    BY <2>1, <1>0
<1>3. CASE t = << >>
  <2>1. b = c /\ s \o t = s
    BY <1>3 DEF Tiles
  <2> QED
    BY <2>1, <1>0
<1>4. CASE s # << >> /\ t # << >>
  <2>1. Len(s) >= 1 /\ Len(t) >= 1
    BY <1>4
  <2>2. s \o t # << >>
    BY <1>0, <2>1
  <2>3. (s \o t)[1].off = a
    BY <1>1, <1>4, <2>1 DEF Tiles
  <2>4. (s \o t)[Len(s \o t)] = t[Len(t)]
    BY <1>0, <1>1, <2>1
  <2>5. End((s \o t)[Len(s \o t)]) = c
    BY <1>4, <2>4 DEF Tiles
  <2>6. ASSUME NEW i \in 1 .. Len(s \o t) - 1
        PROVE  End((s \o t)[i]) = (s \o t)[i + 1].off
    <3>1. CASE i < Len(s)
      <4>1. i \in 1 .. Len(s) - 1 /\ i \in 1 .. Len(s) /\ i + 1 \in 1 .. Len(s)
        BY <1>0, <3>1
      <4> QED
        BY <1>1, <4>1 DEF Tiles
    <3>2. CASE i = Len(s)
      <4>1. (s \o t)[i] = s[Len(s)] /\ (s \o t)[i + 1] = t[1]
        BY <1>0, <1>1, <2>1, <3>2
      <4> QED
        BY <1>4, <4>1 DEF Tiles
    <3>3. CASE i > Len(s)
      <4>1. PICK k \in 1 .. Len(t) - 1 : i = Len(s) + k
        <5>1. i - Len(s) \in 1 .. Len(t) - 1 /\ i = Len(s) + (i - Len(s))
          BY <1>0, <3>3
        <5> QED
          BY <5>1
      <4>2. (s \o t)[i] = t[k] /\ (s \o t)[i + 1] = t[k + 1]
        <5>1. k \in 1 .. Len(t) /\ k + 1 \in 1 .. Len(t) /\ i + 1 = Len(s) + (k + 1)
          BY <1>0, <4>1
        <5> QED
          BY <1>1, <4>1, <5>1
      <4> QED
        BY <4>1, <4>2 DEF Tiles
    <3> QED
      BY <1>0, <3>1, <3>2, <3>3
  <2> QED
    BY <1>0, <2>2, <2>3, <2>5, <2>6 DEF Tiles
<1> QED
  BY <1>2, <1>3, <1>4

LEMMA TilesOne ==
  ASSUME NEW s \in Segment
  PROVE  <<s>> \in Seq(Segment) /\ Tiles(<<s>>, s.off, End(s))
<1>1. <<s>> \in Seq(Segment) /\ Len(<<s>>) = 1 /\ <<s>>[1] = s /\ <<s>> # << >>
  OBVIOUS
<1> QED
  BY <1>1 DEF Tiles

\* Segments that keep their bytes keep the tiling.
SameBytes(ss, tt) ==
  /\ Len(tt) = Len(ss)
  /\ \A i \in 1 .. Len(ss) : tt[i].off = ss[i].off /\ tt[i].len = ss[i].len

LEMMA TilesRecoloured ==
  ASSUME NEW ss \in Seq(Segment), NEW tt \in Seq(Segment), SameBytes(ss, tt),
         NEW a, NEW b, Tiles(ss, a, b)
  PROVE  Tiles(tt, a, b)
<1>0. Len(ss) \in Nat /\ Len(tt) = Len(ss)
  BY DEF SameBytes
<1>1. \A i \in 1 .. Len(ss) : tt[i].off = ss[i].off /\ End(tt[i]) = End(ss[i])
  BY DEF SameBytes, End
<1>2. CASE ss = << >>
  BY <1>0, <1>2 DEF Tiles
<1>3. CASE ss # << >>
  <2>1. 1 \in 1 .. Len(ss) /\ Len(ss) \in 1 .. Len(ss)
    BY <1>3
  <2>2. \A i \in 1 .. Len(ss) - 1 : i \in 1 .. Len(ss) /\ i + 1 \in 1 .. Len(ss)
    BY <1>0
  <2> QED
    BY <1>0, <1>1, <1>3, <2>1, <2>2 DEF Tiles
<1> QED
  BY <1>2, <1>3

\* The segments before and behind one of them.
LEMMA TilesAround ==
  ASSUME NEW ss \in Seq(Segment), NEW a, NEW b, Tiles(ss, a, b), NEW i \in DOMAIN ss
  PROVE  /\ SubSeq(ss, 1, i - 1) \in Seq(Segment) /\ Tiles(SubSeq(ss, 1, i - 1), a, ss[i].off)
         /\ SubSeq(ss, i + 1, Len(ss)) \in Seq(Segment)
         /\ Tiles(SubSeq(ss, i + 1, Len(ss)), End(ss[i]), b)
<1>0. Len(ss) \in Nat /\ i \in 1 .. Len(ss) /\ ss # << >>
  OBVIOUS
<1> DEFINE pre == SubSeq(ss, 1, i - 1)
           post == SubSeq(ss, i + 1, Len(ss))
<1>1. /\ pre \in Seq(Segment) /\ Len(pre) = i - 1
      /\ \A k \in 1 .. i - 1 : pre[k] = ss[k]
  BY <1>0
<1>2. /\ post \in Seq(Segment) /\ Len(post) = Len(ss) - i
      /\ \A k \in 1 .. Len(ss) - i : post[k] = ss[i + k]
  BY <1>0
<1> HIDE DEF pre, post
<1>3. Tiles(pre, a, ss[i].off)
  <2>1. CASE i = 1
    BY <1>0, <1>1, <2>1 DEF Tiles
  <2>2. CASE i > 1
    <3>1. pre # << >> /\ pre[1] = ss[1] /\ pre[Len(pre)] = ss[i - 1] /\ i - 1 \in 1 .. Len(ss) - 1
      BY <1>0, <1>1, <2>2
    <3>2. End(ss[i - 1]) = ss[i].off
      BY <1>0, <3>1 DEF Tiles
    <3>3. \A k \in 1 .. Len(pre) - 1 :
            pre[k] = ss[k] /\ pre[k + 1] = ss[k + 1] /\ k \in 1 .. Len(ss) - 1
      BY <1>0, <1>1
    <3> QED
      BY <1>0, <3>1, <3>2, <3>3 DEF Tiles
  <2> QED
    BY <1>0, <2>1, <2>2
<1>4. Tiles(post, End(ss[i]), b)
  <2>1. CASE i = Len(ss)
    BY <1>0, <1>2, <2>1 DEF Tiles
  <2>2. CASE i < Len(ss)
    <3>1. /\ post # << >> /\ post[1] = ss[i + 1] /\ post[Len(post)] = ss[Len(ss)]
          /\ i \in 1 .. Len(ss) - 1
      BY <1>0, <1>2, <2>2
    <3>2. ss[i + 1].off = End(ss[i])
      BY <3>1 DEF Tiles
    <3>3. ASSUME NEW k \in 1 .. Len(post) - 1
          PROVE  /\ post[k] = ss[i + k] /\ post[k + 1] = ss[(i + k) + 1]
                 /\ i + k \in 1 .. Len(ss) - 1
      <4>1. /\ k \in 1 .. Len(ss) - i /\ k + 1 \in 1 .. Len(ss) - i
            /\ i + (k + 1) = (i + k) + 1 /\ i + k \in 1 .. Len(ss) - 1
        BY <1>0, <1>2
      <4> QED
        BY ONLY <1>2, <4>1
    <3>4. \A k \in 1 .. Len(post) - 1 : End(post[k]) = post[k + 1].off
      BY <3>3 DEF Tiles
    <3> QED
      BY <1>0, <3>1, <3>2, <3>4 DEF Tiles
  <2> QED
    BY <1>0, <2>1, <2>2
<1> QED
  BY <1>1, <1>2, <1>3, <1>4 DEF pre, post

-----------------------------------------------------------------------------
(* What the helpers of the model choose and build. *)

LEMMA BytesType ==
  ASSUME NEW s \in Segment
  PROVE  BytesOf(s) \subseteq Nat /\ s.off \in BytesOf(s)
BY SegmentType DEF BytesOf

\* firstHole finds a run of bytes that no range covers.
LEMMA HoleFacts ==
  ASSUME NEW s \in Segment, cover \subseteq Nat, ~CoveredBy(s)
  PROVE  /\ HoleStart(s) \in Nat /\ s.off <= HoleStart(s) /\ HoleStart(s) < End(s)
         /\ s.off .. HoleStart(s) - 1 \subseteq cover
         /\ HoleEnd(s) \in HoleStart(s) + 1 .. End(s)
         /\ HoleStart(s) .. HoleEnd(s) - 1 \cap cover = {}
<1>0. s.off \in Nat /\ End(s) \in Nat /\ s.off < End(s)
  BY SegmentType
<1>1. \E b \in BytesOf(s) \ cover : \A c \in BytesOf(s) \ cover : b <= c
  <2>1. BytesOf(s) \ cover \in SUBSET Nat /\ BytesOf(s) \ cover # {}
    BY BytesType DEF CoveredBy
  <2> QED
    BY <2>1, LeastNat
<1>2. HoleStart(s) \in BytesOf(s) \ cover /\ \A c \in BytesOf(s) \ cover : HoleStart(s) <= c
  BY <1>1 DEF HoleStart
<1>3. HoleStart(s) \in Nat /\ s.off <= HoleStart(s) /\ HoleStart(s) < End(s)
  BY <1>0, <1>2 DEF BytesOf
<1>4. s.off .. HoleStart(s) - 1 \subseteq cover
  <2> SUFFICES ASSUME NEW b \in s.off .. HoleStart(s) - 1, b \notin cover PROVE FALSE
    OBVIOUS
  <2>1. b \in BytesOf(s) \ cover
    BY <1>0, <1>3 DEF BytesOf
  <2> QED
    BY <1>0, <1>2, <1>3, <2>1
<1> DEFINE Stops == {e \in HoleStart(s) + 1 .. End(s) : e = End(s) \/ e \in cover}
<1>5. PICK e \in Stops : \A d \in Stops : e <= d
  <2>1. Stops \in SUBSET Nat /\ End(s) \in Stops
    BY <1>0, <1>3
  <2> QED
    BY <2>1, LeastNat
<1>6. HoleStart(s) .. e - 1 \cap cover = {}
  <2> SUFFICES ASSUME NEW b \in HoleStart(s) .. e - 1, b \in cover PROVE FALSE
    OBVIOUS
  <2>1. b # HoleStart(s)
    BY <1>2
  <2>2. b \in Stops /\ b < e
    BY <1>0, <1>3, <1>5, <2>1
  <2> QED
    BY <1>0, <1>3, <1>5, <2>2
<1>7. \E d \in HoleStart(s) + 1 .. End(s) : /\ HoleStart(s) .. d - 1 \cap cover = {}
                                            /\ d = End(s) \/ d \in cover
  BY <1>5, <1>6
<1>8. HoleEnd(s) \in HoleStart(s) + 1 .. End(s) /\ HoleStart(s) .. HoleEnd(s) - 1 \cap cover = {}
  BY <1>7 DEF HoleEnd
<1> QED
  BY <1>3, <1>4, <1>8

LEMMA NextResendFacts ==
  ASSUME TypeOK, Candidates # {}
  PROVE  /\ NextResend \in DOMAIN segs /\ InPool(segs[NextResend]) /\ ~CoveredBy(segs[NextResend])
         /\ \A j \in Candidates : NextResend <= j
<1>1. Candidates \in SUBSET Nat
  <2>1. DOMAIN segs = 1 .. Len(segs) /\ Len(segs) \in Nat
    BY DEF TypeOK
  <2> QED
    BY <2>1 DEF Candidates
<1>2. NextResend \in Candidates /\ \A j \in Candidates : NextResend <= j
  BY <1>1, LeastNat DEF NextResend
<1> QED
  BY <1>2 DEF Candidates

\* nextResendLocked only sets marks, on covered segments of the pool.
LEMMA MarkedFacts ==
  ASSUME TypeOK
  PROVE  /\ Marked \in Seq(Segment) /\ SameBytes(segs, Marked)
         /\ \A i \in 1 .. Len(segs) :
              /\ Marked[i].path = segs[i].path
              /\ \/ Marked[i] = segs[i]
                 \/ InPool(segs[i]) /\ CoveredBy(segs[i]) /\ Marked[i].sacked = TRUE
<1>0. segs \in Seq(Segment) /\ Len(segs) \in Nat /\ DOMAIN segs = 1 .. Len(segs)
  BY DEF TypeOK
<1>1. ASSUME NEW i \in 1 .. Len(segs)
      PROVE  /\ Marked[i] \in Segment
             /\ Marked[i].off = segs[i].off /\ Marked[i].len = segs[i].len
             /\ Marked[i].path = segs[i].path
             /\ \/ Marked[i] = segs[i]
                \/ InPool(segs[i]) /\ CoveredBy(segs[i]) /\ Marked[i].sacked = TRUE
  <2>1. segs[i] \in Segment
    BY <1>0
  <2>2. \/ Marked[i] = segs[i]
        \/ /\ InPool(segs[i]) /\ CoveredBy(segs[i])
           /\ Marked[i] = [segs[i] EXCEPT !.sacked = TRUE]
    BY <1>0 DEF Marked
  <2> QED
    BY <2>1, <2>2 DEF Segment
<1>2. Marked = [i \in 1 .. Len(segs) |-> Marked[i]]
  BY <1>0 DEF Marked
<1>3. Marked \in Seq(Segment) /\ Len(Marked) = Len(segs)
  <2> DEFINE m(i) == Marked[i]
  <2>1. \A i \in 1 .. Len(segs) : m(i) \in Segment
    BY <1>1
  <2>2. Marked = [i \in 1 .. Len(segs) |-> m(i)]
    BY <1>2
  <2> HIDE DEF m
  <2>3. /\ [i \in 1 .. Len(segs) |-> m(i)] \in Seq(Segment)
        /\ Len([i \in 1 .. Len(segs) |-> m(i)]) = Len(segs)
    BY <1>0, <2>1
  <2> QED
    BY <2>2, <2>3
<1> QED
  BY <1>1, <1>3 DEF SameBytes

\* splitResendLocked keeps the tiling.
LEMMA SplitFacts ==
  ASSUME NEW s \in Segment, NEW p \in Path, NEW at \in Nat, NEW n \in Nat \ {0},
         s.off <= at, at + n <= End(s)
  PROVE  /\ Covered(s, at) \in Seq(Segment) /\ Tiles(Covered(s, at), s.off, at)
         /\ <<Sent(at, n, p)>> \in Seq(Segment) /\ Tiles(<<Sent(at, n, p)>>, at, at + n)
         /\ Remainder(s, at + n) \in Seq(Segment) /\ Tiles(Remainder(s, at + n), at + n, End(s))
         /\ Split(s, at, n, p) \in Seq(Segment) /\ Tiles(Split(s, at, n, p), s.off, End(s))
<1>0. s.off \in Nat /\ End(s) \in Nat
  BY SegmentType
<1>1. Covered(s, at) \in Seq(Segment) /\ Tiles(Covered(s, at), s.off, at)
  <2>1. CASE at > s.off
    <3> DEFINE c == [off |-> s.off, len |-> at - s.off, path |-> None, sacked |-> TRUE]
    <3>1. c \in Segment /\ End(c) = at /\ c.off = s.off
      BY <1>0, <2>1 DEF Segment, End
    <3>2. Covered(s, at) = <<c>>
      BY <2>1 DEF Covered
    <3> HIDE DEF c
    <3> QED
      BY <3>1, <3>2, TilesOne
  <2>2. CASE ~(at > s.off)
    BY <1>0, <2>2 DEF Covered, Tiles
  <2> QED
    BY <2>1, <2>2
<1>2. <<Sent(at, n, p)>> \in Seq(Segment) /\ Tiles(<<Sent(at, n, p)>>, at, at + n)
  <2>1. Sent(at, n, p) \in Segment /\ End(Sent(at, n, p)) = at + n /\ Sent(at, n, p).off = at
    BY DEF Sent, Segment, End
  <2> QED
    BY <2>1, TilesOne
<1>3. Remainder(s, at + n) \in Seq(Segment) /\ Tiles(Remainder(s, at + n), at + n, End(s))
  <2>1. CASE at + n < End(s)
    <3> DEFINE c == [off |-> at + n, len |-> End(s) - (at + n), path |-> None, sacked |-> FALSE]
    <3>1. c \in Segment /\ End(c) = End(s) /\ c.off = at + n
      BY <1>0, <2>1 DEF Segment, End
    <3>2. Remainder(s, at + n) = <<c>>
      BY <2>1 DEF Remainder
    <3> HIDE DEF c
    <3> QED
      BY <3>1, <3>2, TilesOne
  <2>2. CASE ~(at + n < End(s))
    BY <1>0, <2>2 DEF Remainder, Tiles
  <2> QED
    BY <2>1, <2>2
<1>4. Split(s, at, n, p) \in Seq(Segment) /\ Tiles(Split(s, at, n, p), s.off, End(s))
  <2>1. /\ Covered(s, at) \o <<Sent(at, n, p)>> \in Seq(Segment)
        /\ Tiles(Covered(s, at) \o <<Sent(at, n, p)>>, s.off, at + n)
    BY <1>1, <1>2, TilesConcat
  <2> QED
    BY <1>3, <2>1, TilesConcat DEF Split
<1> QED
  BY <1>1, <1>2, <1>3, <1>4

\* freeAckedLocked releases a prefix of the list.
LEMMA ReleasedFacts ==
  ASSUME TypeOK, NEW cum \in Nat
  PROVE  /\ Released(cum) \in 0 .. Len(segs)
         /\ \A i \in 1 .. Released(cum) : End(segs[i]) <= cum
         /\ Released(cum) < Len(segs) => End(segs[Released(cum) + 1]) > cum
<1>0. segs \in Seq(Segment) /\ Len(segs) \in Nat /\ DOMAIN segs = 1 .. Len(segs)
  BY DEF TypeOK
<1> DEFINE Stops == {k \in 0 .. Len(segs) : k < Len(segs) => End(segs[k + 1]) > cum}
<1>1. PICK k \in Stops : \A j \in Stops : k <= j
  <2>1. Stops \in SUBSET Nat /\ Len(segs) \in Stops
    BY <1>0
  <2> QED
    BY <2>1, LeastNat
<1>2. \A i \in 1 .. k : End(segs[i]) <= cum
  <2> SUFFICES ASSUME NEW i \in 1 .. k, ~(End(segs[i]) <= cum) PROVE FALSE
    OBVIOUS
  <2>1. segs[i] \in Segment
    BY <1>0, <1>1
  <2>2. End(segs[i]) > cum
    BY <2>1, SegmentType
  <2>3. i - 1 \in Stops /\ i - 1 < k /\ k \in Nat /\ i - 1 \in Nat
    BY <1>0, <1>1, <2>2
  <2> HIDE DEF Stops
  <2> QED
    BY <1>1, <2>3
<1>3. \E j \in 0 .. Len(segs) : /\ \A i \in 1 .. j : End(segs[i]) <= cum
                                /\ j < Len(segs) => End(segs[j + 1]) > cum
  BY <1>1, <1>2
<1> QED
  BY <1>3 DEF Released

\* freeAckedLocked keeps what lies at or above cum.
LEMMA RestFacts ==
  ASSUME TypeOK, Tiling, NEW cum \in cumAcked .. sentOff
  PROVE  /\ Rest(cum) \in Seq(Segment)
         /\ Len(Rest(cum)) = Len(segs) - Released(cum)
         /\ Tiles(Rest(cum), cum, sentOff)
         /\ \A i \in 1 .. Len(segs) - Released(cum) :
              LET s == segs[Released(cum) + i]
                  r == Rest(cum)[i]
              IN /\ r.path = s.path /\ r.sacked = s.sacked /\ End(r) = End(s)
                 /\ s.off <= r.off
                 /\ s.off < r.off => r.off = cum
<1> DEFINE k == Released(cum)
           R == Rest(cum)
<1>0. /\ segs \in Seq(Segment) /\ Len(segs) \in Nat /\ DOMAIN segs = 1 .. Len(segs)
      /\ cum \in Nat /\ cumAcked \in Nat /\ sentOff \in Nat /\ cumAcked <= cum /\ cum <= sentOff
  BY DEF TypeOK
<1>1. /\ k \in 0 .. Len(segs)
      /\ \A i \in 1 .. k : End(segs[i]) <= cum
      /\ k < Len(segs) => End(segs[k + 1]) > cum
  BY <1>0, ReleasedFacts
<1>2. Tiles(segs, cumAcked, sentOff)
  BY TilingTiles
<1>3. k < Len(segs) => segs[k + 1].off <= cum
  <2> SUFFICES ASSUME k < Len(segs) PROVE segs[k + 1].off <= cum
    OBVIOUS
  <2>1. CASE k = 0
    BY <1>0, <1>2, <2>1 DEF Tiles
  <2>2. CASE k # 0
    <3>1. k \in 1 .. Len(segs) - 1 /\ k \in 1 .. k
      BY <1>0, <1>1, <2>2
    <3> QED
      BY <1>1, <1>2, <3>1 DEF Tiles
  <2> QED
    BY <2>1, <2>2
<1>4. R = [i \in 1 .. Len(segs) - k |-> IF i = 1 THEN Above(segs[k + 1], cum) ELSE segs[k + i]]
  BY DEF Rest
<1> HIDE DEF k, R
<1>5. ASSUME NEW i \in 1 .. Len(segs) - k
      PROVE  /\ R[i] \in Segment
             /\ R[i].path = segs[k + i].path /\ R[i].sacked = segs[k + i].sacked
             /\ End(R[i]) = End(segs[k + i])
             /\ segs[k + i].off <= R[i].off
             /\ segs[k + i].off < R[i].off => R[i].off = cum
             /\ i = 1 => R[i].off = cum
             /\ i # 1 => R[i] = segs[k + i]
  <2>1. segs[k + i] \in Segment /\ i \in Nat /\ k \in Nat
    BY <1>0, <1>1
  <2>2. CASE i # 1
    BY <1>4, <2>1, <2>2, SegmentType
  <2>3. CASE i = 1
    <3> DEFINE s == segs[k + 1]
    <3>1. s \in Segment /\ End(s) > cum /\ s.off <= cum /\ R[1] = Above(s, cum) /\ k + i = k + 1
      BY <1>0, <1>1, <1>3, <1>4, <2>1, <2>3
    <3> HIDE DEF s
    <3>2. s.off \in Nat /\ End(s) \in Nat
      BY <3>1, SegmentType
    <3>3. CASE s.off < cum
      <4>1. R[1] = [s EXCEPT !.off = cum, !.len = End(s) - cum]
        BY <3>1, <3>3 DEF Above
      <4>2. End(s) - cum \in Nat \ {0}
        BY <1>0, <3>1, <3>2
      <4>3. /\ R[1] \in Segment /\ R[1].off = cum /\ R[1].len = End(s) - cum
            /\ R[1].path = s.path /\ R[1].sacked = s.sacked
        BY <1>0, <3>1, <4>1, <4>2 DEF Segment
      <4>4. End(R[1]) = End(s)
        BY <1>0, <3>2, <4>3 DEF End
      <4> QED
        BY <2>3, <3>1, <3>2, <3>3, <4>3, <4>4 DEF s
    <3>4. CASE ~(s.off < cum)
      <4>1. R[1] = s /\ s.off = cum
        BY <1>0, <3>1, <3>2, <3>4 DEF Above
      <4> QED
        BY <2>3, <3>1, <3>2, <4>1 DEF s
    <3> QED
      BY <3>3, <3>4
  <2> QED
    BY <2>2, <2>3
<1>6. R \in Seq(Segment) /\ Len(R) = Len(segs) - k
  <2>1. Len(segs) - k \in Nat
    BY <1>0, <1>1
  <2> DEFINE r(i) == R[i]
  <2>2. \A i \in 1 .. Len(segs) - k : r(i) \in Segment
    BY <1>5
  <2>3. R = [i \in 1 .. Len(segs) - k |-> r(i)]
    BY <1>4
  <2> HIDE DEF r
  <2>4. /\ [i \in 1 .. Len(segs) - k |-> r(i)] \in Seq(Segment)
        /\ Len([i \in 1 .. Len(segs) - k |-> r(i)]) = Len(segs) - k
    BY <2>1, <2>2
  <2> QED
    BY <2>3, <2>4
<1>7. Tiles(R, cum, sentOff)
  <2>1. CASE k = Len(segs)
    <3>1. R = << >>
      BY <1>0, <1>6, <2>1
    <3>2. cum = sentOff
      <4>1. CASE Len(segs) = 0
        BY <1>0, <1>2, <4>1 DEF Tiles
      <4>2. CASE Len(segs) # 0
        <5>1. Len(segs) \in 1 .. k /\ segs # << >>
          BY <1>0, <2>1, <4>2
        <5> QED
          BY <1>0, <1>1, <1>2, <5>1 DEF Tiles
      <4> QED
        BY <4>1, <4>2
    <3> QED
      BY <3>1, <3>2 DEF Tiles
  <2>2. CASE k < Len(segs)
    <3>1. 1 \in 1 .. Len(segs) - k /\ Len(R) \in 1 .. Len(segs) - k /\ k + Len(R) = Len(segs)
      BY <1>0, <1>1, <1>6, <2>2
    <3>2. R # << >> /\ segs # << >>
      BY <1>0, <1>1, <1>6, <2>2, <3>1
    <3>3. R[1].off = cum /\ End(R[Len(R)]) = End(segs[Len(segs)])
      BY <1>5, <3>1
    <3>4. End(segs[Len(segs)]) = sentOff
      BY <1>2, <3>2 DEF Tiles
    <3>5. ASSUME NEW i \in 1 .. Len(R) - 1 PROVE End(R[i]) = R[i + 1].off
      <4>1. /\ i \in 1 .. Len(segs) - k /\ i + 1 \in 1 .. Len(segs) - k /\ i + 1 # 1
            /\ k + i \in 1 .. Len(segs) - 1 /\ k + (i + 1) = (k + i) + 1
        BY <1>0, <1>1, <1>6
      <4>2. End(R[i]) = End(segs[k + i]) /\ R[i + 1] = segs[(k + i) + 1]
        BY <1>5, <4>1
      <4> QED
        BY <1>2, <4>1, <4>2 DEF Tiles
    <3> QED
      BY <3>2, <3>3, <3>4, <3>5 DEF Tiles
  <2>3. k \in 0 .. Len(segs)
    BY <1>1
  <2>4. Len(segs) \in Nat
    BY <1>0
  <2>5. k = Len(segs) \/ k < Len(segs)
    BY <2>3, <2>4
  <2> QED
    BY <2>1, <2>2, <2>5
<1> QED
  BY <1>5, <1>6, <1>7 DEF k, R

-----------------------------------------------------------------------------
(* The bytes of a list of segments: the byte b has owner w, and mark 1 if it
   has been struck from the resend list, 0 if not. *)

Mark(s) == IF s.sacked THEN 1 ELSE 0

Holds(ss, b, w, m) ==
  \E i \in 1 .. Len(ss) : b \in BytesOf(ss[i]) /\ ss[i].path = w /\ Mark(ss[i]) = m

BytesWith(ss, w, m) == {b \in Nat : Holds(ss, b, w, m)}

LEMMA OneSegmentPerByte ==
  ASSUME NEW ss \in Seq(Segment), NEW x \in Nat, NEW y \in Nat, Tiles(ss, x, y),
         NEW i \in 1 .. Len(ss), NEW j \in 1 .. Len(ss), NEW b,
         b \in BytesOf(ss[i]), b \in BytesOf(ss[j])
  PROVE  i = j
<1>1. ss[i] \in Segment /\ ss[j] \in Segment /\ DOMAIN ss = 1 .. Len(ss)
  OBVIOUS
<1>2. /\ b \in Nat /\ ss[i].off \in Nat /\ ss[j].off \in Nat
      /\ End(ss[i]) \in Nat /\ End(ss[j]) \in Nat
      /\ ss[i].off <= b /\ b < End(ss[i]) /\ ss[j].off <= b /\ b < End(ss[j])
  BY <1>1, SegmentType DEF BytesOf
<1>3. ~(i < j)
  <2>1. i < j => End(ss[i]) <= ss[j].off
    BY <1>1, TilesOrdered, Zenon
  <2> QED
    BY ONLY <1>2, <2>1
<1>4. ~(j < i)
  <2>1. j < i => End(ss[j]) <= ss[i].off
    BY <1>1, TilesOrdered, Zenon
  <2> QED
    BY ONLY <1>2, <2>1
<1> QED
  BY <1>3, <1>4

LEMMA OneOwner ==
  ASSUME NEW ss \in Seq(Segment), NEW x \in Nat, NEW y \in Nat, Tiles(ss, x, y),
         NEW b, NEW w, NEW m, NEW v, NEW n, Holds(ss, b, w, m), Holds(ss, b, v, n)
  PROVE  w = v /\ m = n
<1>1. PICK i \in 1 .. Len(ss) : b \in BytesOf(ss[i]) /\ ss[i].path = w /\ Mark(ss[i]) = m
  BY DEF Holds
<1>2. PICK j \in 1 .. Len(ss) : b \in BytesOf(ss[j]) /\ ss[j].path = v /\ Mark(ss[j]) = n
  BY DEF Holds
<1>3. i = j
  BY <1>1, <1>2, OneSegmentPerByte
<1> QED
  BY <1>1, <1>2, <1>3

LEMMA HoldsRange ==
  ASSUME NEW ss \in Seq(Segment), NEW x \in Nat, NEW y \in Nat, Tiles(ss, x, y),
         NEW b, NEW w, NEW m, Holds(ss, b, w, m)
  PROVE  b \in Nat /\ x <= b /\ b < y
<1>1. PICK i \in 1 .. Len(ss) : b \in BytesOf(ss[i])
  BY DEF Holds
<1>2. ss[i] \in Segment /\ i \in DOMAIN ss
  OBVIOUS
<1>3. x <= ss[i].off /\ End(ss[i]) <= y
  BY <1>2, TilesWithin
<1> QED
  BY <1>1, <1>2, <1>3, SegmentType DEF BytesOf

LEMMA HoldsConcat ==
  ASSUME NEW s \in Seq(Segment), NEW t \in Seq(Segment), NEW b, NEW w, NEW m
  PROVE  Holds(s \o t, b, w, m) <=> Holds(s, b, w, m) \/ Holds(t, b, w, m)
<1>0. Len(s \o t) = Len(s) + Len(t) /\ Len(s) \in Nat /\ Len(t) \in Nat
  OBVIOUS
<1>1. /\ \A i \in 1 .. Len(s) : (s \o t)[i] = s[i]
      /\ \A i \in 1 .. Len(t) : (s \o t)[Len(s) + i] = t[i]
  OBVIOUS
<1>2. ASSUME Holds(s, b, w, m) PROVE Holds(s \o t, b, w, m)
  <2>1. PICK i \in 1 .. Len(s) : b \in BytesOf(s[i]) /\ s[i].path = w /\ Mark(s[i]) = m
    BY <1>2 DEF Holds
  <2>2. i \in 1 .. Len(s \o t) /\ (s \o t)[i] = s[i]
    BY <1>0, <1>1
  <2> QED
    BY <2>1, <2>2 DEF Holds
<1>3. ASSUME Holds(t, b, w, m) PROVE Holds(s \o t, b, w, m)
  <2>1. PICK i \in 1 .. Len(t) : b \in BytesOf(t[i]) /\ t[i].path = w /\ Mark(t[i]) = m
    BY <1>3 DEF Holds
  <2>2. Len(s) + i \in 1 .. Len(s \o t) /\ (s \o t)[Len(s) + i] = t[i]
    BY <1>0, <1>1
  <2> QED
    BY <2>1, <2>2 DEF Holds
<1>4. ASSUME Holds(s \o t, b, w, m) PROVE Holds(s, b, w, m) \/ Holds(t, b, w, m)
  <2>1. PICK i \in 1 .. Len(s \o t) : /\ b \in BytesOf((s \o t)[i])
                                      /\ (s \o t)[i].path = w /\ Mark((s \o t)[i]) = m
    BY <1>4 DEF Holds
  <2>2. CASE i <= Len(s)
    <3>1. i \in 1 .. Len(s) /\ (s \o t)[i] = s[i]
      BY <1>0, <1>1, <2>2
    <3> QED
      BY <2>1, <3>1 DEF Holds
  <2>3. CASE i > Len(s)
    <3>1. i - Len(s) \in 1 .. Len(t) /\ i = Len(s) + (i - Len(s))
      BY <1>0, <2>3
    <3>2. (s \o t)[i] = t[i - Len(s)]
      BY <1>1, <3>1
    <3> QED
      BY <2>1, <3>1, <3>2 DEF Holds
  <2> QED
    BY <1>0, <2>2, <2>3
<1> QED
  BY <1>2, <1>3, <1>4

LEMMA HoldsOne ==
  ASSUME NEW s, NEW b, NEW w, NEW m
  PROVE  Holds(<<s>>, b, w, m) <=> b \in BytesOf(s) /\ s.path = w /\ Mark(s) = m
<1>1. Len(<<s>>) = 1 /\ <<s>>[1] = s
  OBVIOUS
<1> QED
  BY <1>1 DEF Holds

LEMMA HoldsNone == ASSUME NEW b, NEW w, NEW m PROVE ~Holds(<< >>, b, w, m)
BY DEF Holds

\* A list around one of its segments.
LEMMA HoldsAround ==
  ASSUME NEW ss \in Seq(Segment), NEW i \in 1 .. Len(ss), NEW b, NEW w, NEW m
  PROVE  Holds(ss, b, w, m) <=>
           \/ Holds(SubSeq(ss, 1, i - 1), b, w, m)
           \/ b \in BytesOf(ss[i]) /\ ss[i].path = w /\ Mark(ss[i]) = m
           \/ Holds(SubSeq(ss, i + 1, Len(ss)), b, w, m)
<1> DEFINE pre == SubSeq(ss, 1, i - 1)
           post == SubSeq(ss, i + 1, Len(ss))
<1>0. Len(ss) \in Nat
  OBVIOUS
<1>1. Len(pre) = i - 1 /\ \A k \in 1 .. i - 1 : pre[k] = ss[k]
  BY <1>0
<1>2. Len(post) = Len(ss) - i /\ \A k \in 1 .. Len(ss) - i : post[k] = ss[i + k]
  BY <1>0
<1> HIDE DEF pre, post
<1> DEFINE At(k) == b \in BytesOf(ss[k]) /\ ss[k].path = w /\ Mark(ss[k]) = m
<1>3. Holds(ss, b, w, m) <=> \E k \in 1 .. Len(ss) : At(k)
  BY DEF Holds
<1>4. Holds(pre, b, w, m) <=> \E k \in 1 .. i - 1 : At(k)
  BY <1>1 DEF Holds
<1>5. Holds(post, b, w, m) <=> \E k \in 1 .. Len(ss) - i : At(i + k)
  BY <1>2 DEF Holds
<1> HIDE DEF At
<1>6. (\E k \in 1 .. Len(ss) : At(k))
        <=> (\E k \in 1 .. i - 1 : At(k)) \/ At(i) \/ (\E k \in 1 .. Len(ss) - i : At(i + k))
  <2>1. ASSUME NEW k \in 1 .. Len(ss), At(k)
        PROVE  (\E j \in 1 .. i - 1 : At(j)) \/ At(i) \/ (\E j \in 1 .. Len(ss) - i : At(i + j))
    <3>1. CASE k < i
      BY <1>0, <2>1, <3>1
    <3>2. CASE k = i
      BY <2>1, <3>2
    <3>3. CASE k > i
      <4>1. k - i \in 1 .. Len(ss) - i /\ i + (k - i) = k
        BY <1>0, <3>3
      <4>2. At(i + (k - i))
        BY <2>1, <4>1
      <4> QED
        BY <4>1, <4>2
    <3> QED
      BY <1>0, <3>1, <3>2, <3>3
  <2>2. ASSUME NEW k \in 1 .. i - 1, At(k) PROVE \E j \in 1 .. Len(ss) : At(j)
    <3>1. k \in 1 .. Len(ss)
      BY <1>0
    <3> QED
      BY <2>2, <3>1
  <2>3. ASSUME NEW k \in 1 .. Len(ss) - i, At(i + k) PROVE \E j \in 1 .. Len(ss) : At(j)
    <3>1. i + k \in 1 .. Len(ss)
      BY <1>0
    <3> QED
      BY <2>3, <3>1
  <2> QED
    BY <2>1, <2>2, <2>3
<1> QED
  BY <1>3, <1>4, <1>5, <1>6 DEF At, pre, post

-----------------------------------------------------------------------------
(* What each handler does to the bytes. *)

\* SendNothing, SendNew and Resend start with the marks of nextResendLocked.
LEMMA MarkedHolds ==
  ASSUME TypeOK, NEW b, NEW w
  PROVE  /\ Holds(segs, b, w, 1) => Holds(Marked, b, w, 1)
         /\ Holds(Marked, b, w, 1) => Holds(segs, b, w, 1) \/ (b \in cover /\ w = None)
         /\ Holds(Marked, b, w, 0) => Holds(segs, b, w, 0)
         /\ w # None => (Holds(Marked, b, w, 0) <=> Holds(segs, b, w, 0))
<1>0. segs \in Seq(Segment) /\ Len(Marked) = Len(segs)
  BY MarkedFacts DEF TypeOK, SameBytes
<1>1. ASSUME NEW i \in 1 .. Len(segs)
      PROVE  /\ BytesOf(Marked[i]) = BytesOf(segs[i])
             /\ Marked[i].path = segs[i].path
             /\ \/ Mark(Marked[i]) = Mark(segs[i])
                \/ /\ segs[i].path = None /\ BytesOf(segs[i]) \subseteq cover
                   /\ Mark(segs[i]) = 0 /\ Mark(Marked[i]) = 1
  <2>1. BytesOf(Marked[i]) = BytesOf(segs[i])
    BY MarkedFacts DEF SameBytes, BytesOf, End
  <2>2. /\ Marked[i].path = segs[i].path
        /\ \/ Marked[i] = segs[i]
           \/ InPool(segs[i]) /\ CoveredBy(segs[i]) /\ Marked[i].sacked = TRUE
    BY MarkedFacts
  <2>3. CASE Marked[i] = segs[i]
    BY <2>1, <2>3
  <2>4. CASE InPool(segs[i]) /\ CoveredBy(segs[i]) /\ Marked[i].sacked = TRUE
    BY <2>1, <2>2, <2>4 DEF InPool, CoveredBy, Mark
  <2> QED
    BY <2>2, <2>3, <2>4
<1>2. ASSUME Holds(segs, b, w, 1) PROVE Holds(Marked, b, w, 1)
  <2>1. PICK i \in 1 .. Len(segs) : b \in BytesOf(segs[i]) /\ segs[i].path = w /\ Mark(segs[i]) = 1
    BY <1>2 DEF Holds
  <2>2. b \in BytesOf(Marked[i]) /\ Marked[i].path = w /\ Mark(Marked[i]) = 1
    BY <1>1, <2>1
  <2> QED
    BY <1>0, <2>2 DEF Holds
<1>3. ASSUME Holds(Marked, b, w, 1) PROVE Holds(segs, b, w, 1) \/ (b \in cover /\ w = None)
  <2>1. PICK i \in 1 .. Len(segs) :
          b \in BytesOf(Marked[i]) /\ Marked[i].path = w /\ Mark(Marked[i]) = 1
    BY <1>0, <1>3 DEF Holds
  <2>2. /\ b \in BytesOf(segs[i]) /\ segs[i].path = w
        /\ Mark(segs[i]) = 1 \/ (BytesOf(segs[i]) \subseteq cover /\ w = None)
    BY <1>1, <2>1
  <2> QED
    BY <2>2 DEF Holds
<1>4. ASSUME Holds(Marked, b, w, 0) PROVE Holds(segs, b, w, 0)
  <2>1. PICK i \in 1 .. Len(segs) :
          b \in BytesOf(Marked[i]) /\ Marked[i].path = w /\ Mark(Marked[i]) = 0
    BY <1>0, <1>4 DEF Holds
  <2>2. b \in BytesOf(segs[i]) /\ segs[i].path = w /\ Mark(segs[i]) = 0
    BY <1>1, <2>1
  <2> QED
    BY <2>2 DEF Holds
<1>5. ASSUME w # None, Holds(segs, b, w, 0) PROVE Holds(Marked, b, w, 0)
  <2>1. PICK i \in 1 .. Len(segs) : b \in BytesOf(segs[i]) /\ segs[i].path = w /\ Mark(segs[i]) = 0
    BY <1>5 DEF Holds
  <2>2. b \in BytesOf(Marked[i]) /\ Marked[i].path = w /\ Mark(Marked[i]) = 0
    BY <1>1, <1>5, <2>1
  <2> QED
    BY <1>0, <2>2 DEF Holds
<1> QED
  BY <1>2, <1>3, <1>4, <1>5

\* The list after a resend.
ResendFacts(p) ==
  LET s == segs[NextResend]
      at == HoleStart(s)
      n == Min2(HoleEnd(s) - at, MaxFrame)
  IN /\ NextResend \in 1 .. Len(segs) /\ s \in Segment /\ s.path = None /\ s.sacked = FALSE
     /\ at \in Nat /\ n \in Nat \ {0} /\ s.off <= at /\ at + n <= End(s)
     /\ s.off .. at - 1 \subseteq cover /\ at .. at + n - 1 \cap cover = {}
     /\ Marked[NextResend] = s
     /\ segs' = SubSeq(Marked, 1, NextResend - 1) \o Split(s, at, n, p)
                  \o SubSeq(Marked, NextResend + 1, Len(Marked))
     /\ inflight' = [inflight EXCEPT ![p] = @ + n]

LEMMA ResendShape ==
  ASSUME TypeOK, NEW p \in Path, Resend(p)
  PROVE  ResendFacts(p)
<1> DEFINE i == NextResend
           s == segs[i]
           at == HoleStart(s)
           n == Min2(HoleEnd(s) - at, MaxFrame)
<1>0. segs \in Seq(Segment) /\ Len(segs) \in Nat /\ DOMAIN segs = 1 .. Len(segs)
  BY DEF TypeOK
<1>1. /\ i \in 1 .. Len(segs) /\ InPool(s) /\ ~CoveredBy(s)
      /\ \A j \in Candidates : i <= j
  <2>1. Candidates # {}
    BY DEF Resend
  <2> QED
    BY <1>0, <2>1, NextResendFacts
<1>2. s \in Segment /\ s.path = None /\ s.sacked = FALSE
  <2>1. s \in Segment
    BY <1>0, <1>1
  <2> QED
    BY <1>1, <2>1, SegmentType DEF InPool
<1> HIDE DEF s
<1>3. /\ at \in Nat /\ s.off <= at /\ at < End(s)
      /\ s.off .. at - 1 \subseteq cover
      /\ HoleEnd(s) \in at + 1 .. End(s)
      /\ at .. HoleEnd(s) - 1 \cap cover = {}
  BY <1>1, <1>2, HoleFacts DEF TypeOK
<1> HIDE DEF at
<1>4. n \in Nat \ {0} /\ at + n <= End(s) /\ n <= HoleEnd(s) - at
  BY <1>2, <1>3, SegmentType, SizesAssumption DEF Min2
<1> HIDE DEF n
<1>5. at .. at + n - 1 \cap cover = {}
  <2>1. at .. at + n - 1 \subseteq at .. HoleEnd(s) - 1
    <3>1. HoleEnd(s) \in Nat
      BY <1>2, <1>3, SegmentType
    <3> QED
      BY <1>3, <1>4, <3>1
  <2> QED
    BY <1>3, <2>1
<1>6. i \in Candidates
  BY <1>0, <1>1 DEF Candidates, s
<1>7. \A j \in 1 .. Len(segs) : j >= i => Marked[j] = segs[j]
  <2> SUFFICES ASSUME NEW j \in 1 .. Len(segs), j >= i PROVE Marked[j] = segs[j]
    OBVIOUS
  <2>1. ~(\A k \in Candidates : j < k)
    BY <1>1, <1>6
  <2> QED
    BY <1>0, <2>1 DEF Marked
<1>8. Marked[i] = s
  BY <1>1, <1>7 DEF s
<1>9. Marked \in Seq(Segment) /\ Len(Marked) = Len(segs)
  BY MarkedFacts DEF SameBytes
<1>10. SubSeq(Marked, i + 1, Len(Marked)) = SubSeq(segs, i + 1, Len(segs))
  <2>1. \A j \in i + 1 .. Len(segs) : Marked[j] = segs[j]
    BY <1>0, <1>1, <1>7
  <2>2. SubSeq(Marked, i + 1, Len(Marked)) = [k \in 1 .. Len(segs) - i |-> Marked[i + k]]
    BY <1>0, <1>1, <1>9
  <2>3. SubSeq(segs, i + 1, Len(segs)) = [k \in 1 .. Len(segs) - i |-> segs[i + k]]
    BY <1>0, <1>1
  <2>4. \A k \in 1 .. Len(segs) - i : Marked[i + k] = segs[i + k]
    <3> TAKE k \in 1 .. Len(segs) - i
    <3>1. i + k \in i + 1 .. Len(segs)
      BY <1>0, <1>1
    <3> QED
      BY <2>1, <3>1
  <2> QED
    BY <2>2, <2>3, <2>4
<1>11. /\ segs' = SubSeq(Marked, 1, i - 1) \o Split(s, at, n, p) \o SubSeq(segs, i + 1, Len(segs))
       /\ inflight' = [inflight EXCEPT ![p] = @ + n]
  BY DEF Resend, s, at, n
<1>12. segs' = SubSeq(Marked, 1, i - 1) \o Split(s, at, n, p) \o SubSeq(Marked, i + 1, Len(Marked))
  BY <1>10, <1>11
<1> HIDE DEF i
<1>13. /\ i \in 1 .. Len(segs) /\ s \in Segment /\ s.path = None /\ s.sacked = FALSE
       /\ at \in Nat /\ n \in Nat \ {0} /\ s.off <= at /\ at + n <= End(s)
       /\ s.off .. at - 1 \subseteq cover /\ at .. at + n - 1 \cap cover = {}
       /\ Marked[i] = s
       /\ segs' = SubSeq(Marked, 1, i - 1) \o Split(s, at, n, p)
                    \o SubSeq(Marked, i + 1, Len(Marked))
       /\ inflight' = [inflight EXCEPT ![p] = @ + n]
  BY <1>1, <1>2, <1>3, <1>4, <1>5, <1>8, <1>11, <1>12
<1> QED
  BY <1>13 DEF ResendFacts, i, s, at, n

-----------------------------------------------------------------------------
(* Lengths are numbers of bytes. *)

LEMMA IntervalCard ==
  ASSUME NEW a \in Nat, NEW b \in Nat, a <= b
  PROVE  IsFiniteSet(a .. b - 1) /\ Cardinality(a .. b - 1) = b - a
<1>1. a \in Int /\ b - 1 \in Int
  OBVIOUS
<1>2. /\ IsFiniteSet(a .. b - 1)
      /\ Cardinality(a .. b - 1) = IF a > b - 1 THEN 0 ELSE (b - 1) - a + 1
  BY <1>1, FS_Interval
<1> QED
  BY <1>2

LEMMA FiniteBytes ==
  ASSUME NEW ss \in Seq(Segment), NEW x \in Nat, NEW y \in Nat, Tiles(ss, x, y), NEW w, NEW m
  PROVE  /\ IsFiniteSet(BytesWith(ss, w, m)) /\ BytesWith(ss, w, m) \subseteq x .. y - 1
         /\ Cardinality(BytesWith(ss, w, m)) \in Nat
<1>1. BytesWith(ss, w, m) \subseteq x .. y - 1
  <2> SUFFICES ASSUME NEW b \in BytesWith(ss, w, m) PROVE b \in x .. y - 1
    OBVIOUS
  <2>1. b \in Nat /\ x <= b /\ b < y
    BY HoldsRange DEF BytesWith
  <2> QED
    BY <2>1
<1>2. IsFiniteSet(x .. y - 1)
  <2>1. x <= y
    BY TilesWithin
  <2> QED
    BY <2>1, IntervalCard
<1> QED
  BY <1>1, <1>2, FS_Subset, FS_CardinalityType

\* A sum over pieces of different segments is the number of bytes in them.
LEMMA SumOfPieces ==
  ASSUME TypeOK, Tiling, NEW I \in SUBSET DOMAIN segs, NEW g, NEW B,
         \A i \in I : IsFiniteSet(B[i]) /\ Cardinality(B[i]) = g[i] /\ B[i] \subseteq BytesOf(segs[i])
  PROVE  /\ IsFiniteSet(Pieces(B, I))
         /\ SumFunctionOnSet(g, I) = Cardinality(Pieces(B, I))
<1>0. segs \in Seq(Segment) /\ Len(segs) \in Nat /\ DOMAIN segs = 1 .. Len(segs)
  BY DEF TypeOK
<1>1. IsFiniteSet(I)
  <2>1. IsFiniteSet(1 .. Len(segs))
    <3>1. 1 \in Int /\ Len(segs) \in Int
      BY <1>0
    <3> QED
      BY <3>1, FS_Interval
  <2> QED
    BY <1>0, <2>1, FS_Subset
<1>2. \A i \in I, j \in I : i # j => B[i] \cap B[j] = {}
  <2> SUFFICES ASSUME NEW i \in I, NEW j \in I, NEW b, b \in B[i], b \in B[j] PROVE i = j
    OBVIOUS
  <2>1. /\ Tiles(segs, cumAcked, sentOff) /\ cumAcked \in Nat /\ sentOff \in Nat
        /\ i \in 1 .. Len(segs) /\ j \in 1 .. Len(segs)
        /\ b \in BytesOf(segs[i]) /\ b \in BytesOf(segs[j])
    BY <1>0, TilingTiles DEF TypeOK
  <2> QED
    BY <1>0, <2>1, OneSegmentPerByte
<1>3. \A i \in I : IsFiniteSet(B[i]) /\ Cardinality(B[i]) = g[i]
  OBVIOUS
<1> QED
  BY <1>1, <1>2, <1>3, SumIsCardinality

LEMMA LenIsCard ==
  ASSUME TypeOK, Tiling, NEW I \in SUBSET DOMAIN segs
  PROVE  /\ IsFiniteSet(UNION {BytesOf(segs[i]) : i \in I})
         /\ LenOf(I) = Cardinality(UNION {BytesOf(segs[i]) : i \in I})
<1> DEFINE B == [i \in DOMAIN segs |-> BytesOf(segs[i])]
           g == [i \in DOMAIN segs |-> segs[i].len]
<1>1. ASSUME NEW i \in I
      PROVE  IsFiniteSet(B[i]) /\ Cardinality(B[i]) = g[i] /\ B[i] \subseteq BytesOf(segs[i])
  <2>1. segs[i] \in Segment
    BY DEF TypeOK
  <2>2. segs[i].off \in Nat /\ End(segs[i]) \in Nat /\ segs[i].off <= End(segs[i])
        /\ End(segs[i]) - segs[i].off = segs[i].len
    BY <2>1, SegmentType DEF End
  <2>3. IsFiniteSet(BytesOf(segs[i])) /\ Cardinality(BytesOf(segs[i])) = segs[i].len
    BY <2>2, IntervalCard DEF BytesOf
  <2> QED
    BY <2>3
<1>2. Pieces(B, I) = UNION {BytesOf(segs[i]) : i \in I}
  BY DEF Pieces
<1>3. LenOf(I) = SumFunctionOnSet(g, I)
  BY DEF LenOf
<1> HIDE DEF B, g
<1>4. \A i \in I : IsFiniteSet(B[i]) /\ Cardinality(B[i]) = g[i] /\ B[i] \subseteq BytesOf(segs[i])
  BY <1>1
<1>5. /\ IsFiniteSet(Pieces(B, I))
      /\ SumFunctionOnSet(g, I) = Cardinality(Pieces(B, I))
  BY <1>4, SumOfPieces
<1> QED
  BY <1>2, <1>3, <1>5

\* The ledger in terms of bytes.
LEMMA LedgerOfBytes ==
  ASSUME TypeOK, Tiling, NEW p \in Path
  PROVE  LenOf(OnPath(p)) = Cardinality(BytesWith(segs, p, 0))
<1>0. segs \in Seq(Segment) /\ DOMAIN segs = 1 .. Len(segs)
  BY DEF TypeOK
<1>1. OnPath(p) \in SUBSET DOMAIN segs
  BY DEF OnPath
<1>2. \A i \in DOMAIN segs : segs[i].sacked \in BOOLEAN /\ BytesOf(segs[i]) \subseteq Nat
  BY <1>0, SegmentType, BytesType
<1>3. UNION {BytesOf(segs[i]) : i \in OnPath(p)} = BytesWith(segs, p, 0)
  <2>1. ASSUME NEW b, b \in UNION {BytesOf(segs[i]) : i \in OnPath(p)}
        PROVE  b \in BytesWith(segs, p, 0)
    <3>1. PICK i \in OnPath(p) : b \in BytesOf(segs[i])
      BY <2>1
    <3>2. i \in 1 .. Len(segs) /\ segs[i].path = p /\ Mark(segs[i]) = 0 /\ b \in Nat
      BY <1>0, <1>2, <3>1 DEF OnPath, Mark
    <3> QED
      BY <3>1, <3>2 DEF BytesWith, Holds
  <2>2. ASSUME NEW b, b \in BytesWith(segs, p, 0)
        PROVE  b \in UNION {BytesOf(segs[i]) : i \in OnPath(p)}
    <3>1. PICK i \in 1 .. Len(segs) : b \in BytesOf(segs[i]) /\ segs[i].path = p /\ Mark(segs[i]) = 0
      BY <2>2 DEF BytesWith, Holds
    <3>2. i \in OnPath(p)
      BY <1>0, <3>1 DEF OnPath, Mark
    <3> QED
      BY <3>1, <3>2
  <2> QED
    BY <2>1, <2>2
<1> QED
  BY <1>1, <1>3, LenIsCard

-----------------------------------------------------------------------------
(* The tiling and the types over a step. *)

LEMMA NextTiling == TypeOK' => (Tiling' <=> Tiles(segs', cumAcked', sentOff'))
<1> DEFINE Same == TypeOK => (Tiling <=> Tiles(segs, cumAcked, sentOff))
<1>1. Same
  BY TilingTiles
<1>2. Same'
  BY <1>1, PTL
<1> QED
  BY <1>2

LEMMA NextLedgerOfBytes ==
  \A p \in Path : TypeOK' /\ Tiling' => LenOf(OnPath(p))' = Cardinality(BytesWith(segs', p, 0))
<1> DEFINE Same == \A p \in Path : TypeOK /\ Tiling => LenOf(OnPath(p)) = Cardinality(BytesWith(segs, p, 0))
<1>1. Same
  BY LedgerOfBytes
<1>2. Same'
  BY <1>1, PTL
<1> QED
  BY <1>2

-----------------------------------------------------------------------------
(* Resend. *)

LEMMA ResendTypes ==
  ASSUME TypeOK, Tiling, NEW p \in Path, Resend(p)
  PROVE  TypeOK' /\ Tiling'
<1> DEFINE i == NextResend
           s == segs[i]
           at == HoleStart(s)
           n == Min2(HoleEnd(s) - at, MaxFrame)
           pre == SubSeq(Marked, 1, i - 1)
           post == SubSeq(Marked, i + 1, Len(Marked))
           mid == Split(s, at, n, p)
<1>1. /\ i \in 1 .. Len(segs) /\ s \in Segment
      /\ at \in Nat /\ n \in Nat \ {0} /\ s.off <= at /\ at + n <= End(s)
      /\ Marked[i] = s
      /\ segs' = pre \o mid \o post
      /\ inflight' = [inflight EXCEPT ![p] = @ + n]
  BY ResendShape DEF ResendFacts
<1>2. /\ UNCHANGED <<sentOff, cumAcked, cover, live, delivered>>
      /\ segs \in Seq(Segment)
  BY DEF Resend, TypeOK
<1>3. Marked \in Seq(Segment) /\ Len(Marked) = Len(segs) /\ Tiles(Marked, cumAcked, sentOff)
  <2>1. Tiles(segs, cumAcked, sentOff)
    BY TilingTiles
  <2>2. Marked \in Seq(Segment) /\ SameBytes(segs, Marked)
    BY MarkedFacts
  <2>3. Len(Marked) = Len(segs)
    BY <2>2 DEF SameBytes
  <2> QED
    BY <1>2, <2>1, <2>2, <2>3, TilesRecoloured
<1> HIDE DEF i, s, at, n, pre, post, mid
<1>4. /\ pre \in Seq(Segment) /\ Tiles(pre, cumAcked, s.off)
      /\ post \in Seq(Segment) /\ Tiles(post, End(s), sentOff)
  <2>1. i \in DOMAIN Marked
    BY <1>1, <1>3
  <2> QED
    BY <1>1, <1>3, <2>1, TilesAround DEF pre, post
<1>5. mid \in Seq(Segment) /\ Tiles(mid, s.off, End(s))
  BY <1>1, SplitFacts DEF mid
<1>6. pre \o mid \in Seq(Segment) /\ Tiles(pre \o mid, cumAcked, End(s))
  BY <1>4, <1>5, TilesConcat
<1>7. segs' \in Seq(Segment) /\ Tiles(segs', cumAcked, sentOff)
  BY <1>1, <1>4, <1>6, TilesConcat
<1>8. inflight' \in [Path -> Int]
  BY <1>1 DEF TypeOK
<1>9. TypeOK'
  BY <1>2, <1>7, <1>8 DEF TypeOK
<1> QED
  BY <1>2, <1>7, <1>9, NextTiling

\* The hole is sent on p; the covered bytes before it are struck.
LEMMA ResendHolds ==
  ASSUME TypeOK, Tiling, NEW p \in Path, Resend(p)
  PROVE  \E at \in Nat, n \in Nat \ {0} :
           /\ inflight' = [inflight EXCEPT ![p] = @ + n]
           /\ at .. at + n - 1 \cap cover = {}
           /\ \A b \in at .. at + n - 1 : Holds(segs, b, None, 0)
           /\ \A b, w : /\ w # None => (Holds(segs', b, w, 0)
                                          <=> Holds(segs, b, w, 0) \/ (w = p /\ b \in at .. at + n - 1))
                        /\ Holds(segs', b, w, 1) => Holds(segs, b, w, 1) \/ (b \in cover /\ w = None)
                        /\ Holds(segs, b, w, 1) => Holds(segs', b, w, 1)
<1> DEFINE i == NextResend
           s == segs[i]
           at == HoleStart(s)
           n == Min2(HoleEnd(s) - at, MaxFrame)
           pre == SubSeq(Marked, 1, i - 1)
           post == SubSeq(Marked, i + 1, Len(Marked))
           mid == Split(s, at, n, p)
<1>1. /\ i \in 1 .. Len(segs) /\ s \in Segment /\ s.path = None /\ s.sacked = FALSE
      /\ at \in Nat /\ n \in Nat \ {0} /\ s.off <= at /\ at + n <= End(s)
      /\ s.off .. at - 1 \subseteq cover /\ at .. at + n - 1 \cap cover = {}
      /\ Marked[i] = s
      /\ segs' = pre \o mid \o post
      /\ inflight' = [inflight EXCEPT ![p] = @ + n]
  BY ResendShape DEF ResendFacts
<1>2. Marked \in Seq(Segment) /\ i \in 1 .. Len(Marked) /\ segs \in Seq(Segment)
  BY <1>1, MarkedFacts DEF SameBytes, TypeOK
<1>3. pre \in Seq(Segment) /\ post \in Seq(Segment)
  BY <1>2
<1> HIDE DEF i, s, at, n, pre, post, mid
<1>4. /\ mid \in Seq(Segment)
      /\ Covered(s, at) \in Seq(Segment) /\ <<Sent(at, n, p)>> \in Seq(Segment)
      /\ Remainder(s, at + n) \in Seq(Segment)
  BY <1>1, SplitFacts DEF mid
<1>5. BytesOf(s) = s.off .. End(s) - 1 /\ s.off \in Nat /\ End(s) \in Nat
  BY <1>1, SegmentType DEF BytesOf
<1>6. ASSUME NEW b, NEW w, NEW m
      PROVE  Holds(mid, b, w, m) <=> \/ b \in s.off .. at - 1 /\ w = None /\ m = 1
                                     \/ b \in at .. at + n - 1 /\ w = p /\ m = 0
                                     \/ b \in at + n .. End(s) - 1 /\ w = None /\ m = 0
  <2>1. Holds(mid, b, w, m) <=> \/ Holds(Covered(s, at), b, w, m)
                                \/ Holds(<<Sent(at, n, p)>>, b, w, m)
                                \/ Holds(Remainder(s, at + n), b, w, m)
    <3>1. Covered(s, at) \o <<Sent(at, n, p)>> \in Seq(Segment)
      BY <1>4
    <3> QED
      BY <1>4, <3>1, HoldsConcat DEF mid, Split
  <2>2. Holds(Covered(s, at), b, w, m) <=> b \in s.off .. at - 1 /\ w = None /\ m = 1
    <3> DEFINE c == [off |-> s.off, len |-> at - s.off, path |-> None, sacked |-> TRUE]
    <3>1. CASE at > s.off
      <4>1. Covered(s, at) = <<c>>
        BY <3>1 DEF Covered
      <4>2. BytesOf(c) = s.off .. at - 1
        BY <1>1, <1>5 DEF BytesOf, End
      <4>3. c.path = None /\ Mark(c) = 1
        BY DEF Mark
      <4> HIDE DEF c
      <4> QED
        BY <4>1, <4>2, <4>3, HoldsOne
    <3>2. CASE ~(at > s.off)
      <4>1. Covered(s, at) = << >> /\ s.off .. at - 1 = {}
        BY <1>1, <1>5, <3>2 DEF Covered
      <4> QED
        BY <4>1, HoldsNone
    <3> QED
      BY <3>1, <3>2
  <2>3. Holds(<<Sent(at, n, p)>>, b, w, m) <=> b \in at .. at + n - 1 /\ w = p /\ m = 0
    <3>1. BytesOf(Sent(at, n, p)) = at .. at + n - 1
      <4>1. Sent(at, n, p).off = at /\ Sent(at, n, p).len = n
        BY DEF Sent
      <4> QED
        BY <1>1, <4>1 DEF BytesOf, End
    <3>2. Sent(at, n, p).path = p /\ Mark(Sent(at, n, p)) = 0
      BY DEF Sent, Mark
    <3> QED
      BY <3>1, <3>2, HoldsOne
  <2>4. Holds(Remainder(s, at + n), b, w, m) <=> b \in at + n .. End(s) - 1 /\ w = None /\ m = 0
    <3> DEFINE c == [off |-> at + n, len |-> End(s) - (at + n), path |-> None, sacked |-> FALSE]
    <3>1. CASE at + n < End(s)
      <4>1. Remainder(s, at + n) = <<c>>
        BY <3>1 DEF Remainder
      <4>2. BytesOf(c) = at + n .. End(s) - 1
        <5>1. c.off = at + n /\ c.off + c.len = End(s)
          BY <1>1, <1>5
        <5> HIDE DEF c
        <5> QED
          BY <5>1 DEF BytesOf, End
      <4>3. c.path = None /\ Mark(c) = 0
        BY DEF Mark
      <4> HIDE DEF c
      <4> QED
        BY <4>1, <4>2, <4>3, HoldsOne
    <3>2. CASE ~(at + n < End(s))
      <4>1. Remainder(s, at + n) = << >> /\ at + n .. End(s) - 1 = {}
        BY <1>1, <1>5, <3>2 DEF Remainder
      <4> QED
        BY <4>1, HoldsNone
    <3> QED
      BY <3>1, <3>2
  <2> QED
    BY <2>1, <2>2, <2>3, <2>4
<1> DEFINE Else(b, w, m) == Holds(pre, b, w, m) \/ Holds(post, b, w, m)
<1>7. ASSUME NEW b, NEW w, NEW m
      PROVE  /\ Holds(segs', b, w, m) <=> Else(b, w, m) \/ Holds(mid, b, w, m)
             /\ Holds(Marked, b, w, m) <=> Else(b, w, m) \/ (b \in BytesOf(s) /\ w = None /\ m = 0)
  <2>1. pre \o mid \in Seq(Segment)
    BY <1>3, <1>4
  <2>2. Holds(segs', b, w, m) <=> Holds(pre, b, w, m) \/ Holds(mid, b, w, m) \/ Holds(post, b, w, m)
    BY <1>1, <1>3, <1>4, <2>1, HoldsConcat
  <2>3. Holds(Marked, b, w, m) <=> \/ Holds(pre, b, w, m)
                                   \/ b \in BytesOf(s) /\ s.path = w /\ Mark(s) = m
                                   \/ Holds(post, b, w, m)
    BY <1>1, <1>2, HoldsAround DEF pre, post
  <2>4. Mark(s) = 0
    BY <1>1 DEF Mark
  <2> QED
    BY <1>1, <2>2, <2>3, <2>4
<1> HIDE DEF Else
<1>8. \A b \in at .. at + n - 1 : Holds(segs, b, None, 0)
  <2> SUFFICES ASSUME NEW b \in at .. at + n - 1 PROVE Holds(segs, b, None, 0)
    OBVIOUS
  <2>1. b \in BytesOf(s)
    BY <1>1, <1>5
  <2>2. Holds(Marked, b, None, 0)
    BY <1>7, <2>1
  <2> QED
    BY <2>2, MarkedHolds
<1>9. ASSUME NEW b, NEW w
      PROVE  /\ w # None => (Holds(segs', b, w, 0)
                               <=> Holds(segs, b, w, 0) \/ (w = p /\ b \in at .. at + n - 1))
             /\ Holds(segs', b, w, 1) => Holds(segs, b, w, 1) \/ (b \in cover /\ w = None)
             /\ Holds(segs, b, w, 1) => Holds(segs', b, w, 1)
  <2>1. /\ Holds(segs', b, w, 1) <=> Else(b, w, 1) \/ Holds(mid, b, w, 1)
        /\ Holds(Marked, b, w, 1) <=> Else(b, w, 1)
        /\ Holds(mid, b, w, 1) <=> b \in s.off .. at - 1 /\ w = None
    BY <1>6, <1>7
  <2>2. /\ Holds(segs', b, w, 0) <=> Else(b, w, 0) \/ Holds(mid, b, w, 0)
        /\ w # None => (Holds(Marked, b, w, 0) <=> Else(b, w, 0))
        /\ w # None => (Holds(mid, b, w, 0) <=> w = p /\ b \in at .. at + n - 1)
    BY <1>6, <1>7
  <2>3. /\ Holds(segs, b, w, 1) => Holds(Marked, b, w, 1)
        /\ Holds(Marked, b, w, 1) => Holds(segs, b, w, 1) \/ (b \in cover /\ w = None)
        /\ w # None => (Holds(Marked, b, w, 0) <=> Holds(segs, b, w, 0))
    BY MarkedHolds
  <2> QED
    BY <1>1, <2>1, <2>2, <2>3
<1> QED
  BY <1>1, <1>8, <1>9

-----------------------------------------------------------------------------
(* SendNew and SendNothing. *)

LEMMA MarkedTiles ==
  ASSUME TypeOK, Tiling
  PROVE  Marked \in Seq(Segment) /\ Tiles(Marked, cumAcked, sentOff)
<1>1. segs \in Seq(Segment) /\ Tiles(segs, cumAcked, sentOff)
  BY TilingTiles DEF TypeOK
<1>2. Marked \in Seq(Segment) /\ SameBytes(segs, Marked)
  BY MarkedFacts
<1> QED
  BY <1>1, <1>2, TilesRecoloured

LEMMA SendNothingTypes ==
  ASSUME TypeOK, Tiling, SendNothing
  PROVE  TypeOK' /\ Tiling'
<1>1. segs' = Marked /\ UNCHANGED <<sentOff, cumAcked, cover, live, inflight, delivered>>
  BY DEF SendNothing
<1>2. segs' \in Seq(Segment) /\ Tiles(segs', cumAcked, sentOff)
  BY <1>1, MarkedTiles
<1>3. TypeOK'
  BY <1>1, <1>2 DEF TypeOK
<1> QED
  BY <1>1, <1>2, <1>3, NextTiling

\* Fresh data is one more segment at the end.
LEMMA SendNewShape ==
  ASSUME TypeOK, NEW p \in Path, NEW n \in 1 .. MaxFrame, SendNew(n, p)
  PROVE  /\ <<Sent(sentOff, n, p)>> \in Seq(Segment)
         /\ Tiles(<<Sent(sentOff, n, p)>>, sentOff, sentOff + n)
         /\ segs' = Marked \o <<Sent(sentOff, n, p)>>
         /\ sentOff' = sentOff + n /\ n \in Nat \ {0} /\ sentOff \in Nat
         /\ inflight' = [inflight EXCEPT ![p] = @ + n]
         /\ UNCHANGED <<cumAcked, cover, live, delivered>>
<1>1. n \in Nat \ {0} /\ sentOff \in Nat
  BY SizesAssumption DEF TypeOK
<1>2. Sent(sentOff, n, p) \in Segment /\ Sent(sentOff, n, p).off = sentOff
      /\ End(Sent(sentOff, n, p)) = sentOff + n
  BY <1>1 DEF Sent, Segment, End
<1>3. Marked \in Seq(Segment)
  BY MarkedFacts
<1>4. segs' = Append(Marked, Sent(sentOff, n, p))
  BY DEF SendNew, Sent
<1>5. segs' = Marked \o <<Sent(sentOff, n, p)>>
  BY <1>2, <1>3, <1>4
<1> QED
  BY <1>1, <1>2, <1>5, TilesOne DEF SendNew

LEMMA SendNewTypes ==
  ASSUME TypeOK, Tiling, NEW p \in Path, NEW n \in 1 .. MaxFrame, SendNew(n, p)
  PROVE  TypeOK' /\ Tiling'
<1>1. /\ <<Sent(sentOff, n, p)>> \in Seq(Segment)
      /\ Tiles(<<Sent(sentOff, n, p)>>, sentOff, sentOff + n)
      /\ segs' = Marked \o <<Sent(sentOff, n, p)>>
      /\ sentOff' = sentOff + n /\ n \in Nat \ {0} /\ sentOff \in Nat
      /\ inflight' = [inflight EXCEPT ![p] = @ + n]
      /\ UNCHANGED <<cumAcked, cover, live, delivered>>
  BY SendNewShape
<1>2. Marked \in Seq(Segment) /\ Tiles(Marked, cumAcked, sentOff)
  BY MarkedTiles
<1>3. segs' \in Seq(Segment) /\ Tiles(segs', cumAcked, sentOff + n)
  BY <1>1, <1>2, TilesConcat
<1>4. inflight' \in [Path -> Int]
  BY <1>1 DEF TypeOK
<1>5. TypeOK'
  BY <1>1, <1>3, <1>4 DEF TypeOK
<1> QED
  BY <1>1, <1>3, <1>5, NextTiling

LEMMA SendNewHolds ==
  ASSUME TypeOK, NEW p \in Path, NEW n \in 1 .. MaxFrame, SendNew(n, p), NEW b, NEW w
  PROVE  /\ w # None => (Holds(segs', b, w, 0)
                           <=> Holds(segs, b, w, 0) \/ (w = p /\ b \in sentOff .. sentOff + n - 1))
         /\ Holds(segs', b, w, 1) => Holds(segs, b, w, 1) \/ (b \in cover /\ w = None)
         /\ Holds(segs, b, w, 1) => Holds(segs', b, w, 1)
<1> DEFINE s == Sent(sentOff, n, p)
<1>1. <<s>> \in Seq(Segment) /\ segs' = Marked \o <<s>> /\ n \in Nat \ {0} /\ sentOff \in Nat
  BY SendNewShape
<1>2. BytesOf(s) = sentOff .. sentOff + n - 1
  <2>1. s.off = sentOff /\ s.len = n
    BY DEF Sent
  <2> HIDE DEF s
  <2> QED
    BY <1>1, <2>1 DEF BytesOf, End
<1>3. s.path = p /\ Mark(s) = 0
  BY DEF Sent, Mark
<1> HIDE DEF s
<1>4. Marked \in Seq(Segment)
  BY MarkedFacts
<1>5. /\ Holds(segs', b, w, 0) <=> Holds(Marked, b, w, 0) \/ Holds(<<s>>, b, w, 0)
      /\ Holds(segs', b, w, 1) <=> Holds(Marked, b, w, 1) \/ Holds(<<s>>, b, w, 1)
  BY <1>1, <1>4, HoldsConcat
<1>6. /\ Holds(<<s>>, b, w, 0) <=> w = p /\ b \in sentOff .. sentOff + n - 1
      /\ ~Holds(<<s>>, b, w, 1)
  <2>1. /\ Holds(<<s>>, b, w, 0) <=> b \in BytesOf(s) /\ s.path = w /\ Mark(s) = 0
        /\ Holds(<<s>>, b, w, 1) <=> b \in BytesOf(s) /\ s.path = w /\ Mark(s) = 1
    BY HoldsOne
  <2> QED
    BY <1>2, <1>3, <2>1
<1> QED
  BY <1>5, <1>6, MarkedHolds

-----------------------------------------------------------------------------
(* SoftFail and DropPath: the segments keep their bytes. *)

LEMMA Recoloured ==
  ASSUME TypeOK, Tiling, SameBytes(segs, segs'), segs' \in Seq(Segment),
         UNCHANGED <<sentOff, cumAcked, cover, delivered>>,
         live' \subseteq live, inflight' \in [Path -> Int]
  PROVE  TypeOK' /\ Tiling'
<1>1. segs \in Seq(Segment) /\ Tiles(segs, cumAcked, sentOff)
  BY TilingTiles DEF TypeOK
<1>2. Tiles(segs', cumAcked, sentOff)
  BY <1>1, TilesRecoloured
<1>3. TypeOK'
  BY DEF TypeOK
<1> QED
  BY <1>2, <1>3, NextTiling

LEMMA SoftFailShape ==
  ASSUME TypeOK, NEW late \in SUBSET DOMAIN segs, SoftFail(late)
  PROVE  /\ segs' \in Seq(Segment) /\ SameBytes(segs, segs')
         /\ \A i \in 1 .. Len(segs) :
              /\ segs'[i] = Scan(i, late) /\ BytesOf(segs'[i]) = BytesOf(segs[i])
              /\ Mark(segs[i]) = 1 => segs'[i] = segs[i]
              /\ Mark(segs[i]) = 0 =>
                   \/ /\ CoveredBy(segs[i]) /\ Mark(segs'[i]) = 1 /\ segs'[i].path = segs[i].path
                   \/ /\ ~CoveredBy(segs[i]) /\ i \in late
                      /\ Mark(segs'[i]) = 0 /\ segs'[i].path = None
                   \/ ~CoveredBy(segs[i]) /\ i \notin late /\ segs'[i] = segs[i]
<1>0. segs \in Seq(Segment) /\ Len(segs) \in Nat /\ DOMAIN segs = 1 .. Len(segs)
  BY DEF TypeOK
<1>1. segs' = [i \in 1 .. Len(segs) |-> Scan(i, late)]
  BY <1>0 DEF SoftFail
<1>2. ASSUME NEW i \in 1 .. Len(segs)
      PROVE  /\ Scan(i, late) \in Segment
             /\ Scan(i, late).off = segs[i].off /\ Scan(i, late).len = segs[i].len
             /\ Mark(segs[i]) = 1 => Scan(i, late) = segs[i]
             /\ Mark(segs[i]) = 0 =>
                  \/ /\ CoveredBy(segs[i]) /\ Mark(Scan(i, late)) = 1
                     /\ Scan(i, late).path = segs[i].path
                  \/ /\ ~CoveredBy(segs[i]) /\ i \in late
                     /\ Mark(Scan(i, late)) = 0 /\ Scan(i, late).path = None
                  \/ ~CoveredBy(segs[i]) /\ i \notin late /\ Scan(i, late) = segs[i]
  <2>1. segs[i] \in Segment
    BY <1>0
  <2>2. CASE segs[i].sacked
    BY <2>1, <2>2 DEF Scan, Mark
  <2>3. CASE ~segs[i].sacked /\ CoveredBy(segs[i])
    <3>1. Scan(i, late) = [segs[i] EXCEPT !.sacked = TRUE]
      BY <2>3 DEF Scan
    <3>2. Mark(segs[i]) = 0
      BY <2>3 DEF Mark
    <3>3. /\ Scan(i, late) \in Segment
          /\ Scan(i, late).off = segs[i].off /\ Scan(i, late).len = segs[i].len
          /\ Scan(i, late).path = segs[i].path /\ Scan(i, late).sacked = TRUE
      BY <2>1, <3>1 DEF Segment
    <3> QED
      BY <2>3, <3>2, <3>3 DEF Mark
  <2>4. CASE ~segs[i].sacked /\ ~CoveredBy(segs[i]) /\ i \in late
    <3>1. Scan(i, late) = [segs[i] EXCEPT !.path = None]
      BY <2>4 DEF Scan
    <3>2. Mark(segs[i]) = 0
      BY <2>4 DEF Mark
    <3>3. /\ Scan(i, late) \in Segment
          /\ Scan(i, late).off = segs[i].off /\ Scan(i, late).len = segs[i].len
          /\ Scan(i, late).path = None /\ Scan(i, late).sacked = segs[i].sacked
      BY <2>1, <3>1 DEF Segment
    <3> QED
      BY <2>4, <3>2, <3>3 DEF Mark
  <2>5. CASE ~segs[i].sacked /\ ~CoveredBy(segs[i]) /\ i \notin late
    BY <2>1, <2>5 DEF Scan, Mark
  <2> QED
    BY <2>2, <2>3, <2>4, <2>5
<1>3. segs' \in Seq(Segment) /\ Len(segs') = Len(segs) /\ \A i \in 1 .. Len(segs) : segs'[i] = Scan(i, late)
  BY <1>0, <1>1, <1>2
<1> QED
  BY <1>2, <1>3 DEF SameBytes, BytesOf, End

LEMMA DropPathShape ==
  ASSUME TypeOK, NEW p \in Path, DropPath(p)
  PROVE  /\ segs' \in Seq(Segment) /\ SameBytes(segs, segs')
         /\ \A i \in 1 .. Len(segs) :
              /\ BytesOf(segs'[i]) = BytesOf(segs[i]) /\ Mark(segs'[i]) = Mark(segs[i])
              /\ segs'[i].path = IF segs[i].path = p THEN None ELSE segs[i].path
<1>0. segs \in Seq(Segment) /\ Len(segs) \in Nat /\ DOMAIN segs = 1 .. Len(segs)
  BY DEF TypeOK
<1>1. segs' = [i \in 1 .. Len(segs) |-> Disowned(segs[i], p)]
  BY <1>0 DEF DropPath
<1>2. ASSUME NEW s \in Segment
      PROVE  /\ Disowned(s, p) \in Segment
             /\ Disowned(s, p).off = s.off /\ Disowned(s, p).len = s.len
             /\ Disowned(s, p).sacked = s.sacked
             /\ Disowned(s, p).path = IF s.path = p THEN None ELSE s.path
  BY DEF Disowned, Segment
<1>3. \A i \in 1 .. Len(segs) : segs[i] \in Segment
  BY <1>0
<1>4. segs' \in Seq(Segment) /\ Len(segs') = Len(segs) /\ \A i \in 1 .. Len(segs) : segs'[i] = Disowned(segs[i], p)
  BY <1>0, <1>1, <1>2, <1>3
<1> QED
  BY <1>2, <1>3, <1>4 DEF SameBytes, BytesOf, End, Mark

-----------------------------------------------------------------------------
(* The in-flight account over a step: what a path carries, byte by byte. *)

Carried(p) == BytesWith(segs, p, 0)

LEMMA CarriedFinite ==
  ASSUME TypeOK, Tiling, NEW p
  PROVE  IsFiniteSet(Carried(p)) /\ Cardinality(Carried(p)) \in Nat /\ Carried(p) \subseteq Nat
<1>1. segs \in Seq(Segment) /\ cumAcked \in Nat /\ sentOff \in Nat /\ Tiles(segs, cumAcked, sentOff)
  BY TilingTiles DEF TypeOK
<1> QED
  BY <1>1, FiniteBytes DEF Carried, BytesWith

LEMMA LedgerStep ==
  ASSUME TypeOK, Tiling, InflightLedger, TypeOK', Tiling',
         ASSUME NEW p \in Path, inflight[p] = Cardinality(Carried(p))
         PROVE  inflight'[p] = Cardinality(Carried(p)')
  PROVE  InflightLedger'
<1>1. \A p \in Path : inflight[p] = Cardinality(Carried(p))
  BY LedgerOfBytes DEF InflightLedger, Carried
<1>2. \A p \in Path : inflight'[p] = Cardinality(Carried(p)')
  BY <1>1
<1> QED
  BY <1>2, NextLedgerOfBytes DEF InflightLedger, Carried

\* Bytes that are sent and were not carried before.
LEMMA LedgerOfSend ==
  ASSUME TypeOK, Tiling, InflightLedger, TypeOK', Tiling',
         NEW p \in Path, NEW at \in Nat, NEW n \in Nat \ {0},
         inflight' = [inflight EXCEPT ![p] = @ + n],
         \A b \in at .. at + n - 1 : ~Holds(segs, b, p, 0),
         \A b, w : w # None => (Holds(segs', b, w, 0)
                                  <=> Holds(segs, b, w, 0) \/ (w = p /\ b \in at .. at + n - 1))
  PROVE  InflightLedger'
<1> SUFFICES ASSUME NEW q \in Path, inflight[q] = Cardinality(Carried(q))
             PROVE  inflight'[q] = Cardinality(Carried(q)')
  BY LedgerStep
<1>0. q # None /\ inflight[q] \in Int
  BY PathAssumption DEF TypeOK
<1>1. CASE q # p
  <2>1. Carried(q)' = Carried(q)
    BY <1>0, <1>1 DEF Carried, BytesWith
  <2>2. inflight'[q] = inflight[q]
    BY <1>1 DEF TypeOK
  <2> QED
    BY <2>1, <2>2
<1>2. CASE q = p
  <2> DEFINE N == at .. at + n - 1
  <2>1. Carried(p)' = Carried(p) \cup N
    BY <1>0, <1>2 DEF Carried, BytesWith
  <2>2. Carried(p) \cap N = {}
    BY DEF Carried, BytesWith
  <2>3. IsFiniteSet(N) /\ Cardinality(N) = n
    <3> DEFINE e == at + n
    <3>1. e \in Nat /\ at <= e /\ e - at = n
      OBVIOUS
    <3>2. N = at .. e - 1
      OBVIOUS
    <3> HIDE DEF e, N
    <3> QED
      BY <3>1, <3>2, IntervalCard
  <2> HIDE DEF N
  <2>4. Cardinality(Carried(p) \cup N) = Cardinality(Carried(p)) + n
    <3>1. IsFiniteSet(Carried(p)) /\ Cardinality(Carried(p)) \in Nat
      BY CarriedFinite
    <3>2. Cardinality(Carried(p) \cup N)
            = Cardinality(Carried(p)) + Cardinality(N) - Cardinality(Carried(p) \cap N)
      BY <2>3, <3>1, FS_Union
    <3>3. Cardinality(Carried(p) \cap N) = 0
      BY <2>2, FS_EmptySet
    <3> QED
      BY <2>3, <3>1, <3>2, <3>3
  <2>5. inflight'[q] = inflight[q] + n
    BY <1>2 DEF TypeOK
  <2> QED
    BY <1>2, <2>1, <2>4, <2>5
<1> QED
  BY <1>1, <1>2

\* Bytes that leave the account.
LEMMA LedgerOfRelease ==
  ASSUME NEW A, IsFiniteSet(A), NEW M, M \subseteq A
  PROVE  Cardinality(A \ M) = Cardinality(A) - Cardinality(M)
<1>1. IsFiniteSet(M) /\ IsFiniteSet(A \ M)
  BY FS_Subset
<1>2. A = M \cup (A \ M) /\ M \cap (A \ M) = {}
  OBVIOUS
<1>3. Cardinality(A) = Cardinality(M) + Cardinality(A \ M) - Cardinality(M \cap (A \ M))
  BY <1>1, <1>2, FS_Union
<1>4. Cardinality(M \cap (A \ M)) = 0
  BY <1>2, FS_EmptySet
<1>5. Cardinality(A) \in Nat /\ Cardinality(M) \in Nat /\ Cardinality(A \ M) \in Nat
  BY <1>1, FS_CardinalityType
<1> QED
  BY <1>3, <1>4, <1>5

LEMMA ResendLedger ==
  ASSUME TypeOK, Tiling, InflightLedger, NEW p \in Path, Resend(p)
  PROVE  InflightLedger'
<1>1. PICK at \in Nat, n \in Nat \ {0} :
        /\ inflight' = [inflight EXCEPT ![p] = @ + n]
        /\ \A b \in at .. at + n - 1 : Holds(segs, b, None, 0)
        /\ \A b, w : w # None => (Holds(segs', b, w, 0)
                                    <=> Holds(segs, b, w, 0) \/ (w = p /\ b \in at .. at + n - 1))
  BY ResendHolds
<1>2. segs \in Seq(Segment) /\ cumAcked \in Nat /\ sentOff \in Nat /\ Tiles(segs, cumAcked, sentOff)
  BY TilingTiles DEF TypeOK
<1>3. \A b \in at .. at + n - 1 : ~Holds(segs, b, p, 0)
  <2> SUFFICES ASSUME NEW b \in at .. at + n - 1, Holds(segs, b, p, 0) PROVE FALSE
    OBVIOUS
  <2>1. Holds(segs, b, None, 0)
    BY <1>1
  <2>2. p = None
    BY <1>2, <2>1, OneOwner
  <2> QED
    BY <2>2, PathAssumption
<1>4. TypeOK' /\ Tiling'
  BY ResendTypes
<1> QED
  BY <1>1, <1>3, <1>4, LedgerOfSend

LEMMA SendNewLedger ==
  ASSUME TypeOK, Tiling, InflightLedger, NEW p \in Path, NEW n \in 1 .. MaxFrame, SendNew(n, p)
  PROVE  InflightLedger'
<1>1. /\ inflight' = [inflight EXCEPT ![p] = @ + n] /\ n \in Nat \ {0} /\ sentOff \in Nat
  BY SendNewShape
<1>2. segs \in Seq(Segment) /\ cumAcked \in Nat /\ Tiles(segs, cumAcked, sentOff)
  BY TilingTiles DEF TypeOK
<1>3. \A b \in sentOff .. sentOff + n - 1 : ~Holds(segs, b, p, 0)
  <2> SUFFICES ASSUME NEW b \in sentOff .. sentOff + n - 1, Holds(segs, b, p, 0) PROVE FALSE
    OBVIOUS
  <2>1. b \in Nat /\ b < sentOff
    BY <1>1, <1>2, HoldsRange
  <2> QED
    BY <1>1, <2>1
<1>4. \A b, w : w # None => (Holds(segs', b, w, 0)
                               <=> Holds(segs, b, w, 0) \/ (w = p /\ b \in sentOff .. sentOff + n - 1))
  BY SendNewHolds
<1>5. TypeOK' /\ Tiling'
  BY SendNewTypes
<1> QED
  BY <1>1, <1>3, <1>4, <1>5, LedgerOfSend

LEMMA SendNothingLedger ==
  ASSUME TypeOK, Tiling, InflightLedger, SendNothing
  PROVE  InflightLedger'
<1>1. TypeOK' /\ Tiling'
  BY SendNothingTypes
<1> SUFFICES ASSUME NEW q \in Path, inflight[q] = Cardinality(Carried(q))
             PROVE  inflight'[q] = Cardinality(Carried(q)')
  BY <1>1, LedgerStep
<1>2. segs' = Marked /\ inflight' = inflight /\ q # None
  BY PathAssumption DEF SendNothing
<1>3. Carried(q)' = Carried(q)
  <2>1. \A b : Holds(segs', b, q, 0) <=> Holds(segs, b, q, 0)
    BY <1>2, MarkedHolds
  <2> QED
    BY <2>1 DEF Carried, BytesWith
<1> QED
  BY <1>2, <1>3

LEMMA SoftFailTypes ==
  ASSUME TypeOK, Tiling, NEW late \in SUBSET DOMAIN segs, SoftFail(late)
  PROVE  TypeOK' /\ Tiling'
<1> DEFINE Moved(p) == {i \in OnPath(p) : CoveredBy(segs[i]) \/ i \in late}
<1>1. /\ UNCHANGED <<sentOff, cumAcked, cover, live, delivered>>
      /\ inflight' = [p \in Path |-> inflight[p] - LenOf(Moved(p))]
  BY DEF SoftFail
<1>2. ASSUME NEW p \in Path PROVE LenOf(Moved(p)) \in Int
  <2>1. Moved(p) \in SUBSET DOMAIN segs
    BY DEF OnPath
  <2> HIDE DEF Moved
  <2>2. /\ IsFiniteSet(UNION {BytesOf(segs[i]) : i \in Moved(p)})
        /\ LenOf(Moved(p)) = Cardinality(UNION {BytesOf(segs[i]) : i \in Moved(p)})
    BY <2>1, LenIsCard
  <2>3. Cardinality(UNION {BytesOf(segs[i]) : i \in Moved(p)}) \in Nat
    BY <2>2, FS_CardinalityType
  <2> QED
    BY <2>2, <2>3
<1> HIDE DEF Moved
<1>3. inflight' \in [Path -> Int]
  BY <1>1, <1>2 DEF TypeOK
<1>4. segs' \in Seq(Segment) /\ SameBytes(segs, segs')
  BY SoftFailShape
<1> QED
  BY <1>1, <1>3, <1>4, Recoloured

LEMMA SoftFailLedger ==
  ASSUME TypeOK, Tiling, InflightLedger, NEW late \in SUBSET DOMAIN segs, SoftFail(late)
  PROVE  InflightLedger'
<1>1. TypeOK' /\ Tiling'
  BY SoftFailTypes
<1> SUFFICES ASSUME NEW q \in Path, inflight[q] = Cardinality(Carried(q))
             PROVE  inflight'[q] = Cardinality(Carried(q)')
  BY <1>1, LedgerStep
<1>0. /\ segs \in Seq(Segment) /\ Len(segs) \in Nat /\ DOMAIN segs = 1 .. Len(segs)
      /\ cumAcked \in Nat /\ sentOff \in Nat /\ Tiles(segs, cumAcked, sentOff)
      /\ q # None
  BY TilingTiles, PathAssumption DEF TypeOK
<1> DEFINE M == {i \in OnPath(q) : CoveredBy(segs[i]) \/ i \in late}
           W == UNION {BytesOf(segs[i]) : i \in M}
<1>2. inflight'[q] = inflight[q] - LenOf(M)
  BY DEF SoftFail
<1>3. M \in SUBSET DOMAIN segs
  BY DEF OnPath
<1>4. \A i \in 1 .. Len(segs) : i \in OnPath(q) <=> segs[i].path = q /\ Mark(segs[i]) = 0
  BY <1>0 DEF OnPath, Mark
<1>5. \A i \in 1 .. Len(segs) : i \in M <=> i \in OnPath(q) /\ (CoveredBy(segs[i]) \/ i \in late)
  OBVIOUS
<1> HIDE DEF M
<1>6. LenOf(M) = Cardinality(W)
  BY <1>3, LenIsCard
<1>7. ASSUME NEW i \in 1 .. Len(segs)
      PROVE  segs'[i].path = q /\ Mark(segs'[i]) = 0 <=> i \in OnPath(q) /\ i \notin M
  <2>1. /\ Mark(segs[i]) = 1 => segs'[i] = segs[i]
        /\ Mark(segs[i]) = 0 =>
             \/ /\ CoveredBy(segs[i]) /\ Mark(segs'[i]) = 1 /\ segs'[i].path = segs[i].path
             \/ /\ ~CoveredBy(segs[i]) /\ i \in late
                /\ Mark(segs'[i]) = 0 /\ segs'[i].path = None
             \/ ~CoveredBy(segs[i]) /\ i \notin late /\ segs'[i] = segs[i]
    BY SoftFailShape
  <2>2. Mark(segs[i]) \in {0, 1}
    BY DEF Mark
  <2> QED
    BY <1>0, <1>4, <1>5, <2>1, <2>2
<1>8. W \subseteq Carried(q)
  <2> SUFFICES ASSUME NEW i \in M, NEW b \in BytesOf(segs[i]) PROVE b \in Carried(q)
    OBVIOUS
  <2>1. i \in 1 .. Len(segs) /\ segs[i].path = q /\ Mark(segs[i]) = 0
    BY <1>0, <1>3, <1>4, <1>5
  <2>2. b \in Nat
    BY <1>0, <2>1, BytesType
  <2> QED
    BY <2>1, <2>2 DEF Carried, BytesWith, Holds
<1>9. Carried(q)' = Carried(q) \ W
  <2>0. Len(segs') = Len(segs) /\ \A i \in 1 .. Len(segs) : BytesOf(segs'[i]) = BytesOf(segs[i])
    BY SoftFailShape DEF SameBytes
  <2>1. ASSUME NEW b, b \in Carried(q)' PROVE b \in Carried(q) \ W
    <3>1. PICK i \in 1 .. Len(segs') : b \in BytesOf(segs'[i]) /\ segs'[i].path = q /\ Mark(segs'[i]) = 0
      BY <2>1 DEF Carried, BytesWith, Holds
    <3>2. i \in 1 .. Len(segs) /\ b \in BytesOf(segs[i]) /\ i \in OnPath(q) /\ i \notin M /\ b \in Nat
      BY <1>7, <2>0, <2>1, <3>1 DEF Carried, BytesWith
    <3>3. b \in Carried(q)
      BY <1>4, <3>2 DEF Carried, BytesWith, Holds
    <3>4. ASSUME NEW j \in M, b \in BytesOf(segs[j]) PROVE FALSE
      <4>1. j \in 1 .. Len(segs)
        BY <1>0, <1>3
      <4>2. i = j
        BY <1>0, <3>2, <3>4, <4>1, OneSegmentPerByte
      <4> QED
        BY <3>2, <4>2
    <3> QED
      BY <3>3, <3>4
  <2>2. ASSUME NEW b, b \in Carried(q) \ W PROVE b \in Carried(q)'
    <3>1. PICK i \in 1 .. Len(segs) : b \in BytesOf(segs[i]) /\ segs[i].path = q /\ Mark(segs[i]) = 0
      BY <2>2 DEF Carried, BytesWith, Holds
    <3>2. i \in OnPath(q) /\ i \notin M /\ b \in Nat
      BY <1>4, <2>2, <3>1 DEF Carried, BytesWith
    <3>3. i \in 1 .. Len(segs') /\ b \in BytesOf(segs'[i]) /\ segs'[i].path = q /\ Mark(segs'[i]) = 0
      BY <1>7, <2>0, <3>1, <3>2
    <3> QED
      BY <3>2, <3>3 DEF Carried, BytesWith, Holds
  <2> QED
    BY <2>1, <2>2
<1> HIDE DEF W
<1>10. Cardinality(Carried(q) \ W) = Cardinality(Carried(q)) - Cardinality(W)
  BY <1>8, CarriedFinite, LedgerOfRelease
<1> QED
  BY <1>2, <1>6, <1>9, <1>10

LEMMA DropPathTypes ==
  ASSUME TypeOK, Tiling, NEW p \in Path, DropPath(p)
  PROVE  TypeOK' /\ Tiling'
<1>1. /\ UNCHANGED <<sentOff, cumAcked, cover, delivered>>
      /\ live' \subseteq live
      /\ inflight' = [inflight EXCEPT ![p] = @ - LenOf(OnPath(p))]
  BY DEF DropPath
<1>2. LenOf(OnPath(p)) = Cardinality(Carried(p)) /\ Cardinality(Carried(p)) \in Nat
  BY CarriedFinite, LedgerOfBytes DEF Carried
<1>3. inflight' \in [Path -> Int]
  <2> DEFINE x == LenOf(OnPath(p))
  <2>1. x \in Int /\ inflight \in [Path -> Int]
    BY <1>2 DEF TypeOK
  <2>2. inflight' = [inflight EXCEPT ![p] = inflight[p] - x]
    BY <1>1
  <2> HIDE DEF x
  <2> QED
    BY <2>1, <2>2
<1>4. segs' \in Seq(Segment) /\ SameBytes(segs, segs')
  BY DropPathShape
<1> QED
  BY <1>1, <1>3, <1>4, Recoloured

LEMMA DropPathHolds ==
  ASSUME TypeOK, NEW p \in Path, DropPath(p), NEW b, NEW w, NEW m
  PROVE  Holds(segs', b, w, m) <=> \/ w # p /\ Holds(segs, b, w, m)
                                   \/ w = None /\ Holds(segs, b, p, m)
<1>0. p # None
  BY PathAssumption
<1>1. Len(segs') = Len(segs)
  BY DropPathShape DEF SameBytes
<1>2. ASSUME NEW i \in 1 .. Len(segs)
      PROVE  /\ b \in BytesOf(segs'[i]) <=> b \in BytesOf(segs[i])
             /\ Mark(segs'[i]) = Mark(segs[i])
             /\ segs'[i].path = w <=> \/ w # p /\ segs[i].path = w
                                      \/ w = None /\ segs[i].path = p
  <2>1. /\ BytesOf(segs'[i]) = BytesOf(segs[i]) /\ Mark(segs'[i]) = Mark(segs[i])
        /\ segs'[i].path = IF segs[i].path = p THEN None ELSE segs[i].path
    BY DropPathShape
  <2> QED
    BY <1>0, <2>1
<1> QED
  BY <1>1, <1>2 DEF Holds

LEMMA DropPathLedger ==
  ASSUME TypeOK, Tiling, InflightLedger, NEW p \in Path, DropPath(p)
  PROVE  InflightLedger'
<1>1. TypeOK' /\ Tiling'
  BY DropPathTypes
<1> SUFFICES ASSUME NEW q \in Path, inflight[q] = Cardinality(Carried(q))
             PROVE  inflight'[q] = Cardinality(Carried(q)')
  BY <1>1, LedgerStep
<1>2. q # None /\ p # None /\ inflight \in [Path -> Int]
  BY PathAssumption DEF TypeOK
<1>3. inflight' = [inflight EXCEPT ![p] = @ - LenOf(OnPath(p))]
  BY DEF DropPath
<1>4. CASE q = p
  <2>1. \A b : ~Holds(segs', b, q, 0)
    BY <1>2, <1>4, DropPathHolds
  <2>2. Carried(q)' = {}
    BY <2>1 DEF Carried, BytesWith
  <2>3. LenOf(OnPath(q)) = Cardinality(Carried(q)) /\ Cardinality(Carried(q)) \in Nat
    BY CarriedFinite, LedgerOfBytes DEF Carried
  <2>4. inflight'[q] = inflight[q] - LenOf(OnPath(q))
    BY <1>2, <1>3, <1>4
  <2>5. Cardinality(Carried(q)') = 0
    BY <2>2, FS_EmptySet
  <2> QED
    BY <2>3, <2>4, <2>5
<1>5. CASE q # p
  <2>1. \A b : Holds(segs', b, q, 0) <=> Holds(segs, b, q, 0)
    BY <1>2, <1>5, DropPathHolds
  <2>2. Carried(q)' = Carried(q)
    BY <2>1 DEF Carried, BytesWith
  <2>3. inflight'[q] = inflight[q]
    BY <1>2, <1>3, <1>5
  <2> QED
    BY <2>2, <2>3
<1> QED
  BY <1>4, <1>5

-----------------------------------------------------------------------------
(* Ack. *)

\* What freeAckedLocked counts for a set of the segments it visits.
LEMMA FreedIsCard ==
  ASSUME TypeOK, Tiling, NEW cum \in Nat, NEW I \in SUBSET Freed(cum)
  PROVE  LET W == {b \in UNION {BytesOf(segs[i]) : i \in I} : b < cum}
         IN IsFiniteSet(W) /\ FreedOf(I, cum) = Cardinality(W)
<1> DEFINE W == {b \in UNION {BytesOf(segs[i]) : i \in I} : b < cum}
           B == [i \in DOMAIN segs |-> {b \in BytesOf(segs[i]) : b < cum}]
           g == [i \in DOMAIN segs |-> Below(segs[i], cum)]
<1>1. I \in SUBSET DOMAIN segs
  BY DEF Freed
<1>2. ASSUME NEW i \in I
      PROVE  IsFiniteSet(B[i]) /\ Cardinality(B[i]) = g[i] /\ B[i] \subseteq BytesOf(segs[i])
  <2> DEFINE s == segs[i]
             e == Min2(End(s), cum)
  <2>1. s \in Segment /\ s.off < cum
    BY <1>1 DEF TypeOK, Freed
  <2>2. B[i] = {b \in BytesOf(s) : b < cum} /\ g[i] = Below(s, cum)
    BY <1>1
  <2> HIDE DEF s
  <2>3. s.off \in Nat /\ End(s) \in Nat /\ s.off < End(s)
    BY <2>1, SegmentType
  <2>4. e \in Nat /\ s.off <= e
    BY <2>1, <2>3 DEF Min2
  <2>5. {b \in BytesOf(s) : b < cum} = s.off .. e - 1
    BY <2>3 DEF BytesOf, Min2
  <2>6. Below(s, cum) = e - s.off
    BY DEF Below
  <2> HIDE DEF e
  <2>7. IsFiniteSet(s.off .. e - 1) /\ Cardinality(s.off .. e - 1) = e - s.off
    BY <2>3, <2>4, IntervalCard
  <2>8. B[i] \subseteq BytesOf(segs[i])
    BY <1>1
  <2> HIDE DEF B, g
  <2> QED
    BY <2>2, <2>5, <2>6, <2>7, <2>8
<1>3. Pieces(B, I) = W
  <2>1. \A i \in I : B[i] = {b \in BytesOf(segs[i]) : b < cum}
    BY <1>1
  <2> HIDE DEF B
  <2>2. \A b : b \in Pieces(B, I) <=> \E i \in I : b \in B[i]
    BY DEF Pieces
  <2>3. \A b : b \in W <=> b < cum /\ \E i \in I : b \in BytesOf(segs[i])
    OBVIOUS
  <2> HIDE DEF W
  <2>4. \A b : b \in Pieces(B, I) <=> b \in W
    BY <2>1, <2>2, <2>3
  <2>5. \A b : b \in W => b \in Pieces(B, I)
    BY <2>4
  <2>6. \A b : b \in Pieces(B, I) => b \in W
    BY <2>4
  <2> QED
    BY <2>5, <2>6
<1>4. FreedOf(I, cum) = SumFunctionOnSet(g, I)
  BY DEF FreedOf
<1> HIDE DEF B, g, W
<1>5. \A i \in I : IsFiniteSet(B[i]) /\ Cardinality(B[i]) = g[i] /\ B[i] \subseteq BytesOf(segs[i])
  BY <1>2
<1>6. IsFiniteSet(Pieces(B, I)) /\ SumFunctionOnSet(g, I) = Cardinality(Pieces(B, I))
  BY <1>1, <1>5, SumOfPieces
<1>7. IsFiniteSet(W) /\ FreedOf(I, cum) = Cardinality(W)
  BY <1>3, <1>4, <1>6
<1> QED
  BY <1>7 DEF W

\* It visits every segment with a byte below cum.
LEMMA FreedReachesAll ==
  ASSUME TypeOK, Tiling, NEW cum \in Nat, NEW i \in 1 .. Len(segs), NEW b \in BytesOf(segs[i]), b < cum
  PROVE  i \in Freed(cum)
<1>0. /\ segs \in Seq(Segment) /\ Len(segs) \in Nat /\ DOMAIN segs = 1 .. Len(segs)
      /\ cumAcked \in Nat /\ sentOff \in Nat /\ Tiles(segs, cumAcked, sentOff)
  BY TilingTiles DEF TypeOK
<1>1. segs[i] \in Segment /\ segs[i].off \in Nat /\ segs[i].off <= b /\ b \in Nat
  <2>1. segs[i] \in Segment
    BY <1>0
  <2> QED
    BY <2>1, SegmentType DEF BytesOf
<1>2. i <= Released(cum) + 1
  <2> DEFINE k == Released(cum)
  <2>1. k \in 0 .. Len(segs) /\ (k < Len(segs) => End(segs[k + 1]) > cum)
    BY ReleasedFacts
  <2> HIDE DEF k
  <2> SUFFICES ASSUME i > k + 1 PROVE FALSE
    BY <1>0, <2>1 DEF k
  <2>2. k + 1 \in DOMAIN segs /\ i \in DOMAIN segs /\ k < Len(segs)
    BY <1>0, <2>1
  <2>3. End(segs[k + 1]) <= segs[i].off
    BY <1>0, <2>2, TilesOrdered
  <2>4. End(segs[k + 1]) \in Nat
    BY <1>0, <2>2, SegmentType
  <2> QED
    BY <1>1, <2>1, <2>2, <2>3, <2>4
<1> QED
  BY <1>0, <1>1, <1>2 DEF Freed

\* The bytes of p below cum, struck or not.
Passed(p, cum) == {b \in Nat : b < cum /\ (Holds(segs, b, p, 0) \/ Holds(segs, b, p, 1))}

LEMMA SettledIsCard ==
  ASSUME TypeOK, Tiling, NEW cum \in Nat, NEW p \in Path
  PROVE  /\ Settled(cum, p) = Cardinality({b \in Carried(p) : b < cum})
         /\ IsFiniteSet(Passed(p, cum)) /\ Credited(cum, p) = Cardinality(Passed(p, cum))
<1>0. segs \in Seq(Segment) /\ DOMAIN segs = 1 .. Len(segs)
  BY DEF TypeOK
<1>1. \A i \in DOMAIN segs : BytesOf(segs[i]) \subseteq Nat
  BY <1>0, BytesType
<1>2. Settled(cum, p) = Cardinality({b \in Carried(p) : b < cum})
  <2> DEFINE I == {i \in Freed(cum) : segs[i].path = p /\ ~segs[i].sacked}
  <2>1. Settled(cum, p) = FreedOf(I, cum) /\ I \in SUBSET Freed(cum)
    BY DEF Settled
  <2>2. {b \in UNION {BytesOf(segs[i]) : i \in I} : b < cum} = {b \in Carried(p) : b < cum}
    <3>1. ASSUME NEW i \in I, NEW b \in BytesOf(segs[i]), b < cum PROVE b \in Carried(p)
      <4>1. i \in 1 .. Len(segs) /\ segs[i].path = p /\ Mark(segs[i]) = 0 /\ b \in Nat
        BY <1>0, <1>1 DEF Freed, Mark
      <4> QED
        BY <4>1 DEF Carried, BytesWith, Holds
    <3>2. ASSUME NEW b \in Carried(p), b < cum PROVE b \in UNION {BytesOf(segs[i]) : i \in I}
      <4>1. PICK i \in 1 .. Len(segs) : b \in BytesOf(segs[i]) /\ segs[i].path = p /\ Mark(segs[i]) = 0
        BY DEF Carried, BytesWith, Holds
      <4>2. i \in Freed(cum)
        BY <3>2, <4>1, FreedReachesAll
      <4>3. i \in I
        BY <4>1, <4>2 DEF Mark
      <4> QED
        BY <4>1, <4>3
    <3> QED
      BY <3>1, <3>2
  <2> HIDE DEF I
  <2>3. FreedOf(I, cum) = Cardinality({b \in UNION {BytesOf(segs[i]) : i \in I} : b < cum})
    BY <2>1, FreedIsCard
  <2> QED
    BY <2>1, <2>2, <2>3
<1>3. IsFiniteSet(Passed(p, cum)) /\ Credited(cum, p) = Cardinality(Passed(p, cum))
  <2> DEFINE I == {i \in Freed(cum) : segs[i].path = p}
  <2>1. Credited(cum, p) = FreedOf(I, cum) /\ I \in SUBSET Freed(cum)
    BY DEF Credited
  <2>2. {b \in UNION {BytesOf(segs[i]) : i \in I} : b < cum} = Passed(p, cum)
    <3>1. ASSUME NEW i \in I, NEW b \in BytesOf(segs[i]), b < cum PROVE b \in Passed(p, cum)
      <4>1. i \in 1 .. Len(segs) /\ segs[i].path = p /\ Mark(segs[i]) \in {0, 1} /\ b \in Nat
        BY <1>0, <1>1 DEF Freed, Mark
      <4>2. Holds(segs, b, p, 0) \/ Holds(segs, b, p, 1)
        BY <4>1 DEF Holds
      <4> QED
        BY <3>1, <4>1, <4>2 DEF Passed
    <3>2. ASSUME NEW b \in Passed(p, cum) PROVE b \in UNION {BytesOf(segs[i]) : i \in I} /\ b < cum
      <4>1. PICK i \in 1 .. Len(segs) : b \in BytesOf(segs[i]) /\ segs[i].path = p
        BY DEF Passed, Holds
      <4>2. i \in Freed(cum) /\ b < cum
        BY <4>1, FreedReachesAll DEF Passed
      <4>3. i \in I
        BY <4>1, <4>2
      <4> QED
        BY <4>1, <4>2, <4>3
    <3> QED
      BY <3>1, <3>2
  <2> HIDE DEF I
  <2>3. /\ IsFiniteSet({b \in UNION {BytesOf(segs[i]) : i \in I} : b < cum})
        /\ FreedOf(I, cum) = Cardinality({b \in UNION {BytesOf(segs[i]) : i \in I} : b < cum})
    BY <2>1, FreedIsCard
  <2> QED
    BY <2>1, <2>2, <2>3
<1> QED
  BY <1>2, <1>3

LEMMA AckTypes ==
  ASSUME TypeOK, Tiling, NEW cum, NEW rng, Ack(cum, rng)
  PROVE  TypeOK' /\ Tiling' /\ cum \in Nat /\ cumAcked <= cum
<1>1. /\ cum \in cumAcked .. sentOff /\ rng \subseteq cum + 1 .. sentOff - 1
      /\ cumAcked' = cum /\ cover' = rng /\ segs' = Rest(cum)
      /\ inflight' = [p \in Path |-> inflight[p] - Settled(cum, p)]
      /\ delivered' = [p \in Path |-> delivered[p] + Credited(cum, p)]
      /\ UNCHANGED <<sentOff, live>>
  BY DEF Ack
<1>2. cum \in Nat /\ cumAcked <= cum
  BY <1>1 DEF TypeOK
<1>3. segs' \in Seq(Segment) /\ Tiles(segs', cum, sentOff)
  BY <1>1, RestFacts
<1>4. ASSUME NEW p \in Path PROVE Settled(cum, p) \in Int /\ Credited(cum, p) \in Int
  <2>1. {b \in Carried(p) : b < cum} \subseteq Carried(p)
    OBVIOUS
  <2>2. IsFiniteSet({b \in Carried(p) : b < cum})
    BY <2>1, CarriedFinite, FS_Subset
  <2> QED
    BY <1>2, <2>2, SettledIsCard, FS_CardinalityType
<1>5. inflight' \in [Path -> Int] /\ delivered' \in [Path -> Int]
  BY <1>1, <1>4 DEF TypeOK
<1>6. cover' \subseteq Nat
  BY <1>1, <1>2 DEF TypeOK
<1>7. TypeOK'
  BY <1>1, <1>2, <1>3, <1>5, <1>6 DEF TypeOK
<1> QED
  BY <1>1, <1>2, <1>3, <1>7, NextTiling

LEMMA AckHolds ==
  ASSUME TypeOK, Tiling, NEW cum, NEW rng, Ack(cum, rng), NEW b, NEW w, NEW m
  PROVE  Holds(segs', b, w, m) <=> Holds(segs, b, w, m) /\ b \in Nat /\ ~(b < cum)
<1> DEFINE k == Released(cum)
           R == Rest(cum)
<1>0. /\ segs \in Seq(Segment) /\ Len(segs) \in Nat /\ DOMAIN segs = 1 .. Len(segs)
      /\ cum \in cumAcked .. sentOff /\ cum \in Nat /\ segs' = R
  BY DEF TypeOK, Ack
<1>1. /\ k \in 0 .. Len(segs)
      /\ \A i \in 1 .. k : End(segs[i]) <= cum
  BY <1>0, ReleasedFacts
<1>2. /\ R \in Seq(Segment) /\ Len(R) = Len(segs) - k
      /\ Tiles(R, cum, sentOff)
      /\ \A i \in 1 .. Len(segs) - k :
           /\ R[i].path = segs[k + i].path /\ R[i].sacked = segs[k + i].sacked
           /\ End(R[i]) = End(segs[k + i])
           /\ segs[k + i].off <= R[i].off
           /\ segs[k + i].off < R[i].off => R[i].off = cum
  BY <1>0, RestFacts
<1> HIDE DEF k, R
<1>3. sentOff \in Nat
  BY DEF TypeOK
<1>4. ASSUME NEW i \in 1 .. Len(segs) - k
      PROVE  /\ k + i \in 1 .. Len(segs) /\ i \in 1 .. Len(R)
             /\ R[i] \in Segment /\ segs[k + i] \in Segment
             /\ R[i].off \in Nat /\ End(R[i]) \in Nat /\ segs[k + i].off \in Nat
             /\ R[i].path = segs[k + i].path /\ Mark(R[i]) = Mark(segs[k + i])
             /\ End(R[i]) = End(segs[k + i])
             /\ segs[k + i].off <= R[i].off
             /\ segs[k + i].off < R[i].off => R[i].off = cum
             /\ cum <= R[i].off
  <2>1. k + i \in 1 .. Len(segs) /\ i \in 1 .. Len(R) /\ i \in DOMAIN R
    BY <1>0, <1>1, <1>2
  <2>2. R[i] \in Segment /\ segs[k + i] \in Segment
    BY <1>0, <1>2, <2>1
  <2>3. cum <= R[i].off
    BY <1>0, <1>2, <1>3, <2>1, TilesWithin
  <2> QED
    BY <1>2, <2>1, <2>2, <2>3, SegmentType DEF Mark
<1>5. ASSUME Holds(segs', b, w, m) PROVE Holds(segs, b, w, m) /\ b \in Nat /\ ~(b < cum)
  <2>1. PICK i \in 1 .. Len(R) : b \in BytesOf(R[i]) /\ R[i].path = w /\ Mark(R[i]) = m
    BY <1>0, <1>5 DEF Holds
  <2>2. i \in 1 .. Len(segs) - k
    BY <1>2
  <2>3. b \in BytesOf(segs[k + i]) /\ b \in Nat /\ ~(b < cum)
    BY <1>0, <1>4, <2>1, <2>2 DEF BytesOf
  <2> QED
    BY <1>4, <2>1, <2>2, <2>3 DEF Holds
<1>6. ASSUME Holds(segs, b, w, m), b \in Nat, ~(b < cum) PROVE Holds(segs', b, w, m)
  <2>1. PICK j \in 1 .. Len(segs) : b \in BytesOf(segs[j]) /\ segs[j].path = w /\ Mark(segs[j]) = m
    BY <1>6 DEF Holds
  <2>2. segs[j] \in Segment /\ segs[j].off \in Nat /\ End(segs[j]) \in Nat
    BY <1>0, SegmentType
  <2>3. b < End(segs[j]) /\ segs[j].off <= b
    BY <1>6, <2>1, <2>2 DEF BytesOf
  <2>4. j \notin 1 .. k
    BY <1>0, <1>1, <1>6, <2>2, <2>3
  <2>5. j - k \in 1 .. Len(segs) - k /\ k + (j - k) = j
    BY <1>0, <1>1, <2>4
  <2> DEFINE i == j - k
  <2>6. i \in 1 .. Len(segs) - k /\ k + i = j
    BY <2>5
  <2> HIDE DEF i
  <2>7. R[i].off <= b
    BY <1>0, <1>4, <1>6, <2>3, <2>6
  <2>8. b \in BytesOf(R[i])
    BY <1>4, <1>6, <2>3, <2>6, <2>7 DEF BytesOf
  <2>9. R[i].path = w /\ Mark(R[i]) = m /\ i \in 1 .. Len(R)
    BY <1>4, <2>1, <2>6
  <2> QED
    BY <1>0, <2>8, <2>9 DEF Holds
<1> QED
  BY <1>5, <1>6

LEMMA AckLedger ==
  ASSUME TypeOK, Tiling, InflightLedger, NEW cum, NEW rng, Ack(cum, rng)
  PROVE  InflightLedger'
<1>1. TypeOK' /\ Tiling' /\ cum \in Nat
  BY AckTypes
<1> SUFFICES ASSUME NEW q \in Path, inflight[q] = Cardinality(Carried(q))
             PROVE  inflight'[q] = Cardinality(Carried(q)')
  BY <1>1, LedgerStep
<1> DEFINE W == {b \in Carried(q) : b < cum}
<1>2. inflight'[q] = inflight[q] - Settled(cum, q)
  BY DEF Ack
<1>3. Settled(cum, q) = Cardinality(W)
  BY <1>1, SettledIsCard
<1>4. Carried(q)' = Carried(q) \ W
  <2>1. \A b : Holds(segs', b, q, 0) <=> Holds(segs, b, q, 0) /\ b \in Nat /\ ~(b < cum)
    BY AckHolds
  <2> QED
    BY <2>1 DEF Carried, BytesWith
<1>5. W \subseteq Carried(q)
  OBVIOUS
<1> HIDE DEF W
<1>6. Cardinality(Carried(q) \ W) = Cardinality(Carried(q)) - Cardinality(W)
  BY <1>5, CarriedFinite, LedgerOfRelease
<1> QED
  BY <1>2, <1>3, <1>4, <1>6

LEMMA AckCredits ==
  ASSUME TypeOK, Tiling, CreditedOnce, NEW cum, NEW rng, Ack(cum, rng)
  PROVE  CreditedOnce'
<1> DEFINE B == [p \in Path |-> Passed(p, cum)]
           cr == [p \in Path |-> Credited(cum, p)]
<1>0. /\ segs \in Seq(Segment) /\ cumAcked \in Nat /\ sentOff \in Nat
      /\ Tiles(segs, cumAcked, sentOff) /\ IsFiniteSet(Path)
      /\ cum \in Nat /\ cumAcked <= cum
  BY TilingTiles, AckTypes, PathAssumption DEF TypeOK
<1>1. \A p \in Path : IsFiniteSet(B[p]) /\ Cardinality(B[p]) = cr[p]
  BY <1>0, SettledIsCard
<1>2. \A p \in Path, q \in Path : p # q => B[p] \cap B[q] = {}
  <2> SUFFICES ASSUME NEW p \in Path, NEW q \in Path, NEW b, b \in Passed(p, cum), b \in Passed(q, cum)
               PROVE  p = q
    OBVIOUS
  <2>1. PICK m \in {0, 1} : Holds(segs, b, p, m)
    BY DEF Passed
  <2>2. PICK n \in {0, 1} : Holds(segs, b, q, n)
    BY DEF Passed
  <2> QED
    BY <1>0, <2>1, <2>2, OneOwner
<1>3. Pieces(B, Path) \subseteq cumAcked .. cum - 1
  <2> SUFFICES ASSUME NEW p \in Path, NEW b \in Passed(p, cum) PROVE b \in cumAcked .. cum - 1
    BY DEF Pieces
  <2>1. PICK m \in {0, 1} : Holds(segs, b, p, m)
    BY DEF Passed
  <2>2. b \in Nat /\ cumAcked <= b
    BY <1>0, <2>1, HoldsRange
  <2>3. b < cum
    BY DEF Passed
  <2> QED
    BY <1>0, <2>2, <2>3
<1>4. \A p \in Path : delivered'[p] = delivered[p] + cr[p]
  BY DEF Ack
<1> HIDE DEF B, cr
<1>5. SumFunctionOnSet(cr, Path) = Cardinality(Pieces(B, Path))
  BY <1>0, <1>1, <1>2, SumIsCardinality
<1>6. Cardinality(Pieces(B, Path)) \in Nat /\ Cardinality(Pieces(B, Path)) <= cum - cumAcked
  <2>1. IsFiniteSet(cumAcked .. cum - 1) /\ Cardinality(cumAcked .. cum - 1) = cum - cumAcked
    BY <1>0, IntervalCard
  <2>2. /\ IsFiniteSet(Pieces(B, Path))
        /\ Cardinality(Pieces(B, Path)) <= Cardinality(cumAcked .. cum - 1)
    BY <1>3, <2>1, FS_Subset
  <2> QED
    BY <2>1, <2>2, FS_CardinalityType
<1>7. \A p \in Path : delivered[p] \in Int /\ cr[p] \in Int /\ delivered'[p] = delivered[p] + cr[p]
  BY <1>1, <1>4, FS_CardinalityType DEF TypeOK
<1>8. SumFunctionOnSet(delivered', Path)
        = SumFunctionOnSet(delivered, Path) + SumFunctionOnSet(cr, Path)
  BY <1>0, <1>7, SumPlus
<1>9. SumFunctionOnSet(delivered, Path) \in Int
  BY <1>0, <1>7, SumRemove
<1>10. SumFunctionOnSet(delivered, Path) <= cumAcked /\ cumAcked' = cum
  BY DEF CreditedOnce, Ack
<1>11. SumFunctionOnSet(delivered', Path) <= cum
  BY <1>0, <1>5, <1>6, <1>8, <1>9, <1>10
<1> QED
  BY <1>10, <1>11 DEF CreditedOnce

-----------------------------------------------------------------------------
(* Owners and reports. *)

\* Who owns the bytes, and which are struck, over any step.
Effects ==
  /\ \A b, w : Holds(segs', b, w, 1) =>
       \/ \E v : Holds(segs, b, v, 1)
       \/ b \in cover
  /\ \A b, w : Holds(segs, b, w, 1) => b < cumAcked' \/ \E v : Holds(segs', b, v, 1)
  /\ \A b : \A q \in live' : Holds(segs', b, q, 0) /\ Holds(segs, b, None, 0) => b \notin cover

Owners ==
  \A b, w : Holds(segs, b, w, 0) \/ Holds(segs, b, w, 1) => w \in live \cup {None}

LEMMA OwnersOfBytes == ASSUME TypeOK PROVE OwnersLive <=> Owners
<1>0. segs \in Seq(Segment) /\ DOMAIN segs = 1 .. Len(segs)
  BY DEF TypeOK
<1>1. ASSUME OwnersLive PROVE Owners
  BY <1>0, <1>1 DEF OwnersLive, Owners, Holds
<1>2. ASSUME Owners PROVE OwnersLive
  <2> SUFFICES ASSUME NEW i \in 1 .. Len(segs) PROVE segs[i].path \in live \cup {None}
    BY <1>0 DEF OwnersLive
  <2>1. segs[i].off \in BytesOf(segs[i])
    BY <1>0, BytesType
  <2>2. Mark(segs[i]) = 0 \/ Mark(segs[i]) = 1
    BY DEF Mark
  <2>3. \/ Holds(segs, segs[i].off, segs[i].path, 0)
        \/ Holds(segs, segs[i].off, segs[i].path, 1)
    BY <2>1, <2>2 DEF Holds
  <2> QED
    BY <1>2, <2>3 DEF Owners
<1> QED
  BY <1>1, <1>2

LEMMA NextOwnersOfBytes == TypeOK' => (OwnersLive' <=> Owners')
<1> DEFINE Same == TypeOK => (OwnersLive <=> Owners)
<1>1. Same
  BY OwnersOfBytes
<1>2. Same'
  BY <1>1, PTL
<1> QED
  BY <1>2

\* A byte that a path of the list carries is not in the pool.
LEMMA PoolApart ==
  ASSUME TypeOK, Tiling, NEW b, NEW w, w # None, Holds(segs, b, None, 0)
  PROVE  ~Holds(segs, b, w, 0)
<1>1. segs \in Seq(Segment) /\ cumAcked \in Nat /\ sentOff \in Nat /\ Tiles(segs, cumAcked, sentOff)
  BY TilingTiles DEF TypeOK
<1> QED
  BY <1>1, OneOwner

LEMMA ResendEffects ==
  ASSUME TypeOK, Tiling, Owners, NEW p \in Path, Resend(p)
  PROVE  Effects /\ Owners'
<1>1. PICK at \in Nat, n \in Nat \ {0} :
        /\ at .. at + n - 1 \cap cover = {}
        /\ \A b, w : /\ w # None => (Holds(segs', b, w, 0)
                                       <=> Holds(segs, b, w, 0) \/ (w = p /\ b \in at .. at + n - 1))
                     /\ Holds(segs', b, w, 1) => Holds(segs, b, w, 1) \/ (b \in cover /\ w = None)
                     /\ Holds(segs, b, w, 1) => Holds(segs', b, w, 1)
  BY ResendHolds
<1>2. p \in live /\ live' = live /\ live \subseteq Path /\ None \notin Path
  BY PathAssumption DEF Resend, Eligible, TypeOK
<1>3. ASSUME NEW b, NEW q \in live', Holds(segs', b, q, 0), Holds(segs, b, None, 0)
      PROVE  b \notin cover
  BY <1>1, <1>2, <1>3, PoolApart
<1>4. Owners'
  BY <1>1, <1>2 DEF Owners
<1> QED
  BY <1>1, <1>3, <1>4 DEF Effects

LEMMA SendNewEffects ==
  ASSUME TypeOK, Tiling, Owners, NEW p \in Path, NEW n \in 1 .. MaxFrame, SendNew(n, p)
  PROVE  Effects /\ Owners'
<1>1. \A b, w : /\ w # None => (Holds(segs', b, w, 0)
                                  <=> Holds(segs, b, w, 0) \/ (w = p /\ b \in sentOff .. sentOff + n - 1))
                /\ Holds(segs', b, w, 1) => Holds(segs, b, w, 1) \/ (b \in cover /\ w = None)
                /\ Holds(segs, b, w, 1) => Holds(segs', b, w, 1)
  BY SendNewHolds
<1>2. p \in live /\ live' = live /\ live \subseteq Path /\ None \notin Path
  BY PathAssumption DEF SendNew, Eligible, TypeOK
<1>3. ASSUME NEW b, NEW q \in live', Holds(segs', b, q, 0), Holds(segs, b, None, 0)
      PROVE  b \notin cover
  <2>1. segs \in Seq(Segment) /\ cumAcked \in Nat /\ sentOff \in Nat /\ Tiles(segs, cumAcked, sentOff)
    BY TilingTiles DEF TypeOK
  <2>2. b \in Nat /\ b < sentOff
    BY <1>3, <2>1, HoldsRange
  <2>3. b \notin sentOff .. sentOff + n - 1
    BY <2>1, <2>2
  <2>4. Holds(segs, b, q, 0)
    BY <1>1, <1>2, <1>3, <2>3
  <2> QED
    BY <1>2, <1>3, <2>4, PoolApart
<1>4. Owners'
  BY <1>1, <1>2 DEF Owners
<1> QED
  BY <1>1, <1>3, <1>4 DEF Effects

LEMMA SendNothingEffects ==
  ASSUME TypeOK, Tiling, Owners, SendNothing
  PROVE  Effects /\ Owners'
<1>1. segs' = Marked /\ live' = live /\ live \subseteq Path /\ None \notin Path
  BY PathAssumption DEF SendNothing, TypeOK
<1>2. \A b, w : /\ w # None => (Holds(segs', b, w, 0) <=> Holds(segs, b, w, 0))
                /\ Holds(segs', b, w, 1) => Holds(segs, b, w, 1) \/ (b \in cover /\ w = None)
                /\ Holds(segs, b, w, 1) => Holds(segs', b, w, 1)
  BY <1>1, MarkedHolds
<1>3. ASSUME NEW b, NEW q \in live', Holds(segs', b, q, 0), Holds(segs, b, None, 0)
      PROVE  b \notin cover
  BY <1>1, <1>2, <1>3, PoolApart
<1>4. Owners'
  BY <1>1, <1>2 DEF Owners
<1> QED
  BY <1>2, <1>3, <1>4 DEF Effects

LEMMA AckEffects ==
  ASSUME TypeOK, Tiling, Owners, NEW cum, NEW rng, Ack(cum, rng)
  PROVE  Effects /\ Owners'
<1>1. \A b, w, m : Holds(segs', b, w, m) <=> Holds(segs, b, w, m) /\ b \in Nat /\ ~(b < cum)
  BY AckHolds
<1>2. cumAcked' = cum /\ live' = live /\ live \subseteq Path /\ None \notin Path
  BY PathAssumption DEF Ack, TypeOK
<1>3. ASSUME NEW b, NEW q \in live', Holds(segs', b, q, 0), Holds(segs, b, None, 0)
      PROVE  b \notin cover
  BY <1>1, <1>2, <1>3, PoolApart
<1>4. Owners'
  BY <1>1, <1>2 DEF Owners
<1>5. ASSUME NEW b, NEW w, Holds(segs, b, w, 1) PROVE b < cum \/ Holds(segs', b, w, 1)
  <2>1. segs \in Seq(Segment) /\ cumAcked \in Nat /\ sentOff \in Nat /\ Tiles(segs, cumAcked, sentOff)
    BY TilingTiles DEF TypeOK
  <2>2. b \in Nat
    BY <1>5, <2>1, HoldsRange
  <2> QED
    BY <1>1, <1>5, <2>2
<1> QED
  BY <1>1, <1>2, <1>3, <1>4, <1>5 DEF Effects

LEMMA SoftFailEffects ==
  ASSUME TypeOK, Tiling, Owners, NEW late \in SUBSET DOMAIN segs, SoftFail(late)
  PROVE  Effects /\ Owners'
<1>0. Len(segs') = Len(segs)
  BY SoftFailShape DEF SameBytes
<1>1. ASSUME NEW i \in 1 .. Len(segs)
      PROVE  /\ BytesOf(segs'[i]) = BytesOf(segs[i])
             /\ Mark(segs[i]) = 1 => segs'[i] = segs[i]
             /\ Mark(segs[i]) = 0 =>
                  \/ /\ BytesOf(segs[i]) \subseteq cover
                     /\ Mark(segs'[i]) = 1 /\ segs'[i].path = segs[i].path
                  \/ Mark(segs'[i]) = 0 /\ segs'[i].path = None
                  \/ segs'[i] = segs[i]
             /\ Mark(segs[i]) \in {0, 1}
  BY SoftFailShape DEF CoveredBy, Mark
<1>2. live' = live /\ live \subseteq Path /\ None \notin Path
  BY PathAssumption DEF SoftFail, TypeOK
<1>3. ASSUME NEW b, NEW w, Holds(segs', b, w, 1)
      PROVE  Holds(segs, b, w, 1) \/ (Holds(segs, b, w, 0) /\ b \in cover)
  <2>1. PICK i \in 1 .. Len(segs) : b \in BytesOf(segs'[i]) /\ segs'[i].path = w /\ Mark(segs'[i]) = 1
    BY <1>0, <1>3 DEF Holds
  <2>2. CASE Mark(segs[i]) = 1
    <3>1. b \in BytesOf(segs[i]) /\ segs[i].path = w
      BY <1>1, <2>1, <2>2
    <3> QED
      BY <2>2, <3>1 DEF Holds
  <2>3. CASE Mark(segs[i]) = 0
    <3>1. b \in BytesOf(segs[i]) /\ segs[i].path = w /\ b \in cover
      BY <1>1, <2>1, <2>3
    <3> QED
      BY <2>3, <3>1 DEF Holds
  <2> QED
    BY <1>1, <2>2, <2>3
<1>4. ASSUME NEW b, NEW w, Holds(segs, b, w, 1) PROVE Holds(segs', b, w, 1)
  <2>1. PICK i \in 1 .. Len(segs) : b \in BytesOf(segs[i]) /\ segs[i].path = w /\ Mark(segs[i]) = 1
    BY <1>4 DEF Holds
  <2>2. b \in BytesOf(segs'[i]) /\ segs'[i].path = w /\ Mark(segs'[i]) = 1
    BY <1>1, <2>1
  <2> QED
    BY <1>0, <2>2 DEF Holds
<1>5. ASSUME NEW b, NEW w, w # None, Holds(segs', b, w, 0) PROVE Holds(segs, b, w, 0)
  <2>1. PICK i \in 1 .. Len(segs) : b \in BytesOf(segs'[i]) /\ segs'[i].path = w /\ Mark(segs'[i]) = 0
    BY <1>0, <1>5 DEF Holds
  <2>2. b \in BytesOf(segs[i]) /\ segs[i].path = w /\ Mark(segs[i]) = 0
    BY <1>1, <1>5, <2>1
  <2> QED
    BY <2>2 DEF Holds
<1>6. ASSUME NEW b, NEW q \in live', Holds(segs', b, q, 0), Holds(segs, b, None, 0)
      PROVE  b \notin cover
  <2>1. q # None /\ Holds(segs, b, q, 0)
    BY <1>2, <1>5, <1>6
  <2> QED
    BY <1>6, <2>1, PoolApart
<1>7. Owners'
  BY <1>2, <1>3, <1>5 DEF Owners
<1> QED
  BY <1>3, <1>4, <1>6, <1>7 DEF Effects

LEMMA DropPathEffects ==
  ASSUME TypeOK, Tiling, Owners, NEW p \in Path, DropPath(p)
  PROVE  Effects /\ Owners'
<1>1. \A b, w, m : Holds(segs', b, w, m) <=> \/ w # p /\ Holds(segs, b, w, m)
                                             \/ w = None /\ Holds(segs, b, p, m)
  BY DropPathHolds
<1>2. live' = live \ {p} /\ live \subseteq Path /\ None \notin Path
  BY PathAssumption DEF DropPath, TypeOK
<1>3. ASSUME NEW b, NEW q \in live', Holds(segs', b, q, 0), Holds(segs, b, None, 0)
      PROVE  b \notin cover
  <2>1. q # None /\ Holds(segs, b, q, 0)
    BY <1>1, <1>2, <1>3
  <2> QED
    BY <1>3, <2>1, PoolApart
<1>4. Owners'
  BY <1>1, <1>2 DEF Owners
<1>5. \A b, w : Holds(segs, b, w, 1) => \E v : Holds(segs', b, v, 1)
  BY <1>1
<1>6. \A b, w : Holds(segs', b, w, 1) => \E v : Holds(segs, b, v, 1)
  BY <1>1
<1> QED
  BY <1>3, <1>4, <1>5, <1>6 DEF Effects

-----------------------------------------------------------------------------
(* The inductive invariant. *)

IInv == TypeOK /\ Tiling /\ InflightLedger /\ CreditedOnce /\ OwnersLive

LEMMA InitIInv == Init => IInv
<1> SUFFICES ASSUME Init PROVE IInv
  OBVIOUS
<1>1. TypeOK
  BY DEF Init, TypeOK
<1>2. Tiling
  <2>1. Tiles(segs, cumAcked, sentOff)
    BY DEF Init, Tiles
  <2> QED
    BY <1>1, <2>1, TilingTiles
<1>3. InflightLedger
  <2> SUFFICES ASSUME NEW p \in Path PROVE inflight[p] = LenOf(OnPath(p))
    BY DEF InflightLedger
  <2>1. OnPath(p) = {}
    BY DEF Init, OnPath
  <2> QED
    BY <2>1, SumEmpty DEF LenOf, Init
<1>4. CreditedOnce
  <2> DEFINE B == [p \in Path |-> {}]
  <2>1. \A p \in Path : IsFiniteSet(B[p]) /\ Cardinality(B[p]) = delivered[p]
    BY FS_EmptySet DEF Init
  <2>2. \A p \in Path, q \in Path : p # q => B[p] \cap B[q] = {}
    OBVIOUS
  <2>3. Pieces(B, Path) = {}
    BY DEF Pieces
  <2> HIDE DEF B
  <2>4. SumFunctionOnSet(delivered, Path) = Cardinality(Pieces(B, Path))
    BY <2>1, <2>2, SumIsCardinality, PathAssumption
  <2>5. SumFunctionOnSet(delivered, Path) = 0
    BY <2>3, <2>4, FS_EmptySet
  <2> QED
    BY <2>5 DEF CreditedOnce, Init
<1>5. OwnersLive
  BY DEF OwnersLive, Init
<1> QED
  BY <1>1, <1>2, <1>3, <1>4, <1>5 DEF IInv

\* Only an ACK changes what has been credited.
LEMMA CreditsKept ==
  ASSUME CreditedOnce, UNCHANGED <<delivered, cumAcked>>
  PROVE  CreditedOnce'
BY DEF CreditedOnce

LEMMA NextIInv == IInv /\ [Next]_vars => IInv' /\ (Effects \/ UNCHANGED vars)
<1> SUFFICES ASSUME IInv, [Next]_vars PROVE IInv' /\ (Effects \/ UNCHANGED vars)
  OBVIOUS
<1> USE DEF IInv
<1>0. Owners
  BY OwnersOfBytes
<1>1. ASSUME SendNothing PROVE IInv' /\ Effects
  <2>1. TypeOK' /\ Tiling' /\ InflightLedger'
    BY <1>1, SendNothingTypes, SendNothingLedger
  <2>2. CreditedOnce'
    BY <1>1, CreditsKept DEF SendNothing
  <2>3. Effects /\ OwnersLive'
    BY <1>0, <1>1, <2>1, SendNothingEffects, NextOwnersOfBytes
  <2> QED
    BY <2>1, <2>2, <2>3
<1>2. ASSUME NEW p \in Path, Resend(p) PROVE IInv' /\ Effects
  <2>1. TypeOK' /\ Tiling' /\ InflightLedger'
    BY <1>2, ResendTypes, ResendLedger
  <2>2. CreditedOnce'
    BY <1>2, CreditsKept DEF Resend
  <2>3. Effects /\ OwnersLive'
    BY <1>0, <1>2, <2>1, ResendEffects, NextOwnersOfBytes
  <2> QED
    BY <2>1, <2>2, <2>3
<1>3. ASSUME NEW p \in Path, NEW n \in 1 .. MaxFrame, SendNew(n, p) PROVE IInv' /\ Effects
  <2>1. TypeOK' /\ Tiling' /\ InflightLedger'
    BY <1>3, SendNewTypes, SendNewLedger
  <2>2. CreditedOnce'
    BY <1>3, CreditsKept DEF SendNew
  <2>3. Effects /\ OwnersLive'
    BY <1>0, <1>3, <2>1, SendNewEffects, NextOwnersOfBytes
  <2> QED
    BY <2>1, <2>2, <2>3
<1>4. ASSUME NEW p \in Path, DropPath(p) PROVE IInv' /\ Effects
  <2>1. TypeOK' /\ Tiling' /\ InflightLedger'
    BY <1>4, DropPathTypes, DropPathLedger
  <2>2. CreditedOnce'
    BY <1>4, CreditsKept DEF DropPath
  <2>3. Effects /\ OwnersLive'
    BY <1>0, <1>4, <2>1, DropPathEffects, NextOwnersOfBytes
  <2> QED
    BY <2>1, <2>2, <2>3
<1>5. ASSUME NEW late \in SUBSET DOMAIN segs, SoftFail(late) PROVE IInv' /\ Effects
  <2>1. TypeOK' /\ Tiling' /\ InflightLedger'
    BY <1>5, SoftFailTypes, SoftFailLedger
  <2>2. CreditedOnce'
    BY <1>5, CreditsKept DEF SoftFail
  <2>3. Effects /\ OwnersLive'
    BY <1>0, <1>5, <2>1, SoftFailEffects, NextOwnersOfBytes
  <2> QED
    BY <2>1, <2>2, <2>3
<1>6. ASSUME NEW cum, NEW rng, Ack(cum, rng) PROVE IInv' /\ Effects
  <2>1. TypeOK' /\ Tiling' /\ InflightLedger' /\ CreditedOnce'
    BY <1>6, AckTypes, AckLedger, AckCredits
  <2>2. Effects /\ OwnersLive'
    BY <1>0, <1>6, <2>1, AckEffects, NextOwnersOfBytes
  <2> QED
    BY <2>1, <2>2
<1>7. CASE UNCHANGED vars
  BY <1>7 DEF vars, TypeOK, Tiling, InflightLedger, OnPath, LenOf, CreditedOnce, OwnersLive
<1> QED
  BY <1>1, <1>2, <1>3, <1>4, <1>5, <1>6, <1>7 DEF Next

LEMMA Invariance == Spec => []IInv
<1>1. IInv /\ [Next]_vars => IInv'
  BY NextIInv
<1> QED
  BY <1>1, InitIInv, PTL DEF Spec

-----------------------------------------------------------------------------
(* The byte sets of the action properties. *)

LEMMA ByteSets ==
  TypeOK => /\ \A b : b \in PoolBytes <=> Holds(segs, b, None, 0)
            /\ \A b : b \in MarkedBytes <=> \E v : Holds(segs, b, v, 1)
            /\ \A b : b \in CarriedBytes <=> \E q \in live : Holds(segs, b, q, 0)
<1> SUFFICES ASSUME TypeOK
             PROVE  /\ \A b : b \in PoolBytes <=> Holds(segs, b, None, 0)
                    /\ \A b : b \in MarkedBytes <=> \E v : Holds(segs, b, v, 1)
                    /\ \A b : b \in CarriedBytes <=> \E q \in live : Holds(segs, b, q, 0)
  OBVIOUS
<1>0. DOMAIN segs = 1 .. Len(segs)
  BY DEF TypeOK
<1>1. ASSUME NEW i \in 1 .. Len(segs)
      PROVE  (Mark(segs[i]) = 1 <=> segs[i].sacked) /\ (Mark(segs[i]) = 0 <=> ~segs[i].sacked)
  BY DEF Mark
<1>2. \A b : b \in PoolBytes <=> \E i \in 1 .. Len(segs) :
                 b \in BytesOf(segs[i]) /\ segs[i].path = None /\ ~segs[i].sacked
  BY <1>0 DEF PoolBytes, InPool
<1>3. \A b : b \in MarkedBytes <=> \E i \in 1 .. Len(segs) : b \in BytesOf(segs[i]) /\ segs[i].sacked
  BY <1>0 DEF MarkedBytes
<1>4. \A b : b \in CarriedBytes <=> \E q \in live : \E i \in 1 .. Len(segs) :
                 b \in BytesOf(segs[i]) /\ segs[i].path = q /\ ~segs[i].sacked
  BY <1>0 DEF CarriedBytes, OnPath
<1> QED
  BY <1>1, <1>2, <1>3, <1>4 DEF Holds

LEMMA NextByteSets ==
  TypeOK' => /\ \A b : b \in MarkedBytes' <=> \E v : Holds(segs', b, v, 1)
             /\ \A b : b \in CarriedBytes' <=> \E q \in live' : Holds(segs', b, q, 0)
<1> DEFINE Same == TypeOK => /\ \A b : b \in MarkedBytes <=> \E v : Holds(segs, b, v, 1)
                             /\ \A b : b \in CarriedBytes <=> \E q \in live : Holds(segs, b, q, 0)
<1>1. Same
  BY ByteSets
<1>2. Same'
  BY <1>1, PTL
<1> QED
  BY <1>2

-----------------------------------------------------------------------------
(* The theorems. *)

\* unackedSegs holds well formed segments of positive length, and the in-flight
\* and delivery accounts are numbers, after every call of the sender.
THEOREM TypeCorrect == Spec => []TypeOK
<1>1. IInv => TypeOK
  BY DEF IInv
<1> QED
  BY <1>1, Invariance, PTL

\* unackedSegs tiles the bytes sent and not acknowledged: whatever
\* splitResendLocked, freeAckedLocked, the soft failure scan and dropPath do to
\* the list, no byte is lost and none is in two segments.
THEOREM ListTiles == Spec => []Tiling
<1>1. IInv => Tiling
  BY DEF IInv
<1> QED
  BY <1>1, Invariance, PTL

\* The in-flight account of every path is exactly what the path carries: no
\* release settles the same bytes twice or forgets any, so a path is never held
\* at its cap by bytes that are no longer on it.
THEOREM LedgerIsExact == Spec => []InflightLedger
<1>1. IInv => InflightLedger
  BY DEF IInv
<1> QED
  BY <1>1, Invariance, PTL

\* No segment, struck or not, refers to a path that dropPath has removed.
THEOREM OwnersStayLive == Spec => []OwnersLive
<1>1. IInv => OwnersLive
  BY DEF IInv
<1> QED
  BY <1>1, Invariance, PTL

\* freeAckedLocked credits every byte to at most one path and at most once,
\* however often it was sent: the delivery rates are never inflated.
THEOREM CreditsAreSingle == Spec => []CreditedOnce
<1>1. IInv => CreditedOnce
  BY DEF IInv
<1> QED
  BY <1>1, Invariance, PTL

\* trySend never takes a byte out of the resend pool that the newest SACK
\* covers: what is sent again is a hole of the peer.
THEOREM HolesOnly == Spec => OnlyHolesResent
<1>1. IInv /\ [Next]_vars => [(PoolBytes \cap CarriedBytes') \cap cover = {}]_vars
  <2> SUFFICES ASSUME IInv, [Next]_vars, ~UNCHANGED vars
               PROVE  (PoolBytes \cap CarriedBytes') \cap cover = {}
    OBVIOUS
  <2>1. Effects /\ TypeOK /\ TypeOK'
    BY NextIInv DEF IInv
  <2> SUFFICES ASSUME NEW b, b \in PoolBytes, b \in CarriedBytes', b \in cover PROVE FALSE
    OBVIOUS
  <2>2. Holds(segs, b, None, 0)
    BY <2>1, ByteSets
  <2>3. PICK q \in live' : Holds(segs', b, q, 0)
    BY <2>1, NextByteSets
  <2> QED
    BY <2>1, <2>2, <2>3 DEF Effects
<1> QED
  BY <1>1, Invariance, PTL DEF Spec, OnlyHolesResent

\* A byte is struck from the resend list only when the newest SACK covers it,
\* by nextResendLocked, splitResendLocked or the soft failure scan, and it stays
\* struck until the cumulative ACK releases it, even when its path dies.
THEOREM MarksAreReported == Spec => MarksFollowReports
<1>1. IInv /\ [Next]_vars =>
        [/\ MarkedBytes' \ MarkedBytes \subseteq cover
         /\ \A b \in MarkedBytes : b \in MarkedBytes' \/ b < cumAcked']_vars
  <2> SUFFICES ASSUME IInv, [Next]_vars, ~UNCHANGED vars
               PROVE  /\ MarkedBytes' \ MarkedBytes \subseteq cover
                      /\ \A b \in MarkedBytes : b \in MarkedBytes' \/ b < cumAcked'
    OBVIOUS
  <2>1. Effects /\ TypeOK /\ TypeOK'
    BY NextIInv DEF IInv
  <2>2. ASSUME NEW b, b \in MarkedBytes', b \notin MarkedBytes PROVE b \in cover
    <3>1. PICK w : Holds(segs', b, w, 1)
      BY <2>1, <2>2, NextByteSets
    <3>2. ~ \E v : Holds(segs, b, v, 1)
      BY <2>1, <2>2, ByteSets
    <3> QED
      BY <2>1, <3>1, <3>2 DEF Effects
  <2>3. ASSUME NEW b \in MarkedBytes, ~(b < cumAcked') PROVE b \in MarkedBytes'
    <3>1. PICK w : Holds(segs, b, w, 1)
      BY <2>1, ByteSets
    <3>2. \E v : Holds(segs', b, v, 1)
      BY <2>1, <2>3, <3>1 DEF Effects
    <3> QED
      BY <2>1, <3>2, NextByteSets
  <2> QED
    BY <2>2, <2>3
<1> QED
  BY <1>1, Invariance, PTL DEF Spec, MarksFollowReports

-----------------------------------------------------------------------------
(* The wake-ups of the send pump.  SendPump looks at the same sender from   *)
(* another side: it shares this module's paths and cap, and has variables   *)
(* of its own.                                                              *)

CONSTANTS Mortal, MaxUnits, ChanCap

VARIABLES written, sent, owner, sacked, view, gotWindow, wake, pumping, liveS, dropping,
          got, ackReq, fresh, liveR, data, back

Pump == INSTANCE SendPump WITH sentOff <- sent

\* What the pump can send is decided by these variables of the sender.
LEMMA PumpLooksAt ==
  ASSUME UNCHANGED <<written, sent, owner, sacked, view, gotWindow, liveS>>
  PROVE  Pump!CanSend' <=> Pump!CanSend
BY DEF Pump!CanSend, Pump!Waiting, Pump!Eligible, Pump!Holes, Pump!Pool, Pump!InflightOf,
       Pump!Unacked, Pump!Cum, Pump!Unit

\* The marks nextResendLocked leaves on its way are in the pool, so they
\* neither free a path nor make a hole.
LEMMA MarkingMakesNothingSendable ==
  ASSUME Pump!StopPump, liveS \subseteq Path
  PROVE  ~Pump!CanSend'
<1>1. /\ UNCHANGED <<written, sent, owner, view, gotWindow, liveS>>
      /\ sacked \subseteq sacked'
      /\ \A u \in sacked' \ sacked : owner[u] = None
  BY DEF Pump!StopPump, Pump!Marked, Pump!Pool
<1>2. Pump!Unacked' = Pump!Unacked
  BY <1>1 DEF Pump!Unacked, Pump!Cum, Pump!Unit
<1>3. Pump!Holes' \subseteq Pump!Holes
  BY <1>1, <1>2 DEF Pump!Holes, Pump!Pool
<1>4. Pump!Waiting' => Pump!Waiting
  BY <1>1, <1>3 DEF Pump!Waiting
<1>5. \A p \in liveS : Pump!InflightOf(p)' = Pump!InflightOf(p)
  <2> SUFFICES ASSUME NEW p \in liveS
               PROVE  Pump!InflightOf(p)' = Pump!InflightOf(p)
    OBVIOUS
  <2>1. p # None
    BY PathAssumption
  <2> QED
    BY <1>1, <1>2, <2>1 DEF Pump!InflightOf
<1>6. Pump!Eligible' = Pump!Eligible
  BY <1>1, <1>5 DEF Pump!Eligible
<1> QED
  BY <1>4, <1>6 DEF Pump!CanSend, Pump!StopPump

\* A path is at its cap, and a step takes it below.
Uncaps == \E p \in liveS : p \notin Pump!Eligible /\ p \in Pump!Eligible'

\* A tick that moves nothing leaves no token.  It only makes something
\* sendable where it releases a path from its cap.
LEMMA TickUncaps ==
  ASSUME Pump!Tick, ~wake', Pump!CanSend', ~Pump!CanSend
  PROVE  Uncaps /\ Pump!Waiting
<1>1. UNCHANGED <<written, sent, view, gotWindow, liveS>>
  BY DEF Pump!Tick
<1>2. /\ sacked \subseteq sacked'
      /\ owner' = [u \in Pump!Unit |-> owner[u]]
  <2>1. PICK late \in SUBSET {u \in Pump!Unacked \ sacked' : owner[u] # None} :
          /\ owner' = [u \in Pump!Unit |-> IF u \in late THEN None ELSE owner[u]]
          /\ wake' = (wake \/ late # {})
    BY DEF Pump!Tick
  <2>2. late = {}
    BY <2>1
  <2> QED
    BY <2>1, <2>2 DEF Pump!Tick
<1>3. Pump!Unacked' = Pump!Unacked /\ Pump!Unacked \subseteq Pump!Unit
  BY <1>1 DEF Pump!Unacked, Pump!Cum, Pump!Unit
<1>4. Pump!Holes' \subseteq Pump!Holes
  BY <1>1, <1>2, <1>3 DEF Pump!Holes, Pump!Pool
<1>5. Pump!Waiting
  BY <1>1, <1>4 DEF Pump!Waiting, Pump!CanSend
<1>6. PICK p : p \in Pump!Eligible'
  BY DEF Pump!CanSend
<1>7. p \in liveS
  BY <1>1, <1>6 DEF Pump!Eligible
<1>8. p \notin Pump!Eligible
  BY <1>5 DEF Pump!CanSend
<1> QED
  BY <1>5, <1>6, <1>7, <1>8 DEF Uncaps

\* Each step: a token is left, or a drop that will leave one is under way,
\* or nothing has become sendable.
LEMMA PumpStep ==
  ASSUME liveS \subseteq Path, [Pump!Next]_Pump!vars, Pump!NoLostWakeup,
         ~Pump!NoLostWakeup'
  PROVE  Pump!Tick /\ Uncaps /\ Pump!Waiting
<1> USE DEF Pump!NoLostWakeup
<1>1. Pump!CanSend' /\ ~pumping' /\ ~wake' /\ dropping' = {}
  OBVIOUS
<1>2. CASE Pump!Write
  BY <1>1, <1>2 DEF Pump!Write
<1>3. CASE Pump!StartPump
  BY <1>1, <1>3 DEF Pump!StartPump
<1>4. CASE Pump!SendOne
  BY <1>1, <1>4 DEF Pump!SendOne
<1>5. CASE Pump!StopPump
  BY <1>1, <1>5, MarkingMakesNothingSendable
<1>6. CASE Pump!Tick
  <2>1. ~pumping /\ ~wake /\ dropping = {}
    BY <1>1, <1>6 DEF Pump!Tick
  <2> QED
    BY <1>1, <1>6, <2>1, TickUncaps
<1>7. CASE UNCHANGED <<written, sent, owner, sacked, view, gotWindow, wake, pumping, liveS,
                       dropping>>
  BY <1>1, <1>7, PumpLooksAt
<1>8. CASE Pump!SendAck \/ Pump!SendTelemetry
  BY <1>7, <1>8 DEF Pump!SendAck, Pump!SendTelemetry, Pump!sender
<1>9. ASSUME NEW p \in Path,
             \/ Pump!RecvAck(p) \/ Pump!RecvTelemetry(p) \/ Pump!DropS(p)
             \/ Pump!FinishDrop(p) \/ Pump!RecvData(p) \/ Pump!DropR(p)
      PROVE  Pump!Tick /\ Uncaps /\ Pump!Waiting
  <2>1. CASE Pump!RecvAck(p)
    BY <1>1, <1>7, <2>1 DEF Pump!RecvAck, Pump!WakeAfterAck
  <2>2. CASE Pump!RecvTelemetry(p)
    BY <1>1, <2>2 DEF Pump!RecvTelemetry
  <2>3. CASE Pump!DropS(p)
    BY <1>1, <2>3 DEF Pump!DropS
  <2>4. CASE Pump!FinishDrop(p)
    BY <1>1, <2>4 DEF Pump!FinishDrop, Pump!WakeAfterDrop
  <2>5. CASE Pump!RecvData(p) \/ Pump!DropR(p)
    BY <1>7, <2>5 DEF Pump!RecvData, Pump!DropR, Pump!sender
  <2> QED
    BY <1>9, <2>1, <2>2, <2>3, <2>4, <2>5
<1>10. CASE UNCHANGED Pump!vars
  BY <1>7, <1>10 DEF Pump!vars, Pump!sender
<1> QED
  BY <1>2, <1>3, <1>4, <1>5, <1>6, <1>8, <1>9, <1>10 DEF Pump!Next

PathsShrink == liveS \subseteq Path

LEMMA PumpPaths == Pump!Spec => []PathsShrink
<1>1. Pump!Init => PathsShrink
  BY DEF Pump!Init, PathsShrink
<1>2. PathsShrink /\ [Pump!Next]_Pump!vars => PathsShrink'
  BY DEF PathsShrink, Pump!Next, Pump!vars, Pump!sender, Pump!receiver, Pump!Write,
         Pump!StartPump, Pump!SendOne, Pump!StopPump, Pump!Tick, Pump!RecvAck,
         Pump!RecvTelemetry, Pump!DropS, Pump!FinishDrop, Pump!RecvData, Pump!SendAck,
         Pump!SendTelemetry, Pump!DropR
<1> QED
  BY <1>1, <1>2, PTL DEF Pump!Spec

\* Whatever the cap, only one step can leave a sendable frame waiting without
\* a token: a tick (checkSoftFailLocked) that moves nothing and whose marks
\* take a path below its cap while data waits.  Every other step that makes
\* something sendable wakes the pump, or a dropPath under way will.
THEOREM OnlyTicksForget ==
  Pump!Spec => [][Pump!NoLostWakeup =>
                    \/ Pump!NoLostWakeup'
                    \/ Pump!Tick /\ Uncaps /\ Pump!Waiting]_Pump!vars
<1>1. PathsShrink /\ [Pump!Next]_Pump!vars =>
        [Pump!NoLostWakeup =>
           \/ Pump!NoLostWakeup'
           \/ Pump!Tick /\ Uncaps /\ Pump!Waiting]_Pump!vars
  BY PumpStep DEF PathsShrink
<1> QED
  BY <1>1, PumpPaths, PTL DEF Pump!Spec

=============================================================================

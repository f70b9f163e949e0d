--------------------------- MODULE Allocator_proofs --------------------------
(***************************************************************************)
(* Proofs about the bandwidth allocator of the relay, for any number of    *)
(* peers and streams and any capacity.                                     *)
(***************************************************************************)
EXTENDS Allocator, FiniteSetTheorems, WellFoundedInduction, TLAPS

LEMMA IInvInit == Init => IInv
<1> SUFFICES ASSUME Init PROVE IInv
  OBVIOUS
<1>1. Known = {} /\ \A s \in Streams : ~Holds(s)
  BY DEF Init, Known, Holds, NoStream
<1>2. \A p \in Peers : HoldersOf(p) = {}
  BY <1>1 DEF HoldersOf
<1>3. TypeOK
  <2>1. buckets = [p \in Peers |-> buckets[p]] /\ made \in [Peers -> Nat] /\ stopped \in BOOLEAN
    BY DEF Init
  <2>2. strm \in [Streams -> [gen : Nat, ended : 0..2]]
    BY DEF Init, NoStream
  <2> QED
    BY <1>1, <2>1, <2>2 DEF TypeOK
<1> QED
  BY <1>1, <1>2, <1>3, FS_EmptySet DEF IInv, OneBucketPerPeer, RefsCount

\* The streams of a peer after a step of one stream.
LEMMA HoldersStep ==
  ASSUME NEW s \in Streams, \A t \in Streams : t # s => strm'[t] = strm[t],
         NEW p \in Peers
  PROVE  /\ HoldersOf(p)' \ {s} = HoldersOf(p) \ {s}
         /\ s \in HoldersOf(p)' <=> Holds(s)' /\ PeerOf[s] = p
         /\ s \in HoldersOf(p) <=> Holds(s) /\ PeerOf[s] = p
  BY DEF HoldersOf, Holds

\* A step that leaves the streams and the references alone keeps the invariant.
LEMMA KeepRefs ==
  ASSUME IInv, UNCHANGED <<made, strm>>, stopped' \in BOOLEAN,
         buckets' = [p \in Peers |-> buckets'[p]],
         Known' \subseteq Known,
         \A p \in Known \ Known' : buckets[p].refs = 0,
         \A p \in Known' : /\ IsBucket(buckets'[p])
                           /\ buckets'[p].gen = buckets[p].gen
                           /\ buckets'[p].refs = buckets[p].refs
  PROVE  IInv'
<1>1. TypeOK'
  BY DEF IInv, TypeOK
<1>2. \A p \in Peers : HoldersOf(p)' = HoldersOf(p)
  BY DEF HoldersOf, Holds
<1>3. RefsCount'
  <2>1. \A p \in Known' : p \in Peers /\ p \in Known
    BY DEF Known
  <2>2. \A p \in Known' : buckets'[p].refs = Cardinality(HoldersOf(p)')
    BY <1>2, <2>1 DEF IInv, RefsCount
  <2>3. \A p \in Peers : IsFiniteSet(HoldersOf(p)')
    BY <1>2 DEF IInv, RefsCount
  <2> QED
    BY <2>2, <2>3 DEF RefsCount
<1>4. ASSUME NEW s \in Streams, Holds(s)' PROVE Pointed(s)'
  <2>1. PeerOf[s] \in Known /\ buckets[PeerOf[s]].gen = strm[s].gen /\ s \in HoldersOf(PeerOf[s])
    BY <1>4 DEF IInv, OneBucketPerPeer, Pointed, Holds, HoldersOf
  <2>2. buckets[PeerOf[s]].refs # 0
    <3>1. PeerOf[s] \in Peers
      BY <2>1 DEF Known
    <3>2. IsFiniteSet(HoldersOf(PeerOf[s])) /\ HoldersOf(PeerOf[s]) # {}
      BY <2>1, <3>1 DEF IInv, RefsCount
    <3>3. Cardinality(HoldersOf(PeerOf[s])) # 0
      BY <3>2, FS_EmptySet
    <3> QED
      BY <2>1, <3>3 DEF IInv, RefsCount
  <2>3. PeerOf[s] \in Known'
    BY <2>1, <2>2
  <2> QED
    BY <2>1, <2>3 DEF Pointed
<1> QED
  BY <1>1, <1>3, <1>4 DEF IInv, OneBucketPerPeer

LEMMA AcquireStep == ASSUME IInv, NEW s \in Streams, Acquire(s) PROVE IInv'
<1> DEFINE p == PeerOf[s]
           b == IF p \in Known THEN buckets[p] ELSE NewBucket(p)
<1>p. p \in Peers /\ strm[s].gen = 0 /\ ~Holds(s)
  BY AllocatorAssumption DEF Acquire, NoStream, Holds
<1>1. /\ IsBucket(b) /\ b.gen \in Nat \ {0}
      /\ b.refs = Cardinality(HoldersOf(p)) /\ IsFiniteSet(HoldersOf(p))
  <2>1. CASE p \in Known
    BY <1>p, <2>1 DEF IInv, TypeOK, RefsCount
  <2>2. CASE p \notin Known
    <3>1. HoldersOf(p) = {}
      BY <2>2 DEF IInv, OneBucketPerPeer, Pointed, HoldersOf
    <3>2. made[p] \in Nat
      BY <1>p DEF IInv, TypeOK
    <3> QED
      BY <2>2, <3>1, <3>2, FS_EmptySet DEF NewBucket, IsBucket
  <2> QED
    BY <2>1, <2>2
<1>2. /\ buckets' = [buckets EXCEPT ![p] = [b EXCEPT !.refs = @ + 1]]
      /\ made' = [made EXCEPT ![p] = b.gen]
      /\ strm' = [strm EXCEPT ![s].gen = b.gen]
      /\ stopped' = stopped
  BY DEF Acquire
<1> HIDE DEF b
<1>3. /\ buckets' = [q \in Peers |-> buckets'[q]]
      /\ \A q \in Peers : buckets'[q] = IF q = p THEN [b EXCEPT !.refs = @ + 1] ELSE buckets[q]
  BY <1>2 DEF IInv, TypeOK
<1>4. IsBucket(buckets'[p]) /\ buckets'[p].gen = b.gen /\ buckets'[p].refs = b.refs + 1
  BY <1>1, <1>3, <1>p DEF IsBucket
<1>5. Known' = Known \cup {p}
  <2>1. buckets'[p] # NoBucket
    BY <1>1, <1>4 DEF NoBucket
  <2> QED
    BY <1>3, <1>p, <2>1 DEF Known
<1>6. /\ strm' \in [Streams -> [gen : Nat, ended : 0..2]]
      /\ \A t \in Streams : t # s => strm'[t] = strm[t]
      /\ strm'[s].gen = b.gen /\ strm'[s].ended = strm[s].ended
  BY <1>1, <1>2 DEF IInv, TypeOK
<1>7. TypeOK'
  BY <1>1, <1>2, <1>3, <1>4, <1>5, <1>6 DEF IInv, TypeOK, Known
<1>8. strm[s].ended = 0 /\ Holds(s)'
  BY <1>1, <1>6 DEF Acquire, NoStream, Holds
<1>9. RefsCount'
  <2>1. HoldersOf(p)' = HoldersOf(p) \cup {s} /\ s \notin HoldersOf(p)
    BY <1>6, <1>8, <1>p, HoldersStep
  <2>2. \A q \in Peers : q # p => HoldersOf(q)' = HoldersOf(q)
    BY <1>6, HoldersStep
  <2>3. IsFiniteSet(HoldersOf(p)') /\ Cardinality(HoldersOf(p)') = b.refs + 1
    BY <1>1, <2>1, FS_AddElement
  <2> QED
    BY <1>3, <1>4, <1>5, <1>p, <2>2, <2>3 DEF IInv, RefsCount, Known
<1>10. ASSUME NEW t \in Streams, Holds(t)' PROVE Pointed(t)'
  <2>1. CASE t = s
    BY <1>4, <1>5, <1>6, <2>1 DEF Pointed
  <2>2. CASE t # s
    <3>1. Holds(t) /\ Pointed(t)
      BY <1>6, <1>10, <2>2 DEF Holds, IInv, OneBucketPerPeer
    <3>2. CASE PeerOf[t] = p
      <4>1. b.gen = buckets[p].gen
        BY <3>1, <3>2 DEF Pointed, b
      <4> QED
        BY <1>4, <1>5, <1>6, <2>2, <3>1, <3>2, <4>1 DEF Pointed
    <3>3. CASE PeerOf[t] # p
      BY <1>3, <1>5, <1>6, <2>2, <3>1, <3>3 DEF Pointed, Known
    <3> QED
      BY <3>2, <3>3
  <2> QED
    BY <2>1, <2>2
<1> QED
  BY <1>7, <1>9, <1>10 DEF IInv, OneBucketPerPeer

LEMMA ReadStep == ASSUME IInv, NEW s \in Streams, Read(s) PROVE IInv'
<1>1. PICK n \in 0..MaxRead, wait \in BOOLEAN :
        buckets' = IF Pointed(s)
                     THEN [buckets EXCEPT ![PeerOf[s]].cur = @ + n,
                                          ![PeerOf[s]].waited = @ \/ wait]
                     ELSE buckets
  BY DEF Read
<1>2. UNCHANGED <<made, strm, stopped>>
  BY DEF Read
<1>3. CASE ~Pointed(s)
  BY <1>1, <1>2, <1>3, KeepRefs DEF IInv, TypeOK, Known
<1>4. CASE Pointed(s)
  <2> DEFINE p == PeerOf[s]
  <2>1. p \in Peers /\ p \in Known /\ IsBucket(buckets[p]) /\ buckets[p].gen \in Nat \ {0}
    BY <1>4 DEF Pointed, Known, IInv, TypeOK
  <2>2. /\ buckets' = [q \in Peers |-> buckets'[q]]
        /\ \A q \in Peers : q # p => buckets'[q] = buckets[q]
        /\ buckets'[p] = [buckets[p] EXCEPT !.cur = @ + n, !.waited = @ \/ wait]
    BY <1>1, <1>4, <2>1 DEF IInv, TypeOK
  <2>3. /\ IsBucket(buckets'[p]) /\ buckets'[p].gen = buckets[p].gen
        /\ buckets'[p].refs = buckets[p].refs
    BY <2>1, <2>2 DEF IsBucket
  <2>4. buckets'[p] # NoBucket
    BY <2>1, <2>3 DEF NoBucket
  <2>5. Known' = Known
    BY <2>1, <2>2, <2>4 DEF Known
  <2>6. \A q \in Known' : /\ IsBucket(buckets'[q]) /\ buckets'[q].gen = buckets[q].gen
                          /\ buckets'[q].refs = buckets[q].refs
    BY <2>2, <2>3, <2>5 DEF IInv, TypeOK, Known
  <2> QED
    BY <1>2, <2>2, <2>5, <2>6, KeepRefs DEF IInv, TypeOK
<1> QED
  BY <1>3, <1>4
LEMMA CloseOrResetStep == ASSUME IInv, NEW s \in Streams, CloseOrReset(s) PROVE IInv'
<1> DEFINE p == PeerOf[s]
<1>1. /\ strm[s] \in [gen : Nat, ended : 0..2] /\ strm[s].gen > 0 /\ strm[s].ended < 2
      /\ strm' = [strm EXCEPT ![s].ended = @ + 1]
      /\ UNCHANGED <<made, stopped>> /\ p \in Peers
  BY AllocatorAssumption DEF CloseOrReset, IInv, TypeOK
<1>2. /\ strm' \in [Streams -> [gen : Nat, ended : 0..2]]
      /\ \A t \in Streams : t # s => strm'[t] = strm[t]
      /\ strm'[s].gen = strm[s].gen /\ strm'[s].ended = strm[s].ended + 1
  BY <1>1 DEF IInv, TypeOK
<1>3. ~Holds(s)' /\ (Holds(s) <=> strm[s].ended = 0) /\ (Holds(s) => Pointed(s))
  BY <1>1, <1>2 DEF Holds, IInv, OneBucketPerPeer
<1>4. \A t \in Streams : Holds(t)' => Holds(t) /\ t # s
  BY <1>2, <1>3 DEF Holds
<1>5. \A q \in Peers : /\ q # p => HoldersOf(q)' = HoldersOf(q)
                       /\ ~Holds(s) => HoldersOf(q)' = HoldersOf(q)
                       /\ Holds(s) /\ q = p => HoldersOf(q)' = HoldersOf(q) \ {s} /\ s \in HoldersOf(q)
  <2> SUFFICES ASSUME NEW q \in Peers
               PROVE  /\ q # p => HoldersOf(q)' = HoldersOf(q)
                      /\ ~Holds(s) => HoldersOf(q)' = HoldersOf(q)
                      /\ Holds(s) /\ q = p
                           => HoldersOf(q)' = HoldersOf(q) \ {s} /\ s \in HoldersOf(q)
    OBVIOUS
  <2>1. /\ HoldersOf(q)' \ {s} = HoldersOf(q) \ {s}
        /\ s \notin HoldersOf(q)'
        /\ s \in HoldersOf(q) <=> Holds(s) /\ p = q
    BY <1>2, <1>3, HoldersStep
  <2> QED
    BY <2>1
<1>6. CASE ~Pointed(s)
  <2>1. buckets' = buckets /\ ~Holds(s)
    BY <1>3, <1>6 DEF CloseOrReset
  <2>2. Known' = Known
    BY <2>1 DEF Known
  <2>3. TypeOK'
    BY <1>1, <1>2, <2>1, <2>2 DEF IInv, TypeOK
  <2>4. RefsCount'
    BY <1>5, <2>1, <2>2 DEF IInv, RefsCount, Known
  <2>5. OneBucketPerPeer'
    BY <1>2, <1>4, <2>1, <2>2 DEF IInv, OneBucketPerPeer, Pointed
  <2> QED
    BY <2>3, <2>4, <2>5 DEF IInv
<1>7. CASE Pointed(s)
  <2>1. p \in Known /\ IsBucket(buckets[p]) /\ buckets[p].gen \in Nat \ {0}
    BY <1>7 DEF Pointed, IInv, TypeOK
  <2>2. buckets' = [buckets EXCEPT ![p].refs = @ - Returned(s)]
    BY <1>7 DEF CloseOrReset
  <2>3. /\ buckets' = [q \in Peers |-> buckets'[q]]
        /\ \A q \in Peers : q # p => buckets'[q] = buckets[q]
        /\ buckets'[p] = [buckets[p] EXCEPT !.refs = @ - Returned(s)]
    BY <1>1, <2>2 DEF IInv, TypeOK
  <2>4. /\ IsBucket(buckets'[p]) /\ buckets'[p].gen = buckets[p].gen
        /\ buckets'[p].refs = buckets[p].refs - Returned(s)
    BY <2>1, <2>3 DEF IsBucket
  <2>5. buckets'[p] # NoBucket
    BY <2>1, <2>4 DEF NoBucket
  <2>6. Known' = Known
    BY <2>1, <2>3, <2>5 DEF Known
  <2>7. TypeOK'
    BY <1>1, <1>2, <2>1, <2>3, <2>4, <2>6 DEF IInv, TypeOK, Known
  <2>8. RefsCount'
    <3>1. IsFiniteSet(HoldersOf(p)) /\ buckets[p].refs = Cardinality(HoldersOf(p))
      BY <1>1, <2>1 DEF IInv, RefsCount
    <3>2. IsFiniteSet(HoldersOf(p)') /\ Cardinality(HoldersOf(p)') = buckets'[p].refs
      <4>1. CASE Holds(s)
        <5>1. Returned(s) = 1 /\ HoldersOf(p)' = HoldersOf(p) \ {s} /\ s \in HoldersOf(p)
          BY <1>1, <1>3, <1>5, <4>1 DEF Returned
        <5> QED
          BY <2>4, <3>1, <5>1, FS_RemoveElement
      <4>2. CASE ~Holds(s)
        <5>1. Returned(s) = 0 /\ HoldersOf(p)' = HoldersOf(p)
          BY <1>1, <1>3, <1>5, <4>2 DEF Returned
        <5> QED
          BY <2>4, <3>1, <5>1, FS_CardinalityType
      <4> QED
        BY <4>1, <4>2
    <3>3. ASSUME NEW q \in Peers, q # p
          PROVE  HoldersOf(q)' = HoldersOf(q) /\ buckets'[q] = buckets[q]
      BY <1>5, <2>3, <3>3
    <3>4. ASSUME NEW q \in Peers PROVE IsFiniteSet(HoldersOf(q)')
      BY <3>2, <3>3 DEF IInv, RefsCount
    <3>5. ASSUME NEW q \in Known PROVE buckets'[q].refs = Cardinality(HoldersOf(q)')
      BY <3>2, <3>3 DEF IInv, RefsCount, Known
    <3> QED
      BY <2>6, <3>4, <3>5 DEF RefsCount
  <2>9. ASSUME NEW t \in Streams, Holds(t)' PROVE Pointed(t)'
    <3>1. Pointed(t) /\ t # s
      BY <1>4, <2>9 DEF IInv, OneBucketPerPeer
    <3> QED
      BY <1>2, <2>3, <2>4, <2>6, <3>1 DEF Pointed, Known
  <2> QED
    BY <2>7, <2>8, <2>9 DEF IInv, OneBucketPerPeer
<1> QED
  BY <1>6, <1>7

LEMMA RecomputeStep == ASSUME IInv, Recompute PROVE IInv'
<1> DEFINE now == [p \in Known |-> Sampled(buckets[p])]
           kept == {p \in Known : ~Idle(now[p])}
<1>1. PICK shares :
        buckets' = [p \in Peers |-> IF p \in kept THEN [now[p] EXCEPT !.share = shares[p]]
                                                  ELSE NoBucket]
  <2> DEFINE Set(n, shares) ==
        LET k == {p \in Known : ~Idle(n[p])} IN
        buckets' = [p \in Peers |-> IF p \in k THEN [n[p] EXCEPT !.share = shares[p]]
                                              ELSE NoBucket]
  <2>1. \E n \in {now} : \E shares : Set(n, shares)
    BY DEF Recompute
  <2> HIDE DEF now
  <2> QED
    BY <2>1, Zenon
<1>2. ASSUME NEW p \in Known
      PROVE  /\ IsBucket(now[p]) /\ now[p].gen = buckets[p].gen /\ now[p].refs = buckets[p].refs
             /\ buckets[p].gen \in Nat \ {0} /\ p \in Peers
  <2>1. IsBucket(buckets[p]) /\ buckets[p].gen \in Nat \ {0} /\ now[p] = Sampled(buckets[p]) /\ p \in Peers
    BY DEF IInv, TypeOK, Known
  <2> QED
    BY <2>1 DEF IsBucket, Sampled
<1> HIDE DEF now
<1>3. ASSUME NEW p \in kept
      PROVE  /\ IsBucket(buckets'[p]) /\ buckets'[p].gen = buckets[p].gen
             /\ buckets'[p].refs = buckets[p].refs /\ buckets'[p] # NoBucket
  <2>1. p \in Known /\ buckets'[p] = [now[p] EXCEPT !.share = shares[p]]
    BY <1>1, <1>2
  <2>2. /\ IsBucket(buckets'[p]) /\ buckets'[p].gen = buckets[p].gen
        /\ buckets'[p].refs = buckets[p].refs
    BY <1>2, <2>1 DEF IsBucket
  <2> QED
    BY <1>2, <2>1, <2>2 DEF NoBucket
<1>4. Known' = kept
  BY <1>1, <1>2, <1>3 DEF Known
<1>5. ASSUME NEW p \in Known, p \notin Known' PROVE buckets[p].refs = 0
  BY <1>2, <1>4, <1>5 DEF Idle
<1>6. UNCHANGED <<made, strm, stopped>>
  BY DEF Recompute
<1>7. buckets' = [p \in Peers |-> buckets'[p]]
  BY <1>1
<1> HIDE DEF kept
<1>8. Known' \subseteq Known
  BY <1>4 DEF kept
<1> QED
  BY <1>3, <1>4, <1>5, <1>6, <1>7, <1>8, KeepRefs DEF IInv, TypeOK

LEMMA Invariance == Spec => []IInv
<1>1. IInv /\ [Next]_vars => IInv'
  <2> SUFFICES ASSUME IInv, [Next]_vars PROVE IInv'
    OBVIOUS
  <2>1. CASE Close \/ UNCHANGED vars
    <3>1. UNCHANGED <<buckets, made, strm>> /\ stopped' \in BOOLEAN
      BY <2>1 DEF Close, vars, IInv, TypeOK
    <3>2. Known' = Known
      BY <3>1 DEF Known
    <3> QED
      BY <3>1, <3>2, KeepRefs DEF IInv, TypeOK
  <2> QED
    BY <2>1, AcquireStep, ReadStep, CloseOrResetStep, RecomputeStep DEF Next
<1> QED
  BY <1>1, IInvInit, PTL DEF Spec

-----------------------------------------------------------------------------
(* The theorem. *)

\* acquireBucket counts a stream while recompute may drop buckets, and Close
\* and Reset return the reference once between them: whatever their order, an
\* open stream points to the bucket in the map, and its peer has one allowance.
THEOREM OneAllowance == Spec => []OneBucketPerPeer
  BY Invariance, PTL DEF IInv
-----------------------------------------------------------------------------
(* Numbers and orders. *)

LEMMA LeastNat ==
  ASSUME NEW T \in SUBSET Nat, T # {}
  PROVE  \E m \in T : \A k \in T : m <= k
<1>1. PICK m \in T : \A k \in T : ~(<<k, m>> \in OpToRel(<, Nat))
  BY NatLessThanWellFounded, WFMin
<1>2. \A k \in T : ~(k < m)
  BY <1>1 DEF OpToRel
<1> QED
  BY <1>2

\* A set of numbers that contains 0 and with every number the next one
\* contains everything up to n.
LEMMA StepByStep ==
  ASSUME NEW n \in Nat, NEW T, 0 \in T,
         \A i \in 1..n : i - 1 \in T => i \in T
  PROVE  \A i \in 0..n : i \in T
<1> DEFINE Bad == {i \in 0..n : i \notin T}
<1> SUFFICES ASSUME Bad # {} PROVE FALSE
  OBVIOUS
<1>0. Bad \in SUBSET Nat
  OBVIOUS
<1> HIDE DEF Bad
<1>1. PICK m \in Bad : \A k \in Bad : m <= k
  BY <1>0, LeastNat
<1>2. m \in 1..n /\ m \notin T
  BY <1>1 DEF Bad
<1>3. m - 1 \notin Bad
  BY <1>0, <1>1
<1>4. m - 1 \in T
  BY <1>2, <1>3 DEF Bad
<1> QED
  BY <1>2, <1>4

LEMMA FirstNumbers ==
  ASSUME NEW n \in Nat
  PROVE  IsFiniteSet(1..n) /\ Cardinality(1..n) = n
BY FS_Interval

\* Fewer numbers than members leave a member out.
LEMMA SomeoneLeft ==
  ASSUME NEW S, IsFiniteSet(S), NEW m \in Nat, m < Cardinality(S), NEW o \in [1..m -> S]
  PROVE  \E p \in S : \A i \in 1..m : o[i] # p
<1> SUFFICES ASSUME \A p \in S : \E i \in 1..m : o[i] = p PROVE FALSE
  OBVIOUS
<1>1. o \in Surjection(1..m, S)
  BY DEF Surjection
<1>2. Cardinality(S) <= Cardinality(1..m)
  BY <1>1, FirstNumbers, FS_Surjection
<1> QED
  BY <1>2, FirstNumbers, FS_CardinalityType

\* As many numbers as members, without a repetition, leave none out.
LEMMA NobodyLeft ==
  ASSUME NEW S, IsFiniteSet(S), NEW o \in [1..Cardinality(S) -> S], IsInjective(o),
         NEW p \in S
  PROVE  \E i \in 1..Cardinality(S) : o[i] = p
<1> DEFINE n == Cardinality(S)
<1>0. n \in Nat
  BY FS_CardinalityType
<1>1. o \in Injection(1..n, S)
  BY DEF Injection
<1>2. Cardinality(1..n) = n
  BY <1>0, FirstNumbers
<1>3. o \in Surjection(1..n, S)
  BY <1>1, <1>2, FS_Injection
<1> QED
  BY <1>3 DEF Surjection

Ascending(o, d) == \A i, j \in DOMAIN o : i < j => d[o[i]] <= d[o[j]]

\* A finite set can be put in ascending order.
LEMMA OrderExists ==
  ASSUME NEW S, IsFiniteSet(S), NEW d \in [S -> Nat]
  PROVE  \E o \in [1..Cardinality(S) -> S] : IsInjective(o) /\ Ascending(o, d)
<1> DEFINE n == Cardinality(S)
           Starts(o, m) == /\ IsInjective(o) /\ Ascending(o, d)
                           /\ \A p \in S : \/ \E i \in 1..m : o[i] = p
                                           \/ \A i \in 1..m : d[o[i]] <= d[p]
           T == {m \in 0..n : \E o \in [1..m -> S] : Starts(o, m)}
<1>0. n \in Nat
  BY FS_CardinalityType
<1> HIDE DEF n
<1>1. 0 \in T
  <2> DEFINE o == [i \in 1..0 |-> {}]
  <2>1. o \in [1..0 -> S] /\ 1..0 = {} /\ DOMAIN o = {}
    OBVIOUS
  <2>2. Starts(o, 0)
    BY <2>1 DEF IsInjective, Ascending
  <2>3. o \in [1..0 -> S] /\ 0 \in 0..n
    BY <1>0, <2>1
  <2> HIDE DEF o, Starts
  <2> QED
    BY <2>2, <2>3
<1>2. ASSUME NEW m \in 1..n, m - 1 \in T PROVE m \in T
  <2>0. m \in Nat /\ m - 1 \in Nat /\ m - 1 < n
    BY <1>0
  <2>1. PICK o \in [1 .. m - 1 -> S] : Starts(o, m - 1)
    BY <1>2
  <2> DEFINE Left == {p \in S : \A i \in 1 .. m - 1 : o[i] # p}
             Demands == {d[p] : p \in Left}
  <2>2. \E p \in Left : TRUE
    BY <2>0, SomeoneLeft DEF n
  <2>3. Demands \in SUBSET Nat /\ Demands # {}
    BY <2>2
  <2>4. PICK least \in Demands : \A k \in Demands : least <= k
    <3> HIDE DEF Demands
    <3> QED
      BY <2>3, LeastNat
  <2>5. PICK q \in Left : least = d[q]
    BY <2>4
  <2>6. q \in S /\ \A p \in Left : d[q] <= d[p]
    BY <2>4, <2>5
  <2> DEFINE u == [i \in 1..m |-> IF i = m THEN q ELSE o[i]]
  <2>7. /\ u \in [1..m -> S] /\ u[m] = q /\ DOMAIN u = 1..m
        /\ \A i \in 1 .. m - 1 : u[i] = o[i] /\ i \in 1..m
        /\ \A i \in 1..m : i = m \/ i \in 1 .. m - 1
    BY <2>0, <2>6
  <2>8. /\ \A i, j \in 1 .. m - 1 : o[i] = o[j] => i = j
        /\ \A i, j \in 1 .. m - 1 : i < j => d[o[i]] <= d[o[j]]
        /\ \A p \in S : \/ \E i \in 1 .. m - 1 : o[i] = p
                        \/ \A i \in 1 .. m - 1 : d[o[i]] <= d[p]
    <3>1. DOMAIN o = 1 .. m - 1
      OBVIOUS
    <3> QED
      BY <2>1, <3>1 DEF IsInjective, Ascending
  <2>9. \A i \in 1 .. m - 1 : o[i] # q /\ d[o[i]] <= d[q]
    BY <2>5, <2>6, <2>8
  <2> HIDE DEF u
  <2>10. IsInjective(u)
    BY <2>7, <2>8, <2>9 DEF IsInjective
  <2>11. Ascending(u, d)
    <3> SUFFICES ASSUME NEW i \in 1..m, NEW j \in 1..m, i < j PROVE d[u[i]] <= d[u[j]]
      BY <2>7 DEF Ascending
    <3>1. i \in 1 .. m - 1
      BY <2>0
    <3>2. CASE j = m
      BY <2>7, <2>9, <3>1, <3>2
    <3>3. CASE j # m
      BY <2>7, <2>8, <3>1, <3>3
    <3> QED
      BY <3>2, <3>3
  <2>12. ASSUME NEW p \in S PROVE \/ \E i \in 1..m : u[i] = p
                                  \/ \A i \in 1..m : d[u[i]] <= d[p]
    <3>1. CASE \E i \in 1 .. m - 1 : o[i] = p
      BY <2>7, <3>1
    <3>2. CASE ~ \E i \in 1 .. m - 1 : o[i] = p
      <4>1. p \in Left /\ d[q] <= d[p]
        BY <2>6, <3>2
      <4>2. \A i \in 1 .. m - 1 : d[o[i]] <= d[p]
        BY <2>8, <3>2
      <4> QED
        BY <2>7, <4>1, <4>2
    <3> QED
      BY <3>1, <3>2
  <2>13. Starts(u, m)
    BY <2>10, <2>11, <2>12
  <2>14. u \in [1..m -> S] /\ m \in 0..n
    BY <1>0, <2>7
  <2> HIDE DEF Starts
  <2> QED
    BY <2>13, <2>14
<1>3. n \in T
  <2> HIDE DEF T
  <2> QED
    BY <1>0, <1>1, <1>2, StepByStep
<1> QED
  BY <1>3 DEF n

\* A recursion over the numbers up to n has a solution.
LEMMA RecursionExists ==
  ASSUME NEW n \in Nat, NEW base \in Int, NEW step \in [1..n -> [Int -> Int]]
  PROVE  \E g \in [0..n -> Int] :
           g = [k \in 0..n |-> IF k = 0 THEN base ELSE step[k][g[k-1]]]
<1> DEFINE Solves(g, m) == g = [k \in 0..m |-> IF k = 0 THEN base ELSE step[k][g[k-1]]]
           T == {m \in 0..n : \E g \in [0..m -> Int] : Solves(g, m)}
<1>1. 0 \in T
  <2> DEFINE g == [k \in 0..0 |-> base]
  <2>1. g \in [0..0 -> Int] /\ 0 \in 0..n
    OBVIOUS
  <2>2. Solves(g, 0)
    OBVIOUS
  <2> HIDE DEF g, Solves
  <2> QED
    BY <2>1, <2>2
<1>2. ASSUME NEW m \in 1..n, m - 1 \in T PROVE m \in T
  <2>1. PICK g \in [0 .. m - 1 -> Int] : Solves(g, m - 1)
    BY <1>2
  <2> DEFINE h == [k \in 0..m |-> IF k = m THEN step[m][g[m-1]] ELSE g[k]]
  <2>0. m \in Nat /\ m # 0 /\ m - 1 \in Nat /\ m \in 0..n
    OBVIOUS
  <2>2. g[m-1] \in Int /\ step[m][g[m-1]] \in Int
    <3>1. m - 1 \in 0 .. m - 1
      BY <2>0
    <3>2. g[m-1] \in Int
      BY <3>1
    <3>3. step[m] \in [Int -> Int]
      OBVIOUS
    <3> QED
      BY <3>2, <3>3
  <2>3. \A k \in 0..m : k = m \/ k \in 0 .. m - 1
    BY <2>0
  <2>4. /\ h \in [0..m -> Int] /\ h[m] = step[m][g[m-1]]
        /\ \A k \in 0 .. m - 1 : h[k] = g[k] /\ k \in 0..m /\ k # m
    <3>1. \A k \in 0 .. m - 1 : k \in 0..m /\ k # m
      BY <2>0
    <3>2. h \in [0..m -> Int]
      BY <2>2, <2>3
    <3>3. h[m] = step[m][g[m-1]]
      BY <2>0, m \in 0..m
    <3>4. \A k \in 0 .. m - 1 : h[k] = g[k]
      BY <3>1, Zenon
    <3> HIDE DEF h
    <3> QED
      BY <3>1, <3>2, <3>3, <3>4
  <2>5. Solves(h, m)
    <3> SUFFICES ASSUME NEW k \in 0..m
                 PROVE  h[k] = IF k = 0 THEN base ELSE step[k][h[k-1]]
      OBVIOUS
    <3>1. CASE k = m
      <4> HIDE DEF h
      <4>1. h[k] = step[m][g[m-1]] /\ h[m-1] = g[m-1]
        BY <2>0, <2>4, <3>1
      <4> QED
        BY <2>0, <3>1, <4>1
    <3>2. CASE k # m
      <4>1. k \in 0 .. m - 1
        BY <2>3, <3>2
      <4> HIDE DEF h
      <4>2. k # 0 => k - 1 \in 0 .. m - 1
        BY <2>0, <4>1
      <4>3. h[k] = g[k] /\ (k # 0 => h[k-1] = g[k-1])
        BY <2>4, <4>1, <4>2
      <4>4. g[k] = IF k = 0 THEN base ELSE step[k][g[k-1]]
        BY <2>1, <4>1
      <4> QED
        BY <4>3, <4>4
    <3> QED
      BY <3>1, <3>2
  <2> HIDE DEF h, Solves
  <2> QED
    BY <2>0, <2>4, <2>5
<1>3. n \in T
  <2> HIDE DEF T
  <2>1. \A m \in 0..n : m \in T
    BY <1>1, <1>2, StepByStep
  <2> QED
    BY <2>1, n \in 0..n
<1> QED
  BY <1>3

-----------------------------------------------------------------------------
(* Parts. *)

LEMMA DivOfProduct ==
  ASSUME NEW m \in Nat \ {0}, NEW c \in Int
  PROVE  (m * c) \div m = c
  OBVIOUS

LEMMA TimesMonotone ==
  ASSUME NEW a \in Int, NEW b \in Int, a <= b, NEW m \in Nat
  PROVE  a * m <= b * m
  OBVIOUS

LEMMA TimesCancels ==
  ASSUME NEW a \in Int, NEW b \in Int, NEW m \in Nat \ {0}, a * m <= m * b
  PROVE  a <= b
  OBVIOUS

\* Scale units of anything can be divided among any number of the peers.
LEMMA EqualParts ==
  ASSUME NEW m \in 1..Cardinality(Peers), NEW t \in Nat
  PROVE  \E c \in Nat : Scale * t = m * c
<1>1. Scale \in Nat /\ Scale % m = 0 /\ m \in Nat \ {0}
  BY AllocatorAssumption, FS_CardinalityType
<1> DEFINE q == Scale \div m
<1>2. q \in Nat /\ Scale = m * q
  BY <1>1
<1> HIDE DEF q
<1>3. q * t \in Nat
  BY <1>2
<1>4. (m * q) * t = m * (q * t)
  BY <1>1, <1>2
<1> QED
  BY <1>2, <1>3, <1>4

-----------------------------------------------------------------------------
(* Progressive filling, over the peers in ascending order: w[k] is what the *)
(* k-th of n peers wants, part[k] what it gets, rest[k] what remains.       *)

Fills(n, w, part, rest) ==
  /\ n \in 0..Cardinality(Peers)
  /\ w \in [1..n -> Nat] /\ \A i, j \in 1..n : i < j => w[i] <= w[j]
  /\ part \in [1..n -> Int] /\ rest \in [0..n -> Int]
  /\ rest[0] = Total * Scale
  /\ \A k \in 1..n :
       LET equal == rest[k-1] \div (n - k + 1) IN
       /\ part[k] = IF w[k] * Scale < equal THEN w[k] * Scale ELSE equal
       /\ rest[k] = rest[k-1] - part[k]

\* So far everyone got all it wants, and less than an equal part of the rest.
Granting(n, w, part, rest, k) ==
  /\ \E t \in Nat : rest[k] = Scale * t
  /\ \A j \in 1..k : part[j] = w[j] * Scale /\ part[j] * (n - k) <= rest[k]

\* What remains is c for everyone who is still to come and wants as much; nobody
\* got more, and nobody less who wants more.
Levelled(n, w, part, rest, k, c) ==
  /\ rest[k] = (n - k) * c
  /\ \A j \in 1..k : /\ part[j] \in Nat /\ part[j] <= c /\ part[j] <= w[j] * Scale
                     /\ part[j] = w[j] * Scale \/ part[j] = c
  /\ \A j \in k + 1 .. n : c <= w[j] * Scale

LEMMA FillsFacts ==
  ASSUME NEW n, NEW w, NEW part, NEW rest, Fills(n, w, part, rest)
  PROVE  /\ n \in Nat /\ n <= Cardinality(Peers) /\ Scale \in Nat \ {0} /\ Total \in Nat
         /\ \A j \in 1..n : w[j] \in Nat /\ w[j] * Scale \in Nat /\ part[j] \in Int
         /\ \A i, j \in 1..n : i <= j => w[i] * Scale <= w[j] * Scale
         /\ \A k \in 0..n : rest[k] \in Int
<1>1. Cardinality(Peers) \in Nat /\ Scale \in Nat \ {0} /\ Total \in Nat
  BY AllocatorAssumption, FS_CardinalityType
<1>2. n \in Nat /\ n <= Cardinality(Peers)
  BY <1>1 DEF Fills
<1>3. ASSUME NEW j \in 1..n PROVE w[j] \in Nat /\ w[j] * Scale \in Nat /\ part[j] \in Int
  <2>1. w[j] \in Nat /\ part[j] \in Int
    BY DEF Fills
  <2> DEFINE a == w[j]
  <2> HIDE DEF a
  <2>2. a \in Nat => a * Scale \in Nat
    BY <1>1
  <2> QED
    BY <2>1, <2>2 DEF a
<1>4. ASSUME NEW i \in 1..n, NEW j \in 1..n, i <= j PROVE w[i] * Scale <= w[j] * Scale
  <2>1. w[i] <= w[j]
    BY <1>2, <1>3, <1>4 DEF Fills
  <2> QED
    BY <1>1, <1>3, <2>1, TimesMonotone
<1>5. \A k \in 0..n : rest[k] \in Int
  BY DEF Fills
<1> QED
  BY <1>1, <1>2, <1>3, <1>4, <1>5

\* A peer that wants less than an equal part leaves the others more than that.
LEMMA GrantStep ==
  ASSUME NEW n, NEW w, NEW part, NEW rest, Fills(n, w, part, rest),
         NEW k \in 1..n, Granting(n, w, part, rest, k - 1),
         NEW c \in Nat, rest[k-1] = (n - k + 1) * c, w[k] * Scale < c
  PROVE  Granting(n, w, part, rest, k)
<1> DEFINE m == n - k + 1
           a == w[k] * Scale
           r == rest[k-1]
<1>0. /\ n \in Nat /\ k \in Nat /\ m \in Nat \ {0} /\ a \in Nat /\ r \in Int /\ k - 1 \in 0..n
      /\ Scale \in Nat \ {0} /\ w[k] \in Nat /\ m - 1 = n - k /\ m - 1 \in Nat /\ m = n - (k - 1)
      /\ r = m * c /\ a < c
  <2>1. n \in Nat /\ Scale \in Nat \ {0} /\ w[k] \in Nat /\ a \in Nat
    BY FillsFacts
  <2>2. k - 1 \in 0..n /\ k \in Nat
    BY <2>1
  <2>3. r \in Int
    BY <2>2, FillsFacts
  <2> HIDE DEF a, r
  <2>4. m \in Nat \ {0} /\ m - 1 = n - k /\ m - 1 \in Nat /\ m = n - (k - 1)
    BY <2>1, <2>2
  <2>5. r = m * c /\ a < c
    BY DEF r, a
  <2> QED
    BY <2>1, <2>2, <2>3, <2>4, <2>5
<1>1. part[k] = a /\ rest[k] = r - a
  <2>1. r \div m = c
    <3> HIDE DEF m, r
    <3> QED
      BY <1>0, DivOfProduct
  <2>2. /\ part[k] = IF a < r \div m THEN a ELSE r \div m
        /\ rest[k] = r - part[k]
    BY DEF Fills
  <2> HIDE DEF m, r, a
  <2> QED
    BY <1>0, <2>1, <2>2
<1>2. PICK t \in Nat : r = Scale * t
  BY DEF Granting
<1>3. rest[k] = Scale * (t - w[k]) /\ t - w[k] \in Nat
  <2> DEFINE v == w[k]
  <2>1. a = Scale * v /\ v \in Nat
    BY <1>0
  <2> HIDE DEF a, v, m, r
  <2>2. a <= r
    <3>1. c <= m * c
      BY <1>0
    <3> QED
      BY <1>0, <3>1
  <2>3. v <= t
    <3>1. v * Scale <= Scale * t
      BY <1>0, <1>2, <2>1, <2>2
    <3> QED
      BY <1>0, <2>1, <3>1, TimesCancels
  <2>4. Scale * t - Scale * v = Scale * (t - v)
    BY <1>0, <2>1
  <2> QED
    BY <1>1, <1>2, <2>1, <2>3, <2>4 DEF v
<1>4. ASSUME NEW j \in 1..k PROVE part[j] = w[j] * Scale /\ part[j] * (n - k) <= rest[k]
  <2>0. j \in 1..n /\ (j = k \/ j \in 1 .. k - 1)
    BY <1>0
  <2>1. part[j] = w[j] * Scale
    BY <1>1, <2>0 DEF Granting
  <2>2. w[j] * Scale <= a /\ w[j] * Scale \in Nat
    BY <1>0, <2>0, FillsFacts
  <2> DEFINE b == w[j] * Scale
  <2> HIDE DEF b, a, m, r
  <2>3. b * (m - 1) <= a * (m - 1)
    BY <1>0, <2>2, TimesMonotone DEF b
  <2>4. a * (m - 1) <= r - a
    <3>1. a * m <= c * m
      BY <1>0, TimesMonotone
    <3>2. a * (m - 1) = a * m - a
      BY <1>0
    <3>3. r = c * m
      BY <1>0
    <3> QED
      BY <1>0, <3>1, <3>2, <3>3
  <2>5. b * (m - 1) <= r - a
    <3> DEFINE x == b * (m - 1)
               y == a * (m - 1)
    <3>1. x \in Int /\ y \in Int /\ r - a \in Int /\ b \in Nat
      BY <1>0, <2>2 DEF b
    <3> HIDE DEF x, y
    <3> QED
      BY <2>3, <2>4, <3>1 DEF x, y
  <2> QED
    BY <1>0, <1>1, <2>1, <2>5 DEF b
<1> QED
  BY <1>3, <1>4 DEF Granting

\* A peer that wants an equal part or more gets it, and so will everyone after it.
LEMMA LevelStep ==
  ASSUME NEW n, NEW w, NEW part, NEW rest, Fills(n, w, part, rest),
         NEW k \in 1..n, Granting(n, w, part, rest, k - 1),
         NEW c \in Nat, rest[k-1] = (n - k + 1) * c, c <= w[k] * Scale
  PROVE  Levelled(n, w, part, rest, k, c)
<1> DEFINE m == n - k + 1
           a == w[k] * Scale
           r == rest[k-1]
<1>0. /\ n \in Nat /\ k \in Nat /\ m \in Nat \ {0} /\ a \in Nat /\ k - 1 \in 0..n
      /\ m - 1 = n - k /\ m = n - (k - 1) /\ r = m * c /\ c <= a
  <2>1. n \in Nat /\ a \in Nat
    BY FillsFacts
  <2> HIDE DEF a
  <2>2. k - 1 \in 0..n /\ k \in Nat /\ m \in Nat \ {0} /\ m - 1 = n - k /\ m = n - (k - 1)
    BY <2>1
  <2>3. r = m * c /\ c <= a
    BY DEF r, a
  <2> QED
    BY <2>1, <2>2, <2>3
<1>1. part[k] = c /\ rest[k] = (n - k) * c
  <2>1. r \div m = c
    <3> HIDE DEF m, r
    <3> QED
      BY <1>0, DivOfProduct
  <2>2. /\ part[k] = IF a < r \div m THEN a ELSE r \div m
        /\ rest[k] = r - part[k]
    BY DEF Fills
  <2> HIDE DEF m, r, a
  <2>3. part[k] = c
    BY <1>0, <2>1, <2>2
  <2>4. m * c - c = (m - 1) * c
    BY <1>0
  <2> QED
    BY <1>0, <2>2, <2>3, <2>4
<1>2. ASSUME NEW j \in 1..k
      PROVE  /\ part[j] \in Nat /\ part[j] <= c /\ part[j] <= w[j] * Scale
             /\ part[j] = w[j] * Scale \/ part[j] = c
  <2>1. CASE j = k
    BY <1>0, <1>1, <2>1
  <2>2. CASE j # k
    <3> DEFINE b == w[j] * Scale
    <3>1. j \in 1 .. k - 1 /\ j \in 1..n
      BY <1>0, <2>2
    <3>2. part[j] = b /\ part[j] * (n - (k - 1)) <= r
      BY <3>1 DEF Granting
    <3>3. b \in Nat
      BY <3>1, FillsFacts
    <3> HIDE DEF b, r, m
    <3>4. b * m <= m * c
      BY <1>0, <3>2
    <3>5. b <= c
      BY <1>0, <3>3, <3>4, TimesCancels
    <3> QED
      BY <3>2, <3>3, <3>5 DEF b
  <2> QED
    BY <2>1, <2>2
<1>3. ASSUME NEW j \in k + 1 .. n PROVE c <= w[j] * Scale
  <2>1. j \in 1..n /\ k <= j
    BY <1>0
  <2>2. w[k] * Scale <= w[j] * Scale /\ w[j] * Scale \in Nat /\ w[k] * Scale \in Nat
    BY <2>1, FillsFacts
  <2> QED
    BY <2>2
<1> QED
  BY <1>1, <1>2, <1>3 DEF Levelled

LEMMA StayLevel ==
  ASSUME NEW n, NEW w, NEW part, NEW rest, Fills(n, w, part, rest),
         NEW k \in 1..n, NEW c \in Nat, Levelled(n, w, part, rest, k - 1, c)
  PROVE  Levelled(n, w, part, rest, k, c)
<1> DEFINE m == n - k + 1
           a == w[k] * Scale
           r == rest[k-1]
<1>0. /\ n \in Nat /\ k \in Nat /\ m \in Nat \ {0} /\ a \in Nat /\ k - 1 \in 0..n
      /\ m - 1 = n - k /\ m = n - (k - 1) /\ r = m * c /\ c <= a
  <2>1. n \in Nat /\ a \in Nat
    BY FillsFacts
  <2> HIDE DEF a
  <2>2. k - 1 \in 0..n /\ k \in Nat /\ m \in Nat \ {0} /\ m - 1 = n - k /\ m = n - (k - 1)
        /\ k \in (k - 1) + 1 .. n
    BY <2>1
  <2>3. r = (n - (k - 1)) * c /\ c <= a
    BY <2>2 DEF Levelled, r, a
  <2> QED
    BY <2>1, <2>2, <2>3
<1>1. part[k] = c /\ rest[k] = (n - k) * c
  <2>1. r \div m = c
    <3> HIDE DEF m, r
    <3> QED
      BY <1>0, DivOfProduct
  <2>2. /\ part[k] = IF a < r \div m THEN a ELSE r \div m
        /\ rest[k] = r - part[k]
    BY DEF Fills
  <2> HIDE DEF m, r, a
  <2>3. part[k] = c
    BY <1>0, <2>1, <2>2
  <2>4. m * c - c = (m - 1) * c
    BY <1>0
  <2> QED
    BY <1>0, <2>2, <2>3, <2>4
<1>2. ASSUME NEW j \in 1..k
      PROVE  /\ part[j] \in Nat /\ part[j] <= c /\ part[j] <= w[j] * Scale
             /\ part[j] = w[j] * Scale \/ part[j] = c
  <2>1. CASE j = k
    BY <1>0, <1>1, <2>1
  <2>2. CASE j # k
    <3>1. j \in 1 .. k - 1
      BY <1>0, <2>2
    <3> QED
      BY <3>1 DEF Levelled
  <2> QED
    BY <2>1, <2>2
<1>3. ASSUME NEW j \in k + 1 .. n PROVE c <= w[j] * Scale
  <2>1. j \in (k - 1) + 1 .. n
    BY <1>0
  <2> QED
    BY <2>1 DEF Levelled
<1> QED
  BY <1>1, <1>2, <1>3 DEF Levelled

\* So, when everyone has got its part: nothing was given out that was not there,
\* nobody got more than it wants, and who got less has the most anybody got, and
\* nothing is left.
LEMMA FilledFairly ==
  ASSUME NEW n, NEW w, NEW part, NEW rest, Fills(n, w, part, rest)
  PROVE  /\ rest[n] \in Nat
         /\ \A j \in 1..n : part[j] \in Nat /\ part[j] <= w[j] * Scale
         /\ \A j \in 1..n : part[j] < w[j] * Scale
              => rest[n] = 0 /\ \A i \in 1..n : part[i] <= part[j]
<1> DEFINE Phase(k) == \/ Granting(n, w, part, rest, k)
                       \/ \E c \in Nat : Levelled(n, w, part, rest, k, c)
           T == {k \in 0..n : Phase(k)}
<1>0. n \in Nat /\ n <= Cardinality(Peers) /\ Scale \in Nat \ {0} /\ Total \in Nat
  BY FillsFacts
<1>1. 0 \in T
  <2>1. Total * Scale = Scale * Total /\ 1..0 = {}
    BY <1>0
  <2>2. Granting(n, w, part, rest, 0)
    BY <1>0, <2>1 DEF Granting, Fills
  <2>3. 0 \in 0..n
    BY <1>0
  <2> QED
    BY <2>2, <2>3
<1>2. ASSUME NEW k \in 1..n, k - 1 \in T PROVE k \in T
  <2>0. k \in 0..n
    BY <1>0
  <2>1. CASE Granting(n, w, part, rest, k - 1)
    <3> DEFINE m == n - k + 1
    <3>1. PICK t \in Nat : rest[k-1] = Scale * t
      BY <2>1 DEF Granting
    <3>2. m \in 1..Cardinality(Peers)
      BY <1>0, AllocatorAssumption, FS_CardinalityType
    <3> HIDE DEF m
    <3>3. PICK c \in Nat : Scale * t = m * c
      BY <3>2, EqualParts
    <3>4. rest[k-1] = (n - k + 1) * c
      BY <3>1, <3>3 DEF m
    <3>5. CASE w[k] * Scale < c
      <4>1. Granting(n, w, part, rest, k)
        BY <2>1, <3>4, <3>5, GrantStep
      <4> QED
        BY <2>0, <4>1
    <3>6. CASE c <= w[k] * Scale
      <4>1. Levelled(n, w, part, rest, k, c)
        BY <2>1, <3>4, <3>6, LevelStep
      <4> QED
        BY <2>0, <4>1
    <3>7. w[k] * Scale \in Nat
      BY FillsFacts
    <3> QED
      BY <3>5, <3>6, <3>7
  <2>2. ASSUME NEW c \in Nat, Levelled(n, w, part, rest, k - 1, c) PROVE k \in T
    <3>1. Levelled(n, w, part, rest, k, c)
      BY <2>2, StayLevel
    <3> QED
      BY <2>0, <3>1
  <2> QED
    BY <1>2, <2>1, <2>2
<1>3. Phase(n)
  <2> HIDE DEF T
  <2>1. \A k \in 0..n : k \in T
    BY <1>0, <1>1, <1>2, StepByStep
  <2>2. n \in T
    BY <1>0, <2>1
  <2> QED
    BY <2>2 DEF T
<1>4. CASE Granting(n, w, part, rest, n)
  <2>1. PICK t \in Nat : rest[n] = Scale * t
    BY <1>4 DEF Granting
  <2>2. rest[n] \in Nat
    BY <1>0, <2>1
  <2>3. \A j \in 1..n : part[j] = w[j] * Scale /\ w[j] * Scale \in Nat
    BY <1>4, FillsFacts DEF Granting
  <2> QED
    BY <2>2, <2>3
<1>5. ASSUME NEW c \in Nat, Levelled(n, w, part, rest, n, c)
      PROVE  /\ rest[n] = 0
             /\ \A j \in 1..n : part[j] \in Nat /\ part[j] <= w[j] * Scale
             /\ \A j \in 1..n : part[j] < w[j] * Scale => \A i \in 1..n : part[i] <= part[j]
  <2>1. rest[n] = 0
    BY <1>0, <1>5 DEF Levelled
  <2>2. ASSUME NEW j \in 1..n, part[j] < w[j] * Scale, NEW i \in 1..n
        PROVE  part[i] <= part[j]
    <3>1. part[j] = c
      BY <1>5, <2>2, FillsFacts DEF Levelled
    <3> QED
      BY <1>5, <3>1 DEF Levelled
  <2> QED
    BY <1>5, <2>1, <2>2 DEF Levelled
<1> QED
  BY <1>3, <1>4, <1>5

\* The units that one peer gets.
LEMMA OneShare ==
  ASSUME NEW p, NEW x \in Nat
  PROVE  IsFiniteSet({p} \X (1..x)) /\ Cardinality({p} \X (1..x)) = x
<1>1. IsFiniteSet({p}) /\ Cardinality({p}) = 1
  BY FS_Singleton
<1>2. IsFiniteSet(1..x) /\ Cardinality(1..x) = x
  BY FirstNumbers
<1>3. Cardinality({p} \X (1..x)) = 1 * x
  <2>1. Cardinality({p} \X (1..x)) = Cardinality({p}) * Cardinality(1..x)
    BY <1>1, <1>2, FS_Product, Zenon
  <2> QED
    BY <1>1, <1>2, <2>1
<1>4. IsFiniteSet({p} \X (1..x))
  BY <1>1, <1>2, FS_Product
<1> QED
  BY <1>3, <1>4

LEMMA DisjointUnion ==
  ASSUME NEW A, NEW B, IsFiniteSet(A), IsFiniteSet(B), A \cap B = {}
  PROVE  IsFiniteSet(A \cup B) /\ Cardinality(A \cup B) = Cardinality(A) + Cardinality(B)
<1>1. Cardinality(A) \in Nat /\ Cardinality(B) \in Nat /\ Cardinality(A \cap B) = 0
  BY FS_CardinalityType, FS_EmptySet
<1>2. IsFiniteSet(A \cup B)
      /\ Cardinality(A \cup B) = Cardinality(A) + Cardinality(B) - Cardinality(A \cap B)
  BY FS_Union, Zenon
<1> QED
  BY <1>1, <1>2

\* What remains when the shares are given out one by one, in the order o.
Takes(share, n, o, rest) ==
  /\ n \in Nat /\ o \in [1..n -> DOMAIN share] /\ IsInjective(o)
  /\ \A p \in DOMAIN share : \E k \in 1..n : o[k] = p
  /\ rest \in [0..n -> Int]
  /\ \A k \in 1..n : share[o[k]] \in Nat /\ rest[k] = rest[k-1] - share[o[k]]

\* All that is handed out is what the parts take from the rest.
LEMMA HandedIsTaken ==
  ASSUME NEW share, NEW n, NEW o, NEW rest, Takes(share, n, o, rest)
  PROVE  Cardinality(Handed(share)) = rest[0] - rest[n]
<1> USE DEF Takes
<1> DEFINE S == DOMAIN share
           part == [k \in 1..n |-> share[o[k]]]
           Piece(j) == {o[j]} \X (1 .. part[j])
           U(k) == UNION {Piece(j) : j \in 1..k}
           T == {k \in 0..n : IsFiniteSet(U(k)) /\ Cardinality(U(k)) = rest[0] - rest[k]}
<1>0. /\ \A k \in 0..n : rest[k] \in Int
      /\ \A k \in 1..n : /\ part[k] \in Nat /\ share[o[k]] = part[k]
                         /\ rest[k] = rest[k-1] - part[k] /\ o[k] \in S
  OBVIOUS
<1> HIDE DEF part
<1>1. 0 \in T
  <2>1. U(0) = {}
    OBVIOUS
  <2>2. IsFiniteSet(U(0)) /\ Cardinality(U(0)) = 0
    BY <2>1, FS_EmptySet
  <2>3. rest[0] - rest[0] = 0 /\ 0 \in 0..n
    BY <1>0
  <2> HIDE DEF U
  <2> QED
    BY <2>2, <2>3
<1>2. ASSUME NEW k \in 1..n, k - 1 \in T PROVE k \in T
  <2>0. /\ k \in 0..n /\ k - 1 \in 0..n /\ \A j \in 1..k : j = k \/ j \in 1 .. k - 1
        /\ \A j \in 1 .. k - 1 : j \in 1..n /\ j # k
    OBVIOUS
  <2>1. U(k) = U(k - 1) \cup Piece(k)
    <3>1. k \in 1..k /\ \A j \in 1 .. k - 1 : j \in 1..k
      OBVIOUS
    <3> HIDE DEF Piece
    <3> QED
      BY <2>0, <3>1
  <2>2. U(k - 1) \cap Piece(k) = {}
    <3> SUFFICES ASSUME NEW u \in U(k - 1), u \in Piece(k) PROVE FALSE
      OBVIOUS
    <3>1. PICK j \in 1 .. k - 1 : u \in Piece(j)
      OBVIOUS
    <3>2. o[j] = o[k]
      BY <3>1
    <3>3. j \in 1..n /\ j # k
      BY <2>0
    <3> QED
      BY <3>2, <3>3 DEF IsInjective
  <2>3. IsFiniteSet(Piece(k)) /\ Cardinality(Piece(k)) = part[k] /\ part[k] \in Nat
    BY <1>0, OneShare
  <2>4. IsFiniteSet(U(k - 1)) /\ Cardinality(U(k - 1)) = rest[0] - rest[k-1]
    BY <1>2
  <2> HIDE DEF U, Piece
  <2>5. IsFiniteSet(U(k))
        /\ Cardinality(U(k)) = Cardinality(U(k - 1)) + Cardinality(Piece(k))
    <3> DEFINE A == U(k - 1)
               B == Piece(k)
    <3>1. IsFiniteSet(A) /\ IsFiniteSet(B) /\ A \cap B = {} /\ U(k) = A \cup B
      BY <2>1, <2>2, <2>3, <2>4
    <3> HIDE DEF A, B
    <3>2. IsFiniteSet(A \cup B) /\ Cardinality(A \cup B) = Cardinality(A) + Cardinality(B)
      BY <3>1, DisjointUnion
    <3>3. IsFiniteSet(U(k)) /\ Cardinality(U(k)) = Cardinality(A) + Cardinality(B)
      BY <3>1, <3>2, Zenon
    <3> QED
      BY <3>3 DEF A, B
  <2>6. rest[k] = rest[k-1] - part[k] /\ rest[k-1] \in Int /\ rest[0] \in Int
    BY <1>0, <2>0
  <2>7. Cardinality(U(k)) = rest[0] - rest[k]
    <3> DEFINE x == rest[0]
               y == rest[k-1]
               z == part[k]
    <3>1. x \in Int /\ y \in Int /\ z \in Nat
      BY <2>3, <2>6
    <3>2. Cardinality(U(k)) = (x - y) + z /\ rest[k] = y - z
      BY <2>3, <2>4, <2>5, <2>6, Zenon
    <3> HIDE DEF x, y, z
    <3>3. x - (y - z) = (x - y) + z
      BY <3>1
    <3> QED
      BY <3>2, <3>3, Zenon DEF x
  <2> QED
    BY <2>0, <2>5, <2>7
<1>3. Cardinality(U(n)) = rest[0] - rest[n]
  <2> HIDE DEF T
  <2>1. \A k \in 0..n : k \in T
    BY <1>1, <1>2, StepByStep
  <2>2. n \in T
    BY <2>1, n \in 0..n
  <2> HIDE DEF U
  <2> QED
    BY <2>2 DEF T
<1>4. Handed(share) = U(n)
  <2>1. ASSUME NEW u \in Handed(share) PROVE u \in U(n)
    <3>1. PICK p \in S : u \in {p} \X (1 .. share[p])
      BY DEF Handed
    <3>2. PICK k \in 1..n : o[k] = p
      OBVIOUS
    <3>3. u \in Piece(k)
      BY <1>0, <3>1, <3>2
    <3> HIDE DEF Piece
    <3> QED
      BY <3>3
  <2>2. ASSUME NEW u \in U(n) PROVE u \in Handed(share)
    <3>1. PICK k \in 1..n : u \in Piece(k)
      OBVIOUS
    <3>2. o[k] \in S /\ u \in {o[k]} \X (1 .. share[o[k]])
      BY <1>0, <3>1
    <3> QED
      BY <3>2 DEF Handed
  <2> HIDE DEF U
  <2> QED
    BY <2>1, <2>2
<1> QED
  BY <1>3, <1>4

LEMMA WantedFacts ==
  /\ \A x \in Nat : Wanted(x) \in Nat
  /\ \A x, y \in Nat : x <= y => Wanted(x) <= Wanted(y)
BY AllocatorAssumption DEF Wanted

LEMMA FillOrderFacts ==
  ASSUME NEW S, IsFiniteSet(S), NEW d \in [S -> Nat]
  PROVE  /\ FillOrder(d) \in [1..Cardinality(S) -> S]
         /\ IsInjective(FillOrder(d)) /\ Ascending(FillOrder(d), d)
<1>1. DOMAIN d = S
  OBVIOUS
<1>2. \E o \in [1..Cardinality(S) -> S] : IsInjective(o) /\ Ascending(o, d)
  BY OrderExists
<1> QED
  BY <1>1, <1>2, Zenon DEF FillOrder, Ascending

\* progressiveFill runs as Fills says, along the order, and gives to each its part.
LEMMA ProgressiveFillRuns ==
  ASSUME NEW S \in SUBSET Peers, NEW d \in [S -> Nat]
  PROVE  LET n == Cardinality(S)
             w == [k \in 1..n |-> Wanted(d[FillOrder(d)[k]])] IN
         \E part \in [1..n -> Int], rest \in [0..n -> Int] :
           /\ Fills(n, w, part, rest)
           /\ ProgressiveFill(d) = [p \in S |-> ProgressiveFill(d)[p]]
           /\ \A k \in 1..n : ProgressiveFill(d)[FillOrder(d)[k]] = part[k]
<1> DEFINE n == Cardinality(S)
           order == FillOrder(d)
           Part(k, remain) ==
             LET want == Wanted(d[order[k]]) * Scale
                 part == remain \div (n - k + 1) IN
             IF want < part THEN want ELSE part
           rest[k \in 0..n] ==
             IF k = 0 THEN Total * Scale ELSE LET r == rest[k - 1] IN r - Part(k, r)
           w == [k \in 1..n |-> Wanted(d[order[k]])]
           share == [p \in S |-> LET k == CHOOSE k \in 1..n : order[k] = p IN Part(k, rest[k - 1])]
<1>0. /\ IsFiniteSet(S) /\ n \in Nat /\ n <= Cardinality(Peers) /\ DOMAIN d = S
      /\ Total * Scale \in Int /\ Scale \in Nat
  BY AllocatorAssumption, FS_Subset, FS_CardinalityType
<1>1. order \in [1..n -> S] /\ IsInjective(order) /\ Ascending(order, d)
  BY <1>0, FillOrderFacts
<1>2. ProgressiveFill(d) = share
  BY <1>0 DEF ProgressiveFill
<1> HIDE DEF n, order
<1>3. \A k \in 1..n : Wanted(d[order[k]]) \in Nat /\ Wanted(d[order[k]]) * Scale \in Int
  <2> SUFFICES ASSUME NEW k \in 1..n
               PROVE  Wanted(d[order[k]]) \in Nat /\ Wanted(d[order[k]]) * Scale \in Int
    OBVIOUS
  <2> DEFINE x == Wanted(d[order[k]])
  <2>1. x \in Nat
    BY <1>1, WantedFacts
  <2> HIDE DEF x
  <2>2. x * Scale \in Int
    BY <1>0, <2>1
  <2> QED
    BY <2>1, <2>2 DEF x
<1>4. \A k \in 1..n : \A r \in Int : Part(k, r) \in Int
  <2> SUFFICES ASSUME NEW k \in 1..n, NEW r \in Int PROVE Part(k, r) \in Int
    OBVIOUS
  <2> DEFINE x == Wanted(d[order[k]]) * Scale
             m == n - k + 1
  <2>1. x \in Int /\ m \in Nat \ {0}
    BY <1>0, <1>3
  <2> HIDE DEF x, m
  <2>2. r \div m \in Int
    BY <2>1
  <2> QED
    BY <2>1, <2>2 DEF x, m
<1>5. /\ rest \in [0..n -> Int]
      /\ \A k \in 0..n : rest[k] = IF k = 0 THEN Total * Scale ELSE rest[k-1] - Part(k, rest[k-1])
  <2> DEFINE step == [k \in 1..n |-> [r \in Int |-> r - Part(k, r)]]
             Solves(g) == g = [k \in 0..n |-> IF k = 0 THEN Total * Scale
                                              ELSE LET r == g[k-1] IN r - Part(k, r)]
  <2>1. step \in [1..n -> [Int -> Int]] /\ \A k \in 1..n : \A r \in Int : step[k][r] = r - Part(k, r)
    <3> HIDE DEF Part
    <3> QED
      BY <1>4
  <2> HIDE DEF step
  <2>2. PICK g \in [0..n -> Int] : g = [k \in 0..n |-> IF k = 0 THEN Total * Scale ELSE step[k][g[k-1]]]
    <3> HIDE DEF Part, Solves
    <3>1. Total * Scale \in Int /\ n \in Nat /\ step \in [1..n -> [Int -> Int]]
      BY <1>0, <2>1
    <3> DEFINE base == Total * Scale
    <3> HIDE DEF base
    <3>2. base \in Int
      BY <3>1 DEF base
    <3>3. \E g \in [0..n -> Int] : g = [k \in 0..n |-> IF k = 0 THEN base ELSE step[k][g[k-1]]]
      BY <3>1, <3>2, RecursionExists
    <3> QED
      BY <3>3 DEF base
  <2>3. Solves(g)
    <3> HIDE DEF Part
    <3> SUFFICES ASSUME NEW k \in 0..n, k # 0 PROVE step[k][g[k-1]] = g[k-1] - Part(k, g[k-1])
      BY <2>2
    <3>1. k \in 1..n /\ k - 1 \in 0..n
      BY <1>0
    <3> QED
      BY <2>1, <3>1
  <2>4. Solves(rest)
    <3> HIDE DEF Part
    <3> QED
      BY <2>3, Zenon
  <2> HIDE DEF rest, Part
  <2>5. \A k \in 0..n : rest[k] = IF k = 0 THEN Total * Scale ELSE rest[k-1] - Part(k, rest[k-1])
    BY <2>4
  <2>6. DOMAIN rest = 0..n
    BY <2>4
  <2>7. \A k \in 0..n : rest[k] \in Int
    <3> DEFINE T == {k \in 0..n : rest[k] \in Int}
    <3>1. 0 \in T
      BY <1>0, <2>5
    <3>2. ASSUME NEW k \in 1..n, k - 1 \in T PROVE k \in T
      <4>1. rest[k-1] \in Int /\ k \in 0..n /\ k # 0
        BY <1>0, <3>2
      <4>2. Part(k, rest[k-1]) \in Int
        BY <1>4, <4>1
      <4>3. rest[k] = rest[k-1] - Part(k, rest[k-1])
        BY <2>5, <4>1
      <4> QED
        BY <4>1, <4>2, <4>3
    <3> HIDE DEF T
    <3>3. \A k \in 0..n : k \in T
      BY <1>0, <3>1, <3>2, StepByStep
    <3> QED
      BY <3>3 DEF T
  <2>8. rest = [k \in 0..n |-> rest[k]]
    BY <2>4
  <2> QED
    BY <2>5, <2>7, <2>8
<1> HIDE DEF rest
<1> DEFINE part == [k \in 1..n |-> Part(k, rest[k-1])]
<1>6. part \in [1..n -> Int]
  <2> HIDE DEF Part
  <2>1. \A k \in 1..n : k - 1 \in 0..n
    BY <1>0
  <2> QED
    BY <1>4, <1>5, <2>1
<1>7. Fills(n, w, part, rest)
  <2>1. n \in 0..Cardinality(Peers)
    BY <1>0, AllocatorAssumption, FS_CardinalityType
  <2>2. w \in [1..n -> Nat]
    BY <1>3
  <2>3. \A i, j \in 1..n : i < j => w[i] <= w[j]
    <3> SUFFICES ASSUME NEW i \in 1..n, NEW j \in 1..n, i < j
                 PROVE  Wanted(d[order[i]]) <= Wanted(d[order[j]])
      OBVIOUS
    <3>1. d[order[i]] <= d[order[j]] /\ d[order[i]] \in Nat /\ d[order[j]] \in Nat
      BY <1>1 DEF Ascending
    <3> QED
      BY <3>1, WantedFacts
  <2>4. rest[0] = Total * Scale
    BY <1>0, <1>5
  <2>5. ASSUME NEW k \in 1..n
        PROVE  LET equal == rest[k-1] \div (n - k + 1) IN
               /\ part[k] = IF w[k] * Scale < equal THEN w[k] * Scale ELSE equal
               /\ rest[k] = rest[k-1] - part[k]
    <3>1. k \in 0..n /\ k # 0
      BY <1>0
    <3>2. rest[k] = rest[k-1] - Part(k, rest[k-1])
      BY <1>5, <3>1
    <3> QED
      BY <3>2
  <2> HIDE DEF w, part
  <2> QED
    BY <1>5, <1>6, <2>1, <2>2, <2>3, <2>4, <2>5 DEF Fills
<1>8. share = [p \in S |-> share[p]]
  <2> HIDE DEF Part, rest
  <2> QED
    OBVIOUS
<1>9. ASSUME NEW k \in 1..n PROVE share[order[k]] = part[k]
  <2> DEFINE p == order[k]
  <2>1. p \in S
    BY <1>1
  <2>2. \A l \in 1..n : order[l] = p => l = k
    BY <1>1 DEF IsInjective
  <2>3. (CHOOSE l \in 1..n : order[l] = p) = k
    BY <2>2
  <2> HIDE DEF p, Part
  <2>4. share[p] = Part(k, rest[k-1])
    BY <2>1, <2>3
  <2> QED
    BY <2>4 DEF p
<1> HIDE DEF w, part, share
<1>10. \E pt \in [1..n -> Int], rs \in [0..n -> Int] :
         /\ Fills(n, w, pt, rs)
         /\ ProgressiveFill(d) = [p \in S |-> ProgressiveFill(d)[p]]
         /\ \A k \in 1..n : ProgressiveFill(d)[order[k]] = pt[k]
  BY <1>2, <1>5, <1>6, <1>7, <1>8, <1>9
<1> QED
  BY <1>10 DEF n, order, w

LEMMA FillingIsFair ==
  ASSUME NEW S \in SUBSET Peers, NEW d \in [S -> Nat]
  PROVE  Fair(d, ProgressiveFill(d)) /\ \A p \in S : ProgressiveFill(d)[p] \in Nat
<1> DEFINE n == Cardinality(S)
           order == FillOrder(d)
           share == ProgressiveFill(d)
           w == [k \in 1..n |-> Wanted(d[order[k]])]
           all == Total * Scale
           want(p) == Wanted(d[p]) * Scale
           sum == Cardinality(Handed(share))
<1>0. /\ IsFiniteSet(S) /\ n \in Nat /\ DOMAIN d = S /\ all \in Nat
      /\ order \in [1..n -> S] /\ IsInjective(order)
  <2>1. IsFiniteSet(S)
    BY AllocatorAssumption, FS_Subset
  <2> QED
    BY <2>1, FillOrderFacts, AllocatorAssumption, FS_CardinalityType
<1>1. PICK part \in [1..n -> Int], rest \in [0..n -> Int] :
         /\ Fills(n, w, part, rest)
         /\ share = [p \in S |-> share[p]]
         /\ \A k \in 1..n : share[order[k]] = part[k]
  BY ProgressiveFillRuns
<1>2. \A p \in S : \E k \in 1..n : order[k] = p
  <2> HIDE DEF order
  <2> QED
    BY <1>0, NobodyLeft
<1>3. \A k \in 1..n : w[k] * Scale = want(order[k])
  OBVIOUS
<1> HIDE DEF n, order, share, w, want
<1>4. /\ rest[n] \in Nat
      /\ \A j \in 1..n : part[j] \in Nat /\ part[j] <= w[j] * Scale
      /\ \A j \in 1..n : part[j] < w[j] * Scale
           => rest[n] = 0 /\ \A i \in 1..n : part[i] <= part[j]
  BY <1>1, FilledFairly
<1>5. rest[0] = all /\ \A k \in 1..n : rest[k] = rest[k-1] - part[k]
  BY <1>1 DEF Fills
<1>6. sum = all - rest[n]
  <2>1. \A k \in 1..n : share[order[k]] \in Nat /\ rest[k] = rest[k-1] - share[order[k]]
    BY <1>1, <1>4, <1>5
  <2>2. /\ order \in [1..n -> DOMAIN share] /\ IsInjective(order)
        /\ \A p \in DOMAIN share : \E k \in 1..n : order[k] = p
    BY <1>0, <1>1, <1>2
  <2>3. Takes(share, n, order, rest)
    BY <1>0, <2>1, <2>2 DEF Takes
  <2>4. sum = rest[0] - rest[n]
    BY <2>3, HandedIsTaken
  <2> QED
    BY <1>5, <2>4
<1>7. ASSUME NEW p \in S PROVE share[p] <= want(p) /\ share[p] \in Nat
  <2>1. PICK k \in 1..n : order[k] = p
    BY <1>2
  <2> QED
    BY <1>1, <1>3, <1>4, <2>1
<1>8. ASSUME NEW p \in S, share[p] < want(p)
      PROVE  sum = all /\ \A q \in S : share[q] <= share[p]
  <2>1. PICK k \in 1..n : order[k] = p
    BY <1>2
  <2>2. part[k] < w[k] * Scale
    BY <1>1, <1>3, <1>8, <2>1
  <2>3. rest[n] = 0 /\ \A i \in 1..n : part[i] <= part[k]
    BY <1>4, <2>2
  <2>4. ASSUME NEW q \in S PROVE share[q] <= share[p]
    <3>1. PICK l \in 1..n : order[l] = q
      BY <1>2
    <3> QED
      BY <1>1, <2>1, <2>3, <3>1
  <2>5. sum = all
    <3> HIDE DEF sum, all
    <3> QED
      BY <1>0, <1>6, <2>3
  <2> QED
    BY <2>4, <2>5
<1>9. sum <= all
  <2> HIDE DEF sum, all
  <2> QED
    BY <1>0, <1>4, <1>6
<1> QED
  BY <1>0, <1>7, <1>8, <1>9 DEF Fair, share, want

-----------------------------------------------------------------------------
(* The shares in the state. *)

\* The demands that recompute fills for are whole units, and the shares it set
\* last are fair for them.
FairInv ==
  /\ \A p \in Known : /\ buckets[p].demand \in Nat /\ buckets[p].cur \in Nat
                      /\ buckets[p].share \in Nat
                      /\ buckets[p].waited \in BOOLEAN /\ buckets[p].fresh \in BOOLEAN
  /\ MaxMinFair

\* A step that leaves the rated buckets, their demands and shares alone.
LEMMA KeepFair ==
  ASSUME Rated' = Rated,
         \A p \in Rated : /\ buckets'[p].demand = buckets[p].demand
                          /\ buckets'[p].share = buckets[p].share
  PROVE  MaxMinFair' <=> MaxMinFair
<1>1. /\ [p \in Rated |-> buckets[p].demand]' = [p \in Rated |-> buckets[p].demand]
      /\ [p \in Rated |-> buckets[p].share]' = [p \in Rated |-> buckets[p].share]
  OBVIOUS
<1> DEFINE d == [p \in Rated |-> buckets[p].demand]
           s == [p \in Rated |-> buckets[p].share]
<1>2. MaxMinFair = Fair(d, s)
  BY DEF MaxMinFair
<1>3. MaxMinFair' = Fair(d', s')
  BY DEF MaxMinFair, Fair, Handed, Wanted
<1> QED
  BY <1>1, <1>2, <1>3

LEMMA FairAcquire == ASSUME IInv, FairInv, NEW s \in Streams, Acquire(s) PROVE FairInv'
<1> DEFINE p == PeerOf[s]
           b == IF p \in Known THEN buckets[p] ELSE NewBucket(p)
<1>1. /\ p \in Peers /\ buckets' = [buckets EXCEPT ![p] = [b EXCEPT !.refs = @ + 1]]
      /\ buckets = [q \in Peers |-> buckets[q]]
  BY AllocatorAssumption DEF Acquire, IInv, TypeOK
<1>2. /\ b.demand \in Nat /\ b.cur \in Nat /\ b.share \in Nat /\ b.waited \in BOOLEAN /\ b.fresh \in BOOLEAN
      /\ IsBucket(b) /\ (p \in Known => b = buckets[p]) /\ (p \notin Known => b.fresh)
      /\ b.gen \in Nat \ {0}
  <2>1. CASE p \in Known
    BY <2>1 DEF FairInv, IInv, TypeOK
  <2>2. CASE p \notin Known
    <3>1. made[p] \in Nat
      BY <1>1 DEF IInv, TypeOK
    <3> QED
      BY <2>2, <3>1, AllocatorAssumption DEF NewBucket, IsBucket
  <2> QED
    BY <2>1, <2>2
<1> HIDE DEF b
<1>3. /\ buckets'[p].demand = b.demand /\ buckets'[p].cur = b.cur /\ buckets'[p].waited = b.waited
      /\ buckets'[p].fresh = b.fresh /\ buckets'[p].share = b.share /\ buckets'[p].gen = b.gen
      /\ \A q \in Peers : q # p => buckets'[q] = buckets[q]
  BY <1>1, <1>2 DEF IsBucket
<1>4. Known' = Known \cup {p}
  <2>1. buckets'[p] # NoBucket
    BY <1>2, <1>3 DEF NoBucket
  <2> QED
    BY <1>1, <1>3, <2>1 DEF Known
<1>5. Rated' = Rated
  BY <1>1, <1>2, <1>3, <1>4 DEF Rated, Known
<1>6. MaxMinFair'
  <2>1. ASSUME NEW q \in Rated
        PROVE  buckets'[q].demand = buckets[q].demand /\ buckets'[q].share = buckets[q].share
    BY <1>2, <1>3 DEF Rated, Known
  <2> QED
    BY <1>5, <2>1, KeepFair DEF FairInv
<1>7. ASSUME NEW q \in Known'
      PROVE  /\ buckets'[q].demand \in Nat /\ buckets'[q].cur \in Nat /\ buckets'[q].share \in Nat
             /\ buckets'[q].waited \in BOOLEAN /\ buckets'[q].fresh \in BOOLEAN
  <2>1. CASE q = p
    BY <1>2, <1>3, <2>1
  <2>2. CASE q # p
    BY <1>3, <1>4, <2>2 DEF FairInv, Known
  <2> QED
    BY <2>1, <2>2
<1> QED
  BY <1>6, <1>7 DEF FairInv

\* A step of a stream that changes how much was read of it, or its references.
LEMMA FairSamePeers ==
  ASSUME IInv, FairInv, NEW p \in Known, NEW b,
         buckets' = [buckets EXCEPT ![p] = b],
         b.gen = buckets[p].gen, b.cur \in Nat, b.waited \in BOOLEAN,
         b.demand = buckets[p].demand, b.share = buckets[p].share, b.fresh = buckets[p].fresh
  PROVE  FairInv'
<1>1. /\ p \in Peers /\ buckets[p].gen \in Nat \ {0}
      /\ buckets = [q \in Peers |-> buckets[q]]
  BY DEF IInv, TypeOK, Known
<1>2. buckets'[p] = b /\ \A q \in Peers : q # p => buckets'[q] = buckets[q]
  BY <1>1
<1>3. Known' = Known
  <2>1. b # NoBucket
    BY <1>1 DEF NoBucket
  <2> QED
    BY <1>1, <1>2, <2>1 DEF Known
<1>4. Rated' = Rated
  BY <1>2, <1>3 DEF Rated, Known
<1>5. MaxMinFair'
  <2>1. ASSUME NEW q \in Rated
        PROVE  buckets'[q].demand = buckets[q].demand /\ buckets'[q].share = buckets[q].share
    BY <1>2 DEF Rated, Known
  <2> QED
    BY <1>4, <2>1, KeepFair DEF FairInv
<1>6. ASSUME NEW q \in Known'
      PROVE  /\ buckets'[q].demand \in Nat /\ buckets'[q].cur \in Nat /\ buckets'[q].share \in Nat
             /\ buckets'[q].waited \in BOOLEAN /\ buckets'[q].fresh \in BOOLEAN
  <2>1. CASE q = p
    BY <1>2, <2>1 DEF FairInv
  <2>2. CASE q # p
    BY <1>2, <1>3, <2>2 DEF FairInv, Known
  <2> QED
    BY <2>1, <2>2
<1> QED
  BY <1>5, <1>6 DEF FairInv

\* The buckets stay as they are.
LEMMA FairSame == ASSUME FairInv, buckets' = buckets PROVE FairInv'
<1>1. Known' = Known
  BY DEF Known
<1>2. Rated' = Rated
  BY <1>1 DEF Rated
<1>3. MaxMinFair'
  BY <1>2, KeepFair DEF FairInv
<1> QED
  BY <1>1, <1>3 DEF FairInv

LEMMA FairRead == ASSUME IInv, FairInv, NEW s \in Streams, Read(s) PROVE FairInv'
<1> DEFINE p == PeerOf[s]
<1>1. PICK n \in 0..MaxRead, wait \in BOOLEAN :
        buckets' = IF Pointed(s)
                     THEN [buckets EXCEPT ![p].cur = @ + n, ![p].waited = @ \/ wait]
                     ELSE buckets
  BY DEF Read
<1>2. CASE ~Pointed(s)
  BY <1>1, <1>2, FairSame
<1>3. CASE Pointed(s)
  <2> DEFINE b == [buckets[p] EXCEPT !.cur = @ + n, !.waited = @ \/ wait]
  <2>1. p \in Known /\ IsBucket(buckets[p])
    BY <1>3 DEF Pointed, IInv, TypeOK
  <2>2. n \in Nat /\ buckets[p].cur \in Nat /\ buckets[p].waited \in BOOLEAN
    BY <2>1, AllocatorAssumption DEF FairInv
  <2>3. /\ b.gen = buckets[p].gen /\ b.cur = buckets[p].cur + n
        /\ b.waited = (buckets[p].waited \/ wait)
        /\ b.demand = buckets[p].demand /\ b.share = buckets[p].share /\ b.fresh = buckets[p].fresh
    BY <2>1 DEF IsBucket
  <2>4. buckets' = [buckets EXCEPT ![p] = b]
    BY <1>1, <1>3, <2>1 DEF IInv, TypeOK, Known
  <2> HIDE DEF b
  <2>5. b.cur \in Nat /\ b.waited \in BOOLEAN
    BY <2>2, <2>3
  <2> QED
    BY <2>1, <2>3, <2>4, <2>5, FairSamePeers
<1> QED
  BY <1>2, <1>3

LEMMA FairCloseOrReset == ASSUME IInv, FairInv, NEW s \in Streams, CloseOrReset(s) PROVE FairInv'
<1> DEFINE p == PeerOf[s]
<1>1. CASE ~Pointed(s)
  BY <1>1, FairSame DEF CloseOrReset
<1>2. CASE Pointed(s)
  <2> DEFINE b == [buckets[p] EXCEPT !.refs = @ - Returned(s)]
  <2>1. p \in Known /\ IsBucket(buckets[p])
    BY <1>2 DEF Pointed, IInv, TypeOK
  <2>2. buckets[p].cur \in Nat /\ buckets[p].waited \in BOOLEAN
    BY <2>1 DEF FairInv
  <2>3. /\ b.gen = buckets[p].gen /\ b.cur = buckets[p].cur /\ b.waited = buckets[p].waited
        /\ b.demand = buckets[p].demand /\ b.share = buckets[p].share /\ b.fresh = buckets[p].fresh
    BY <2>1 DEF IsBucket
  <2>4. buckets' = [buckets EXCEPT ![p] = b]
    BY <1>2, <2>1 DEF CloseOrReset, IInv, TypeOK, Known
  <2> HIDE DEF b
  <2> QED
    BY <2>1, <2>2, <2>3, <2>4, FairSamePeers
<1> QED
  BY <1>1, <1>2

\* The sample of a bucket is in whole units, and no longer fresh.
LEMMA SampledFacts ==
  ASSUME IInv, FairInv, NEW p \in Known
  PROVE  LET b == Sampled(buckets[p]) IN
         /\ IsBucket(b) /\ b.gen \in Nat \ {0}
         /\ b.demand \in Nat /\ b.cur = 0 /\ b.waited = FALSE /\ b.fresh = FALSE
<1>1. IsBucket(buckets[p]) /\ buckets[p].gen \in Nat \ {0} /\ buckets[p].demand \in Nat
      /\ buckets[p].cur \in Nat /\ buckets[p].waited \in BOOLEAN
  BY DEF IInv, TypeOK, FairInv
<1> DEFINE x == IF buckets[p].waited THEN Total ELSE (buckets[p].demand + buckets[p].cur) \div 2
           b == Sampled(buckets[p])
<1>2. x \in Nat
  BY <1>1, AllocatorAssumption
<1>3. b = [buckets[p] EXCEPT !.demand = x, !.waited = FALSE, !.cur = 0, !.fresh = FALSE]
  BY <1>1 DEF Sampled
<1> HIDE DEF x, b
<1>4. /\ IsBucket(b) /\ b.gen = buckets[p].gen
      /\ b.demand = x /\ b.cur = 0 /\ b.waited = FALSE /\ b.fresh = FALSE
  BY <1>1, <1>3 DEF IsBucket
<1> QED
  BY <1>1, <1>2, <1>4 DEF b

LEMMA FairRecompute == ASSUME IInv, FairInv, Recompute PROVE FairInv'
<1> DEFINE now == [p \in Known |-> Sampled(buckets[p])]
           kept == {p \in Known : ~Idle(now[p])}
           d == [p \in kept |-> now[p].demand]
           shares == ProgressiveFill(d)
<1>1. buckets' = [p \in Peers |-> IF p \in kept THEN [now[p] EXCEPT !.share = shares[p]]
                                                ELSE NoBucket]
  <2> DEFINE Kept(n) == {p \in Known : ~Idle(n[p])}
             Fill(n) == ProgressiveFill([p \in Kept(n) |-> n[p].demand])
             Set(n, f) ==
               buckets' = [p \in Peers |-> IF p \in Kept(n) THEN [n[p] EXCEPT !.share = f[p]]
                                                            ELSE NoBucket]
  <2>1. \E n \in {now} : \E f \in {Fill(n)} : Set(n, f)
    BY DEF Recompute
  <2> HIDE DEF now, Fill
  <2>2. Set(now, Fill(now))
    BY <2>1, Zenon
  <2> QED
    BY <2>2 DEF Fill
<1>2. ASSUME NEW p \in Known
      PROVE  /\ IsBucket(now[p]) /\ now[p].gen \in Nat \ {0} /\ p \in Peers
             /\ now[p].demand \in Nat /\ now[p].cur = 0 /\ now[p].waited = FALSE
             /\ now[p].fresh = FALSE
  <2>1. now[p] = Sampled(buckets[p]) /\ p \in Peers
    BY DEF Known
  <2> HIDE DEF now
  <2> QED
    BY <2>1, SampledFacts
<1>3. kept \in SUBSET Peers /\ d \in [kept -> Nat]
  <2> HIDE DEF now
  <2> QED
    BY <1>2
<1> HIDE DEF now
<1>4. /\ Fair(d, shares) /\ shares = [p \in kept |-> shares[p]]
      /\ \A p \in kept : shares[p] \in Nat
  <2>1. Fair(d, shares) /\ \A p \in kept : shares[p] \in Nat
    <3> HIDE DEF d, kept
    <3> QED
      BY <1>3, FillingIsFair
  <2>2. shares = [p \in kept |-> shares[p]]
    <3> HIDE DEF d, kept
    <3> QED
      BY <1>3, ProgressiveFillRuns
  <2> HIDE DEF shares
  <2> QED
    BY <2>1, <2>2
<1> HIDE DEF shares
<1>5. ASSUME NEW p \in kept
      PROVE  /\ buckets'[p] # NoBucket /\ buckets'[p].fresh = FALSE /\ buckets'[p].cur = 0
             /\ buckets'[p].waited = FALSE /\ buckets'[p].demand = now[p].demand
             /\ buckets'[p].share = shares[p]
  <2>1. p \in Known /\ p \in Peers /\ buckets'[p] = [now[p] EXCEPT !.share = shares[p]]
    BY <1>1, <1>2
  <2>2. /\ buckets'[p].gen = now[p].gen /\ buckets'[p].fresh = FALSE /\ buckets'[p].cur = 0
        /\ buckets'[p].waited = FALSE /\ buckets'[p].demand = now[p].demand
        /\ buckets'[p].share = shares[p]
    BY <1>2, <2>1 DEF IsBucket
  <2>3. buckets'[p] # NoBucket
    <3>1. buckets'[p].gen # 0
      BY <1>2, <2>1, <2>2
    <3> QED
      BY <3>1 DEF NoBucket
  <2> QED
    BY <2>2, <2>3, Zenon
<1>6. Known' = kept
  BY <1>1, <1>2, <1>5 DEF Known
<1> HIDE DEF kept
<1>7. Rated' = kept
  BY <1>5, <1>6 DEF Rated
<1>8. MaxMinFair'
  <2> DEFINE e == [p \in Rated |-> buckets[p].demand]
             s == [p \in Rated |-> buckets[p].share]
  <2>1. e' = [p \in Rated' |-> buckets'[p].demand] /\ s' = [p \in Rated' |-> buckets'[p].share]
    OBVIOUS
  <2>2. e' = d
    BY <1>5, <1>7, <2>1
  <2>3. shares = [p \in kept |-> shares[p]]
    BY <1>4
  <2>4. s' = shares
    BY <1>5, <1>7, <2>1, <2>3
  <2>5. MaxMinFair' = Fair(e', s')
    BY DEF MaxMinFair, Fair, Handed, Wanted
  <2> QED
    BY <1>4, <2>2, <2>4, <2>5
<1>9. ASSUME NEW p \in Known'
      PROVE  /\ buckets'[p].demand \in Nat /\ buckets'[p].cur \in Nat /\ buckets'[p].share \in Nat
             /\ buckets'[p].waited \in BOOLEAN /\ buckets'[p].fresh \in BOOLEAN
  <2>1. p \in Known
    BY <1>6, <1>9 DEF kept
  <2>2. buckets'[p].demand \in Nat /\ buckets'[p].cur \in Nat /\ buckets'[p].share \in Nat
    <3>1. buckets'[p].demand = now[p].demand /\ buckets'[p].cur = 0
      BY <1>5, <1>6, <1>9, Zenon
    <3>2. now[p].demand \in Nat
      BY <1>2, <2>1, Zenon
    <3>3. buckets'[p].share = shares[p] /\ shares[p] \in Nat
      BY <1>4, <1>5, <1>6, <1>9, Zenon
    <3> QED
      BY <3>1, <3>2, <3>3
  <2>3. buckets'[p].waited \in BOOLEAN /\ buckets'[p].fresh \in BOOLEAN
    BY <1>5, <1>6, Zenon
  <2> QED
    BY <2>2, <2>3
<1> QED
  BY <1>8, <1>9 DEF FairInv

LEMMA FairInit == Init => FairInv
<1> SUFFICES ASSUME Init PROVE FairInv
  OBVIOUS
<1>1. Known = {} /\ Rated = {}
  BY DEF Init, Known, Rated
<1> DEFINE e == [p \in Rated |-> buckets[p].demand]
           s == [p \in Rated |-> buckets[p].share]
<1>2. DOMAIN e = {} /\ Handed(s) = {}
  BY <1>1 DEF Handed
<1>3. Cardinality(Handed(s)) = 0 /\ Total * Scale \in Nat
  BY <1>2, FS_EmptySet, AllocatorAssumption
<1> HIDE DEF e, s
<1>4. Fair(e, s)
  BY <1>2, <1>3 DEF Fair
<1> QED
  BY <1>1, <1>4 DEF FairInv, MaxMinFair, e, s

LEMMA FairStep == IInv /\ FairInv /\ [Next]_vars => FairInv'
<1> SUFFICES ASSUME IInv, FairInv, [Next]_vars PROVE FairInv'
  OBVIOUS
<1>1. CASE Close \/ UNCHANGED vars
  BY <1>1, FairSame DEF Close, vars
<1> QED
  BY <1>1, FairAcquire, FairRead, FairCloseOrReset, FairRecompute DEF Next

\* progressiveFill under recompute: however many peers there are, whatever they
\* read and whichever of them had to wait, and while streams come and go between
\* two samples, the shares never exceed the capacity together, give nobody more
\* than it wants (or the minimum), and leave who gets less with the largest share
\* of all and nothing unused.
THEOREM SharesAreFair == Spec => []MaxMinFair
<1>1. FairInv => MaxMinFair
  BY DEF FairInv
<1> QED
  BY <1>1, FairInit, FairStep, Invariance, PTL DEF Spec

\* What a set of peers gets is no more than the largest share for each of them.
LEMMA HandedBound ==
  ASSUME NEW S, IsFiniteSet(S), NEW share \in [S -> Nat], NEW x \in Nat,
         \A q \in S : share[q] <= x
  PROVE  Cardinality(Handed(share)) <= Cardinality(S) * x
<1> DEFINE All == S \X (1..x)
<1>1. Handed(share) \subseteq All
  BY DEF Handed
<1>2. IsFiniteSet(1..x) /\ Cardinality(1..x) = x
  BY FirstNumbers
<1>3. IsFiniteSet(All) /\ Cardinality(All) = Cardinality(S) * Cardinality(1..x)
  BY <1>2, FS_Product
<1> HIDE DEF All
<1>4. Cardinality(Handed(share)) <= Cardinality(All)
  BY <1>1, <1>3, FS_Subset
<1> QED
  BY <1>2, <1>3, <1>4

\* progressiveFill promises that every share is at least minShare (the comment
\* above it).  That holds exactly as far as the capacity goes: whenever it has
\* room for the minimum of every peer that has been given a share, each of them
\* has its minimum.  With more peers than that the promise cannot be kept.
MinimumKept ==
  Cardinality(Rated) * MinShare <= Total
    => \A p \in Rated : MinShare * Scale <= buckets[p].share

THEOREM EveryoneHasTheMinimum == Spec => []MinimumKept
<1>1. FairInv => MinimumKept
  <2> SUFFICES ASSUME FairInv, Cardinality(Rated) * MinShare <= Total, NEW p \in Rated
               PROVE  MinShare * Scale <= buckets[p].share
    BY DEF MinimumKept
  <2> DEFINE d == [q \in Rated |-> buckets[q].demand]
             share == [q \in Rated |-> buckets[q].share]
             want == Wanted(buckets[p].demand)
             n == Cardinality(Rated)
             x == buckets[p].share
  <2>1. /\ IsFiniteSet(Rated) /\ Rated \subseteq Known /\ n \in Nat /\ n # 0
        /\ MinShare \in Nat \ {0} /\ Scale \in Nat \ {0} /\ Total \in Nat \ {0}
    <3>1. Rated \in SUBSET Peers /\ Rated \subseteq Known
      BY DEF Rated, Known
    <3>2. IsFiniteSet(Rated) /\ Rated # {}
      BY <3>1, AllocatorAssumption, FS_Subset
    <3> QED
      BY <3>1, <3>2, AllocatorAssumption, FS_CardinalityType, FS_EmptySet
  <2>2. share \in [Rated -> Nat] /\ x \in Nat /\ buckets[p].demand \in Nat
    BY <2>1 DEF FairInv
  <2>3. want \in Nat /\ MinShare <= want
    BY <2>1, <2>2 DEF Wanted
  <2>4. /\ x <= want * Scale
        /\ x < want * Scale => /\ Cardinality(Handed(share)) = Total * Scale
                               /\ \A q \in Rated : share[q] <= x
    <3>1. Fair(d, share)
      BY DEF FairInv, MaxMinFair
    <3>2. p \in DOMAIN d /\ DOMAIN d = Rated /\ d[p] = buckets[p].demand /\ share[p] = x
      OBVIOUS
    <3> HIDE DEF d, share, x
    <3> QED
      BY <3>1, <3>2 DEF Fair
  <2> HIDE DEF d, share, want, n, x
  <2>5. CASE x = want * Scale
    <3>1. MinShare * Scale <= want * Scale
      BY <2>1, <2>3, TimesMonotone
    <3> QED
      BY <2>5, <3>1 DEF x
  <2>6. CASE x < want * Scale
    <3>1. Total * Scale <= n * x
      BY <2>1, <2>2, <2>4, <2>6, HandedBound DEF n
    <3>2. (n * MinShare) * Scale <= Total * Scale
      <4> DEFINE y == n * MinShare
      <4>1. y \in Int /\ y <= Total
        BY <2>1 DEF n
      <4> HIDE DEF y
      <4> QED
        BY <2>1, <4>1, TimesMonotone DEF y
    <3>3. (MinShare * Scale) * n <= n * x
      <4>1. (MinShare * Scale) * n = (n * MinShare) * Scale
        BY <2>1
      <4>2. (n * MinShare) * Scale \in Int /\ Total * Scale \in Int /\ n * x \in Int
        BY <2>1, <2>2
      <4> QED
        BY <3>1, <3>2, <4>1, <4>2
    <3>4. MinShare * Scale <= x
      BY <2>1, <2>2, <3>3, TimesCancels
    <3> QED
      BY <3>4 DEF x
  <2>7. want * Scale \in Nat
    BY <2>1, <2>3
  <2> QED
    BY <2>2, <2>4, <2>5, <2>6, <2>7
<1> QED
  BY <1>1, FairInit, FairStep, Invariance, PTL DEF Spec
=============================================================================

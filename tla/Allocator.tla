------------------------------ MODULE Allocator -----------------------------
(***************************************************************************)
(* The fair bandwidth allocator of the relay (relay/allocator.go,          *)
(* relay/transport.go): one token bucket per peer, shared by all streams   *)
(* of the peer and found through a map; a loop that samples the demand,    *)
(* drops idle buckets and distributes the capacity by progressive filling. *)
(*                                                                         *)
(* Rates are counted in units per recompute interval.  The moving average  *)
(* of the demand is rounded down to units; shares are fractions of a unit  *)
(* and are counted in 1/Scale units, where Scale is divisible by every     *)
(* number of peers, so that progressiveFill divides exactly.               *)
(***************************************************************************)
EXTENDS Integers, FiniteSets, Functions

CONSTANTS
  Peers,
  Streams,   \* streams that are accepted or opened, in any order
  PeerOf,    \* per stream: the peer at its other end
  Total,     \* a.total, in units
  MinShare,  \* a.minShare, in units
  MaxRead,   \* bound: the units that are read of a peer in an interval
  Scale      \* shares are in 1/Scale units

ASSUME AllocatorAssumption ==
  /\ PeerOf \in [Streams -> Peers]
  /\ Total \in Nat \ {0} /\ MinShare \in Nat \ {0} /\ MaxRead \in Nat \ {0}
  /\ IsFiniteSet(Peers)
  /\ Scale \in Nat \ {0} /\ \A n \in 1..Cardinality(Peers) : Scale % n = 0

VARIABLES
  buckets,  \* a.buckets: the bucket of a peer, or NoBucket
  made,     \* per peer: the number of buckets made so far
  strm,     \* per stream: its limStream
  stopped   \* Close has stopped the loop

vars == <<buckets, made, strm, stopped>>

\* gen tells the buckets of a peer apart; fresh: not seen by recompute yet.
NoBucket == [gen |-> 0]
NewBucket(p) ==
  [gen |-> made[p] + 1, refs |-> 0, cur |-> 0, waited |-> FALSE,
   demand |-> Total, share |-> Total * Scale, fresh |-> TRUE]

\* A limStream: the bucket it points to, and how often it was closed or reset.
NoStream == [gen |-> 0, ended |-> 0]

Known == {p \in Peers : buckets[p] # NoBucket}
Holds(s) == strm[s].gen > 0 /\ strm[s].ended = 0

Init ==
  /\ buckets = [p \in Peers |-> NoBucket]
  /\ made = [p \in Peers |-> 0]
  /\ strm = [s \in Streams |-> NoStream]
  /\ stopped = FALSE

-----------------------------------------------------------------------------
(* Streams.  Op_Flaw is Op with a plausible mistake. *)

\* wrap and acquireBucket.
Acquire(s) ==
  LET p == PeerOf[s]
      b == IF p \in Known THEN buckets[p] ELSE NewBucket(p) IN
  /\ strm[s] = NoStream
  /\ buckets' = [buckets EXCEPT ![p] = [b EXCEPT !.refs = @ + 1]]
  /\ made' = [made EXCEPT ![p] = b.gen]
  /\ strm' = [strm EXCEPT ![s].gen = b.gen]
  /\ UNCHANGED stopped

\* Writes go to the bucket the stream points to, in the map or not.
Pointed(s) == PeerOf[s] \in Known /\ buckets[PeerOf[s]].gen = strm[s].gen

\* limStream.Read: accountRead, and throttle, which waits if the tokens do not
\* suffice; n = 0 is a further round of a throttle that has slept an interval.
\* A Read may outlast the Close or Reset of its stream.  (After Close of the
\* allocator nobody looks at the accounts any more.)
Read(s) ==
  /\ strm[s].gen > 0 /\ ~stopped
  /\ \E n \in 0..MaxRead, wait \in BOOLEAN :
       /\ n = 0 => wait
       /\ Pointed(s) => buckets[PeerOf[s]].cur + n <= MaxRead
       /\ buckets' = IF Pointed(s)
                       THEN [buckets EXCEPT ![PeerOf[s]].cur = @ + n,
                                            ![PeerOf[s]].waited = @ \/ wait]
                       ELSE buckets
  /\ UNCHANGED <<made, strm, stopped>>

\* Close and Reset, in either order, return the reference once.
Returned_Always(s) == 1
Returned(s) == IF strm[s].ended = 0 THEN 1 ELSE 0

CloseOrReset(s) ==
  /\ strm[s].gen > 0 /\ strm[s].ended < 2
  /\ strm' = [strm EXCEPT ![s].ended = @ + 1]
  /\ buckets' = IF Pointed(s) THEN [buckets EXCEPT ![PeerOf[s]].refs = @ - Returned(s)]
                              ELSE buckets
  /\ UNCHANGED <<made, stopped>>

-----------------------------------------------------------------------------
(* recompute. *)

Wanted(d) == IF d < MinShare THEN MinShare ELSE d

\* progressiveFill: smallest demand first, each its demand or an equal part of
\* what remains.  rest[k] remains after the first k peers.
FillOrder_Any(d) ==
  CHOOSE o \in [1..Cardinality(DOMAIN d) -> DOMAIN d] : IsInjective(o)
FillOrder(d) ==
  CHOOSE o \in [1..Cardinality(DOMAIN d) -> DOMAIN d] :
    IsInjective(o) /\ \A i, j \in DOMAIN o : i < j => d[o[i]] <= d[o[j]]

ProgressiveFill(d) ==
  LET n == Cardinality(DOMAIN d)
      order == FillOrder(d)
      Part(k, remain) ==
        LET want == Wanted(d[order[k]]) * Scale
            part == remain \div (n - k + 1) IN
        IF want < part THEN want ELSE part
      rest[k \in 0..n] ==
        IF k = 0 THEN Total * Scale ELSE LET r == rest[k - 1] IN r - Part(k, r) IN
  [p \in DOMAIN d |-> LET k == CHOOSE k \in 1..n : order[k] = p IN Part(k, rest[k - 1])]

\* The sample: a peer that had to wait wants everything.  waited and cur are
\* swapped out.
Sampled(b) ==
  [b EXCEPT !.demand = IF b.waited THEN Total ELSE (b.demand + b.cur) \div 2,
            !.waited = FALSE, !.cur = 0, !.fresh = FALSE]

Idle(b) == b.refs = 0 /\ b.demand <= MinShare

Recompute ==
  /\ ~stopped /\ Known # {}
  /\ \E now \in {[p \in Known |-> Sampled(buckets[p])]} :
       LET kept == {p \in Known : ~Idle(now[p])} IN
       \E shares \in {ProgressiveFill([p \in kept |-> now[p].demand])} :
         buckets' = [p \in Peers |-> IF p \in kept THEN [now[p] EXCEPT !.share = shares[p]]
                                                   ELSE NoBucket]
  /\ UNCHANGED <<made, strm, stopped>>

Close ==
  /\ ~stopped
  /\ stopped' = TRUE
  /\ UNCHANGED <<buckets, made, strm>>

-----------------------------------------------------------------------------
Next ==
  \/ \E s \in Streams : Acquire(s) \/ Read(s) \/ CloseOrReset(s)
  \/ Recompute \/ Close

Spec == Init /\ [][Next]_vars

-----------------------------------------------------------------------------
(* Properties. *)

\* All open streams of a peer point to the one bucket in the map, whose limit
\* recompute adjusts: none keeps a bucket that was dropped and so a second
\* allowance (acquireBucket against recompute, Close against Reset).
OneBucketPerPeer == \A s \in Streams : Holds(s) => Pointed(s)

\* The units that are handed out, each with the peer that gets it.
Handed(share) == UNION {{p} \X (1 .. share[p]) : p \in DOMAIN share}

\* The capacity is not exceeded, nobody gets more than it wants (or the minimum),
\* and who gets less has no less than anybody else and nothing is left over.
Fair(d, share) ==
  LET want(p) == Wanted(d[p]) * Scale
      sum == Cardinality(Handed(share)) IN
  /\ sum <= Total * Scale
  /\ \A p \in DOMAIN d : share[p] <= want(p)
  /\ \A p \in DOMAIN d :
       share[p] < want(p) => sum = Total * Scale /\ \A q \in DOMAIN d : share[q] <= share[p]

\* The peers recompute has given a share to.
Rated == {p \in Known : ~buckets[p].fresh}

\* The shares set by recompute are max-min fair for the demands it sampled, until
\* it samples again, whatever streams come and go in between.
MaxMinFair ==
  Fair([p \in Rated |-> buckets[p].demand], [p \in Rated |-> buckets[p].share])

-----------------------------------------------------------------------------
(* The inductive invariant behind OneBucketPerPeer: a bucket in the map     *)
(* counts the open streams of its peer, so that recompute, which drops only *)
(* buckets nobody refers to, never drops one a stream points to.            *)

HoldersOf(p) == {s \in Streams : Holds(s) /\ PeerOf[s] = p}

\* A bucket has exactly these fields.
IsBucket(b) ==
  b = [gen |-> b.gen, refs |-> b.refs, cur |-> b.cur, waited |-> b.waited,
       demand |-> b.demand, share |-> b.share, fresh |-> b.fresh]

\* The type invariant, as far as the references are concerned.
TypeOK ==
  /\ buckets = [p \in Peers |-> buckets[p]]
  /\ \A p \in Known : IsBucket(buckets[p]) /\ buckets[p].gen \in Nat \ {0}
  /\ made \in [Peers -> Nat]
  /\ strm \in [Streams -> [gen : Nat, ended : 0..2]]
  /\ stopped \in BOOLEAN

RefsCount ==
  /\ \A p \in Peers : IsFiniteSet(HoldersOf(p))
  /\ \A p \in Known : buckets[p].refs = Cardinality(HoldersOf(p))

IInv == TypeOK /\ OneBucketPerPeer /\ RefsCount
=============================================================================

----------------------------- MODULE SendLedger -----------------------------
(***************************************************************************)
(* The sender's book-keeping of unacknowledged data (stream.go): the list  *)
(* unackedSegs, the in-flight account of every path, and the steps that    *)
(* move a segment between a path, the resend pool and release.             *)
(*                                                                         *)
(* Here offsets are bytes and segments are intervals: a segment is split   *)
(* where the peer's SACK ranges or the frame size cut it, and the head of  *)
(* the list is trimmed when the cumulative ACK falls inside it.  The peer  *)
(* is any peer whose ACKs pass validateAck, so its ranges may cover any    *)
(* part of a segment.  After normalizeRanges the SACK ranges are disjoint  *)
(* and not adjacent, so they are represented by the set of covered bytes.  *)
(***************************************************************************)
EXTENDS Integers, Sequences, FiniteSets, Functions

CONSTANTS
  Path,         \* path identities
  None,         \* nil: the segment is in the resend pool
  MaxBytes,     \* bound: bytes the application writes
  MaxFrame,     \* maxFramePayload
  InflightCap   \* inflightCap of a path

ASSUME PathAssumption == None \notin Path /\ IsFiniteSet(Path)
ASSUME SizesAssumption == MaxBytes \in Nat /\ MaxFrame \in Nat \ {0} /\ InflightCap \in Nat \ {0}

VARIABLES
  segs,      \* unackedSegs: records [off, len, path, sacked]
  sentOff,   \* next offset to be sent for the first time
  cumAcked,  \* highest cumulative ACK
  cover,     \* bytes covered by the peer's newest SACK ranges
  live,      \* paths in the path set
  inflight,  \* per path: bytes in flight
  delivered  \* per path: bytes credited to it

vars == <<segs, sentOff, cumAcked, cover, live, inflight, delivered>>

Byte == 0 .. MaxBytes - 1

-----------------------------------------------------------------------------
(* Helpers.  Op_Flaw is Op with a plausible mistake. *)

Min2(a, b) == IF a < b THEN a ELSE b
End(s) == s.off + s.len
BytesOf(s) == s.off .. End(s) - 1
LenOf(I) == SumFunctionOnSet([i \in DOMAIN segs |-> segs[i].len], I)

\* The segments in flight on p.
OnPath(p) == {i \in DOMAIN segs : segs[i].path = p /\ ~segs[i].sacked}

InPool(s) == s.path = None /\ ~s.sacked
CoveredBy_Touching(s) == BytesOf(s) \cap cover # {}
CoveredBy(s) == BytesOf(s) \subseteq cover

\* firstHole: the first run of bytes of s that no range covers.
HoleStart(s) == CHOOSE b \in BytesOf(s) \ cover : \A c \in BytesOf(s) \ cover : b <= c
HoleEnd_OfSegment(s) == End(s)
HoleEnd(s) == CHOOSE e \in HoleStart(s) + 1 .. End(s) :
                /\ HoleStart(s) .. e - 1 \cap cover = {}
                /\ e = End(s) \/ e \in cover

\* nextResendLocked: the first segment of the pool with a hole; the pool's
\* segments before it are marked on the way.
Candidates == {i \in DOMAIN segs : InPool(segs[i]) /\ ~CoveredBy(segs[i])}
NextResend == CHOOSE i \in Candidates : \A j \in Candidates : i <= j
Marked ==
  [i \in DOMAIN segs |->
     IF InPool(segs[i]) /\ CoveredBy(segs[i]) /\ \A j \in Candidates : i < j
       THEN [segs[i] EXCEPT !.sacked = TRUE] ELSE segs[i]]

\* splitResendLocked: the covered prefix, the part sent on p, the rest.
Covered(s, at) ==
  IF at > s.off THEN <<[off |-> s.off, len |-> at - s.off, path |-> None, sacked |-> TRUE]>>
                ELSE << >>
Sent(at, n, p) == [off |-> at, len |-> n, path |-> p, sacked |-> FALSE]
Remainder_Dropped(s, at) == << >>
Remainder(s, at) ==
  IF at < End(s) THEN <<[off |-> at, len |-> End(s) - at, path |-> None, sacked |-> FALSE]>>
                 ELSE << >>
Split(s, at, n, p) == Covered(s, at) \o <<Sent(at, n, p)>> \o Remainder(s, at + n)

\* pickMinDrain: any path below its cap may win.
Eligible == {p \in live : inflight[p] < InflightCap}

-----------------------------------------------------------------------------
Init ==
  /\ segs = << >> /\ sentOff = 0 /\ cumAcked = 0 /\ cover = {}
  /\ live = Path
  /\ inflight = [p \in Path |-> 0]
  /\ delivered = [p \in Path |-> 0]

\* trySend finds a hole.
Resend(p) ==
  /\ Candidates # {}
  /\ p \in Eligible
  /\ LET i == NextResend
         s == segs[i]
         n == Min2(HoleEnd(s) - HoleStart(s), MaxFrame)
     IN /\ segs' = SubSeq(Marked, 1, i - 1) \o Split(s, HoleStart(s), n, p)
                      \o SubSeq(segs, i + 1, Len(segs))
        /\ inflight' = [inflight EXCEPT ![p] = @ + n]
  /\ UNCHANGED <<sentOff, cumAcked, cover, live, delivered>>

\* trySend finds no hole: the next frame of new data.  Its length depends on
\* what has been written and on the window; both are left open here.
SendNew(n, p) ==
  /\ Candidates = {}
  /\ p \in Eligible
  /\ sentOff + n <= MaxBytes
  /\ segs' = Append(Marked, [off |-> sentOff, len |-> n, path |-> p, sacked |-> FALSE])
  /\ sentOff' = sentOff + n
  /\ inflight' = [inflight EXCEPT ![p] = @ + n]
  /\ UNCHANGED <<cumAcked, cover, live, delivered>>

\* trySend has nothing to send or no path to send it on: the marks stay.
SendNothing ==
  /\ live # {}
  /\ Candidates = {} \/ Eligible = {}
  /\ segs' = Marked
  /\ UNCHANGED <<sentOff, cumAcked, cover, live, inflight, delivered>>

\* freeAckedLocked: the head of the list is released as long as it ends below
\* cum; the segment that cum falls into is trimmed; the accounts are settled.
Released(cum) ==
  CHOOSE k \in 0 .. Len(segs) : /\ \A i \in 1 .. k : End(segs[i]) <= cum
                                /\ k < Len(segs) => End(segs[k + 1]) > cum
Above(s, cum) == IF s.off < cum THEN [s EXCEPT !.off = cum, !.len = End(s) - cum] ELSE s
Rest(cum) ==
  [i \in 1 .. Len(segs) - Released(cum) |->
     IF i = 1 THEN Above(segs[Released(cum) + 1], cum) ELSE segs[Released(cum) + i]]

Below_WholeSegment(s, cum) == s.len
Below(s, cum) == Min2(End(s), cum) - s.off
Freed(cum) == {i \in DOMAIN segs : i <= Released(cum) + 1 /\ segs[i].off < cum}
FreedOf(I, cum) == SumFunctionOnSet([i \in DOMAIN segs |-> Below(segs[i], cum)], I)

\* Segments that were marked have left the account of their path already.
Settled_SackedToo(cum, p) == FreedOf({i \in Freed(cum) : segs[i].path = p}, cum)
Settled(cum, p) == FreedOf({i \in Freed(cum) : segs[i].path = p /\ ~segs[i].sacked}, cum)
Credited(cum, p) == FreedOf({i \in Freed(cum) : segs[i].path = p}, cum)

Ack(cum, rng) ==
  /\ live # {}
  /\ cum \in cumAcked .. sentOff
  /\ rng \subseteq cum + 1 .. sentOff - 1
  /\ cumAcked' = cum
  /\ cover' = rng
  /\ segs' = Rest(cum)
  /\ inflight' = [p \in Path |-> inflight[p] - Settled(cum, p)]
  /\ delivered' = [p \in Path |-> delivered[p] + Credited(cum, p)]
  /\ UNCHANGED <<sentOff, live>>

\* checkSoftFailLocked: covered segments are marked and leave the account of
\* their path at once; any set of the others may be overdue.
Scan(i, late) ==
  LET s == segs[i]
  IN IF s.sacked THEN s
     ELSE IF CoveredBy(s) THEN [s EXCEPT !.sacked = TRUE]
     ELSE IF i \in late THEN [s EXCEPT !.path = None]
     ELSE s

SoftFail(late) ==
  /\ live # {}
  /\ segs' = [i \in DOMAIN segs |-> Scan(i, late)]
  /\ inflight' = [p \in Path |-> inflight[p] -
                    LenOf({i \in OnPath(p) : CoveredBy(segs[i]) \/ i \in late})]
  /\ UNCHANGED <<sentOff, cumAcked, cover, live, delivered>>

\* dropPath: the segments of the path go to the pool.
Disowned_InFlightOnly(s, p) ==
  IF s.path = p /\ ~s.sacked THEN [s EXCEPT !.path = None] ELSE s
Disowned(s, p) == IF s.path = p THEN [s EXCEPT !.path = None] ELSE s

DropPath(p) ==
  /\ p \in live
  /\ live' = live \ {p}
  /\ segs' = [i \in DOMAIN segs |-> Disowned(segs[i], p)]
  /\ inflight' = [inflight EXCEPT ![p] = @ - LenOf(OnPath(p))]
  /\ UNCHANGED <<sentOff, cumAcked, cover, delivered>>

Next ==
  \/ SendNothing
  \/ \E p \in Path : Resend(p) \/ DropPath(p) \/ \E n \in 1 .. MaxFrame : SendNew(n, p)
  \/ \E cum \in cumAcked .. sentOff :
       \E rng \in SUBSET (cum + 1 .. sentOff - 1) : Ack(cum, rng)
  \/ \E late \in SUBSET DOMAIN segs : SoftFail(late)

Spec == Init /\ [][Next]_vars

-----------------------------------------------------------------------------
(* The type invariant, which the proofs of SendLedger_proofs rest on. *)

Segment == [off : Nat, len : Nat \ {0}, path : Path \cup {None}, sacked : BOOLEAN]

TypeOK ==
  /\ segs \in Seq(Segment)
  /\ cumAcked \in Nat /\ sentOff \in Nat
  /\ cover \subseteq Nat
  /\ live \subseteq Path
  /\ inflight \in [Path -> Int]
  /\ delivered \in [Path -> Int]

-----------------------------------------------------------------------------
(* Properties. *)

\* No byte range is lost and none is kept twice: the list tiles the bytes
\* sent and not acknowledged, whatever splitting, trimming and re-routing
\* has happened ("the tiling invariant" splitResendLocked promises).
Tiling ==
  LET ends == <<cumAcked>> \o [i \in DOMAIN segs |-> End(segs[i])]
  IN /\ \A i \in DOMAIN segs : segs[i].off = ends[i]
     /\ ends[Len(ends)] = sentOff

\* The in-flight account of a path is exactly what it carries: the releases
\* in the soft failure scan, at the cumulative ACK and at the death of a path
\* never settle the same bytes twice and never forget any.  A leak would pin
\* the path at its cap for good.
InflightLedger == \A p \in Path : inflight[p] = LenOf(OnPath(p))

\* No segment, marked or not, still refers to a path that has been dropped.
OwnersLive == \A i \in DOMAIN segs : segs[i].path \in live \cup {None}

\* Every byte is credited to at most one path, and only once acknowledged:
\* otherwise the delivery rate samples are inflated.
CreditedOnce == SumFunctionOnSet(delivered, Path) <= cumAcked

PoolBytes == UNION {BytesOf(segs[i]) : i \in {j \in DOMAIN segs : InPool(segs[j])}}
MarkedBytes == UNION {BytesOf(segs[i]) : i \in {j \in DOMAIN segs : segs[j].sacked}}
CarriedBytes == UNION {BytesOf(segs[i]) : i \in UNION {OnPath(p) : p \in live}}

\* Only holes are sent again: no byte leaves the pool for a path while the
\* newest SACK says that the peer has it.
OnlyHolesResent == [][(PoolBytes \cap CarriedBytes') \cap cover = {}]_vars

\* A byte is struck from the resend list only when the newest SACK covers it,
\* and it stays struck until the cumulative ACK releases it.
MarksFollowReports ==
  [][/\ MarkedBytes' \ MarkedBytes \subseteq cover
     /\ \A b \in MarkedBytes : b \in MarkedBytes' \/ b < cumAcked']_vars
=============================================================================

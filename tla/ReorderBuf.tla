----------------------------- MODULE ReorderBuf -----------------------------
(***************************************************************************)
(* The receiver's reorder buffer (reorder.go).  Segments of the byte       *)
(* stream arrive out of order and possibly more than once; the buffer      *)
(* keeps the ones that leave a hole in a heap, moves what has become       *)
(* contiguous to the ready queue, and reports what it holds as SACK        *)
(* ranges.                                                                 *)
(*                                                                         *)
(* The byte of the stream at offset k is represented by the number k, so   *)
(* a payload that is cut at the wrong place shows up as wrong bytes.  The  *)
(* heap is a sequence sorted by offset; container/heap leaves the order of *)
(* segments with equal offsets open, and so does Insertions.  The ready    *)
(* queue is the concatenation of its segments, so readyBytes is its        *)
(* length.                                                                 *)
(***************************************************************************)
EXTENDS Integers, Sequences, FiniteSets, SequencesExt

CONSTANTS
  Frames,    \* the DATA frames that can arrive: records [off, len]
  Caps,      \* values setCap can be given; the buffer starts with the largest
  MaxAdds,   \* bound on the number of arrivals
  MaxRanges  \* maxAckRanges, the number of SACK ranges in one ACK

ASSUME FramesAssumption == Frames \subseteq [off : Nat, len : Nat]
ASSUME CapsAssumption == Caps \subseteq Nat \ {0} /\ IsFiniteSet(Caps) /\ Caps # {}
ASSUME RangesAssumption == MaxRanges \in Nat

VARIABLES
  rb,    \* the reorderBuf structure
  out,   \* history: the bytes Read has returned
  taken, \* history: the frames add has not refused
  adds   \* number of arrivals so far

vars == <<rb, out, taken, adds>>

-----------------------------------------------------------------------------
(* The operations of reorderBuf, on values.  An operator Op_Flaw is Op with *)
(* a plausible mistake; it is only used to see that the properties notice.  *)

Bytes(off, len) == [i \in 1..len |-> off + i - 1]
Offsets(off, len) == off .. off + len - 1

NewBuf(c) == [cap |-> c, next |-> 0, segs |-> << >>, ready |-> << >>,
              size |-> 0, dropped |-> 0, panicked |-> FALSE]

\* How much of a segment that starts at off is already in order.
Overlap_OffByOne(b, off) == IF off < b.next THEN b.next - off + 1 ELSE 0
Overlap(b, off) == IF off < b.next THEN b.next - off ELSE 0

\* data[n:]
Cut_AtTheEnd(data, n) == SubSeq(data, 1, Len(data) - n)
Cut(data, n) == SubSeq(data, n + 1, Len(data))

\* All sequences that result from pushing s on the heap.
Insertions(segs, s) ==
  {InsertAt(segs, i, s) : i \in {j \in 1 .. Len(segs) + 1 :
                                  /\ \A k \in 1 .. j - 1 : segs[k].off <= s.off
                                  /\ \A k \in j .. Len(segs) : segs[k].off >= s.off}}

\* A segment that is in order or overlaps what is.
Touches(b, s) == s.off <= b.next

\* Bytes that turn out to be duplicates give back the room they took.
WriteOff_Forgotten(b, n) == b
WriteOff(b, n) == [b EXCEPT !.size = @ - n]

\* One iteration of drain's loop.  Slicing a segment past its end is a run
\* time panic.
DrainOne(b, s) ==
  LET trim == Overlap(b, s.off)
      rest == Cut(s.data, trim)
  IN IF b.panicked \/ ~Touches(b, s)
       THEN [b EXCEPT !.segs = Append(@, s)]
     ELSE IF trim > Len(s.data)
       THEN [b EXCEPT !.panicked = TRUE]
     ELSE [WriteOff(b, trim) EXCEPT !.next = @ + Len(rest), !.ready = @ \o rest]

\* The heap is sorted, so draining it while its top touches next is a fold.
Drain(b) == FoldLeft(DrainOne, [b EXCEPT !.segs = << >>], b.segs)

OverCap_HoleFillToo(b, off, len) == b.size + len > b.cap
OverCap(b, off, len) == off > b.next /\ b.size + len > b.cap

\* The buffers that add(off, data) can leave behind.
AddResults(b, off, data) ==
  LET cut == Overlap(b, off)
      seg == [off |-> off + cut, data |-> Cut(data, cut)]
      len == Len(seg.data)
  IN IF data = << >> \/ off + Len(data) <= b.next
       THEN {b}
     ELSE IF OverCap(b, seg.off, len)
       THEN {[b EXCEPT !.dropped = @ + len]}
     ELSE {Drain([b EXCEPT !.segs = sg, !.size = @ + len]) : sg \in Insertions(b.segs, seg)}

\* read(b) with a buffer of n bytes.
ReadBuf(b, n) ==
  LET m == IF n < Len(b.ready) THEN n ELSE Len(b.ready)
  IN [b EXCEPT !.ready = SubSeq(@, m + 1, Len(@)), !.size = @ - m]

\* ranges: heap segments merged into ascending [start, end) intervals, the
\* lowest max of them.
Joins_OverlapOnly(last, s) == s.off < last.end
Joins(last, s) == s.off <= last.end

MergeOne(rs, s) ==
  LET end == s.off + Len(s.data)
  IN IF rs # << >> /\ Joins(Last(rs), s)
       THEN [rs EXCEPT ![Len(rs)].end = IF end > @ THEN end ELSE @]
       ELSE Append(rs, [start |-> s.off, end |-> end])

Ranges(b, max) ==
  LET merged == FoldLeft(MergeOne, << >>, b.segs)
  IN IF Len(merged) > max THEN SubSeq(merged, 1, max) ELSE merged

-----------------------------------------------------------------------------
(* The buffer in use: arrivals, reads and capacity changes in any order. *)

Init ==
  /\ rb = NewBuf(CHOOSE c \in Caps : \A d \in Caps : d <= c)
  /\ out = << >>
  /\ taken = {}
  /\ adds = 0

Refused(f) == f.off + f.len > rb.next /\ OverCap(rb, f.off, f.len)

Add(f) ==
  /\ adds < MaxAdds
  /\ ~rb.panicked
  /\ adds' = adds + 1
  /\ rb' \in AddResults(rb, f.off, Bytes(f.off, f.len))
  /\ taken' = IF Refused(f) THEN taken ELSE taken \cup {f}
  /\ UNCHANGED out

Read(n) ==
  /\ rb.ready # << >>
  /\ ~rb.panicked
  /\ rb' = ReadBuf(rb, n)
  /\ out' = out \o SubSeq(rb.ready, 1, Len(rb.ready) - Len(rb'.ready))
  /\ UNCHANGED <<taken, adds>>

\* setCap keeps everything that is buffered, also when the capacity shrinks.
SetCap_Evicts(c) ==
  /\ ~rb.panicked
  /\ rb' = [rb EXCEPT !.cap = c, !.segs = << >>, !.size = Len(rb.ready)]
  /\ UNCHANGED <<out, taken, adds>>
SetCap(c) ==
  /\ ~rb.panicked
  /\ rb' = [rb EXCEPT !.cap = c]
  /\ UNCHANGED <<out, taken, adds>>

Next ==
  \/ \E f \in Frames : Add(f)
  \/ \E n \in 1..2 : Read(n)
  \/ \E c \in Caps : SetCap(c)

Spec == Init /\ [][Next]_vars

-----------------------------------------------------------------------------
(* Properties. *)

\* What Read has returned and can still return is exactly the stream up to
\* the cumulative ACK point, byte for byte, whatever arrived in whatever
\* order and however often (add and drain trim overlaps at the right place).
DeliveredIsPrefix == ~rb.panicked => out \o rb.ready = Bytes(0, rb.next)

\* The offsets of the accepted bytes.
kept == UNION {Offsets(f.off, f.len) : f \in taken}

HeapBytes(segs) == FoldLeft(LAMBDA n, s : n + Len(s.data), 0, segs)

\* size is the number of buffered bytes, so the advertised window is what is
\* really free: a leak would shrink the window a little with every overlap
\* (the comment in drain names that failure).
SizeLedger == ~rb.panicked => rb.size = Len(rb.ready) + HeapBytes(rb.segs)

\* The reference definition of the SACK ranges: the maximal intervals of
\* accepted bytes above the cumulative point, and the lowest MaxRanges of them.
Blocks ==
  {r \in [start : kept, end : {x + 1 : x \in kept}] :
     /\ rb.next < r.start /\ r.start < r.end
     /\ r.start .. r.end - 1 \subseteq kept
     /\ r.start - 1 \notin kept
     /\ r.end \notin kept}

Lowest(n) == {r \in Blocks : Cardinality({q \in Blocks : q.start < r.start}) < n}

\* ranges reports exactly what the sender may strike from its resend list, in
\* ascending order: no byte too many (it would never be sent again), none too
\* few among the lowest MaxRanges blocks.
RangesAreBlocks ==
  ~rb.panicked =>
    LET rs == Ranges(rb, MaxRanges)
    IN /\ Range(rs) = Lowest(MaxRanges)
       /\ \A i, j \in DOMAIN rs : i < j => rs[i].start < rs[j].start

\* g ends strictly before f does and starts no earlier.
Nested(g, f) == g.len # 0 /\ f.off <= g.off /\ g.off + g.len < f.off + f.len

\* drain slices a segment past its end only if the buffer has accepted two
\* frames one of which lies within the other: neither the trimming of arrivals
\* nor repeated or overlapping frames ever lead to it.  With such a pair it does
\* panic, although the comment below the slice takes the case as handled.
PanicMeansNested ==
  rb.panicked => \E f, g \in taken : Nested(g, f)

\* A segment that fills the hole at the cumulative point is accepted even
\* when the buffer is full: refusing it would leave nothing to read and no
\* way to free space (the deadlock described in add).
HoleFillAccepted ==
  [][\A f \in Frames :
       Add(f) /\ f.off <= rb.next /\ f.off + f.len > rb.next
         => rb'.next >= f.off + f.len \/ rb'.panicked]_vars

\* The bytes the buffer has reported as held, by cum or by a SACK range.
Held(b) ==
  0 .. b.next - 1 \cup UNION {r.start .. r.end - 1 : r \in Range(Ranges(b, Len(b.segs)))}

\* The receiver never reneges: what was once reportable stays held through
\* arrivals, reads and shrinking capacity.  The sender relies on it when it
\* marks a segment sacked and never sends it again.
NoRenege == [][~rb'.panicked => Held(rb) \subseteq Held(rb')]_vars
=============================================================================

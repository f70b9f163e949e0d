----------------------------- MODULE DataPlane ------------------------------
(***************************************************************************)
(* One direction of an aggregated stream (stream.go), from the writer's    *)
(* send buffer over several paths to the reader's reorder buffer, with the *)
(* acknowledgements flowing back over any of the same paths.               *)
(*                                                                         *)
(* A path is a reliable FIFO connection that may die at any moment and     *)
(* takes along what is in flight on it, but for the first few frames that  *)
(* recvLoop has read into its buffer already and still handles; each       *)
(* endpoint notices on its own.                                            *)
(* Data is counted in units, one unit per DATA frame: the sender never     *)
(* moves the boundaries of a frame between an honest pair of endpoints     *)
(* (module SendLedger), so an offset is the number of its unit.            *)
(***************************************************************************)
EXTENDS Integers, Sequences, FiniteSets

CONSTANTS
  Path,         \* path identities; an identity is used once
  FirstPath,    \* the path the handshake stream was turned into
  None,         \* nil: a segment without a path, no write in progress
  MaxUnits,     \* bound: units the application writes
  MaxAcks,      \* bound: ACK frames sent
  MaxFails,     \* bound: scans that find a segment overdue
  Caps,         \* capacities the reorder buffer can be given
  MinCap,       \* minBuf, the initial capacity
  MaxCap,       \* maxBuf, the largest capacity
  SendBuf,      \* sendBufCap
  InflightCap,  \* inflightCap of a path, in units
  MaxRanges,    \* maxAckRanges
  MaxAckAdvance,\* maxAckSeqAdvance
  ReadAhead,    \* frames a recvLoop's buffered reader holds
  ChanCap       \* bound: units a connection holds before Write blocks

ASSUME PathAssumption == FirstPath \in Path /\ None \notin Path
ASSUME BoundsAssumption == MaxUnits \in Nat /\ MaxAcks \in Nat /\ MaxFails \in Nat /\ ChanCap \in Nat
ASSUME CapsAssumption == /\ MinCap \in Nat \ {0} /\ MaxCap \in Nat
                         /\ Caps \subseteq MinCap .. MaxCap /\ MinCap \in Caps
ASSUME BufAssumption == SendBuf \in Nat /\ InflightCap \in Nat /\ MaxRanges \in Nat
                         /\ MaxAckAdvance \in Nat /\ ReadAhead \in Nat

VARIABLES
  \* the sending endpoint
  written,     \* units Write has accepted = sentOff + pendingBytes
  sentOff,     \* next offset to put into a new frame
  cumAcked,    \* the peer's cumulative acknowledgement
  owner,       \* path of each unacknowledged segment, None = to be resent
  sacked,      \* segments marked as held by the peer
  advWindow,   \* window in the newest ACK applied
  gotWindow,   \* an ACK has been applied
  peerSeq,     \* lowest ACK sequence number that is still new
  peerRanges,  \* units covered by the SACK ranges of the newest ACK
  pathS,       \* the paths as the sender sees them
  pend,        \* frame committed by trySend, not yet written to its path
  fails,       \* scans that found a segment overdue so far
  \* the receiving endpoint
  next,        \* cumulative point of the reorder buffer
  heap,        \* out-of-order copies: pairs <<unit, copy number>>
  readOff,     \* units Read has returned
  cap,         \* capacity of the reorder buffer
  torn,        \* the stream was torn down as an overflow
  pathR,       \* the paths as the receiver sees them
  ackSeq,      \* sequence number of the next ACK
  ackReq,      \* token in ackCh: an ACK is wanted
  \* the paths
  data, acks,  \* frames in flight on each path
  \* history
  lastAck,     \* the newest ACK sent
  sawLast      \* the newest ACK sent has been applied by the sender

sender == <<written, sentOff, cumAcked, owner, sacked, advWindow, gotWindow,
            peerSeq, peerRanges, pathS, pend, fails>>
receiver == <<next, heap, readOff, cap, torn, pathR, ackSeq, ackReq>>
history == <<lastAck, sawLast>>
vars == <<sender, receiver, data, acks, history>>

Unit == 0 .. MaxUnits - 1
Status == {"new", "live", "dead"}
Ack == [seq : Nat, cum : Nat, win : Nat, rng : SUBSET Unit]

-----------------------------------------------------------------------------
(* Helpers.  Op_Flaw is Op with a plausible mistake, used only to see that  *)
(* the properties notice it.                                                *)

Live(status) == {p \in Path : status[p] = "live"}
Unacked == {u \in Unit : cumAcked <= u /\ u < sentOff}
InflightOf(p) == {u \in Unacked : owner[u] = p /\ u \notin sacked}
Units(H) == {h[1] : h \in H}
Size(n, r, H) == n - r + Cardinality(H)

\* dropPath: the segments of a dead path wait for another one.
Disown_Kept(p) == owner
Disown(p) == [u \in Unit |-> IF owner[u] = p THEN None ELSE owner[u]]

\* coveredBy: the newest ACK reports the unit as held.
Covered_BelowEnd(u) == \E v \in peerRanges : u <= v
Covered(u) == u \in peerRanges

\* The resend pool, and the part of it the peer is not known to hold.
Pool == {u \in Unacked : owner[u] = None /\ u \notin sacked}
Holes == {u \in Pool : ~Covered(u)}

\* nextResendLocked marks covered segments until it meets a hole.
MarkedOnTheWay == {u \in Pool : Covered(u) /\ \A h \in Holes : u < h}

\* max(window(), 0)
Advertised_HeapOnly == IF cap > Cardinality(heap) THEN cap - Cardinality(heap) ELSE 0
Advertised_Signed == cap - Size(next, readOff, heap)
Advertised ==
  LET free == cap - Size(next, readOff, heap)
  IN IF free > 0 THEN free ELSE 0

\* The units in the lowest MaxRanges blocks of the heap.
Reported ==
  LET U == Units(heap)
      starts == {v \in U : v - 1 \notin U}
  IN {u \in U : Cardinality({v \in starts : v <= u}) <= MaxRanges}

\* How far an ACK is ahead of the last one applied, or of 0 before the first.
Advance(a) == a.seq - (IF gotWindow THEN peerSeq - 1 ELSE 0)

\* validateAck, for an ACK that passed the sequence number filter.
AckValid_StrictCum(a) ==
  a.cum > cumAcked /\ a.cum <= sentOff /\ Advance(a) <= MaxAckAdvance
AckValid(a) ==
  /\ cumAcked <= a.cum /\ a.cum <= sentOff
  /\ Advance(a) <= MaxAckAdvance
  /\ \A u \in a.rng : a.cum < u /\ u < sentOff

\* What recvLoop has read ahead of a connection when that is closed.
Buffered(frames) == {SubSeq(frames, 1, k) : k \in {n \in 0 .. Len(frames) : n <= ReadAhead}}

\* add: duplicates of a unit below next are ignored, a unit beyond a hole is
\* refused when the buffer is full, everything else is taken; a copy of a
\* unit that is already in the heap is not recognised.
Accepts(u) == u >= next /\ (u > next => Size(next, readOff, heap) + 1 <= cap)
HeapWith(u) ==
  IF Accepts(u)
    THEN heap \cup {<<u, 1 + Cardinality({h \in heap : h[1] = u})>>}
    ELSE heap

-----------------------------------------------------------------------------
Init ==
  /\ written = 0 /\ sentOff = 0 /\ cumAcked = 0
  /\ owner = [u \in Unit |-> None]
  /\ sacked = {}
  /\ advWindow = 0 /\ gotWindow = FALSE /\ peerSeq = 0 /\ peerRanges = {}
  /\ pathS = [p \in Path |-> IF p = FirstPath THEN "live" ELSE "new"]
  /\ pend = None /\ fails = 0
  /\ next = 0 /\ heap = {} /\ readOff = 0 /\ cap = MinCap
  /\ torn = FALSE
  /\ pathR = [p \in Path |-> IF p = FirstPath THEN "live" ELSE "new"]
  /\ ackSeq = 0 /\ ackReq = TRUE
  /\ data = [p \in Path |-> << >>]
  /\ acks = [p \in Path |-> << >>]
  /\ lastAck = [seq |-> 0, cum |-> 0, win |-> 0, rng |-> {}]
  /\ sawLast = FALSE

-----------------------------------------------------------------------------
(* The sender. *)

\* Write takes data as long as the send buffer has room.
Room == written - cumAcked < SendBuf

Write ==
  /\ Live(pathS) # {}
  /\ written < MaxUnits
  /\ Room
  /\ written' = written + 1
  /\ UNCHANGED <<sentOff, cumAcked, owner, sacked, advWindow, gotWindow, peerSeq,
                 peerRanges, pathS, pend, fails, receiver, data, acks, history>>

\* trySend under the lock: a hole first, without regard to the window, then
\* new data within the window; the scheduler may pick any path below its cap.
Commit(u, p) ==
  /\ Cardinality(InflightOf(p)) < InflightCap
  /\ owner' = [owner EXCEPT ![u] = p]
  /\ pend' = <<p, u>>

TrySend ==
  /\ pend = None
  /\ gotWindow
  /\ sacked' = sacked \cup MarkedOnTheWay
  /\ \E p \in Live(pathS) :
       \/ \E u \in Holes :
            /\ \A v \in Holes : u <= v
            /\ Commit(u, p)
            /\ UNCHANGED sentOff
       \/ /\ Holes = {}
          /\ sentOff < written
          /\ sentOff - cumAcked < advWindow
          /\ Commit(sentOff, p)
          /\ sentOff' = sentOff + 1
  /\ UNCHANGED <<written, cumAcked, advWindow, gotWindow, peerSeq, peerRanges, pathS,
                 fails, receiver, data, acks, history>>

\* The write itself happens without the lock.  By then the path may be gone,
\* or it may die under the write; both ends with the path dropped.
DropS(p) ==
  /\ pathS' = [pathS EXCEPT ![p] = "dead"]
  /\ owner' = Disown(p)
  /\ \E kept \in Buffered(acks[p]) : acks' = [acks EXCEPT ![p] = kept]

WriteFrame ==
  /\ pend # None
  /\ LET p == pend[1]
     IN \/ /\ pathS[p] = "live"
           /\ Len(data[p]) < ChanCap
           /\ data' = IF pathR[p] = "dead" THEN data
                      ELSE [data EXCEPT ![p] = Append(@, pend[2])]
           /\ UNCHANGED <<pathS, owner, acks>>
        \/ /\ pathS[p] = "live"
           /\ DropS(p)
           /\ UNCHANGED data
        \/ /\ pathS[p] # "live"
           /\ UNCHANGED <<data, pathS, owner, acks>>
  /\ pend' = None
  /\ UNCHANGED <<written, sentOff, cumAcked, sacked, advWindow, gotWindow, peerSeq,
                 peerRanges, fails, receiver, history>>

\* An ACK that is not newer than the last one applied is ignored.
Stale_Never(a) == FALSE
Stale(a) == a.seq < peerSeq

\* A rejected ACK ends the recvLoop, which drops the path unless it is gone.
Reject(p) ==
  /\ pathS' = [pathS EXCEPT ![p] = "dead"]
  /\ owner' = IF pathS[p] = "dead" THEN owner ELSE Disown(p)
  /\ acks' = [acks EXCEPT ![p] = << >>]

RecvAck(p) ==
  /\ acks[p] # << >>
  /\ LET a  == Head(acks[p])
         ok == ~Stale(a) /\ AckValid(a)
     IN /\ cumAcked' = IF ok /\ a.cum > cumAcked THEN a.cum ELSE cumAcked
        /\ advWindow' = IF ok THEN a.win ELSE advWindow
        /\ peerRanges' = IF ok THEN a.rng ELSE peerRanges
        /\ peerSeq' = IF ok THEN a.seq + 1 ELSE peerSeq
        /\ gotWindow' = (gotWindow \/ ok)
        /\ sawLast' = (sawLast \/ (ok /\ a.seq = lastAck.seq))
        /\ IF Stale(a) \/ ok
             THEN /\ acks' = [acks EXCEPT ![p] = Tail(@)]
                  /\ UNCHANGED <<pathS, owner>>
             ELSE Reject(p)
  /\ UNCHANGED <<written, sentOff, sacked, pend, fails, receiver, data, lastAck>>

\* The tick's soft failure scan: covered segments are marked, any set of the
\* others may be overdue and goes back to the resend pool.
SoftFail ==
  /\ Live(pathS) # {}
  /\ sacked' = sacked \cup {u \in Unacked : Covered(u)}
  /\ \E late \in SUBSET {u \in Unacked \ sacked' : owner[u] # None} :
       /\ owner' = [u \in Unit |-> IF u \in late THEN None ELSE owner[u]]
       /\ fails' = IF late = {} THEN fails ELSE fails + 1
       /\ fails' <= MaxFails
  /\ UNCHANGED <<written, sentOff, cumAcked, advWindow, gotWindow, peerSeq, peerRanges,
                 pathS, pend, receiver, data, acks, history>>

\* Read error, RTO, RemovePath or the peer's PATH_DROP: the sender loses a path.
LosePathS(p) ==
  /\ pathS[p] = "live"
  /\ DropS(p)
  /\ UNCHANGED <<written, sentOff, cumAcked, sacked, advWindow, gotWindow, peerSeq,
                 peerRanges, pend, fails, receiver, data, history>>

AttachS(p) ==
  /\ pathS[p] = "new"
  /\ Live(pathS) # {}
  /\ pathS' = [pathS EXCEPT ![p] = "live"]
  /\ UNCHANGED <<written, sentOff, cumAcked, owner, sacked, advWindow, gotWindow,
                 peerSeq, peerRanges, pend, fails, receiver, data, acks, history>>

-----------------------------------------------------------------------------
(* The receiver. *)

\* recvLoop on a DATA frame: add, then the overflow check, then ask for an ACK.
\* The overflow closes every path; the other loops go on with what they have read.
RecvData(p) ==
  /\ data[p] # << >>
  /\ LET u == Head(data[p])
         H == HeapWith(u)
     IN \E m \in next .. MaxUnits :
          /\ m \notin Units(H)
          /\ \A k \in next .. m - 1 : k \in Units(H)
          /\ next' = m
          /\ heap' = {h \in H : h[1] > m}
  /\ IF Size(next', readOff, heap') > 4 * cap
       THEN /\ torn' = TRUE
            /\ pathR' = [q \in Path |-> "dead"]
            /\ data' \in {d \in [Path -> UNION {Buffered(data[q]) : q \in Path}] :
                            \A q \in Path : d[q] \in IF q = p THEN {<< >>} ELSE Buffered(data[q])}
            /\ UNCHANGED ackReq
       ELSE /\ ackReq' = TRUE
            /\ data' = [data EXCEPT ![p] = Tail(@)]
            /\ UNCHANGED <<torn, pathR>>
  /\ UNCHANGED <<readOff, cap, ackSeq, sender, acks, history>>

\* sendAck: a snapshot of the reorder buffer on the path pickAck chooses.  If
\* the write fails the path is dropped and, while there is another one, a
\* fresh snapshot is wanted.
LoseR(p) ==
  /\ pathR' = [pathR EXCEPT ![p] = "dead"]
  /\ \E kept \in Buffered(data[p]) : data' = [data EXCEPT ![p] = kept]

SendAck(p) ==
  /\ ackReq
  /\ pathR[p] = "live"
  /\ ackSeq < MaxAcks
  /\ ackSeq' = ackSeq + 1
  /\ \/ LET a == [seq |-> ackSeq, cum |-> next, win |-> Advertised, rng |-> Reported]
        IN /\ acks' = IF pathS[p] = "dead" THEN acks ELSE [acks EXCEPT ![p] = Append(@, a)]
           /\ lastAck' = a
           /\ sawLast' = FALSE
           /\ ackReq' = FALSE
           /\ UNCHANGED <<pathR, data>>
     \/ /\ LoseR(p)
        /\ ackReq' = (Live(pathR) # {p})
        /\ UNCHANGED <<acks, history>>
  /\ UNCHANGED <<next, heap, readOff, cap, torn, sender>>

\* Read frees room; the peer hears of it at once when the window was closed,
\* otherwise at the latest when a quarter of the capacity has been freed.
CanRead_PastCum == readOff <= next
CanRead == readOff < next

Read ==
  /\ CanRead
  /\ readOff' = readOff + 1
  /\ ackReq' \in IF Size(next, readOff, heap) >= cap THEN {TRUE} ELSE {ackReq, TRUE}
  /\ UNCHANGED <<next, heap, cap, torn, pathR, ackSeq, sender, data, acks, history>>

\* updateWindowCapLocked
SetCap(c) ==
  /\ Live(pathR) # {}
  /\ c # cap
  /\ cap' = c
  /\ ackReq' = (ackReq \/ (Size(next, readOff, heap) >= cap /\ Size(next, readOff, heap) < c))
  /\ UNCHANGED <<next, heap, readOff, torn, pathR, ackSeq, sender, data, acks, history>>

\* The receiver loses a path; dropPath asks for an ACK on the remaining ones.
LosePathR(p) ==
  /\ pathR[p] = "live"
  /\ LoseR(p)
  /\ ackReq' = (ackReq \/ Live(pathR) # {p})
  /\ UNCHANGED <<next, heap, readOff, cap, torn, ackSeq, sender, acks, history>>

AttachR(p) ==
  /\ pathR[p] = "new"
  /\ Live(pathR) # {}
  /\ pathR' = [pathR EXCEPT ![p] = "live"]
  /\ UNCHANGED <<next, heap, readOff, cap, torn, ackSeq, ackReq, sender, data,
                 acks, history>>

-----------------------------------------------------------------------------
Next ==
  \/ Write
  \/ TrySend
  \/ WriteFrame
  \/ SoftFail
  \/ Read
  \/ \E p \in Path : \/ RecvAck(p) \/ LosePathS(p) \/ AttachS(p)
                     \/ RecvData(p) \/ SendAck(p) \/ LosePathR(p) \/ AttachR(p)
  \/ \E c \in Caps : SetCap(c)

Spec == Init /\ [][Next]_vars

-----------------------------------------------------------------------------
(* Properties. *)

\* Every variable has its type; in particular no advertised window is
\* negative, although the buffer may hold more than its capacity after the
\* capacity has shrunk (sendAck clamps at 0).
TypeOK ==
  /\ written \in 0 .. MaxUnits /\ sentOff \in Nat /\ cumAcked \in Nat
  /\ owner \in [Unit -> Path \cup {None}]
  /\ sacked \subseteq Unit
  /\ advWindow \in Nat /\ gotWindow \in BOOLEAN /\ peerSeq \in Nat
  /\ peerRanges \subseteq Unit
  /\ pathS \in [Path -> Status]
  /\ pend \in (Path \X Unit) \cup {None} /\ fails \in 0 .. MaxFails
  /\ next \in Nat /\ readOff \in Nat /\ cap \in Caps
  /\ heap \subseteq Unit \X Nat /\ IsFiniteSet(heap)
  /\ torn \in BOOLEAN
  /\ pathR \in [Path -> Status]
  /\ ackSeq \in Nat /\ ackReq \in BOOLEAN
  /\ data \in [Path -> Seq(Unit)]
  /\ acks \in [Path -> Seq(Ack)]
  /\ lastAck \in Ack /\ sawLast \in BOOLEAN

\* The bytes the receiver is responsible for.
Held == {u \in Unit : u < next} \cup Units(heap)

\* The two ends never disagree about what has happened: nothing is read
\* before it is in order, acknowledged before it was received, received
\* before it was sent or sent before it was written.
OffsetsOrdered ==
  /\ readOff <= next
  /\ cumAcked <= next
  /\ next <= sentOff
  /\ sentOff <= written

\* No byte is orphaned: an unacknowledged segment is in the resend pool or on
\* a path that is still alive, so that either an ACK, the soft failure scan
\* or the death of the path will take care of it.  (trySend commits under the
\* lock, dropPath disowns under the lock, the write happens in between.)
NoOrphan ==
  \A u \in Unacked : owner[u] = None \/ pathS[owner[u]] = "live"

\* A segment the sender has struck from its resend list really is at the
\* receiver, whatever happened to paths, ACKs and the buffer since.
SackedIsHeld == sacked \subseteq Held

\* However ACKs of an honest peer overtake each other on different paths,
\* validateAck rejects one that is not stale for one reason only: it is more
\* than maxAckSeqAdvance ahead of the last one applied.  Its cumulative point
\* and its ranges never are the reason; a rejection drops a healthy path.
HonestAckValid ==
  \A p \in Path : \A i \in DOMAIN acks[p] :
    ~Stale(acks[p][i]) => (AckValid(acks[p][i]) <=> Advance(acks[p][i]) <= MaxAckAdvance)

\* Once the newest ACK has been applied, the sender's picture of the receiver
\* is that ACK: no older ACK that arrives later on a slower path turns the
\* window or the SACK ranges back (the deadlock described at frameAck).
LatestViewKept ==
  sawLast => /\ cumAcked = lastAck.cum
             /\ advWindow = lastAck.win
             /\ peerRanges = lastAck.rng

\* Flow control: the sender never has more outstanding towards the reading
\* application than the largest capacity the buffer may be given.
FlowControl == sentOff <= readOff + MaxCap

-----------------------------------------------------------------------------
(* The inductive invariant behind OffsetsOrdered and FlowControl: a limit   *)
(* the receiver has once granted stays granted on its way back (in an ACK   *)
(* on any path, however late) and at the sender, and whatever is on its way *)
(* to the reader was sent below that limit.                                 *)

SentBefore ==
  /\ \A p \in Path : \A i \in DOMAIN data[p] : data[p][i] < sentOff
  /\ pend # None => pend[2] < sentOff
  /\ \A h \in heap : h[1] < sentOff

Granted(a) == a.cum <= next /\ a.cum + a.win <= readOff + MaxCap

AcksGranted == \A p \in Path : \A i \in DOMAIN acks[p] : Granted(acks[p][i])

WindowGranted == gotWindow => cumAcked + advWindow <= readOff + MaxCap

IInv == OffsetsOrdered /\ FlowControl /\ SentBefore /\ AcksGranted /\ WindowGranted

(* The inductive invariant behind SackedIsHeld, HonestAckValid and          *)
(* LatestViewKept: of the ACKs under way the later one never reports less,  *)
(* none is newer than the last one sent, and what any of them (or the last  *)
(* one applied) reports as held is held for good.                           *)

UnderWay == UNION {{acks[p][i] : i \in DOMAIN acks[p]} : p \in Path}

HeapAbove == \A h \in heap : next < h[1]

Reports(a) == \A u \in a.rng : u \in Held /\ a.cum < u /\ u < sentOff

AcksOrdered ==
  /\ \A a, b \in UnderWay : a.seq < b.seq => a.cum <= b.cum
  /\ \A a \in UnderWay : peerSeq <= a.seq => cumAcked <= a.cum
  /\ \A a \in UnderWay : Reports(a)

NewestKnown ==
  /\ \A a \in UnderWay : a.seq < ackSeq /\ (a.seq < lastAck.seq \/ a = lastAck)
  /\ sawLast => peerSeq = lastAck.seq + 1

SackInv ==
  /\ SackedIsHeld /\ LatestViewKept /\ HeapAbove
  /\ peerRanges \subseteq Held
  /\ AcksOrdered /\ NewestKnown

-----------------------------------------------------------------------------
(* The data plane implements a bounded reliable byte stream. *)

Stream == INSTANCE ByteStream
            WITH accepted <- written, delivered <- readOff, Capacity <- SendBuf + MaxCap

\* Written and read data behave as one bounded FIFO byte stream, over any
\* number of paths that come and go.
ImplementsByteStream == Stream!Spec
=============================================================================

----------------------------- MODULE Handshake ------------------------------
(***************************************************************************)
(* How an aggregated stream comes to exist (aggregator.go, handshake.go):  *)
(* OpenStream on the initiator, handleStream and Accept on the responder,  *)
(* the routing table that PATH_ATTACH is looked up in (register,           *)
(* unregister, handlePathStream), WithMinPaths, Aggregator.Close, and the  *)
(* goroutine of watchStreamCtx that resets the handshake stream when its   *)
(* context ends.                                                           *)
(*                                                                         *)
(* A call of OpenStream, the handshake stream it opens and the             *)
(* agg_stream_id it draws are one and the same identity o \in Opens: the   *)
(* id is 128 random bits.  Hello, HelloAck and its error text are messages *)
(* of a kind; what checkAuth answers for a call is a constant.             *)
(***************************************************************************)
EXTENDS Integers, Sequences, FiniteSets

CONSTANTS
  Opens,     \* calls of OpenStream
  Admitted,  \* the calls whose credentials checkAuth accepts
  MinPaths,  \* per call: the value of WithMinPaths
  Backlog    \* acceptBacklog

ASSUME OpensAssumption ==
  Admitted \subseteq Opens /\ MinPaths \in [Opens -> 1..2] /\ Backlog \in Nat

VARIABLES
  ini,       \* per call: where OpenStream is
  acc,       \* the acceptor: its place in Accept and its stream
  queue,     \* acceptCh
  sent,      \* per call: messages written on the handshake stream
  rst,       \* per call: who has reset or closed the handshake stream: the
             \* side, and whether its code, its watchdog or its recvLoop did
  watch,     \* per side and call: the goroutine of watchStreamCtx
  finished,  \* per side: calls whose watchdog has been stopped
  st,        \* per side and call: the Stream object
  reg,       \* per side: Aggregator.streams
  up,        \* per side and call: live paths of the Stream
  att,       \* per call: the initiator's last attempt to attach a further path
  shut       \* the responder's Aggregator is closed

vars == <<ini, acc, queue, sent, rst, watch, finished, st, reg, up, att, shut>>

Side == {"I", "R"}
Idle == [pc |-> "out", cur |-> "none"]

ResetBy(s, o) == \E r \in rst[o] : r[1] = s
Kill(s, o, why) == [rst EXCEPT ![o] = @ \cup {<<s, why>>}]

-----------------------------------------------------------------------------
(* watchStreamCtx.  Op_Flaw is Op with a plausible mistake. *)

Arm(s, o) == watch' = [watch EXCEPT ![s][o] = "waiting"]

\* stop(), and then cancel(), which ends the watched context as well.
Stop(s, o) == finished' = [finished EXCEPT ![s] = @ \cup {o}]

\* select.  The context may have ended whenever this is reached: by the timeout
\* of handshakeCtxWith, by the caller's ctx, or by cancel(); and then that case
\* may win even if done is closed as well.
WatchWake(s, o) ==
  /\ watch[s][o] = "waiting"
  /\ \/ watch' = [watch EXCEPT ![s][o] = "woken"]
     \/ o \in finished[s] /\ watch' = [watch EXCEPT ![s][o] = "over"]
  /\ UNCHANGED <<ini, acc, queue, sent, rst, finished, st, reg, up, att, shut>>

\* Under the mutex: a watchdog that was stopped leaves the stream alone.
Spared_Never(s, o) == FALSE
Spared_Always(s, o) == TRUE
Spared(s, o) == o \in finished[s]

WatchReset(s, o) ==
  /\ watch[s][o] = "woken"
  /\ watch' = [watch EXCEPT ![s][o] = "over"]
  /\ rst' = IF Spared(s, o) THEN rst ELSE Kill(s, o, "watch")
  /\ UNCHANGED <<ini, acc, queue, sent, finished, st, reg, up, att, shut>>

-----------------------------------------------------------------------------
(* OpenStream. *)

Init ==
  /\ ini = [o \in Opens |-> "idle"]
  /\ acc = Idle
  /\ queue = <<>>
  /\ sent = [o \in Opens |-> {}]
  /\ rst = [o \in Opens |-> {}]
  /\ watch = [s \in Side |-> [o \in Opens |-> "off"]]
  /\ finished = [s \in Side |-> {}]
  /\ st = [s \in Side |-> [o \in Opens |-> "none"]]
  /\ reg = [s \in Side |-> {}]
  /\ up = [s \in Side |-> [o \in Opens |-> 0]]
  /\ att = [o \in Opens |-> "none"]
  /\ shut = FALSE

\* Up to the watchdog: the new stream is on its way to handleStream.
OpenStream(o) ==
  /\ ini[o] = "idle"
  /\ ini' = [ini EXCEPT ![o] = "hello"]
  /\ Arm("I", o)
  /\ UNCHANGED <<acc, queue, sent, rst, finished, st, reg, up, att, shut>>

\* ErrClosed, or host.NewStream fails.
OpenRefused(o) ==
  /\ ini[o] = "idle"
  /\ ini' = [ini EXCEPT ![o] = "failed"]
  /\ UNCHANGED <<acc, queue, sent, rst, watch, finished, st, reg, up, att, shut>>

WriteHello(o) ==
  /\ ini[o] = "hello" /\ "hello" \notin sent[o]
  /\ ~ResetBy("I", o)
  /\ sent' = [sent EXCEPT ![o] = @ \cup {"hello"}]
  /\ UNCHANGED <<ini, acc, queue, rst, watch, finished, st, reg, up, att, shut>>

\* handshakeInitiator returns an id, or an error; ctx.Err() may be set by then.
\* An error resets the stream and OpenStream returns.
ReadAck(o) ==
  /\ ini[o] = "hello"
  /\ "ack" \in sent[o] /\ ~ResetBy("I", o)
  /\ ini' = [ini EXCEPT ![o] = "acked"]
  /\ UNCHANGED <<acc, queue, sent, rst, watch, finished, st, reg, up, att, shut>>

OpenFails(o) ==
  /\ \/ ini[o] = "hello" /\ (rst[o] # {} \/ "reject" \in sent[o])
     \/ ini[o] = "acked"
  /\ ini' = [ini EXCEPT ![o] = "failed"]
  /\ rst' = Kill("I", o, "code")
  /\ Stop("I", o)
  /\ UNCHANGED <<acc, queue, sent, watch, st, reg, up, att, shut>>

\* newStreamFull, register and start.
NewStream(s, o, stage) ==
  /\ st' = [st EXCEPT ![s][o] = stage]
  /\ reg' = [reg EXCEPT ![s] = @ \cup {o}]
  /\ up' = [up EXCEPT ![s][o] = 1]

Start(o) ==
  /\ ini[o] = "acked"
  /\ NewStream("I", o, "live")
  /\ ini' = [ini EXCEPT ![o] = "attaching"]
  /\ UNCHANGED <<acc, queue, sent, rst, watch, finished, att, shut>>

\* Stream.Close, and shutdown: every path is closed and the route deleted.  In
\* between, reserveRemotePathID refuses what still finds the route.
Over(s, o) ==
  /\ st' = [st EXCEPT ![s][o] = "closed"]
  /\ reg' = [reg EXCEPT ![s] = @ \ {o}]
  /\ up' = [up EXCEPT ![s][o] = 0]

\* attachMinPaths ends: with enough paths, or after a round over the addresses
\* in which no AddPath has succeeded (ErrMinPaths).  The deferred stop() and
\* cancel() run when OpenStream returns.
Short(o) == MinPaths[o] > 1 /\ up["I"][o] < MinPaths[o]

OpenReturns(o) ==
  /\ ini[o] = "attaching"
  /\ \/ /\ ~Short(o)
        /\ ini' = [ini EXCEPT ![o] = "returned"]
        /\ UNCHANGED <<rst, st, reg, up>>
     \/ /\ Short(o) /\ att[o] \notin {"none", "sent", "ok"}
        /\ ini' = [ini EXCEPT ![o] = "failed"]
        /\ rst' = Kill("I", o, "code")
        /\ Over("I", o)
  /\ Stop("I", o)
  /\ UNCHANGED <<acc, queue, sent, watch, att, shut>>

-----------------------------------------------------------------------------
(* The responder. *)

Arriving(o) ==
  /\ watch["I"][o] # "off"
  /\ watch["R"][o] = "off" /\ ~ResetBy("R", o)
  /\ \A i \in DOMAIN queue : queue[i] # o

\* handleStream.
Queues(o) == ~shut /\ Len(queue) < Backlog

HandleStream(o) ==
  /\ Arriving(o)
  /\ IF Queues(o)
       THEN queue' = Append(queue, o) /\ UNCHANGED rst
       ELSE rst' = Kill("R", o, "code") /\ UNCHANGED queue
  /\ UNCHANGED <<ini, acc, sent, watch, finished, st, reg, up, att, shut>>

\* The application calls Accept; its ctx may have ended whenever it is looked at.
Accept ==
  /\ acc.pc = "out"
  /\ acc' = [Idle EXCEPT !.pc = "waiting"]
  /\ UNCHANGED <<ini, queue, sent, rst, watch, finished, st, reg, up, att, shut>>

AcceptCancelled ==
  /\ acc.pc = "waiting"
  /\ acc' = Idle
  /\ UNCHANGED <<ini, queue, sent, rst, watch, finished, st, reg, up, att, shut>>

\* A stream from acceptCh.
Take ==
  /\ acc.pc = "waiting" /\ queue # <<>>
  /\ acc' = [pc |-> "reading", cur |-> Head(queue)]
  /\ Arm("R", Head(queue))
  /\ queue' = Tail(queue)
  /\ UNCHANGED <<ini, sent, rst, finished, st, reg, up, att, shut>>

Continue == acc' = [Idle EXCEPT !.pc = "waiting"]

\* handshakeResponderRead fails: reset the stream and wait for the next.
ReadFails ==
  /\ acc.pc = "reading" /\ rst[acc.cur] # {}
  /\ rst' = Kill("R", acc.cur, "code")
  /\ Stop("R", acc.cur)
  /\ Continue
  /\ UNCHANGED <<ini, queue, sent, watch, st, reg, up, att, shut>>

ReadsHello == acc.pc = "reading" /\ "hello" \in sent[acc.cur] /\ ~ResetBy("R", acc.cur)

\* checkAuth refuses: HelloAck with an error, and a graceful close.
Reject ==
  /\ ReadsHello
  /\ acc.cur \notin Admitted
  /\ sent' = [sent EXCEPT ![acc.cur] = @ \cup {"reject"}]
  /\ Stop("R", acc.cur)
  /\ Continue
  /\ UNCHANGED <<ini, queue, rst, watch, st, reg, up, att, shut>>

\* checkAuth accepts: the route comes before HelloAck.
Routes_Later(o) ==
  /\ st' = [st EXCEPT !["R"][o] = "built"]
  /\ up' = [up EXCEPT !["R"][o] = 1]
  /\ UNCHANGED reg
Routes(o) == NewStream("R", o, "built")

Admit ==
  /\ ReadsHello
  /\ acc.cur \in Admitted
  /\ Routes(acc.cur)
  /\ acc' = [acc EXCEPT !.pc = "acking"]
  /\ UNCHANGED <<ini, queue, sent, rst, watch, finished, att, shut>>

\* What Accept does with the Stream it has built when it cannot keep it: Close
\* (which does nothing if the Stream has lost its last path by then).
Discard_Reset(o) ==
  /\ st' = [st EXCEPT !["R"][o] = "closed"]
  /\ up' = [up EXCEPT !["R"][o] = 0]
  /\ UNCHANGED reg
Discard(o) == Over("R", o)

\* handshakeResponderAck, stop() and cancel().
WriteAck ==
  /\ acc.pc = "acking"
  /\ \/ /\ ~ResetBy("R", acc.cur)
        /\ sent' = [sent EXCEPT ![acc.cur] = @ \cup {"ack"}]
        /\ acc' = [acc EXCEPT !.pc = "acked"]
        /\ UNCHANGED <<rst, finished, st, reg, up>>
     \/ /\ rst[acc.cur] # {}
        /\ rst' = Kill("R", acc.cur, "code")
        /\ Discard(acc.cur)
        /\ Stop("R", acc.cur)
        /\ Continue
        /\ UNCHANGED sent
  /\ UNCHANGED <<ini, queue, watch, att, shut>>

AckWritten ==
  /\ acc.pc = "acked"
  /\ Stop("R", acc.cur)
  /\ acc' = [acc EXCEPT !.pc = "checking"]
  /\ UNCHANGED <<ini, queue, sent, rst, watch, st, reg, up, att, shut>>

\* ctx.Err(), and start.  start takes the first of the Stream's paths: if the
\* Stream has lost all of them since it was registered, the index is out of
\* range and Accept panics (the process with it, which is not modelled).
AcceptReturns ==
  /\ acc.pc = "checking"
  /\ \/ /\ Discard(acc.cur)
        /\ rst' = Kill("R", acc.cur, "code")
        /\ acc' = Idle
     \/ /\ up["R"][acc.cur] > 0
        /\ st' = [st EXCEPT !["R"][acc.cur] = "live"]
        /\ acc' = Idle
        /\ UNCHANGED <<reg, up, rst>>
     \/ /\ up["R"][acc.cur] = 0
        /\ acc' = [Idle EXCEPT !.pc = "panicked"]
        /\ UNCHANGED <<st, reg, up, rst>>
  /\ UNCHANGED <<ini, queue, sent, watch, finished, att, shut>>

-----------------------------------------------------------------------------
(* Established streams, further paths, and Aggregator.Close. *)

\* dropPath: the last path takes the Stream with it.
LosesPath(s, o) ==
  IF up[s][o] = 1 THEN Over(s, o)
                  ELSE up' = [up EXCEPT ![s][o] = @ - 1] /\ UNCHANGED <<st, reg>>

FirstIsGone(s, o) == <<s, "recv">> \in rst[o]
Further(s, o) == IF FirstIsGone(s, o) THEN up[s][o] ELSE up[s][o] - 1

\* The first path: its recvLoop, which start has launched, finds the handshake
\* stream reset; or the peer has dropped it and says so on a further path.
FirstPathDies(s, o) ==
  /\ up[s][o] > 0 /\ ~FirstIsGone(s, o)
  /\ \/ st[s][o] = "live" /\ rst[o] # {}
     \/ st[s][o] = "built" /\ Further(s, o) > 0 /\ FirstIsGone("I", o)
  /\ rst' = Kill(s, o, "recv")
  /\ LosesPath(s, o)
  /\ UNCHANGED <<ini, acc, queue, sent, watch, finished, att, shut>>

\* A further path of a Stream that has not been started dies: attachPath has
\* launched its recvLoop.  (Of a started Stream: PathSet.)
FurtherPathDies(o) ==
  /\ st["R"][o] = "built" /\ Further("R", o) > 0
  /\ LosesPath("R", o)
  /\ UNCHANGED <<ini, acc, queue, sent, rst, watch, finished, att, shut>>

\* The application closes the stream, or learns that the peer has.
CloseStream(s, o) ==
  /\ st[s][o] = "live"
  /\ s = "I" => ini[o] = "returned"
  /\ Over(s, o)
  /\ rst' = Kill(s, o, "code")
  /\ UNCHANGED <<ini, acc, queue, sent, watch, finished, att, shut>>

\* The initiator's AddPath, up to PATH_ATTACH on the new sub-stream; or the
\* dial fails, or the stream is over.  attachMinPaths calls it once more if a
\* path has died meanwhile; the addresses of a round count as one call.  (The
\* responder's own paths: PathSet.)
AddPath(o) ==
  /\ st["I"][o] # "none"
  /\ att[o] = "none" \/ (att[o] = "ok" /\ ini[o] = "attaching" /\ Short(o))
  /\ \E r \in {"sent", "failed"} :
       /\ st["I"][o] = "closed" => r = "failed"
       /\ att' = [att EXCEPT ![o] = r]
  /\ UNCHANGED <<ini, acc, queue, sent, rst, watch, finished, st, reg, up, shut>>

\* handlePathStream at the responder, and attachPath at both ends.
Answer(o) ==
  CASE shut                 -> "refused"
    [] o \notin reg["R"]    -> "unknown"
    [] st["I"][o] # "live"  -> "failed"
    [] OTHER                -> "ok"

HandlePathStream(o) ==
  /\ att[o] = "sent"
  /\ att' = [att EXCEPT ![o] = Answer(o)]
  /\ up' = IF att'[o] = "ok" THEN [s \in Side |-> [up[s] EXCEPT ![o] = @ + 1]] ELSE up
  /\ UNCHANGED <<ini, acc, queue, sent, rst, watch, finished, st, reg, shut>>

Close ==
  /\ ~shut
  /\ shut' = TRUE
  /\ UNCHANGED <<ini, acc, queue, sent, rst, watch, finished, st, reg, up, att>>

-----------------------------------------------------------------------------
Watchdogs == \E s \in Side, o \in Opens : WatchWake(s, o) \/ WatchReset(s, o)

Initiator ==
  \E o \in Opens : OpenStream(o) \/ OpenRefused(o) \/ WriteHello(o) \/ ReadAck(o)
                     \/ OpenFails(o) \/ Start(o) \/ OpenReturns(o)

Responder ==
  \/ \E o \in Opens : HandleStream(o)
  \/ Accept \/ AcceptCancelled \/ Take \/ ReadFails \/ Reject
  \/ Admit \/ WriteAck \/ AckWritten \/ AcceptReturns

Established ==
  \/ \E s \in Side, o \in Opens :
       FirstPathDies(s, o) \/ CloseStream(s, o)
  \/ \E o \in Opens : FurtherPathDies(o) \/ AddPath(o) \/ HandlePathStream(o)
  \/ Close

Next == Watchdogs \/ Initiator \/ Responder \/ Established

\* Goroutines run on and timers fire.  Nobody has to call Accept or to close
\* anything, and the initiator's host may stall before it writes Hello.
Fairness ==
  /\ \A s \in Side, o \in Opens : WF_vars(WatchWake(s, o) \/ WatchReset(s, o))
  /\ \A o \in Opens :
       /\ WF_vars(OpenFails(o) \/ Start(o) \/ OpenReturns(o))
       /\ WF_vars(AddPath(o) \/ HandlePathStream(o))
  /\ WF_vars(ReadFails \/ WriteAck \/ AckWritten \/ AcceptReturns)

Spec == Init /\ [][Next]_vars /\ Fairness

-----------------------------------------------------------------------------
(* Properties. *)

\* The watchdog of watchStreamCtx resets a handshake stream only while the
\* OpenStream or the Accept that armed it is still at work: never one that has
\* been handed to the application, although cancel() ends the watched context.
WatchdogOnlyDuringHandshake ==
  [][\A s \in Side, o \in Opens :
       <<s, "watch">> \in rst'[o] \ rst[o]
         => IF s = "I" THEN ini[o] \notin {"returned", "failed"} ELSE acc.cur = o]_vars

\* A PATH_ATTACH for a stream whose HelloAck has been read is refused as
\* unknown (handlePathStream) only when the responder's Stream is over: the
\* route is there before the initiator can know of the stream.
RoutedBeforeKnown ==
  \A o \in Opens : att[o] = "unknown" => st["R"][o] = "closed"

\* Aggregator.streams holds exactly the Streams that are not over, whichever
\* of OpenStream, Accept, Close or the peer gave them up, and the responder
\* builds one only for admitted credentials.
RoutesAreLive ==
  /\ \A s \in Side : reg[s] = {o \in Opens : st[s][o] \in {"built", "live"}}
  /\ \A o \in Opens : st["R"][o] # "none" => o \in Admitted

\* A peer that never answers, a full backlog, a closed Aggregator with streams
\* in its queue or an Accept nobody calls hold up neither OpenStream nor the
\* handshake Accept is busy with.
HandshakesEnd ==
  /\ \A o \in Opens : ini[o] = "hello" ~> ini[o] \in {"returned", "failed"}
  /\ \A o \in Opens : acc.cur = o ~> acc.cur # o

\* OpenStream does not return a stream its own watchdog has reset
\* (aggregator.go: "avoid returning a bad stream to the caller").
NoBadStream ==
  \A o \in Opens :
    ini[o] = "returned" => <<"I", "watch">> \notin rst[o]
-----------------------------------------------------------------------------
(* The inductive invariant behind RoutesAreLive, RoutedBeforeKnown and      *)
(* WatchdogOnlyDuringHandshake.                                             *)

\* The type invariant.
TypeOK ==
  /\ ini \in [Opens -> {"idle", "hello", "acked", "attaching", "returned", "failed"}]
  /\ acc \in [pc : {"out", "waiting", "reading", "acking", "acked", "checking", "panicked"},
              cur : Opens \cup {"none"}]
  /\ acc.pc \notin {"out", "waiting", "panicked"} => acc.cur \in Opens
  /\ queue \in Seq(Opens)
  /\ sent \in [Opens -> SUBSET {"hello", "ack", "reject"}]
  /\ rst \in [Opens -> SUBSET (Side \X {"code", "watch", "recv"})]
  /\ watch \in [Side -> [Opens -> {"off", "waiting", "woken", "over"}]]
  /\ finished \in [Side -> SUBSET Opens]
  /\ st \in [Side -> [Opens -> {"none", "built", "live", "closed"}]]
  /\ reg \in [Side -> SUBSET Opens]
  /\ up \in [Side -> [Opens -> Nat]]
  /\ att \in [Opens -> {"none", "sent", "failed", "refused", "unknown", "ok"}]
  /\ shut \in BOOLEAN

\* A handshake stream goes through the backlog and Accept once: Take arms its
\* watchdog, and handleStream has not seen one whose watchdog was armed.
QueuedOnce ==
  /\ \A i \in DOMAIN queue : watch["R"][queue[i]] = "off"
  /\ \A i, j \in DOMAIN queue : queue[i] = queue[j] => i = j
  /\ \A o \in Opens : st["R"][o] # "none" => watch["R"][o] # "off"

\* What Accept knows of the stream it is busy with.
AcceptKnows ==
  /\ acc.pc = "reading" => st["R"][acc.cur] = "none" /\ watch["R"][acc.cur] # "off"
  /\ acc.pc \in {"acking", "acked", "checking"} => st["R"][acc.cur] \in {"built", "closed"}
  /\ acc.pc = "checking" => acc.cur \in finished["R"]

\* A PATH_ATTACH is sent for a Stream of the initiator, which exists after a
\* HelloAck, which is written for a Stream of the responder.
KnownInOrder ==
  \A o \in Opens :
    /\ att[o] = "sent" => st["I"][o] # "none"
    /\ st["I"][o] # "none" \/ ini[o] \in {"acked", "attaching"} => "ack" \in sent[o]
    /\ "ack" \in sent[o] => st["R"][o] # "none"

\* An armed watchdog that has not been stopped guards a handshake under way.
WatchdogsGuard ==
  \A o \in Opens :
    /\ watch["I"][o] # "off" /\ o \notin finished["I"]
         => ini[o] \notin {"returned", "failed"}
    /\ watch["I"][o] # "off" => ini[o] # "idle"
    /\ watch["R"][o] # "off" /\ o \notin finished["R"]
         => acc.cur = o /\ acc.pc \in {"reading", "acking", "acked"}

\* A Stream that is over has no path left, and gets no new one.
OverHasNoPaths ==
  \A s \in Side, o \in Opens : st[s][o] = "closed" => up[s][o] = 0

IInv ==
  /\ RoutesAreLive /\ RoutedBeforeKnown /\ OverHasNoPaths
  /\ QueuedOnce /\ AcceptKnows /\ KnownInOrder /\ WatchdogsGuard
=============================================================================

----------------------------- MODULE RelayPath ------------------------------
(***************************************************************************)
(* Relay paths (relaypath.go): AddRelayPath asks the peer with             *)
(* PATH_REQUEST to reserve a slot at the relay, waits for the PATH_READY   *)
(* of its request id, and dials the circuit.  Control frames travel on     *)
(* whatever path is best: they overtake each other, die with a path, and   *)
(* are written again on another path when a write fails late.              *)
(***************************************************************************)
EXTENDS PathEvents

CONSTANTS
  Reqs,     \* calls of AddRelayPath, and their request ids
  MaxRsv    \* maxConcurrentReservations

ASSUME RelayAssumption == MaxRsv \in Nat

VARIABLES
  call,     \* per request: where AddRelayPath is
  pending,  \* pendingRelay
  box,      \* per request: the channel readyCh
  wire,     \* control frames under way
  rsv,      \* requests the peer is reserving for (rsvInFlight)
  granted   \* requests for which relayclient.Reserve has succeeded

relayVars == <<call, pending, box, wire, rsv, granted>>

RelayInit ==
  /\ call = [r \in Reqs |-> "idle"]
  /\ pending = {} /\ wire = {} /\ rsv = {} /\ granted = {}
  /\ box = [r \in Reqs |-> "empty"]

Request(r) == [type |-> "request", req |-> r, err |-> FALSE, copy |-> 1]
Ready(r, err, copy) == [type |-> "ready", req |-> r, err |-> err, copy |-> copy]

\* AddRelayPath returns: the deferred delete.
Return(r, result) ==
  /\ call' = [call EXCEPT ![r] = result]
  /\ pending' = pending \ {r}

-----------------------------------------------------------------------------
(* The requester.  Op_Flaw is Op with a plausible mistake. *)

AddRelayPath(r) ==
  /\ "relay" \in use
  /\ call[r] = "idle"
  /\ IF stage = "open"
       THEN call' = [call EXCEPT ![r] = "asking"] /\ pending' = pending \cup {r}
       ELSE Return(r, "failed")
  /\ UNCHANGED <<poolVars, eventVars, box, wire, rsv, granted>>

\* writeCtrl: ErrClosed, ErrNoPaths, or the frame is on its way.
SendPathRequest(r) ==
  /\ call[r] = "asking"
  /\ IF stage = "open" /\ paths # {}
       THEN /\ wire' = wire \cup {Request(r)}
            /\ call' = [call EXCEPT ![r] = "waiting"]
            /\ UNCHANGED pending
       ELSE Return(r, "failed") /\ UNCHANGED wire
  /\ UNCHANGED <<poolVars, eventVars, box, rsv, granted>>

\* handlePathReady: the channel of this very request, if it has room.
Addressee_Anyone(m) == pending
Addressee(m) == pending \cap {m.req}

HandlePathReady(m) ==
  /\ m \in wire /\ m.type = "ready"
  /\ wire' = wire \ {m}
  /\ box' = [r \in Reqs |-> IF r \in Addressee(m) /\ box[r] = "empty"
                              THEN IF m.err THEN "error" ELSE "ready"
                              ELSE box[r]]
  /\ UNCHANGED <<poolVars, eventVars, call, pending, rsv, granted>>

\* The select of AddRelayPath: an answer, ...
Answered(r) ==
  /\ call[r] = "waiting" /\ box[r] # "empty"
  /\ IF box[r] = "ready" THEN call' = [call EXCEPT ![r] = "dialing"] /\ UNCHANGED pending
                         ELSE Return(r, "failed")
  /\ UNCHANGED <<poolVars, eventVars, box, wire, rsv, granted>>

Expires(r) == TRUE

Abandon(r) ==
  /\ call[r] = "waiting" /\ Expires(r)
  /\ Return(r, "failed")
  /\ UNCHANGED <<poolVars, eventVars, box, wire, rsv, granted>>

\* dialDirect over the circuit and attachDialedConn.
Attach(r) ==
  /\ call[r] = "dialing"
  /\ AttachPath
  /\ Return(r, "added")
  /\ UNCHANGED <<box, wire, rsv, granted>>

DialRelayFails(r) ==
  /\ call[r] = "dialing"
  /\ Return(r, "failed")
  /\ UNCHANGED <<poolVars, eventVars, box, wire, rsv, granted>>

-----------------------------------------------------------------------------
(* The peer. *)

\* handlePathRequest: ignored once the stream is closed there; too many
\* reservations are refused at once.
HandlePathRequest(m) ==
  /\ m \in wire /\ m.type = "request"
  /\ \/ wire' = wire \ {m} /\ UNCHANGED rsv
     \/ /\ Cardinality(rsv) >= MaxRsv
        /\ wire' = (wire \ {m}) \cup {Ready(m.req, TRUE, 1)} /\ UNCHANGED rsv
     \/ /\ Cardinality(rsv) < MaxRsv
        /\ wire' = wire \ {m} /\ rsv' = rsv \cup {m.req}
  /\ UNCHANGED <<poolVars, eventVars, call, pending, box, granted>>

\* relayclient.Reserve ends, and sendPathReady answers, best effort.
Reserve(r) ==
  /\ r \in rsv
  /\ rsv' = rsv \ {r}
  /\ \E err \in BOOLEAN, copies \in {1..0, 1..1, 1..2} :
       /\ granted' = IF err THEN granted ELSE granted \cup {r}
       /\ wire' = wire \cup {Ready(r, err, c) : c \in copies}
  /\ UNCHANGED <<poolVars, eventVars, call, pending, box>>

\* A path fails, is removed or is dropped by the peer, with some of the frames
\* it carries.
LosePath(id) ==
  /\ DropPath(id)
  /\ \E lost \in SUBSET wire : wire' = wire \ lost
  /\ UNCHANGED <<call, pending, box, rsv, granted>>

RelayNext ==
  \/ \E r \in Reqs :
       \/ AddRelayPath(r) \/ SendPathRequest(r) \/ Answered(r) \/ Abandon(r)
       \/ Attach(r) \/ DialRelayFails(r) \/ Reserve(r)
  \/ \E m \in wire : HandlePathReady(m) \/ HandlePathRequest(m)
  \/ \E id \in paths : LosePath(id)

\* Deadlines expire and dials end; the peer need not answer.
RelayFairness ==
  LET v == <<poolVars, eventVars, relayVars>> IN
  \A r \in Reqs : /\ WF_v(SendPathRequest(r)) /\ WF_v(Answered(r))
                  /\ WF_v(Abandon(r)) /\ WF_v(DialRelayFails(r))

-----------------------------------------------------------------------------
\* The circuit is dialled only when the peer holds a reservation made for this
\* request (relaypath.go): a late, repeated or overtaking PATH_READY of another
\* call never starts a dial.
DialNeedsReservation ==
  \A r \in Reqs : call[r] \in {"dialing", "added"} => r \in granted

\* The type invariant.
RelayTypeOK ==
  /\ call \in [Reqs -> {"idle", "asking", "waiting", "dialing", "added", "failed"}]
  /\ box \in [Reqs -> {"empty", "ready", "error"}]
  /\ pending \subseteq Reqs /\ rsv \subseteq Reqs /\ granted \subseteq Reqs
  /\ wire \subseteq [type : {"request", "ready"}, req : Reqs, err : BOOLEAN, copy : 1..2]

\* What DialNeedsReservation rests on: a good answer, under way or waiting in
\* the channel, is about a reservation that was made for its request.
AnswersAreGranted ==
  /\ \A m \in wire : m.type = "ready" /\ ~m.err => m.req \in granted
  /\ \A r \in Reqs : box[r] = "ready" => r \in granted
=============================================================================

------------------------------ MODULE PathSet -------------------------------
(***************************************************************************)
(* The life of the paths of one aggregated stream at both its endpoints:   *)
(* binding (AddPath, attachDialedConn, handlePathStream), attachPath,      *)
(* RemovePath, dropPath with PATH_DROP, Close with FIN, and shutdown when  *)
(* the last path is gone (path.go, stream.go, aggregator.go).              *)
(*                                                                         *)
(* Each operation is cut where the code gives up Stream.mu: RemovePath     *)
(* checks the number of paths before dropPath takes the lock again,        *)
(* dropPath computes whether the set became empty under the lock and acts  *)
(* on it afterwards, Close and shutdown copy the path list and then close  *)
(* the paths one by one.                                                   *)
(***************************************************************************)
EXTENDS Integers, FiniteSets

CONSTANTS
  Side,     \* the two endpoints
  Path,     \* path identities; an identity is used once (nextPathID)
  First,    \* the handshake stream, a path from the start
  Dialer,   \* the endpoint that dials a path
  Fragile   \* paths whose connection may fail by itself

ASSUME SidesAssumption == Cardinality(Side) = 2
ASSUME PathAssumption == First \in Path /\ Dialer \in [Path -> Side] /\ Fragile \subseteq Path

VARIABLES
  stage,    \* per endpoint and path: none, binding, live (in s.paths) or gone
  conn,     \* per path: its connection is none, open or closed
  echoed,   \* paths whose acceptor has written the PATH_ATTACH echo
  call,     \* per endpoint and path: the pending calls of dropPath, by their cause
  leaving,  \* per endpoint: calls of dropPath past their lock
  how,      \* per endpoint: open, or the winner of closeOnce: close, shutdown
  victims,  \* per endpoint: paths Close or shutdown still has to close
  finRecv,  \* per endpoint: a FIN has been read
  rerr,     \* per endpoint: what Read ends with: none, eof or err
  mail      \* per endpoint: control frames on their way to it [kind, id, via]

vars == <<stage, conn, echoed, call, leaving, how, victims, finRecv, rerr, mail>>

Cause == {"remove", "error", "eof", "peer", "fin"}

-----------------------------------------------------------------------------
(* Helpers.  Op_Flaw is Op with a plausible mistake. *)

Other(e) == CHOOSE f \in Side : f # e
LivePaths(e) == {p \in Path : stage[e][p] = "live"}
closed(e) == how[e] # "open"
Terminated(e) == closed(e) /\ victims[e] = {}

\* attachPath and reserveRemotePathID refuse a closed stream.
MayAttach_Always(e) == TRUE
MayAttach(e) == ~closed(e)

\* dropPath: is the set empty once p has left it?
Empties_Never(e, p) == FALSE
Empties(e, p) == LivePaths(e) = {p}

\* What dropPath's caller asks it to tell the peer.
Notifies(cause) == cause \in {"remove", "error", "eof"}

\* Connections are closed by whoever gives the path up; both ends see it.
ConnAfterDrop_Kept(p) == conn
ConnAfterDrop(p) == [conn EXCEPT ![p] = "closed"]
ConnAfterClose_LeftToPeer(e, p) ==
  IF how[e] = "close" THEN conn ELSE [conn EXCEPT ![p] = "closed"]
ConnAfterClose(e, p) == [conn EXCEPT ![p] = "closed"]

\* What the read side ends with when dropPath shuts the stream down.
Verdict(d) == IF d.fin \/ d.cause \in {"eof", "fin"} THEN "eof" ELSE "err"

-----------------------------------------------------------------------------
Init ==
  /\ stage = [e \in Side |-> [p \in Path |-> IF p = First THEN "live" ELSE "none"]]
  /\ conn = [p \in Path |-> IF p = First THEN "open" ELSE "none"]
  /\ echoed = {}
  /\ call = [e \in Side |-> [p \in Path |-> {}]]
  /\ leaving = [e \in Side |-> {}]
  /\ how = [e \in Side |-> "open"]
  /\ victims = [e \in Side |-> {}]
  /\ finRecv = [e \in Side |-> FALSE]
  /\ rerr = [e \in Side |-> "none"]
  /\ mail = [e \in Side |-> {}]

-----------------------------------------------------------------------------
(* Binding a new path. *)

\* AddPath takes an id on an open stream, dials, and writes PATH_ATTACH.
AddPath(e, p) ==
  /\ Dialer[p] = e
  /\ stage[e][p] = "none"
  /\ ~closed(e)
  /\ stage' = [stage EXCEPT ![e][p] = "binding"]
  /\ conn' = [conn EXCEPT ![p] = "open"]
  /\ UNCHANGED <<echoed, call, leaving, how, victims, finRecv, rerr, mail>>

Via(e, p) == {m \in mail[e] : m.via = p}
Unread(e, p) == mail[e] \ Via(e, p)

\* An endpoint closes the connection of a path it has left.  Its recvLoop still
\* handles what the frame reader has buffered: some of the frames in flight,
\* the FIN, which is the last one, only with all the others.
Buffered(e, p) ==
  {[mail EXCEPT ![e] = Unread(e, p) \cup K] :
     K \in {K \in SUBSET Via(e, p) : K = Via(e, p) \/ \A m \in K : m.kind # "FIN"}}

\* The sub-stream of a refused or failed binding is reset; no recvLoop has
\* been started on it.
Refuse(e, p) ==
  /\ stage' = [stage EXCEPT ![e][p] = "gone"]
  /\ conn' = [conn EXCEPT ![p] = "closed"]
  /\ mail' = [mail EXCEPT ![e] = Unread(e, p)]

\* handlePathStream up to the echo: the id is reserved on an open stream.
Bind(e, p) ==
  /\ Dialer[p] # e
  /\ stage[e][p] = "none"
  /\ conn[p] = "open"
  /\ IF MayAttach(e)
       THEN /\ stage' = [stage EXCEPT ![e][p] = "binding"]
            /\ echoed' = echoed \cup {p}
            /\ UNCHANGED <<conn, mail>>
       ELSE Refuse(e, p) /\ UNCHANGED echoed
  /\ UNCHANGED <<call, leaving, how, victims, finRecv, rerr>>

\* attachPath: by the acceptor after the echo, by the dialer once it has read
\* the echo.
Attach(e, p) ==
  /\ stage[e][p] = "binding"
  /\ p \in echoed
  /\ IF MayAttach(e)
       THEN stage' = [stage EXCEPT ![e][p] = "live"] /\ UNCHANGED <<conn, mail>>
       ELSE Refuse(e, p)
  /\ UNCHANGED <<echoed, call, leaving, how, victims, finRecv, rerr>>

\* The handshake times out, is cancelled or fails.
BindFail(e, p) ==
  /\ stage[e][p] = "binding"
  /\ Refuse(e, p)
  /\ UNCHANGED <<echoed, call, leaving, how, victims, finRecv, rerr>>

-----------------------------------------------------------------------------
(* What makes an endpoint call dropPath. *)

\* Calls with different causes may wait for the lock together: the first one
\* drops the path, the others find it dead and do nothing.
Call(e, p, cause) ==
  call' = IF stage[e][p] = "live" THEN [call EXCEPT ![e][p] = @ \cup {cause}] ELSE call
Dead(e, p) == call' = [call EXCEPT ![e][p] = {}]

\* RemovePath up to its unlock: the last path is refused.
TooFew(e) == Cardinality(LivePaths(e)) <= 1

RemovePath(e, p) ==
  /\ ~closed(e)
  /\ p \in LivePaths(e)
  /\ ~TooFew(e)
  /\ Call(e, p, "remove")
  /\ UNCHANGED <<stage, conn, echoed, leaving, how, victims, finRecv, rerr, mail>>

\* A read or write on the path fails, or the soft failure scan gives it up.
Fail(e, p) ==
  /\ p \in Fragile
  /\ p \in LivePaths(e)
  /\ ~closed(e)
  /\ Call(e, p, "error")
  /\ UNCHANGED <<stage, conn, echoed, leaving, how, victims, finRecv, rerr, mail>>

\* recvLoop reaches the end of a closed connection, after all its frames.
ReadEnd(e, p) ==
  /\ p \in LivePaths(e)
  /\ "fin" \notin call[e][p]
  /\ ~closed(e)
  /\ conn[p] = "closed"
  /\ Via(e, p) = {}
  /\ Call(e, p, "eof")
  /\ UNCHANGED <<stage, conn, echoed, leaving, how, victims, finRecv, rerr, mail>>

\* recvLoop reads a PATH_DROP or a FIN, on a path that may be gone already.
Reading(e, p) == stage[e][p] \in {"live", "gone"}

ReadDrop(e, m) ==
  /\ m \in mail[e] /\ m.kind = "PATH_DROP"
  /\ Reading(e, m.via)
  /\ Call(e, m.id, "peer")
  /\ mail' = [mail EXCEPT ![e] = @ \ {m}]
  /\ UNCHANGED <<stage, conn, echoed, leaving, how, victims, finRecv, rerr>>

ReadFin(e, m) ==
  /\ m \in mail[e] /\ m.kind = "FIN"
  /\ Reading(e, m.via)
  /\ Via(e, m.via) = {m}
  /\ finRecv' = [finRecv EXCEPT ![e] = TRUE]
  /\ Call(e, m.via, "fin")
  /\ mail' = [mail EXCEPT ![e] = @ \ {m}]
  /\ UNCHANGED <<stage, conn, echoed, leaving, how, victims, rerr>>

-----------------------------------------------------------------------------
(* dropPath. *)

\* Up to the unlock, by the first of the calls that wait.
DropPath(e, p) ==
  /\ stage[e][p] = "live"
  /\ \E cause \in call[e][p] :
       leaving' = [leaving EXCEPT ![e] = @ \cup {[path |-> p, cause |-> cause,
                                          last |-> Empties(e, p), fin |-> finRecv[e]]}]
  /\ stage' = [stage EXCEPT ![e][p] = "gone"]
  /\ Dead(e, p)
  /\ UNCHANGED <<conn, echoed, how, victims, finRecv, rerr, mail>>

\* The last drop: an earlier FIN makes the read side end cleanly, then shutdown
\* up to its unlock, which does nothing if Close or shutdown came first.
Shutdown(e, d) ==
  /\ rerr' = IF rerr[e] = "none" /\ (d.fin \/ ~closed(e))
               THEN [rerr EXCEPT ![e] = Verdict(d)] ELSE rerr
  /\ IF closed(e)
       THEN UNCHANGED <<how, victims>>
       ELSE /\ how' = [how EXCEPT ![e] = "shutdown"]
            /\ victims' = [victims EXCEPT ![e] = LivePaths(e)]

\* The rest: close the connection, tell the peer over a remaining path (the
\* frame is lost with that path if it is dead), and shut down if there is no
\* path left.
FinishDrop(e, d) ==
  /\ d \in leaving[e]
  /\ leaving' = [leaving EXCEPT ![e] = @ \ {d}]
  /\ conn' = ConnAfterDrop(d.path)
  /\ \E kept \in Buffered(e, d.path) :
       IF Notifies(d.cause) /\ ~closed(e) /\ LivePaths(e) # {}
         THEN \E q \in LivePaths(e) :
                \/ mail' = kept
                \/ /\ conn[q] = "open"
                   /\ mail' = [kept EXCEPT ![Other(e)] =
                                 @ \cup {[kind |-> "PATH_DROP", id |-> d.path, via |-> q]}]
         ELSE mail' = kept
  /\ IF d.last THEN Shutdown(e, d) ELSE UNCHANGED <<how, victims, rerr>>
  /\ UNCHANGED <<stage, echoed, call, finRecv>>

-----------------------------------------------------------------------------
(* Close, and the loops over the copied path list. *)

Close(e) ==
  /\ ~closed(e)
  /\ how' = [how EXCEPT ![e] = "close"]
  /\ victims' = [victims EXCEPT ![e] = LivePaths(e)]
  /\ UNCHANGED <<stage, conn, echoed, call, leaving, finRecv, rerr, mail>>

\* Close writes FIN before it closes the connection; either may fail.
ClosePath(e, p) ==
  /\ p \in victims[e]
  /\ victims' = [victims EXCEPT ![e] = @ \ {p}]
  /\ stage' = [stage EXCEPT ![e][p] = "gone"]
  /\ Dead(e, p)
  /\ conn' = ConnAfterClose(e, p)
  /\ \E kept \in Buffered(e, p) :
       \/ mail' = kept
       \/ /\ how[e] = "close" /\ conn[p] = "open"
          /\ mail' = [kept EXCEPT ![Other(e)] = @ \cup {[kind |-> "FIN", id |-> p, via |-> p]}]
  /\ UNCHANGED <<echoed, leaving, how, finRecv, rerr>>

-----------------------------------------------------------------------------
Next ==
  \E e \in Side :
    \/ \E p \in Path : \/ AddPath(e, p) \/ Bind(e, p) \/ Attach(e, p) \/ BindFail(e, p)
                       \/ RemovePath(e, p) \/ Fail(e, p) \/ ReadEnd(e, p)
                       \/ DropPath(e, p) \/ ClosePath(e, p)
    \/ \E m \in mail[e] : ReadDrop(e, m) \/ ReadFin(e, m)
    \/ \E d \in leaving[e] : FinishDrop(e, d)
    \/ Close(e)

\* Every goroutine runs on, and a binding handshake has a timeout.  Nobody
\* has to add, remove or close anything, and no connection has to fail.
Fairness ==
  \A e \in Side :
    /\ \A p \in Path : /\ WF_vars(Bind(e, p))
                       /\ WF_vars(Attach(e, p) \/ BindFail(e, p))
                       /\ WF_vars(ReadEnd(e, p))
                       /\ WF_vars(DropPath(e, p))
                       /\ WF_vars(ClosePath(e, p))
    /\ WF_vars(\E m \in mail[e] : ReadDrop(e, m) \/ ReadFin(e, m))
    /\ WF_vars(\E d \in leaving[e] : FinishDrop(e, d))

Spec == Init /\ [][Next]_vars /\ Fairness

-----------------------------------------------------------------------------
(* Invariants the proofs of PathSet_proofs rest on. *)

Frame == [kind : {"PATH_DROP", "FIN"}, id : Path, via : Path]
Drop == [path : Path, cause : Cause, last : BOOLEAN, fin : BOOLEAN]

\* The type invariant.
TypeOK ==
  /\ stage \in [Side -> [Path -> {"none", "binding", "live", "gone"}]]
  /\ conn \in [Path -> {"none", "open", "closed"}]
  /\ echoed \subseteq Path
  /\ call \in [Side -> [Path -> SUBSET Cause]]
  /\ leaving \in [Side -> SUBSET Drop]
  /\ how \in [Side -> {"open", "close", "shutdown"}]
  /\ victims \in [Side -> SUBSET Path]
  /\ finRecv \in [Side -> BOOLEAN]
  /\ rerr \in [Side -> {"none", "eof", "err"}]
  /\ mail \in [Side -> SUBSET Frame]

\* Nobody knows a path before its dialer has dialled it, so a dial never opens
\* a connection that somebody has closed.
DialedFirst ==
  \A p \in Path : stage[Dialer[p]][p] = "none" =>
    /\ conn[p] = "none"
    /\ \A e \in Side : stage[e][p] = "none"

\* Closers work on paths that were in the set once.
ClosersOwnPaths ==
  \A e \in Side : /\ \A p \in victims[e] : stage[e][p] \in {"live", "gone"}
                  /\ \A d \in leaving[e] : stage[e][d.path] = "gone"

\* Nothing enters the set after Close or shutdown has copied it.
NoneSlipsIn == \A e \in Side : closed(e) => LivePaths(e) \subseteq victims[e]

\* A path given up has its connection closed, or a dropPath that will close it.
GivenUpIsClosed ==
  \A e \in Side, p \in Path :
    stage[e][p] = "gone" => conn[p] = "closed" \/ \E d \in leaving[e] : d.path = p

IInv == TypeOK /\ DialedFirst /\ ClosersOwnPaths /\ NoneSlipsIn /\ GivenUpIsClosed

-----------------------------------------------------------------------------
(* Properties. *)

\* A terminated stream leaks no path: none is left in the path set, and every
\* connection it has given up is closed, also one whose binding finished
\* while Close or shutdown was at work (attachPath checks closed under the
\* same lock that Close takes before it copies the list).
NoLeak ==
  \A e \in Side : Terminated(e) =>
    \A p \in Path :
      /\ stage[e][p] # "live"
      /\ stage[e][p] = "gone" => conn[p] = "closed" \/ \E d \in leaving[e] : d.path = p

\* A stream without paths terminates, or gets a path: blocked readers and
\* writers are never left waiting on a stream nothing can arrive on.
PathlessEnds ==
  \A e \in Side : LivePaths(e) = {} ~> Terminated(e) \/ LivePaths(e) # {}

\* A path that is gone at one end goes at the other end, whether PATH_DROP
\* arrives, is lost with the path it travels on, or overtakes the binding.
DropReachesPeer ==
  \A e \in Side, p \in Path : stage[e][p] = "gone" ~> stage[Other(e)][p] \in {"none", "gone"}

\* Close at one end ends the stream at the other end.
CloseReachesPeer ==
  \A e \in Side : how[e] = "close" ~> Terminated(Other(e))
=============================================================================

----------------------------- MODULE PathEvents -----------------------------
(***************************************************************************)
(* The path list of one Stream as its observers see it (stats.go, path.go, *)
(* stream.go): attachPath and dropPath change the list under s.mu and emit *)
(* PathAdded and PathRemoved after the unlock; Subscribe, unsubscribe and  *)
(* emitEvent work under subMu; Close and shutdown set closed, close done   *)
(* and at last close every subscription.                                   *)
(*                                                                         *)
(* A path is its number.  Where a connection comes from, and what happens  *)
(* on it, is left to the modules that attach paths and to PathSet.         *)
(***************************************************************************)
EXTENDS Integers, Sequences, FiniteSets

CONSTANTS
  MaxIds,   \* bound: paths that are ever attached
  Subs,     \* calls of Subscribe
  BufLen,   \* the capacity of a subscriber's channel
  Uses      \* what an application may use of a Stream, one set per kind of
            \* application: "policy", "relay" and "subscribe"

ASSUME EventsAssumption ==
  /\ MaxIds \in Nat \ {0} /\ BufLen \in Nat \ {0}
  /\ Uses \subseteq SUBSET {"policy", "relay", "subscribe"}

VARIABLES
  use,      \* what this application uses
  paths,    \* s.paths
  used,     \* path ids handed out so far
  stage,    \* "open", "closed" (s.closed), "done" (s.done), "over" (closeSubs)
  news,     \* events whose change of the list is made but which are not emitted
  sub       \* per call of Subscribe: its channel and its accounts

poolVars == <<use, paths, used, stage>>
eventVars == <<news, sub>>

\* owed is history: the events since Subscribe that the subscriber has neither
\* received nor been told it missed.
NoSub == [state |-> "none", buf |-> <<>>, dropped |-> 0, owed |-> 0]

PoolInit ==
  /\ use \in Uses
  /\ paths = {1} /\ used = 1
  /\ stage = "open"
  /\ news = {}
  /\ sub = [s \in Subs |-> NoSub]

-----------------------------------------------------------------------------
(* attachPath and dropPath.  Op_Flaw is Op with a plausible mistake. *)

NextId == used + 1

\* An event is of no consequence to an application that never subscribes,
\* unless it comes before shutdown.
Event(type, id, last) ==
  IF "subscribe" \in use \/ last THEN {[type |-> type, id |-> id, last |-> last]} ELSE {}

AttachPath ==
  /\ used < MaxIds
  /\ stage = "open"
  /\ used' = NextId
  /\ paths' = paths \cup {NextId}
  /\ news' = news \cup Event("added", NextId, FALSE)
  /\ UNCHANGED <<use, stage, sub>>

DropPath(id) ==
  /\ id \in paths
  /\ paths' = paths \ {id}
  /\ news' = news \cup Event("removed", id, paths = {id})
  /\ UNCHANGED <<use, used, stage, sub>>

\* emitEvent: a full channel drops the event and counts it.
Offer_Forgets(s) ==
  IF Len(s.buf) < BufLen
    THEN [s EXCEPT !.buf = Append(@, 0), !.dropped = 0, !.owed = @ + 1]
    ELSE [s EXCEPT !.dropped = @ + 1, !.owed = @ + 1]
Offer(s) ==
  IF Len(s.buf) < BufLen
    THEN [s EXCEPT !.buf = Append(@, s.dropped), !.dropped = 0, !.owed = @ + 1]
    ELSE [s EXCEPT !.dropped = @ + 1, !.owed = @ + 1]

\* What follows the unlock: the event, and shutdown if no path was left.
Emit(e) ==
  /\ e \in news
  /\ news' = news \ {e}
  /\ sub' = [s \in Subs |-> IF sub[s].state = "open" THEN Offer(sub[s]) ELSE sub[s]]
  /\ stage' = IF e.last /\ stage = "open" THEN "closed" ELSE stage
  /\ UNCHANGED <<use, paths, used>>

-----------------------------------------------------------------------------
(* Subscribers, Close and shutdown. *)

\* A stream that is closed already hands out a closed channel.
FirstState_Open(s) == "open"
FirstState(s) == IF stage = "open" THEN "open" ELSE "shut"

Subscribe(s) ==
  /\ "subscribe" \in use
  /\ sub[s].state = "none"
  /\ sub' = [sub EXCEPT ![s].state = FirstState(s)]
  /\ UNCHANGED <<poolVars, news>>

Unsubscribe(s) ==
  /\ sub[s].state = "open"
  /\ sub' = [sub EXCEPT ![s].state = "shut"]
  /\ UNCHANGED <<poolVars, news>>

Receive(s) ==
  /\ sub[s].buf # <<>>
  /\ sub' = [sub EXCEPT ![s].buf = Tail(@), ![s].owed = @ - 1 - Head(sub[s].buf)]
  /\ UNCHANGED <<poolVars, news>>

CloseStream ==
  /\ stage = "open"
  /\ stage' = "closed"
  /\ UNCHANGED <<use, paths, used, eventVars>>

CloseDone ==
  /\ stage = "closed"
  /\ stage' = "done"
  /\ UNCHANGED <<use, paths, used, eventVars>>

CloseSubs ==
  /\ stage = "done"
  /\ stage' = "over"
  /\ sub' = [s \in Subs |-> IF sub[s].state = "open" THEN [sub[s] EXCEPT !.state = "shut"]
                                                     ELSE sub[s]]
  /\ UNCHANGED <<use, paths, used, news>>

\* AddPath of the application, or handlePathStream for the peer.
AttachOther == AttachPath

PoolNext ==
  \/ AttachOther
  \/ \E e \in news : Emit(e)
  \/ \E s \in Subs : Subscribe(s) \/ Unsubscribe(s) \/ Receive(s)
  \/ CloseStream \/ CloseDone \/ CloseSubs

PoolFairness ==
  /\ WF_<<poolVars, eventVars>>(\E e \in news : Emit(e))
  /\ WF_<<poolVars, eventVars>>(CloseDone)
  /\ WF_<<poolVars, eventVars>>(CloseSubs)

-----------------------------------------------------------------------------
(* Properties. *)

\* What the events waiting in a channel will tell of: each event i itself, as
\* <<i, 0>>, and the misses it reports, as <<i, 1>>, <<i, 2>>, ...
Told(buf) == UNION {{i} \X (0 .. buf[i]) : i \in DOMAIN buf}

\* Event.Dropped (stats.go): the events since Subscribe that a subscriber has
\* neither received nor been told it missed are those waiting in the channel,
\* those the waiting ones report as dropped and those still counted: it can
\* always tell how many it has missed.
DropsAreTold ==
  \A s \in Subs : sub[s].owed = Cardinality(Told(sub[s].buf)) + sub[s].dropped

\* No subscription outlives the stream, whichever of Subscribe and
\* Close/shutdown comes first: a range over the channel ends.
NoSubscriberLeft == stage = "over" => \A s \in Subs : sub[s].state # "open"

\* The type invariant.
EventsTypeOK ==
  /\ use \in Uses
  /\ used \in 1..MaxIds /\ paths \subseteq 1..used
  /\ stage \in {"open", "closed", "done", "over"}
  /\ news \subseteq [type : {"added", "removed"}, id : 1..used, last : BOOLEAN]
  /\ sub \in [Subs -> [state : {"none", "open", "shut"}, buf : Seq(Nat), dropped : Nat, owed : Int]]
=============================================================================

----------------------------- MODULE PathPolicy -----------------------------
(***************************************************************************)
(* The automatic path policy of one Stream (policy.go): runPolicy takes a  *)
(* snapshot, decides, and executes the decision later, while a dial of an  *)
(* earlier decision (policyDial) and other callers change the path list.   *)
(*                                                                         *)
(* Time is counted in cooldowns.  How long the send queue has been backed  *)
(* up, and which paths have carried next to nothing for long enough, are   *)
(* inputs of the snapshot.  The policy is defaultPolicy.                   *)
(***************************************************************************)
EXTENDS PathEvents

CONSTANTS
  MaxPaths,   \* policyMaxPaths
  KeepPaths,  \* policyRemoveKeepPaths
  AddTryN,    \* policyAddTryN: candidates per decision
  MaxShift    \* policyAddMaxShift

ASSUME PolicyAssumption ==
  /\ MaxPaths \in Nat \ {0} /\ KeepPaths \in Nat \ {0}
  /\ AddTryN \in Nat \ {0} /\ MaxShift \in Nat

VARIABLES
  eval,   \* the evaluation in progress (policyEvalActive) and its decision
  dial,   \* policyDial, if it is running (policyDialActive)
  auto,   \* paths marked auto
  cool,   \* cooldowns until nextAutoAddAt
  fails   \* autoAddFails

policyVars == <<eval, dial, auto, cool, fails>>

\* mark is history: the ids used when the guard was passed.
\* late: nextAutoAddAt has moved past the time the snapshot was taken.
NoEval == [pc |-> "idle", add |-> FALSE, remove |-> {}, victim |-> 0, late |-> FALSE]
NoDial == [pc |-> "none", tries |-> 0, mark |-> 0, id |-> 0]

PolicyInit ==
  /\ eval = NoEval /\ dial = NoDial
  /\ auto = {} /\ cool = 0 /\ fails = 0

-----------------------------------------------------------------------------
(* runPolicy.  Op_Flaw is Op with a plausible mistake. *)

\* defaultPolicy.Decide.
DecidesAdd(backlog) == backlog = "long" /\ Cardinality(paths) < MaxPaths /\ cool = 0

\* As many of the given paths as leave n of the list.
AllBut(ids, n) ==
  LET room == Cardinality(paths) - n IN
  IF room > 0
    THEN {R \in SUBSET ids : IF Cardinality(ids) <= room THEN R = ids ELSE Cardinality(R) = room}
    ELSE {{}}

DecidesRemove(backlog, low) == IF backlog = "none" THEN AllBut(low, KeepPaths) ELSE {{}}

\* policySnapshot and Decide; a closed stream is not evaluated.
Evaluate ==
  /\ "policy" \in use
  /\ eval.pc = "idle" /\ stage = "open"
  /\ \E backlog \in {"none", "short", "long"}, low \in SUBSET (auto \cap paths) :
       \E R \in DecidesRemove(backlog, low) :
         /\ R # {} \/ DecidesAdd(backlog)
         /\ eval' = [NoEval EXCEPT !.pc = "exec", !.add = DecidesAdd(backlog), !.remove = R]
  /\ UNCHANGED <<poolVars, eventVars, dial, auto, cool, fails>>

\* execPolicyRemove: the paths that are still there, but never all of them.
ExecRemove ==
  /\ eval.pc = "exec" /\ eval.remove # {}
  /\ \E R \in IF stage = "open" THEN AllBut(eval.remove \cap paths, 1) ELSE {{}} :
       eval' = [eval EXCEPT !.pc = "removing", !.remove = R]
  /\ UNCHANGED <<poolVars, eventVars, dial, auto, cool, fails>>

\* Then RemovePath of each: its guards, and dropPath after the unlock.
RemovePath ==
  /\ eval.pc = "removing"
  /\ \E id \in eval.remove :
       eval' = IF stage = "open" /\ id \in paths /\ Cardinality(paths) > 1
                 THEN [eval EXCEPT !.pc = "dropping", !.remove = @ \ {id}, !.victim = id]
                 ELSE [eval EXCEPT !.remove = @ \ {id}]
  /\ UNCHANGED <<poolVars, eventVars, dial, auto, cool, fails>>

RemoveDrops ==
  /\ eval.pc = "dropping"
  /\ eval' = [eval EXCEPT !.pc = "removing", !.victim = 0]
  /\ IF eval.victim \in paths THEN DropPath(eval.victim) ELSE UNCHANGED <<poolVars, eventVars>>
  /\ UNCHANGED <<dial, auto, cool, fails>>

\* The guards of execPolicyAdd, against the state of now.
MayDial_OfSnapshot ==
  stage = "open" /\ dial.pc = "none" /\ ~eval.late /\ cool = 0
MayDial ==
  stage = "open" /\ dial.pc = "none" /\ ~eval.late /\ cool = 0 /\ Cardinality(paths) < MaxPaths

ExecAdd ==
  /\ eval.pc \in {"exec", "removing"} /\ eval.remove = {}
  /\ eval' = NoEval
  /\ IF eval.add /\ MayDial
       THEN dial' = [pc |-> "dialing", tries |-> AddTryN, mark |-> used, id |-> 0]
       ELSE UNCHANGED dial
  /\ UNCHANGED <<poolVars, eventVars, auto, cool, fails>>

-----------------------------------------------------------------------------
(* policyDial. *)

\* One candidate: AddPath attaches a path.
DialSucceeds ==
  /\ dial.pc = "dialing" /\ dial.tries > 0
  /\ AttachPath
  /\ dial' = [dial EXCEPT !.pc = "bound", !.id = NextId]
  /\ UNCHANGED <<eval, auto, cool, fails>>

\* AddPath fails, or policyCtx ends it.
DialFails ==
  /\ dial.pc = "dialing" /\ dial.tries > 0
  /\ dial' = [dial EXCEPT !.tries = @ - 1]
  /\ UNCHANGED <<poolVars, eventVars, eval, auto, cool, fails>>

\* nextAutoAddAt is set: n cooldowns from now.
CoolFor(n) ==
  /\ cool' = n
  /\ eval' = [eval EXCEPT !.late = @ \/ eval.pc # "idle"]

\* The accounts: a path that is attached still becomes automatic; failures back
\* off exponentially; a stream that ended is not accounted for.
DialEnds ==
  /\ \/ /\ dial.pc = "bound"
        /\ auto' = auto \cup (paths \cap {dial.id})
        /\ fails' = 0
        /\ CoolFor(1)
     \/ /\ dial.pc = "dialing" /\ dial.tries > 0 /\ stage \in {"done", "over"}
        /\ UNCHANGED <<auto, fails, cool, eval>>
     \/ /\ dial.pc = "dialing" /\ dial.tries = 0
        /\ fails' = IF fails <= MaxShift THEN fails + 1 ELSE fails
        /\ CoolFor(2 ^ (IF fails < MaxShift THEN fails ELSE MaxShift))
        /\ UNCHANGED auto
  /\ dial' = NoDial
  /\ UNCHANGED <<poolVars, eventVars>>

Cool ==
  /\ cool > 0
  /\ cool' = cool - 1
  /\ UNCHANGED <<poolVars, eventVars, eval, dial, auto, fails>>

PolicyNext ==
  \/ Evaluate \/ ExecRemove \/ RemovePath \/ RemoveDrops \/ ExecAdd
  \/ DialSucceeds \/ DialFails \/ DialEnds \/ Cool

PolicyFairness ==
  LET v == <<poolVars, eventVars, policyVars>> IN
  /\ WF_v(ExecRemove) /\ WF_v(RemovePath) /\ WF_v(RemoveDrops) /\ WF_v(ExecAdd)
  /\ WF_v(DialFails) /\ WF_v(DialEnds)

-----------------------------------------------------------------------------
\* policyMaxPaths: when an automatic dial has attached its path, the stream has
\* more than MaxPaths paths only because of paths others attached after the
\* guard of execPolicyAdd, however old the snapshot it was decided on.
AutoWithinLimit == dial.pc = "bound" => Cardinality(paths) <= MaxPaths + (used - dial.mark - 1)

\* The type invariant.  (cool is a natural number, too.)
PolicyTypeOK ==
  /\ eval \in [pc : {"idle", "exec", "removing", "dropping"}, add : BOOLEAN,
               remove : SUBSET (1..MaxIds), victim : 0..MaxIds, late : BOOLEAN]
  /\ dial \in [pc : {"none", "dialing", "bound"}, tries : Nat, mark : Nat, id : 0..MaxIds]
  /\ auto \subseteq 1..MaxIds /\ fails \in Nat

\* What AutoWithinLimit rests on: from the guard on, and not only when the dial
\* has succeeded, there is room for one path but for those attached since.
DialHasRoom ==
  dial.pc # "none" => Cardinality(paths) < MaxPaths + (used - dial.mark)
=============================================================================

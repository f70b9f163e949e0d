----------------------------- MODULE PathSetup ------------------------------
(***************************************************************************)
(* How a Stream gets further paths: the automatic policy, relay paths, and *)
(* paths the application or the peer attaches, at work on one path list    *)
(* while the stream may end at any moment and subscribers watch.           *)
(***************************************************************************)
EXTENDS PathPolicy, RelayPath

vars == <<poolVars, eventVars, policyVars, relayVars>>

Init == PoolInit /\ PolicyInit /\ RelayInit

Next ==
  \/ PoolNext /\ UNCHANGED <<policyVars, relayVars>>
  \/ PolicyNext /\ UNCHANGED relayVars
  \/ RelayNext /\ UNCHANGED policyVars

Spec == Init /\ [][Next]_vars /\ PoolFairness /\ PolicyFairness /\ RelayFairness


\* The type invariant, and the inductive invariant behind NoSubscriberLeft,
\* AutoWithinLimit and DialNeedsReservation.
TypeOK == EventsTypeOK /\ PolicyTypeOK /\ RelayTypeOK

IInv == DialHasRoom /\ NoSubscriberLeft /\ AnswersAreGranted /\ DialNeedsReservation
=============================================================================

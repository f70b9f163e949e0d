---------------------------- MODULE MCSendLedger ----------------------------
(* A small instance of the send ledger. *)
EXTENDS SendLedger, TLC

CONSTANTS p1, p2

TwoPaths == {p1, p2}
Symmetry == Permutations(TwoPaths)
=============================================================================

---------------------------- MODULE MCDataPlane -----------------------------
(* A small instance of the data plane. *)
EXTENDS DataPlane, TLC

CONSTANTS p1, p2

TwoPaths == {p1, p2}

TwoCaps == {1, 2}
=============================================================================

----------------------------- MODULE MCPathSet ------------------------------
(* A small instance of the path set. *)
EXTENDS PathSet, TLC

CONSTANTS A, B, p1, p2

TwoSides == {A, B}
TwoPaths == {p1, p2}
FirstPath == {p1}

\* The opener dials p1 (the handshake stream) and p2.
DialTwo == p1 :> A @@ p2 :> A
=============================================================================

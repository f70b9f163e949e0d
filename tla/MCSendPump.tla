----------------------------- MODULE MCSendPump -----------------------------
(* Small instances of the send pump. *)
EXTENDS SendPump

CONSTANTS p1, p2

TwoPaths == {p1, p2}
SecondPath == {p2}
=============================================================================

---------------------------- MODULE MCReorderBuf ----------------------------
(* A small instance of the reorder buffer. *)
EXTENDS ReorderBuf

\* Frames of three lengths: they touch, overlap and lie within one another.
OverlappingFrames == {[off |-> o, len |-> n] : o \in 0..5, n \in 1..3}

SmallCaps == {2, 5}

=============================================================================

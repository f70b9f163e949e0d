---------------------------- MODULE MCHandshake -----------------------------
(* Two calls of OpenStream, one with WithMinPaths(2); a backlog of one. *)
EXTENDS Handshake

Asked == [o \in Opens |-> IF o \in Admitted THEN 2 ELSE 1]
=============================================================================

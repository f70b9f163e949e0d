---------------------------- MODULE MCAllocator -----------------------------
(* Three peers, the first of them with two streams. *)
EXTENDS Allocator, TLC

CONSTANTS p1, p2, p3, s1, s2, s3, s4

Ends == s1 :> p1 @@ s2 :> p1 @@ s3 :> p2 @@ s4 :> p3
=============================================================================

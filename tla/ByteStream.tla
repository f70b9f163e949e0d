----------------------------- MODULE ByteStream -----------------------------
(***************************************************************************)
(* What one direction of a Stream promises to the two applications: a      *)
(* reliable, ordered byte stream with bounded buffering.  Byte k of the    *)
(* stream is identified with k, so that "reliable and ordered" says that   *)
(* the reader has received exactly the first delivered bytes of the        *)
(* accepted ones.                                                          *)
(***************************************************************************)
EXTENDS Integers

CONSTANT Capacity  \* bytes that may be accepted and not yet delivered

VARIABLES accepted,  \* bytes Write has taken
          delivered  \* bytes Read has returned

vars == <<accepted, delivered>>

Init == accepted = 0 /\ delivered = 0

Put ==
  /\ accepted - delivered < Capacity
  /\ accepted' = accepted + 1
  /\ UNCHANGED delivered

Get ==
  /\ delivered < accepted
  /\ delivered' = delivered + 1
  /\ UNCHANGED accepted

Next == Put \/ Get

Spec == Init /\ [][Next]_vars
=============================================================================

---------------------------- MODULE MCPathSetup -----------------------------
(* Two relay requests with one reservation at a time, automatic dials up to  *)
(* two paths, one subscriber with room for one event.                        *)
EXTENDS PathSetup

Applications == {{"policy"}, {"relay"}, {"subscribe"}}
=============================================================================

---------------------------- MODULE MCInputQueue ----------------------------
(* Instances of InputQueue for TLC; the bounds are in the configurations. *)
EXTENDS InputQueue
=============================================================================

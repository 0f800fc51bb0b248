------------------------------ MODULE MCTimers ------------------------------
(* Instances of Timers for TLC; the bounds are in the configurations. *)
EXTENDS Timers
=============================================================================

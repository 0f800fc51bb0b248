---------------------------- MODULE MCPlayerSync ----------------------------
(* Instances of PlayerSync for TLC; the bounds are in the configurations. *)
EXTENDS PlayerSync
=============================================================================

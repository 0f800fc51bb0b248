---------------------------- MODULE MCEntityTree ----------------------------
(* Instances of EntityTree for TLC; the bounds are in the configurations. *)
EXTENDS EntityTree
=============================================================================

-------------------------- MODULE MCResourceManager --------------------------
(* Small instances of ResourceManager for TLC. *)
EXTENDS ResourceManager, TLC

Symmetry == Permutations(Resource \ Boot)
=============================================================================

---------------------------- MODULE MCReplication ----------------------------
(* Small instances of Replication for TLC. *)
EXTENDS Replication, TLC

Symmetry == Permutations(Client) \cup Permutations(Models)
=============================================================================

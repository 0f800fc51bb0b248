------------------------- MODULE MCVehicleEnterExit -------------------------
(* Small instances of VehicleEnterExit for TLC. *)
EXTENDS VehicleEnterExit, TLC

Symmetry == Permutations(Player) \cup Permutations(Vehicle)
=============================================================================

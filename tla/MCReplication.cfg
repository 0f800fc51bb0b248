\* Two clients sharing two player slots and one vehicle slot, with one
\* reconnection.  The instance stops when its bounds are spent and nobody is
\* connected, as an idle server does.
SPECIFICATION Spec
CONSTANTS
  Client = {c1, c2}
  NoClient = NoClient
  Models = {m1, m2}
  NoVehicle = NoVehicle
  PlayerMax = 2
  VehicleMax = 1
  MaxConnects = 3
  MaxCreates = 2
SYMMETRY Symmetry
CHECK_DEADLOCK FALSE
INVARIANTS
  ViewConverges
  NobodyMissing
  SlotBelongsToLink
  EveryPlayerRPCApplies

\* Two players and one vehicle, with scripts that may deny.  The instance stops
\* when its requests are spent and everybody is out.
SPECIFICATION Spec
CONSTANTS
  Player = {p1, p2}
  Vehicle = {v1}
  NoVehicle = NoVehicle
  NoPlayer = NoPlayer
  MayDeny = TRUE
  MaxRequests = 2
  MaxOwnTasks = 1
SYMMETRY Symmetry
CHECK_DEADLOCK FALSE
INVARIANTS
  PhasesExclusive
  EntersOnlyGranted
  OneExchange

  

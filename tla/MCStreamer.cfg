CONSTANTS
  Player = {p1, p2}
  Vehicle = {v1}
  None = None
  Freed = Freed
  PlayerLimit = 1
  VehicleLimit = 1
  Infos = 2
  Distance = {1, 2, 3}
  Range200 = 2
SPECIFICATION Spec
INVARIANTS
  StreamerConsistent
  PointersLive
PROPERTIES
  ClosestIn
CHECK_DEADLOCK FALSE

\* A script that may deny a request.
SPECIFICATION FairSpec
CONSTANTS
  Player = {p1}
  Vehicle = {v1}
  NoVehicle = NoVehicle
  NoPlayer = NoPlayer
  MayDeny = TRUE
  MaxRequests = 1
  MaxOwnTasks = 1
CHECK_DEADLOCK FALSE
PROPERTIES
  RequestAnswered

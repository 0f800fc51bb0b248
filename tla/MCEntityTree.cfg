\* The root, two resources and two ids for what their scripts make.  After undefined
\* behaviour nothing more is said.
SPECIFICATION Spec
CONSTANTS
  MaxIds = 5
  Resources = {2, 3}
  Functions = {1}
  MaxActs = 4
CHECK_DEADLOCK FALSE
INVARIANTS
  EntitiesConsistent
  FaultsExplained
PROPERTIES
  IdsImplementPool
  StopLeavesNothing
  CallsEachOnce

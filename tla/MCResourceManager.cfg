\* Two resources, both started with the server, and scripts that return.
\* A server none of whose resources runs may have nothing left to do.
CHECK_DEADLOCK FALSE
SPECIFICATION FairSpec
CONSTANTS
  Resource = {r1, r2}
  Boot = {r1, r2}
  MaxDepth = 4
INVARIANTS
  VMInUse
  ReachableHaveVM
  StopAtItem
PROPERTIES
  StopsHappen

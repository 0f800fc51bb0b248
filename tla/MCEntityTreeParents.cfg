\* One resource and two ids for what its script makes: one call creates an entity, and the
\* next gives it the resource, or a timer, for a child.
SPECIFICATION Spec
CONSTANTS
  MaxIds = 4
  Resources = {2}
  Functions = {1}
  MaxActs = 3
CHECK_DEADLOCK FALSE
PROPERTIES
  ParentsFixed

CONSTANTS
  StackBytes = 2
  MaxGrowth = 20
  MaxFields = 4
  MaxBits = 120
  Field <- MCField
SPECIFICATION Spec
INVARIANTS
  StreamConsistent
  ReadsBack
  AbsentIsNothing
PROPERTIES
  ImplementsQueue
CHECK_DEADLOCK FALSE

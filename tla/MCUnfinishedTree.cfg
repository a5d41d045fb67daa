SPECIFICATION Spec
CONSTANTS
  StateNumbers <- MCStateNumbers
  MAX_UNFINISHED = 3
INVARIANTS
  TypeOK
  NodesAccounted
PROPERTIES
  ImplementsSet
  CallsReturn
CHECK_DEADLOCK FALSE

SPECIFICATION Spec
CONSTANTS
  Handles <- MCHandles
  Elements <- MCElements
  BITS_IN_INT = 2
  DEFSIZE = 2
INVARIANTS
  TypeOK
  AnswersTrue
PROPERTIES
  ImplementsSets
  WalkVisitsAll

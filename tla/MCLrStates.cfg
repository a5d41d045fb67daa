SPECIFICATION Spec
CONSTANTS
  Grammars <- MCGrammars
  Reference <- MCReference
  MAXSTATE = 14
  MAXKERNEL = 3
  MAXCLOSE = 8
  MAXEPSILON = 2
  MAX_UNFINISHED = 7
INVARIANTS
  TypeOK
  LookaheadsSound
  TableClosed
  CanonicalStates
  SettledStates
PROPERTIES
  Termination
CHECK_DEADLOCK FALSE

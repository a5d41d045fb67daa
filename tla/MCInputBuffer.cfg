SPECIFICATION Spec
CONSTANTS
  Files <- MCFiles
  MAXLEX = 2
  MAXLOOK = 1
  UnputChar <- MCUnputChar
  UnputPlaces <- MCUnputPlaces
INVARIANTS
  TypeOK
  LineNumbers
  LookaheadTrue
  StopsOnlyAtEnd
PROPERTIES
  ImplementsStream
  TailComplete
CHECK_DEADLOCK FALSE

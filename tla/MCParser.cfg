SPECIFICATION Spec
CONSTANTS
  Programs <- MCPrograms
  YYMAXDEPTH = 5
  YYMAXERR = 1
  YYCASCADE = 3
INVARIANTS
  TypeOK
  StacksInStep
  ErrorFreeIffSentence
PROPERTIES
  FirstErrorInTime
  SkipsOnlyHopeless
  ParserReturns
CHECK_DEADLOCK FALSE

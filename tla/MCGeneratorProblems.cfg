SPECIFICATION Spec
CONSTANTS
  Files <- MCFiles
  CIdentifiers <- MCCIdentifiers
  Numerals <- MCNumerals
  MAXTERM = 3
  MAXNONTERM = 259
  MAXPROD = 4
  MAXRHS = 4
INVARIANT UndefinedReported
CHECK_DEADLOCK FALSE

SPECIFICATION Spec
CONSTANTS
  Files <- MCFiles
  CIdentifiers <- MCCIdentifiers
  Numerals <- MCNumerals
  MAXTERM = 3
  MAXNONTERM = 259
  MAXPROD = 4
  MAXRHS = 4
INVARIANT FieldsAsDeclared
CHECK_DEADLOCK FALSE

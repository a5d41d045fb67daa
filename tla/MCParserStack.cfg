SPECIFICATION Spec
CONSTANTS
  Programs <- MCPrograms
  YYMAXDEPTH = 5
  YYMAXERR = 1
  YYCASCADE = 3
INVARIANT NoWriteOutside
CHECK_DEADLOCK FALSE

SPECIFICATION Spec
CONSTANTS
  Programs <- SixteenthPrograms
  YYMAXDEPTH = 5
  YYMAXERR = 1
  YYCASCADE = 3
INVARIANT ErrorFreeIffSentence
CHECK_DEADLOCK FALSE

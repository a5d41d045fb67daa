SPECIFICATION FirstSpec
CONSTANT Grammars <- MCGrammars
INVARIANTS
  FirstTypeOK
  FirstSetsRight
PROPERTY FirstTermination
CHECK_DEADLOCK FALSE

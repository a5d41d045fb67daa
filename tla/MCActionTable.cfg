SPECIFICATION TableSpec
CONSTANTS
  Machines <- MCMachines
  Tokens <- MCTokens
  Nstates = 4
  Chains <- MCChains
  Symbols <- MCSymbols
  Tables <- MCTables
  Places <- MCPlaces
INVARIANTS
  TableTypeOK
  RowByRules
  NothingSilent
  LookupAgrees
  NamesDeclared
  ParserReadsRules
CHECK_DEADLOCK FALSE

SPECIFICATION LiveSpec
CONSTANTS
  nVar = nVar
  mVar = mVar
  pVar = pVar
  qVar = qVar
  None = None
  Symbol <- MCSymbol
  SymbolSort <- MCSymbolSort
  Env <- MCEnv
  SymbolValue <- MCSymbolValue
  IntEnv <- MCIntEnv
  IntValue <- MCIntValue
  Goals <- InductionGoals
  Tactics <- InductionTactics
  MaxIter = 3
  MaxNodes = 24
CHECK_DEADLOCK FALSE
INVARIANTS InductionIsSound

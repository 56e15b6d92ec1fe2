SPECIFICATION LiveSpec
CONSTANTS
  nVar = nVar
  mVar = mVar
  pVar = pVar
  qVar = qVar
  None = None
  Symbol <- MCSymbol
  SymbolSort <- MCSymbolSort
  Env <- MCEnv
  SymbolValue <- MCSymbolValue
  IntEnv <- MCIntEnv
  IntValue <- MCIntValue
  Goals <- MCGoals
  Tactics <- MCTactics
  MaxIter = 3
  MaxNodes = 24
CHECK_DEADLOCK FALSE
INVARIANTS TypeOK ClassesAgree DischargedIsValid ProvedHoldsAtZero SmtAlignedIsValid ClosedComplete PanicsAreKnown
PROPERTIES Terminates

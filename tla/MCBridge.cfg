SPECIFICATION LiveBridge
CONSTANTS
  Bodies = {}
  Functions <- MCFunctions
  HandWritten <- MCHandWritten
  NameOf <- MCNameOf
  Illegal <- MCIllegal
  Word = {0, 1, 2, 3, 4, 5}
  MaxWord = 9
  WordSize = 4
  None = None
CHECK_DEADLOCK FALSE
INVARIANTS BridgeTypeOK AstrayOnlyBeyond ExtractedAgrees
PROPERTIES EveryFunctionAnswered

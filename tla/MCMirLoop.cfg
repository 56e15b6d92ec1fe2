SPECIFICATION SoundSpec
CONSTANTS
  Bodies <- LoopBodies
  Word = {0, 1, 2}
  MaxWord = 9
  None = None
CHECK_DEADLOCK FALSE
INVARIANTS DischargedLoopIsSafe

SPECIFICATION LiveSpec
CONSTANTS
  Bodies <- MCBodies
  Word = {0, 1, 2}
  MaxWord = 9
  None = None
CHECK_DEADLOCK FALSE
INVARIANTS TypeOK ValuesTyped ReportComplete NoPanic WrongOnlyByAssumption Inlining
PROPERTIES Returns

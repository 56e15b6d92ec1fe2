SPECIFICATION Live
CONSTANTS
  Proc = {p1}
  File <- MCFile
  Spec <- MCSpec
  NoSpec = NoSpec
  Key <- MCSpec
  HashSpec <- MCHash
  Build = {b1, b2}
  Discharges <- MCDischarges
  Timed = {timed}
  WellFormed <- MCWellFormed
  Contents <- SingleContents
  Faults = {"clean"}
  MaxRuns = 3
  MaxEdits = 1
  p1 = p1
  p2 = p2
  b1 = b1
  b2 = b2
  two = two
  timed = timed
  open = open
  bad = bad
CHECK_DEADLOCK FALSE
INVARIANTS Remembered GateSound
PROPERTIES RunTerminates

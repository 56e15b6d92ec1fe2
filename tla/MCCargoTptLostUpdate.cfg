SPECIFICATION Safety
CONSTANTS
  Proc = {p1, p2}
  File <- MCFile
  Spec <- MCSpec
  NoSpec = NoSpec
  Key <- MCSpec
  HashSpec <- MCHash
  Build = {b1}
  Discharges <- MCDischarges
  Timed = {timed}
  WellFormed <- MCWellFormed
  Contents <- SharedContents
  Faults = {}
  MaxRuns = 2
  MaxEdits = 1
  p1 = p1
  p2 = p2
  b1 = b1
  b2 = b2
  two = two
  timed = timed
  open = open
  bad = bad
CHECK_DEADLOCK FALSE
INVARIANTS Remembered

SPECIFICATION Spec
CONSTANTS
  Term <- MCTerm
  Defs <- StdlibDefs
  Inductives <- MCInductives
  Seeds <- CaseSeeds
  Probes <- MCProbes
  Sample = {0, 1, 2}
CHECK_DEADLOCK FALSE
INVARIANTS Preservation

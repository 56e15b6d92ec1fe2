SPECIFICATION Spec
CONSTANTS
  Term <- MCTerm
  Defs <- StdlibDefs
  Inductives <- MCInductives
  Seeds <- MCSeeds
  Probes <- MCProbes
  Sample = {0, 1, 2}
CHECK_DEADLOCK FALSE
INVARIANTS TypeOK Preservation Confluence NormalForm Canonicity CheckAgrees Answers Computes ErasedValueFits FunctionErases TranslationAgrees ReadsBack

SPECIFICATION Spec
CONSTANTS
  MAX_ERRORS = 3
  Inputs <- MCInputs
  CstModes = {TRUE}
INVARIANTS
  ContextsBalanced
  PrecedenceKept
PROPERTIES
  EndsUnlessAtCloser
CHECK_DEADLOCK FALSE

SPECIFICATION TypesAndTyping
CONSTANTS
  Decls <- DeclsDef
  Universe <- UniverseDef
  Functions <- FunctionsDef
  Helpers <- HelpersDef
  MAX_LOOKUPS = 1
  Bits <- BitsDef
  Precision <- PrecisionDef
  DECIMAL = 3
  Numbers <- NumbersDef
  Floats <- FloatsDef
  Targets <- TargetsDef
  MAX_OPS = 4
INVARIANTS
  ExactErrorsAccepted

SPECIFICATION Spec
CONSTANTS
  Expressions <- ExpressionsDef
  VarTypes <- VarTypesDef
  VarOrder <- VarOrderDef
  Start <- StartDef
  Heap0 <- Heap0Def
  Frames <- FramesDef
INVARIANTS
  LoweringCorrect

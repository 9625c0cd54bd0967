SPECIFICATION PipelineSpec
CONSTANTS
  Names <- FindingNames
  Expr <- FindingExpr
  Stmt <- FindingStmt
  Programs <- AliasPrograms
  ArgSize = 256
  BxSize = 131072
  IntLimit = 1000000
  FloatScale = 1000000
  LongNames = {}
  MAXSTACK = 40
  Fuel = 16
INVARIANT RunsAsSource

SPECIFICATION ChunkSpec
CONSTANTS
  Names <- MCNames
  Expr <- MCExpr
  Stmt <- MCStmt
  Programs <- MCPrograms
  ArgSize = 256
  BxSize = 131072
  IntLimit = 1000000
  FloatScale = 1000000
  NameLength <- MCNameLength
INVARIANTS
  EverythingRead
PROPERTY Transferred
CHECK_DEADLOCK FALSE

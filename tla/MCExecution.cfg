SPECIFICATION MCSpec
CONSTANTS
  Names <- MCNames
  Expr <- MCExpr
  Stmt <- MCExecutedStmt
  Programs <- MCExecuted
  ArgSize = 256
  BxSize = 131072
  IntLimit = 1000000
  FloatScale = 1000000
  LongNames = {}
  MAXSTACK = 40
  Fuel = 16
  o1 = o1
  o2 = o2
  o3 = o3
  Main = Main
  Null = Null
  Plain = Plain
  Obj = {Main, o1, o2, o3}
  Kinds <- MCKinds
  MaxStack = 2
  SweepMax = 1
  Modes <- MCModes
  Finalizable <- MCFinalizable
  MayFail <- MCMayFail
  SameText <- MCSameText
INVARIANTS RunsAsSource NothingDangles CheckMemory CollectorAssertions
PROPERTY OnlyGarbageFinalized

SPECIFICATION Spec
CONSTANTS
  Names <- MCGeneratorNames
  Expr <- MCGeneratorExpr
  Stmt <- MCGeneratorStmt
  Programs <- MCGeneratorPrograms
  ArgSize = 256
  BxSize = 2
  IntLimit = 1000000
  FloatScale = 1000000
INVARIANTS
  TypeOK
  TablesAgree
  ControlStays
  CodeInv
  PrototypesSound
PROPERTIES
  EmittedStays
  Terminates
CHECK_DEADLOCK FALSE

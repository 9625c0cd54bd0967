SPECIFICATION Spec
CONSTANTS
  Subjects <- Topics
  MAXARG_C = 15
  MAXINDEXRK = 2
  MAXARG_Bx = 63
  MAXARG_vC = 3
  MAX_FSTACK = 24
  LIMLINEDIFF = 3
  MAXIWTHABS = 4
  MAXVARS = 20
  MAXUPVAL = 10
  Lots = 22
  Some = 18
  Batch = 2
  Registers = 28
  MaxOut = 12
  MaxSteps = 300
PROPERTIES RunsAsMeant CompilesLegal LinesFound
CHECK_DEADLOCK FALSE

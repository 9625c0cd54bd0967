SPECIFICATION TesterSpec
CONSTANTS
  Files <- MisjudgedFiles
  Unit <- MCUnit
  Exact <- MCExact
INVARIANTS SummaryRight
CHECK_DEADLOCK FALSE

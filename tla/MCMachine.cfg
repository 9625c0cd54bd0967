CONSTANTS
  x = x
  empty = empty
  a = a
  b = b
  Values <- MCValues
  Empty = empty
  MaxInteger = 3
  MaxVicinity = 1
  LimForLast = 2
  Hash <- MCHash
  Keys <- MCKeys
  ArraySizes = {0, 2}
  HashSizes = {0}
  Randoms = {0, 3}
  Failures = {"none", "hash", "array"}
  main = main
  c1 = c1
  Main = main
  Coroutines = {c1}
  Programs <- MCPrograms
  ErrorSpace = 6
  MaxCCalls = 3
  ErrCCalls = 5
SPECIFICATION MCSpec
INVARIANTS
  TableAssertions
  TraversalComplete
  LengthIsBorder
  CallAssertions
  CallsCounted
  NothingOutlivesItsFrame
PROPERTIES
  IsMapping
  NoProtectedCallSkipped
CHECK_DEADLOCK FALSE

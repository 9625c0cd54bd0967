CONSTANTS
  tab1 = tab1
  tab2 = tab2
  fun = fun
  other = other
  nil = nil
  null = null
  Tables <- MCTables
  Function = fun
  Other = other
  Nil = nil
  Null = null
  Hole = nil
  Programs <- MCPrograms
  MAXTAGLOOP = 3
  MAXCCALLS = 20
  LUA_MAXCAPTURES = 4
  RANLIMIT = 4
  IMBALANCE = 2
  NBITS = 5
  NBM = 3
  MaxScale = 4
  MAX_LMEM = 8000
  NB = 2
  SZINT = 2
  MAXINTSIZE = 4
  MAX_SIZE = 7
  SIZEOF_INT = 2
  SIZEOF_FLOAT = 2
  MaxAlign = 4
SPECIFICATION MCSpec
SYMMETRY Symmetry
CHECK_DEADLOCK FALSE
INVARIANTS CacheSound PatternsMatch ArraysHold NumbersExact CharactersAgree
  PackedReadsBack TextsScanned
PROPERTY AccessIsAsMeant

SPECIFICATION MCSpec
CONSTANTS
  Sources <- NoSources
  Letters <- MCLetters
  Digits <- MCDigits
  Keywords <- MCKeywords
  TokenLists <- NotLegalLists
  NumberValue <- MCNumberValue
  Files <- NoFiles
  Unit <- MCUnit
  Exact <- MCExact
INVARIANTS AcceptsLegal
CHECK_DEADLOCK FALSE

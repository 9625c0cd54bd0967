SPECIFICATION MCSpec
CONSTANTS
  Sources <- MCSources
  Letters <- MCLetters
  Digits <- MCDigits
  Keywords <- MCKeywords
  TokenLists <- MCTokenLists
  NumberValue <- MCNumberValue
  Files <- MCFiles
  Unit <- MCUnit
  Exact <- MCExact
INVARIANTS LongestLexemes AcceptsGrammar VerdictsRight
PROPERTIES ErrorStays FrontEnds OutputsStay AllRun
CHECK_DEADLOCK FALSE

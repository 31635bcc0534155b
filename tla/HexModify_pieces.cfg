SPECIFICATION Spec
CONSTANTS
  DataSize = 13
  CacheSize = 5
  FastFill = 4
  VecSize = 4
  Word = 2
  RandBuffer = 10
  ThreadSize = 6
  Calls <- HeldCalls
INVARIANTS
  PiecesAsAsked
  AllAsAsked
PROPERTY CallReturns
CHECK_DEADLOCK TRUE

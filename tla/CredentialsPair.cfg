SPECIFICATION SafetySpec
CONSTANTS
  p1 = p1
  p2 = p2
  r1 = r1
  r2 = r2
  Proc <- MCProc
  Request <- MCRequest
  Home <- MCHome
  Patient = {}
  MaxToken = 3
  Mishaps = {"unwritten", "unlocked"}
  MaxMishaps = 1
  NoOne = NoOne
  MaxCrashes = 1
  MayOverrun = FALSE
SYMMETRY MCSwap
INVARIANTS StoreKeepsGrant NoFalseTerminal
PROPERTIES UsesLock
CHECK_DEADLOCK TRUE

SPECIFICATION SafetySpec
CONSTANTS
  p1 = p1
  r1 = r1
  r2 = r2
  Proc <- MCProc
  Request <- MCRequest
  Home <- MCHome
  Patient = {}
  MaxToken = 2
  Mishaps = {}
  MaxMishaps = 1
  NoOne = NoOne
  MaxCrashes = 1
  MayOverrun = FALSE
PROPERTY RefusedOnlyWithoutToken

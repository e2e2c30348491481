SPECIFICATION Spec
CONSTANTS
  p1 = p1
  r1 = r1
  r2 = r2
  Proc <- MCProc
  Request <- MCRequest
  Home <- MCHome
  Patient = {r1}
  MaxToken = 3
  Mishaps = {"lost", "unwritten", "unlocked", "crash", "cli"}
  MaxMishaps = 1
  NoOne = NoOne
  MaxCrashes = 1
  MayOverrun = FALSE
INVARIANTS TypeOK SingleFlight CooldownRespected
PROPERTIES MemoryKeepsWorking ServedTokenWorks Answered
CHECK_DEADLOCK TRUE

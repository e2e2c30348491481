SPECIFICATION LockSpec
CONSTANTS
  g1 = g1
  g2 = g2
  g3 = g3
  Contender <- MCContender
  NoOne = NoOne
  MaxCrashes = 2
  MayOverrun = TRUE
INVARIANTS LockTypeOK ExclusiveUntilTakeover
PROPERTIES AcquireSettles NeverWedged
CHECK_DEADLOCK TRUE

SPECIFICATION LockSafetySpec
CONSTANTS
  g1 = g1
  g2 = g2
  g3 = g3
  Contender <- MCContender
  NoOne = NoOne
  MaxCrashes = 0
  MayOverrun = FALSE
INVARIANT NeverRefreshConcurrently

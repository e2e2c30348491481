--------------------------- MODULE MCRefreshLock ---------------------------
(* Three contenders, enough for one to hold the lock while two take over.   *)
EXTENDS RefreshLock, TLC
CONSTANTS g1, g2, g3
MCContender == {g1, g2, g3}
============================================================================

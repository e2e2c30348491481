SPECIFICATION LiveSpec
CONSTANTS
    MaxEmitted = 4
    MaxLosses = 1
    MaxMounts = 2
    BufferSize = 2
    HistoryLimit = 4
INVARIANT SurvivesNavigation
CHECK_DEADLOCK FALSE

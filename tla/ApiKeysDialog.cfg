SPECIFICATION KeySpec
CONSTANTS
    MaxCalls = 1
    Label = {"a"}
    MaxRows = 2
    MaxMinted = 3
PROPERTY ReopensClean
CHECK_DEADLOCK FALSE

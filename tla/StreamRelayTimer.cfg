SPECIFICATION Spec
CONSTANTS
    MaxEvents = 2
    MaxChunk = 1
PROPERTIES
    ForceTimerFrees
CHECK_DEADLOCK FALSE

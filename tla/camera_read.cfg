SPECIFICATION MCSpec
CONSTANTS
    Procs = {"p", "q"}
    NBuf = 2
    MaxSignals = 1
CHECK_DEADLOCK FALSE
INVARIANTS
    ReadIsFresh
    BuffersLive
PROPERTIES
    CopyUndisturbed
    ReadEnds

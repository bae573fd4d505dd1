SPECIFICATION NandLiveSpec
CONSTANTS
    PagesPerBlock = 2
    Blocks = 3
    Lens = {1, 4}
    MaxCommands = 2
CHECK_DEADLOCK FALSE
INVARIANTS
    ErasePlaced
    WritePlaced
    FailsForRoomOnly
    ReadBack
PROPERTY
    CommandEnds

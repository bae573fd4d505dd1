SPECIFICATION FairSpec
CONSTANTS
    Soh = 4
    Stx = 8
    BlkMod = 3
    MaxRetries = 8
    MaxCrcRetries = 2
    Sizes = {4, 8}
    FileSizes = {0, 5, 10, 15}
    CtrlZs = {{}, {1, 2, 3}, {4, 5, 6, 7, 8, 9}}
    MaxFaults = 3
INVARIANTS
    StoredInOrder
    CompleteAtEof
    AckedIsKept
PROPERTY
    WaitingEnds

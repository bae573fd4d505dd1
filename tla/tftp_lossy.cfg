SPECIFICATION Spec
CONSTANTS
    ARP_TIMEOUT_COUNT = 2
    NetRetryValues = {"unset", "no"}
    EraseSize = 2
    Reliable = FALSE
    FileLen = 3
    TFTP_BLOCK_SIZE = 1
    OackBlkSizes = {0, 2}
    NoOption = 0
    TFTP_SEQUENCE_SIZE = 8
    TIMEOUT_COUNT = 1
    Ports = {p1, p2}
    Sessions = {s1, s2}
    WELL_KNOWN_PORT = wk
INVARIANTS
    TypeOK
    SuccessMeansWholeFile
    AlwaysATimer
    HaltedOnReturn
    AckedIsStored
    ParkedIsCurrent
PROPERTY
    ImplementsDownload
SYMMETRY Symmetry

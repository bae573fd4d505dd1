SPECIFICATION Spec
CONSTANTS
    ARP_TIMEOUT_COUNT = 2
    NetRetryValues = {"unset", "no"}
    EraseSize = 2
    Reliable = TRUE
    FileLen = 6
    TFTP_BLOCK_SIZE = 1
    OackBlkSizes = {2}
    NoOption = 0
    TFTP_SEQUENCE_SIZE = 3
    TIMEOUT_COUNT = 0
    Ports = {p1, p2}
    Sessions = {s1}
    WELL_KNOWN_PORT = wk
INVARIANTS
    SuccessMeansWholeFile
    ExportedSizes
SYMMETRY Symmetry

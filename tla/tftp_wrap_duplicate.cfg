SPECIFICATION Spec
CONSTANTS
    ARP_TIMEOUT_COUNT = 2
    NetRetryValues = {"unset", "no"}
    EraseSize = 2
    Reliable = FALSE
    FileLen = 5
    TFTP_BLOCK_SIZE = 1
    OackBlkSizes = {}
    NoOption = 0
    TFTP_SEQUENCE_SIZE = 4
    TIMEOUT_COUNT = 1
    Ports = {p1}
    Sessions = {s1}
    WELL_KNOWN_PORT = wk
PROPERTIES
    DuplicateIgnored
CHECK_DEADLOCK FALSE

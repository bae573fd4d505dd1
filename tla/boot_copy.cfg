CONSTANTS
    ImageSectors = 5
    LargePage = 2
    PagesPerBlock = 2
    Blocks = 5
SPECIFICATION BootSpec
CHECK_DEADLOCK FALSE
INVARIANTS
    RunsTheImage
    NeverRunsUncorrectable

SPECIFICATION EnvSpec
CONSTANTS
    Names = {"bootcmd", "stdin"}
    Console = {"stdin"}
    Values <- OneAndTwo
    EnvSize = 4
    Default <- DefaultEnv
    Pages = 4
    PagesPerBlock = 2
INVARIANTS
    SealedIsLoaded
    CrcLagsByDeletions
PROPERTY
    ActsAsStore

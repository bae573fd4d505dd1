SPECIFICATION FairSpec
CONSTANTS
    Readers = {r1}
    MaxSamples = 6
INVARIANTS
    ConverterHasOneUser
    TouchNeverStalls
    FourSamples
PROPERTY
    ReleaseReported

SPECIFICATION KeysLiveSpec
CONSTANTS
    nbuttons = 2
    MaxEdges = 5
INVARIANTS
    ReportedIsPin
    NothingLeft
PROPERTY
    ChangeIsReported

SPECIFICATION FairSpec
CONSTANTS
    Procs = {p1, p2}
    NKeys = 2
    Counts = {1, 3}
    Nobody = Nobody
    Other = Other
INVARIANTS
    OpenerHasAllIrqs
    NoLostEvent
    FollowsPin
PROPERTY
    WaiterServed

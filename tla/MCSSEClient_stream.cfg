CONSTANTS
    Clients = {k1, k2, k3, k4, k5}
    NoClient = NoClient
SPECIFICATION FairSpec
CHECK_DEADLOCK FALSE
INVARIANTS
    LeavesForGood
    KeepsTrying
    StatusOfCurrent
PROPERTY Reconnects

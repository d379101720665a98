CONSTANTS
    Clients = {k1}
    NoClient = NoClient
    Sockets = {w1, w2}
    NoSocket = NoSocket
SPECIFICATION Spec
CHECK_DEADLOCK FALSE
INVARIANT LeavesForGood

CONSTANTS
    Clients = {k1, k2}
    NoClient = NoClient
    Sockets = {w1, w2}
    NoSocket = NoSocket
    Mutations = {m1, m2}
    NoData = NoData
    Guess = Guess
    MaxQueue = 1
SPECIFICATION FairSync
CHECK_DEADLOCK FALSE
INVARIANTS
    SyncTypeOK
    StaleHasCause
    GuessIsTemporary
    OneTransport
    KeepsTrying
PROPERTY Reconnects

CONSTANTS
    c1 = c1
    c2 = c2
    c3 = c3
    s1 = s1
    s2 = s2
    Conns = {c1, c2, c3}
    Stuck = {c3}
    Senders = {b1, b2}
    Sessions = {s1, s2}
    SessionOf <- TwoSessions
    MaxMessages = 2
    NoConn = NoConn
SPECIFICATION FairSpec
CHECK_DEADLOCK FALSE
INVARIANTS
    HubMatchesConns
    OneSessionPerMessage
PROPERTIES
    ConnsServed
    TargetsHear

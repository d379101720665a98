CONSTANTS
    v1 = v1
    v2 = v2
    v3 = v3
    s1 = s1
    s2 = s2
    Viewers = {v1, v2, v3}
    Senders = {b1, b2}
    Sessions = {s1, s2}
    SessionOf <- TwoSessions
    Cap = 1
    MaxEvents = 2
    NoViewer = NoViewer
SPECIFICATION FairSpec
INVARIANTS
    TypeOK
    NoSendOnClosed
    MapMatchesViewers
    OnlyOwnEvents
PROPERTIES
    BroadcastEnds
    LeavingEnds

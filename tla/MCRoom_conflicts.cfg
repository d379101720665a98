CONSTANTS
    Items = {i1, i2}
    TxReq = {q1, q2}
    PReq = {p1}
    NoItem = NoItem
    NoReq = NoReq
    ReadError = ReadError
    QCommands = {"add", "delete", "marquee", "reorder"}
    PCommands = {"play", "next", "prev"}
    DebounceDur = 1
    MaxClock = 0
SPECIFICATION Spec
INVARIANTS
    RoomTypeOK
    ChangesAreAnnounced
    SnapshotHolds
PROPERTIES
    ReorderKeepsCurrent
    ContiguityKept
    KeepsPlaylist
SYMMETRY Symmetry

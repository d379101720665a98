CONSTANTS
    Items = {i1}
    TxReq = {q1}
    PReq = {p1, p2}
    NoItem = NoItem
    NoReq = NoReq
    ReadError = ReadError
    QCommands = {"add", "delete", "reorder"}
    PCommands = {"prev", "video-ended"}
    DebounceDur = 2
    MaxClock = 3
SPECIFICATION FairSpec
PROPERTIES
    RequestsFinish
    BehindCatchesUp
    AutoAdvanceSpacing

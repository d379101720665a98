CONSTANTS
    Items = {i1, i2}
    TxReq = {q1}
    PReq = {p1}
    NoItem = NoItem
    NoReq = NoReq
    ReadError = ReadError
    QCommands = {"add", "reorder"}
    PCommands = {"next"}
    DebounceDur = 1
    MaxClock = 0
SPECIFICATION Spec
PROPERTY AdvanceStaysOnItem

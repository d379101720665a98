CONSTANTS
    Items = {i1, i2}
    TxReq = {}
    PReq = {p1, p2}
    NoItem = NoItem
    NoReq = NoReq
    PCommands = {"play", "prev", "video-ended"}
    DebounceDur = 1
    MaxClock = 2
    Viewers = {v1, v2}
    Unheard = Unheard
    Cap = 1
    MaxUnderWay = 2
SPECIFICATION ViewerSpec
CONSTRAINT FewUnderWay
INVARIANTS
    ViewerTypeOK
    OnCurrent
 
SYMMETRY Symmetry

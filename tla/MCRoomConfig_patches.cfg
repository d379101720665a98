CONSTANTS
    TxReq = {c1, c2, c3}
    NoReq = NoReq
    Fields = {"label", "source"}
    Values = {0, 1}
    Patches <- AllPatches
    Defaults <- NewRoom
    Indexes = {0, 1}
    FirstIndex = 0
    NoPatch = NoPatch
    Applied = Applied
SPECIFICATION Spec
INVARIANTS
    TypeOK
PROPERTY NoLostUpdate
SYMMETRY Symmetry

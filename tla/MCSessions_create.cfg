CONSTANTS
    TxReq = {q1, q2, q3}
    NoReq = NoReq
    Ids = {s1, s2, s3}
    Keys = {k1, k2}
    NoKey = NoKey
    MaxAttempts = 2
SPECIFICATION FairSpec
INVARIANT SessionsWhole
PROPERTIES
    KeepsBook
    CreatesEnd

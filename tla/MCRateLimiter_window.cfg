CONSTANTS
    IPs = {ip1, ip2, proxy}
    Trusted = {proxy}
    NoIP = NoIP
    MaxHops = 2
    MaxClaims = 1
    Limit = 2
    Window = 2
    MaxTime = 5
    MaxCount = 3
SPECIFICATION FairSpec
INVARIANT TypeOK
PROPERTIES
    FixedWindowSpec
    ExpiredEvicted

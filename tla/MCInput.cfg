SPECIFICATION FairSpec
CONSTANTS
    o = o  r = r
    Clients = {o, r}
    Ragged = {r}
    KeepAlive = 1
    Grace = 1
    MaxLenBytes = 2
    Room = 4
INVARIANTS
    OrderlyKept
    NoWillAfterDisconnect
PROPERTIES
    OrderlyHeard
    DeadDetected
    WillKept

SPECIFICATION FairSpec
CONSTANTS
    f1 = f1  f2 = f2  Control = Control  Junk = Junk  NoFd = NoFd
    Fds = {f1, f2}
    Garbage <- AnyGarbage
    CleanStart = TRUE
    MaxConns = 3
INVARIANTS
    OnePoller
    TableMatchesSockets
    NullExplained
PROPERTIES
    AddHonoured
CHECK_DEADLOCK FALSE

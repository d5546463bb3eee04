SPECIFICATION FairSpec
CONSTANTS
    f1 = f1  f2 = f2
    Fds = {f1}
    Control = Control
    Junk = Junk
    NoFd = NoFd
    Garbage = {Junk}
    CleanStart = FALSE
    MaxConns = 2
PROPERTIES
    EveryClientPolled
CHECK_DEADLOCK FALSE

SPECIFICATION Spec
CONSTANTS
    s1 = s1  s2 = s2  z1 = z1  f1 = f1  f2 = f2
    Senders = {s1, s2}
    Stopped = {z1}
    Fds = {f1}
    Slow = {}
    MaxConns = 2
    MaxCmds = 3
    MaxParts = 2
    Nobody = Nobody
CHECK_DEADLOCK FALSE
INVARIANTS
    RightAddressee

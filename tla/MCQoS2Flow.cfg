SPECIFICATION FairFlowSpec
CONSTANTS
    f1 = f1  f2 = f2  c1 = c1  m1 = m1  m2 = m2  x = x
    Fds = {f1, f2}
    ClientIds = {c1}
    RandomIds = {}
    PriorIds = {}
    NoId = NoId
    Topics <- OneTopic
    Filters = {}
    Msgs = {m1, m2, x}
    NoMsg = NoMsg
    Options = {0}
    PacketIds = {1, 2}
    PacketIdMod = 65536
    MaxGen = 1
    MaxCopies = 3
    MaxStored = 3
    Publisher = c1
    Own = {m1, m2}
    NoFd = NoFd
    MaxBreaks = 2
INVARIANTS
    Conserved
    OnceUndisturbed
CHECK_DEADLOCK FALSE
PROPERTIES
    Completed

SPECIFICATION Spec
CONSTANTS
    f1 = f1  f2 = f2  c1 = c1  r1 = r1  m1 = m1
    Fds = {f1, f2}
    ClientIds = {c1}
    RandomIds = {}
    PriorIds = {}
    NoId = NoId
    Topics <- OneTopic
    Filters <- OneFilter
    Msgs = {m1}
    NoMsg = NoMsg
    Options = {1, 8}
    PacketIds = {1}
    PacketIdMod = 4
    MaxGen = 3
    MaxCopies = 0
    MaxStored = 0
SYMMETRY Symmetric
INVARIANTS
    NoAssertFailure
CHECK_DEADLOCK FALSE

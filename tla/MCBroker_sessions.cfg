SPECIFICATION Spec
CONSTANTS
    f1 = f1  f2 = f2  c1 = c1  r1 = r1  m1 = m1
    Fds = {f1, f2}
    ClientIds = {c1}
    RandomIds = {r1}
    PriorIds = {}
    NoId = NoId
    Topics <- DeepTopic
    Filters <- WildcardAndPrefix
    Msgs = {m1}
    NoMsg = NoMsg
    Options = {1}
    PacketIds = {1}
    PacketIdMod = 65536
    MaxGen = 2
    MaxCopies = 1
    MaxStored = 1
SYMMETRY Symmetric
INVARIANTS
    TypeOK
    NoPostponed
    UniqueClientId
    SubscribedIndex
    EverySubscriberNotified
CHECK_DEADLOCK FALSE

SPECIFICATION Spec
CONSTANTS
    Radix = 5
    Rests = {0, 8}
    MaxInt = 700
INVARIANTS
    IntegerExact
    ConnectHeard
    PublishRelayed
    CopyExact
    TopicsHeard
    AnswersFramed

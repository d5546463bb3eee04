SPECIFICATION Spec
CONSTANTS
    Words = {"a", "b"}
    Cuts = {"/", " "}
    MaxPieces = 5
INVARIANTS
    LiveMatchExact
    LiveOobExact
    RetainedMatchExact
    RetainedOobExact
    RetainedAgreesWithLive
CHECK_DEADLOCK FALSE

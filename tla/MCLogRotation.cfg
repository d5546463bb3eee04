SPECIFICATION Spec
CONSTANTS
    First = "main"
    Second = "broker"
    MaxSize = 2
    MaxFiles = 2
    Lengths = {1, 3}
    Longest = 3
    MaxBytes = 4
    Old <- OldFiles
INVARIANTS
    SizeBounded
    Ordered
    LostByAge
PROPERTIES
    OnlyGrows

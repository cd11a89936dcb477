SPECIFICATION Spec
CONSTANTS
    N = 7
    Blocks <- MCBlocks
    Phys <- MCPhys
    RootRecs = 2
    EbRecs = 3
    LeafRange = 100
    Rooms = {0, 1, 16}
INVARIANTS
    Mapping
    Shape
    CrashSafe
    Accounted
    OnlyTheseFail
CHECK_DEADLOCK FALSE

SPECIFICATION Spec
CONSTANTS
    NSlots = 2
    Blocks <- MCBlocks
    LogLen = 9
    SeqRange = 8
    Images <- MCImages
    MaxRuns = 2
    MaxFaults = 2
INVARIANTS ContentsKept FilesKept EndsClean
PROPERTIES ImplementsRecovery
CHECK_DEADLOCK FALSE

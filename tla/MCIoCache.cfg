CONSTANTS
    Blocks <- MCBlocks
    Values = {a, b}
    NrBlocks = 2
    MaxCount = 3
    Channels = {c1, c2}
    Faults = {"short"}
SPECIFICATION Spec
INVARIANTS CacheCoherent AssertsHold
PROPERTIES ImplementsDevice

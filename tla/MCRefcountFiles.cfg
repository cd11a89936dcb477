SPECIFICATION Spec
CONSTANTS
    Files <- MCFiles
    Volumes <- MCVolumes
    Clusters <- MCClusters
    Pool <- MCPool
    Contig = 2
    MaxCount = 2
    MaxDamage = 2
    FileRecs = 9
    Rooms = {0, 1, 16}
    MaxCalls = 1
    Blocks <- MCBlocks
    RootRecs = 2
    EbRecs = 3
    LeafRange = 100
    RlRecs = 4
INVARIANTS
    Checked
    Isolated
    Accounted
    CrashSafe
    Ordered
CHECK_DEADLOCK FALSE

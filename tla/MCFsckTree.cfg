SPECIFICATION Spec
CONSTANTS
    Damages <- MCDamages
    Image <- MCImage
    MaxIno = 9
    MaxRuns = 3
    MaxStops = 1
INVARIANTS TreeWhole LinksTrue Converged NothingLost
CHECK_DEADLOCK FALSE

SPECIFICATION FairSpec
CONSTANTS
    f1 = f1
    f2 = f2
    n1 = n1
    Names = {f1, f2}
    Nodes = {n1}
    MaxLife = 3
    MaxMounts = 2
    Faults = {"send"}
INVARIANTS NotForgotten
PROPERTIES Completes
CHECK_DEADLOCK FALSE

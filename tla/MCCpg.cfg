SPECIFICATION Spec
CONSTANTS
    n1 = n1
    n2 = n2
    n3 = n3
    u1 = u1
    u2 = u2
    Nodes = {n1, n2, n3}
    Uuids = {u1, u2}
    Start <- Everybody
    MaxDowns = 2
    MaxChanges = 2
    Faults = {"dlmcontrol"}
SYMMETRY Symmetry
INVARIANTS CaughtUp SameOrder
PROPERTIES NoFalseDown
CHECK_DEADLOCK FALSE

SPECIFICATION FairSpec
CONSTANTS
  Procs = {p1, p2, p3}
  MaxLost = 1
  Faults = {"die", "create", "remove"}
INVARIANTS Heartbeating Exclusive
PROPERTIES Returns

SPECIFICATION Spec
CONSTANTS
  Uuids = {u1}
  Clients = {c1, c2, c3}
  Services = {"ocfs2", "fsck"}
  Slots <- MCSlots
  MaxMounts = 2
  MaxDfs = 2
  Faults = {"join", "register", "device", "signal", "cpg", "leave"}
SYMMETRY Symmetry
INVARIANTS KernelNeedsGroup SetGroupStates OneAnswer
CHECK_DEADLOCK FALSE

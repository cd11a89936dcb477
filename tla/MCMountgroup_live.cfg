SPECIFICATION FairSpec
CONSTANTS
  Uuids = {u1}
  Clients = {c1, c2}
  Services = {"ocfs2", "fsck"}
  Slots <- MCSlots
  MaxMounts = 1
  MaxDfs = 2
  Faults = {"die", "register"}
INVARIANTS GroupLive
PROPERTIES Answered NotBusyForever
CHECK_DEADLOCK FALSE

SPECIFICATION Spec
CONSTANTS
  Slaves = {s1, s2}
  NoSlave = NoSlave
  Conns = {1, 2, 3}
  Dbs = {0, 1}
  BacklogSize = 2
  NoBacklog = NoBacklog
  NoChild = NoChild
  DisklessModes <- Both
  ForkFails = {"sync"}
  MaxVersion = 2
  MaxOffset = 5
  MaxPing = 2
  MaxFaults = 1
SYMMETRY Symmetry
INVARIANTS ExactSlavesFollow FullSyncSound NothingLost
CHECK_DEADLOCK FALSE

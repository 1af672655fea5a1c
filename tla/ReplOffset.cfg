SPECIFICATION Spec
CONSTANTS
  Slaves = {s1, s2}
  NoSlave = NoSlave
  Conns = {1, 2, 3}
  Dbs = {0}
  BacklogSize = 2
  NoBacklog = NoBacklog
  NoChild = NoChild
  DisklessModes <- Disk
  ForkFails = {}
  MaxVersion = 3
  MaxOffset = 7
  MaxPing = 7
  MaxFaults = 1
SYMMETRY Symmetry
INVARIANTS ResumesExactly
CHECK_DEADLOCK FALSE

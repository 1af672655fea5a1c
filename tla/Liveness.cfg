SPECIFICATION MCSpec
CONSTANTS
  Slaves = {s1, s2}
  NoSlave = NoSlave
  Conns = {1, 2, 3}
  Dbs = {0}
  BacklogSize = 1
  NoBacklog = NoBacklog
  NoChild = NoChild
  DisklessModes <- Disk
  ForkFails = {"sync"}
  MaxVersion = 1
  MaxOffset = 3
  MaxPing = 0
  MaxFaults = 2
PROPERTIES SlavesCatchUp FailoverEnds EventuallyConfigured
CHECK_DEADLOCK FALSE

SPECIFICATION MCSpec
CONSTANTS
  s1 = s1
  s2 = s2
  s3 = s3
  A = A
  B = B
  Sentinels = {s1, s2, s3}
  Nobody = Nobody
  Addrs = {A, B}
  FirstMaster = A
  Promotable = {A, B}
  Quorum = 2
  Seeing = {s1, s2}
  Restarting = {s1, s2, s3}
  MaxEpoch = 2
  MaxRestarts = 1
SYMMETRY Symmetry
INVARIANTS CleanLeader ConfigAgreement PromotedSlave LinksRight ScriptsTracked ConfigurationKept
PROPERTY NoFalseDown

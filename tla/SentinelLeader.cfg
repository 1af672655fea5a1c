SPECIFICATION Spec
CONSTANTS
  s1 = s1
  s2 = s2
  s3 = s3
  A = A
  B = B
  C = C
  Sentinels = {s1, s2, s3}
  Nobody = Nobody
  Addrs = {A, B, C}
  FirstMaster = A
  Promotable = {B, C}
  Quorum = 2
  Seeing = {s1, s2}
  Restarting = {s1, s2, s3}
  MaxEpoch = 2
  MaxRestarts = 1
INVARIANT OneLeaderPerEpoch

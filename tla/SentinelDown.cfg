SPECIFICATION Spec
CONSTANTS
  DownAfter = 1
  PingPeriod = 1
  InfoPeriod = 1
  MaxPending = 5
  MaxDrift = 1
INVARIANT AnyDownInTime

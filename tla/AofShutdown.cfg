SPECIFICATION Spec
CONSTANTS
  Dbs = {0, 1}
  Policies = {"everysec"}
  Truncated = {FALSE, TRUE}
  Lazy = {FALSE}
  NoChild = NoChild
  MaxVersion = 2
  MaxFaults = 0
  MaxChanges = 2
PROPERTY ShutdownKeepsData
CHECK_DEADLOCK FALSE

SPECIFICATION MCSpec
CONSTANTS
  Dbs = {0, 1}
  Policies <- AnyPolicy
  Truncated = {FALSE, TRUE}
  Lazy = {FALSE, TRUE}
  NoChild = NoChild
  MaxVersion = 2
  MaxFaults = 2
  MaxChanges = 2
INVARIANTS FileAndBuffer RewriteComplete TransactionsWhole SlaveAgrees
PROPERTIES AckedDurable SlaveSeesWholeExec
CHECK_DEADLOCK FALSE

SPECIFICATION MCSpec
CONSTANTS
  Waiters = {c1, c2, c3}
  Absent = Absent
VIEW MCView
INVARIANTS BlockedRight ParsedAsWhole OutputRight LoopRight PubSubRight ValuesRight DumpsReadBack
PROPERTIES ServedRight CommandsRight RestoredRight
CHECK_DEADLOCK FALSE

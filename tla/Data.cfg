SPECIFICATION MCSpec
CONSTANTS
  Bytes <- MCBytes
  Sizes = {1, 2, 3}
  Garbage = "garbage"
  Gap = "gap"
  NoBuffer = NoBuffer
  NotString = NotString
  MaxFeed = 4
  MaxOffset = 5
VIEW MCView
INVARIANTS PsyncSound  DictRight SkiplistRight EncodingsRight HllRight BitRangesRight
PROPERTIES WritesRight TypesImplement
CHECK_DEADLOCK FALSE

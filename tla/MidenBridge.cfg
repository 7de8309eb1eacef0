SPECIFICATION Spec
CONSTANTS
  r1 = r1 r2 = r2
  Creates = {r1, r2}
  Queries = {q}
  Stubs = {n}
  TimelockAt <- SoonAndLater
  TopUp = 1
  PerBlock = 2
  Polls = 1
  MaxStarts = 3
  MaxResets = 1
  MaxTime = 3
  MaxHeight = 2
  None = None
INVARIANTS FundedPairIsKept AnsweredNoteIsReal EarlyOnlyWhenBlocksAreFast
CHECK_DEADLOCK FALSE

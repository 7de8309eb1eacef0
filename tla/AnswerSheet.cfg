SPECIFICATION Spec
CONSTANTS
  q1 = q1 q2 = q2
  Questions = {q1, q2}
  Options = 2
  Key <- FirstIsRight
  Marks <- FourEach
  Penalty <- OneOff
  Orders <- Shuffles
  MaxClicks = 3
  None = None
INVARIANTS OnlyChosen QuietIsSaved
CHECK_DEADLOCK FALSE

SPECIFICATION Spec
CONSTANTS
  q1 = q1 q2 = q2
  Questions = {q1}
  Options = 2
  Key <- FirstIsRight
  Marks <- FourEach
  Penalty <- OneOff
  Orders <- Shuffles
  MaxClicks = 1
  None = None
INVARIANT CorrectIsRewarded
CHECK_DEADLOCK FALSE

SPECIFICATION Spec
CONSTANTS
  Requests = {r1, r2, r3}
  Questions = {q1}
  Answers = {a}
  NoAnswer = NoAnswer
  None = None
  StartAt = 1
  CloseAt = 2
  LastTick = 2
SYMMETRY Symmetry
PROPERTY SubmitIsFinal
CHECK_DEADLOCK FALSE

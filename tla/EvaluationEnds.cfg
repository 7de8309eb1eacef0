SPECIFICATION FairSpec
CONSTANTS
  run1 = run1 run2 = run2 pub1 = pub1 pub2 = pub2
  ann = ann bob = bob ann1 = ann1 ann2 = ann2 bob1 = bob1 maths = maths physics = physics
  Sessions = {ann1, bob1}
  Students = {ann, bob}
  Papers = {maths}
  StudentOf <- StudentOfSession
  PaperOf <- PaperOfSession
  Score <- SameScore
  Late = {}
  Times = {1}
  Jobs = {run1, run2}
  Publications = {}
  MaxStalls = 1
  MaxFaults = 1
  FaultStages <- Everywhere
  MayCrash = TRUE
  None = None
PROPERTY SubmittedIsEvaluated
CHECK_DEADLOCK FALSE

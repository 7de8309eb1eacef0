SPECIFICATION Spec
CONSTANTS
  run1 = run1 run2 = run2 pub1 = pub1 pub2 = pub2
  ann = ann bob = bob ann1 = ann1 ann2 = ann2 bob1 = bob1 maths = maths physics = physics
  Sessions = {ann1, bob1}
  Students = {ann, bob}
  Papers = {maths}
  StudentOf <- StudentOfSession
  PaperOf <- PaperOfSession
  Score <- SameScore
  Late = {ann1}
  Times = {1, 2}
  Jobs = {run1, run2}
  Publications = {pub1, pub2}
  MaxStalls = 0
  MaxFaults = 1
  FaultStages <- Everywhere
  MayCrash = TRUE
  None = None
SYMMETRY Alike
INVARIANTS EvaluationIsProven RankingAgrees AuditIsTrue
CHECK_DEADLOCK FALSE

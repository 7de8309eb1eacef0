SPECIFICATION FairSpec
CONSTANTS
  Submits = {s1, s2}
  MaxAttempts = 2
  MaxStalls = 1
  FaultStages <- Torn
  None = None
INVARIANTS AcceptedIsProven ContentNotLost ReportMatchesChain
PROPERTIES ProofIsFinal SubmittedIsDecided
CHECK_DEADLOCK FALSE

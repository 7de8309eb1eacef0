SPECIFICATION FairSpec
CONSTANTS
  Questions = {1, 2, 3}
  Wanted = 1
  MaxStalls = 2
  MaxCrashes = 3
  FaultStages <- Reported
  None = None
INVARIANTS ReadyIsOpenable CompletionExplained OneDeliveryLinksThePaper
PROPERTY GenerationEnds
CHECK_DEADLOCK FALSE

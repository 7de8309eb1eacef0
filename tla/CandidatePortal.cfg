SPECIFICATION FairSpec
CONSTANTS
  maths = maths
  Papers = {maths}
  Unknown = Unknown
  Questions = 2
  MaxCalls = 2
  MaxPrompts = 1
  None = None
INVARIANTS ScreenIsEarned RefusedLeavesNoPhoto CameraIsReleased
PROPERTY PageStopsWaiting
CHECK_DEADLOCK FALSE

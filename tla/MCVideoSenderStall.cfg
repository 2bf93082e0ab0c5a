SPECIFICATION Spec
CONSTANTS
  d1 = d1
  Displays = {d1}
  MaxStream = 1
  MaxFrames = 5
  MaxEpoch = 1
  ControlCapacity = 2
  FlowWindow = 1
  RefreshCapacity = 2
  LatestKeys = FALSE
  ReliableKeyframes = TRUE
INVARIANT RecoveryHasAsked

SPECIFICATION FairSpec
CONSTANTS
  d1 = d1
  Displays = {d1}
  MaxStream = 2
  MaxFrames = 2
  MaxEpoch = 3
  ControlCapacity = 2
  FlowWindow = 1
  RefreshCapacity = 1
  LatestKeys = FALSE
  ReliableKeyframes = TRUE
INVARIANT FramesWaitForTheirSwitch
PROPERTY WriterIsReleased

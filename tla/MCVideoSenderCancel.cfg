SPECIFICATION Spec
CONSTANTS
  d1 = d1
  Displays = {d1}
  MaxStream = 1
  MaxFrames = 3
  MaxEpoch = 2
  ControlCapacity = 1
  FlowWindow = 1
  RefreshCapacity = 1
  LatestKeys = FALSE
  ReliableKeyframes = TRUE
INVARIANT BarrierOrdersMedia

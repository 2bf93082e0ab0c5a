SPECIFICATION Spec
CONSTANTS
  Displays = {1, 2}
  MaxStream = 2
  MaxFrames = 4
  MaxTime = 2
  Sessions <- AllSessions
  Sensitive = {1}
  Window = 1
  HoldTimeout = 2
  MaxHeld = 2
  MaxStreamStates = 2
  InboundCapacity = 2
  MinInterval = 1
  RetryDelay = 1
  RetryMax = 1
  Cooldown = 2
INVARIANT ReceiverIsSound
PROPERTY DeltaFollowsItsReference
PROPERTY BarrierHolds
CHECK_DEADLOCK FALSE

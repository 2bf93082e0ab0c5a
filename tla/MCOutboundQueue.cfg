SPECIFICATION FairSpec
CONSTANTS
  LatestKeys = {1}
  VideoKeys <- MCVideoKeys
  Sizes = {1, 2}
  Capacity = 3
  Generations = 3
  MaxTracks = 2
  MaxFrameBytes = 1
  MaxBytes = 2
  MaxMessages = 4
INVARIANT BarriersOrder
INVARIANT QueueIsSound
PROPERTY NothingIsForgotten

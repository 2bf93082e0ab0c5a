SPECIFICATION FairSpec
CONSTANTS
  Blocks <- MCBlocks
  Existing = {1}
  MaxVersion = 2
  MaxSessions = 3
INVARIANT PartialIsPrefix
PROPERTY TransferEnds
PROPERTY NamedFilesAreWhole
CHECK_DEADLOCK FALSE

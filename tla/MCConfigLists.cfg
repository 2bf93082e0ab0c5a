SPECIFICATION Spec
CONSTANTS
  Threads = {1, 2}
  Names = {"x", "y"}
  Phrases = {"a", "b", "long"}
  Oversized = {"long"}
  MaxItems = 1
  MaxCalls = 3
INVARIANT ClearedViewersStayCleared
CHECK_DEADLOCK FALSE

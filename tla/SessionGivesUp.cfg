\* One connection, one thing goes wrong.
CONSTANTS
  MaxSockets = 1
  MaxPairs = 3
  MaxKeys = 3
  MaxClicks = 1
  MaxTrouble = 1
  MaxNALs = 1
SPECIFICATION Spec
INVARIANTS Reconnects
CHECK_DEADLOCK FALSE

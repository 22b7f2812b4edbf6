\* A synchronisation is stale after a second; the clock runs for three.
CONSTANTS
  UnitsPerSecond = 1
  Epoch = 5
  StaleAfter = 1
  WaitTurns = 1
  LastUnit = 3
SPECIFICATION ClockSpec
PROPERTIES
  TrueMeansSynced
CHECK_DEADLOCK FALSE

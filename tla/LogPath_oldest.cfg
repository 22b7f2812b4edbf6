\* One thread logs three messages. The timer's units have overtaken the seconds
\* of the epoch when the time is set.
CONSTANTS
  w1 = w1
  w2 = w2
  Writers = {w1}
  Levels = {0}
  Info = 0
  UnitsPerSecond = 3
  Epoch = 3
  StaleAfter = 1
  WaitTurns = 1
  LastUnit = 6
  MaxRecordCount = 2
  TrimRecordCount = 1
  EntryBytes <- MCEntryBytes
  SeqWrap = 4
  MinValidEpoch = 3
  Budgets = {1}
  LastMessage = 3
SPECIFICATION Spec
PROPERTIES
  TrimRemovesOldest
CHECK_DEADLOCK FALSE

\* Two threads log four messages while the time is set; keys repeat after two
\* messages, and a key made of the uptime may equal one made of the epoch.
CONSTANTS
  w1 = w1
  w2 = w2
  Writers = {w1, w2}
  Levels = {0, 1}
  Info = 0
  UnitsPerSecond = 2
  Epoch = 1
  StaleAfter = 1
  WaitTurns = 1
  LastUnit = 1
  MaxRecordCount = 2
  TrimRecordCount = 1
  EntryBytes <- MCEntryBytes
  SeqWrap = 2
  MinValidEpoch = 1
  Budgets = {0, 1, 3}
  LastMessage = 4
SYMMETRY MCSymmetry
SPECIFICATION Spec
INVARIANTS
  TypeOK
  HeldOnce
  TakesLongestFit
  TrueMeansTimeSet
PROPERTIES
  LostForCause
  LimitKept
CHECK_DEADLOCK FALSE

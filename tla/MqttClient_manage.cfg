\* Three attempts to connect, managed and sent on by one thread.
CONSTANTS
  m1 = m1
  m2 = m2
  i1 = i1
  t1 = t1
  Attempts = 3
  WaitTurns = 2
  Outgoing = {m1}
  Incoming = {i1}
  Topics = {t1}
  OneLoop = TRUE
SPECIFICATION FairSpec
INVARIANTS
  TypeOK
  RunningIsCurrent
  FailureIsCurrent
  ConfigOutlivesHandle
  NoHandleLeaked
PROPERTIES
  ManagingReturns
\* After the last attempt nobody has to call any more.
CHECK_DEADLOCK FALSE

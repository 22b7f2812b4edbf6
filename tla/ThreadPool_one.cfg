\* One thread waits at a time; the task parameter may fail to be allocated.
CONSTANTS
  s1 = s1
  s2 = s2
  e1 = e1
  w1 = w1
  w2 = w2
  SubmitCalls = {s1, s2}
  ExecuteCalls = {e1}
  Waiters = {w1}
  AllocFailure = "null"
SPECIFICATION FairSpec
INVARIANTS
  TypeOK
  CountMatches
  NoLostWakeup
  DrainedBeforeFreed
PROPERTIES
  TrueMeansCompleted
  DrainedStaysDrained
  WaitReturns
  DestroyEnds
\* A destroyed pool does nothing any more.
CHECK_DEADLOCK FALSE

\* Two threads wait for the same pool.
CONSTANTS
  s1 = s1
  s2 = s2
  e1 = e1
  w1 = w1
  w2 = w2
  SubmitCalls = {s1}
  ExecuteCalls = {e1}
  Waiters = {w1, w2}
  AllocFailure = "never"
SPECIFICATION FairSpec
PROPERTIES
  WaitReturns
CHECK_DEADLOCK FALSE

\* Two threads wait at once, for as long as they like or two ticks a turn, and the
\* allocation of the task parameter may throw.
CONSTANTS
  s1 = s1
  e1 = e1
  w1 = w1
  w2 = w2
  SubmitCalls = {s1}
  ExecuteCalls = {e1}
  Waiters = {w1, w2}
  AllocFailure = "throws"
  Timeout = 2
SPECIFICATION TimedSpec
INVARIANTS
  LateOnlyIfJoined
PROPERTIES
  ImplementsBarrier
\* A call that is joined for ever may last for ever.
CONSTRAINT ClockBound
\* A destroyed pool does nothing any more.
CHECK_DEADLOCK FALSE

\* SendMessage() publishes while another thread disconnects.
CONSTANTS
  m1 = m1
  m2 = m2
  i1 = i1
  t1 = t1
  Attempts = 2
  WaitTurns = 2
  Outgoing = {m1}
  Incoming = {}
  Topics = {t1}
  OneLoop = FALSE
SPECIFICATION Spec
INVARIANTS
  HandleInUseIsAlive
\* After the last attempt nobody has to call any more.
CHECK_DEADLOCK FALSE

\* The application never answers a message.
CONSTANTS
  c1 = c1
  c2 = c2
  f1 = f1
  f2 = f2
  Clients = {c1}
  Fds = {f1}
  Backlog = 2
  SocketTtl = 1
  MaxAnswers = 2
  LastTick = 2
  OneLoop = {TRUE}
  TicksPerMs = 1
  ClockWrap = 16
SPECIFICATION FairSpec
PROPERTIES
  ExpiredIsClosed
\* The loops, the network and the clock may fall silent.
CHECK_DEADLOCK FALSE

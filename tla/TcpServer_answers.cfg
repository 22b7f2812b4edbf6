\* Two clients, one socket number that is used again, and either one loop or a
\* thread of its own for each of receiving, sending and control.
CONSTANTS
  c1 = c1
  c2 = c2
  f1 = f1
  f2 = f2
  Clients = {c1, c2}
  Fds = {f1}
  Backlog = 2
  SocketTtl = 1
  MaxAnswers = 2
  LastTick = 2
  OneLoop = {TRUE, FALSE}
  TicksPerMs = 1
  ClockWrap = 16
SPECIFICATION Spec
INVARIANTS
  TypeOK
  AnswerReachesAsker
  NoSocketLost
  StoppedHoldsNoSocket
PROPERTIES
  AnsweredOnce
  AvailableIsSent
\* The loops, the network and the clock may fall silent.
CHECK_DEADLOCK FALSE

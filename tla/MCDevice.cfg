\* One device that joins the hotspot, two calls of Connect(); two threads that
\* write two contents; endpoints of up to six pieces.
CONSTANTS
  s1 = s1
  c1 = c1
  c2 = c2
  x1 = x1
  x2 = x2
  Stations = {s1}
  QueueLimit = 2
  Connects = 2
  Clients = {c1, c2}
  Contents = {x1, x2}
  EndpointLength = 6
SPECIFICATION Spec
INVARIANTS
  BitMeansLink
  StatusFollowsLink
  ClientsCounted
  ActiveMeansAp
  AppendsStay
  ReplacementStays
  EndpointKept
  PortIsExplicit
PROPERTIES
  AddressIsNoticed
  ApIsNoticed
\* Where nothing is called nothing happens.
CHECK_DEADLOCK FALSE

\* Two keys, two values, lifetimes of 0, 1 and 2 ms at two ticks to the
\* millisecond, and a clock that does not wrap.
CONSTANTS
  k1 = k1
  k2 = k2
  v1 = v1
  v2 = v2
  Keys = {k1, k2}
  Values = {v1, v2}
  Ttls = {0, 1, 2}
  LastTick = 6
  TicksPerMs = 2
  ClockWrap = 64
SPECIFICATION Spec
PROPERTIES
  ActsAsTtlMap

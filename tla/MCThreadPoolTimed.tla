-------------------------- MODULE MCThreadPoolTimed --------------------------
(***************************************************************************)
(* ThreadPoolTimed on small instances.                                     *)
(***************************************************************************)
EXTENDS ThreadPoolTimed

CONSTANTS s1, e1, w1, w2

\* Submissions may keep a waiter asleep for ever; three timeouts are enough.
ClockBound == \A w \in Waiters : elapsed[w] <= 3 * Timeout
=============================================================================

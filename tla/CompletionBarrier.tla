-------------------------- MODULE CompletionBarrier --------------------------
(***************************************************************************)
(* What IThreadPool promises, whatever the platform does to keep it: work  *)
(* is accepted while the pool is open, a waiter is told "true" only at a   *)
(* moment when no accepted work is left, and "false" only if it asked for  *)
(* a timeout.                                                              *)
(***************************************************************************)
CONSTANTS Calls, Waiters

VARIABLES
  open,    \* tasks are still accepted
  live,    \* accepted and not finished
  waiter,  \* "waiting", or what the last wait returned
  timed    \* whether the wait has a timeout

vars == <<open, live, waiter, timed>>

Init ==
  /\ open = TRUE
  /\ live = {}
  /\ waiter = [w \in Waiters |-> "false"]
  /\ timed = [w \in Waiters |-> FALSE]

Accept(c) ==
  /\ open
  /\ c \notin live
  /\ live' = live \cup {c}
  /\ UNCHANGED <<open, waiter, timed>>

Finish(c) ==
  /\ c \in live
  /\ live' = live \ {c}
  /\ UNCHANGED <<open, waiter, timed>>

Close ==
  /\ open' = FALSE
  /\ UNCHANGED <<live, waiter, timed>>

StartWaiting(w) ==
  /\ waiter[w] # "waiting"
  /\ waiter' = [waiter EXCEPT ![w] = "waiting"]
  /\ \E t \in BOOLEAN : timed' = [timed EXCEPT ![w] = t]
  /\ UNCHANGED <<open, live>>

ReturnTrue(w) ==
  /\ waiter[w] = "waiting"
  /\ live = {}
  /\ waiter' = [waiter EXCEPT ![w] = "true"]
  /\ UNCHANGED <<open, live, timed>>

ReturnFalse(w) ==
  /\ waiter[w] = "waiting"
  /\ timed[w]
  /\ waiter' = [waiter EXCEPT ![w] = "false"]
  /\ UNCHANGED <<open, live, timed>>

Next ==
  \/ \E c \in Calls : Accept(c) \/ Finish(c)
  \/ Close
  \/ \E w \in Waiters : StartWaiting(w) \/ ReturnTrue(w) \/ ReturnFalse(w)

Spec == Init /\ [][Next]_vars
=============================================================================

--------------------------- MODULE ThreadPoolTimed ---------------------------
(***************************************************************************)
(* ThreadPool with a clock, to measure WaitForCompletion(timeoutMs).  The  *)
(* timeout handed to the kernel is the whole `ticks' on every turn of the  *)
(* loop, so what the kernel measures is one sleep and not the call.        *)
(***************************************************************************)
EXTENDS ThreadPool

CONSTANT Timeout  \* length of a timed wait, in ticks

ASSUME TimeoutAssumption == Timeout \in Nat \ {0}

VARIABLES
  slept,   \* length of the sleep a waiter is in
  elapsed, \* time since WaitForCompletion() was called
  joined   \* whether a task was accepted since then

clocks == <<slept, elapsed, joined>>

TimedInit ==
  /\ Init
  /\ slept = [w \in Waiters |-> 0]
  /\ elapsed = [w \in Waiters |-> 0]
  /\ joined = [w \in Waiters |-> FALSE]

Sleeping(w) == wait[w] = "take" /\ timed[w]

Waiting(w) == wait[w] \in Blocked

\* A clock runs on across a step that leaves its owner where it measures.
KeepClocks ==
  /\ slept' = [w \in Waiters |-> IF Sleeping(w) /\ Sleeping(w)' THEN slept[w] ELSE 0]
  /\ elapsed' = [w \in Waiters |->
                   IF Waiting(w) /\ Waiting(w)' THEN elapsed[w] ELSE 0]
  /\ joined' = [w \in Waiters |->
       Waiting(w) /\ Waiting(w)' /\ (joined[w] \/ InFlight' \ InFlight # {})]

TimedStep ==
  /\ Next
  /\ KeepClocks
  /\ \A w \in Waiters : TimeOut(w) => slept[w] = Timeout

\* Time passes while every timed waiter is asleep and none is due: the steps a
\* waiter takes awake are short against a tick.
Tick ==
  /\ \E w \in Waiters : Sleeping(w)
  /\ \A w \in Waiters : timed[w] /\ Waiting(w)
       => Sleeping(w) /\ ~allDone /\ slept[w] < Timeout
  /\ slept' = [w \in Waiters |-> IF Sleeping(w) THEN slept[w] + 1 ELSE slept[w]]
  /\ elapsed' = [w \in Waiters |-> IF Sleeping(w) THEN elapsed[w] + 1 ELSE elapsed[w]]
  /\ UNCHANGED <<vars, joined>>

TimedNext == TimedStep \/ Tick

TimedSpec == TimedInit /\ [][TimedNext]_<<vars, clocks>>

\* A call outlasts its timeout only if tasks were accepted while it waited: the
\* semaphore is given when the pool turns idle and not at the end of each task,
\* and a wake-up left over from an idle moment before the call costs no time.
LateOnlyIfJoined == \A w \in Waiters : elapsed[w] > Timeout => joined[w]
=============================================================================

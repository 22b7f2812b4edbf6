----------------------------- MODULE ThreadPool -----------------------------
(***************************************************************************)
(* EspidfThreadPool: one FreeRTOS task per accepted Submit() or Execute(), *)
(* a count of the tasks that have not finished, and WaitForCompletion(),   *)
(* which sleeps on a binary semaphore given when the count drops to zero.  *)
(*                                                                         *)
(* A step is a stretch of code between two points where another thread can *)
(* be observed.  runningCount is only touched under `mutex', so a section  *)
(* that holds it is one step, save where it also tests the shutdown flags: *)
(* they are written without the mutex, so every test of them is a step.    *)
(***************************************************************************)
EXTENDS Integers, FiniteSets

CONSTANTS
  SubmitCalls,  \* Submit() invocations that may be in flight, with their tasks
  ExecuteCalls, \* the same for Execute()
  Waiters,      \* threads that call WaitForCompletion() or the destructor
  AllocFailure  \* what `new' of the task parameter does when memory runs out

Calls == SubmitCalls \cup ExecuteCalls

ASSUME CallsAssumption ==
  /\ IsFiniteSet(SubmitCalls)
  /\ IsFiniteSet(ExecuteCalls)
  /\ Waiters # {}
  /\ AllocFailure \in {"never", "null", "throws"}

VARIABLES
  shutdownFlag, shutdownNowFlag,
  runningCount,
  allDone,  \* TRUE while the binary semaphore can be taken
  call,     \* phase of each invocation and of the task it creates
  wait,     \* phase of each thread in WaitForCompletion()
  timed,    \* whether that call was given a timeout
  life      \* "alive", in the destructor, or destroyed

flags == <<shutdownFlag, shutdownNowFlag>>
waits == <<wait, timed>>
vars == <<flags, runningCount, allDone, call, waits, life>>

(***************************************************************************)
(* An invocation is "checked" after the unlocked test of the flags,        *)
(* "admitted" after the second test, holding the mutex, "counted" once     *)
(* runningCount includes it, "failed" when its task could not be created   *)
(* and the count still has to be taken back.  Its task is "running", then  *)
(* "ended" until OnTaskComplete().  A "leaked" call was unwound by an      *)
(* exception after it was counted.                                         *)
(***************************************************************************)
Counted == {"counted", "failed", "running", "ended", "leaked"}
InMethod == {"checked", "admitted", "counted", "failed"}
CallPhases == {"idle", "checked", "admitted"} \cup Counted

\* "true" and "false" are the values the last call returned.
Blocked == {"check", "take", "recheck"}
WaitPhases == {"true", "false"} \cup Blocked

IsShutdown == shutdownFlag \/ shutdownNowFlag

InFlight == {c \in Calls : call[c] \in Counted}

Admitted == {c \in Calls : call[c] = "admitted"}

MutexFree == Admitted = {}

Init ==
  /\ shutdownFlag = FALSE /\ shutdownNowFlag = FALSE
  /\ runningCount = 0
  /\ allDone = FALSE
  /\ call = [c \in Calls |-> "idle"]
  /\ wait = [w \in Waiters |-> "false"]
  /\ timed = [w \in Waiters |-> FALSE]
  /\ life = "alive"

Step(c, from, to) ==
  /\ call[c] = from
  /\ call' = [call EXCEPT ![c] = to]

WaitStep(w, from, to) ==
  /\ wait[w] = from
  /\ wait' = [wait EXCEPT ![w] = to]

\* The semaphore is given at the end of every task (a faulty GiveIfIdle).
GiveAlways == allDone' = TRUE

\* The semaphore is binary: giving it when it is already available is lost.
GiveIfIdle == allDone' = (allDone \/ runningCount' = 0)

Usable == life \in {"alive", "closing", "draining"}

-----------------------------------------------------------------------------
(***************************************************************************)
(* Faulty variants of the definitions below, one per plausible slip.  Each *)
(* is substituted for the original to show that a property depends on it.  *)
(***************************************************************************)

\* The flags are not tested again once the mutex is held.
AdmitNoRecheck(c) ==
  /\ MutexFree
  /\ Step(c, "checked", "admitted")
  /\ UNCHANGED <<flags, runningCount, allDone, waits, life>>

\* The count is read without the mutex.
CheckIdleUnlocked(w) ==
  /\ \/ runningCount = 0 /\ WaitStep(w, "check", "true")
     \/ runningCount # 0 /\ WaitStep(w, "check", "take")
  /\ UNCHANGED <<flags, runningCount, allDone, call, timed, life>>

\* The failure path returns without taking the count back.
RollBackForgotten(c) ==
  /\ MutexFree
  /\ Step(c, "failed", "idle")
  /\ UNCHANGED <<flags, runningCount, allDone, waits, life>>

\* The failure path takes the count back but wakes nobody.
RollBackSilent(c) ==
  /\ MutexFree
  /\ Step(c, "failed", "idle")
  /\ runningCount' = runningCount - 1
  /\ UNCHANGED <<flags, allDone, waits, life>>

\* The task is counted down when its body starts rather than when it ends.
TaskEndsCountedDown(c) ==
  /\ MutexFree
  /\ Step(c, "running", "ended")
  /\ runningCount' = runningCount - 1
  /\ GiveIfIdle
  /\ UNCHANGED <<flags, waits, life>>

\* The end of a task is counted but announced to nobody.
OnTaskCompleteSilent(c) ==
  /\ Usable /\ MutexFree
  /\ Step(c, "ended", "idle")
  /\ runningCount' = IF runningCount > 0 THEN runningCount - 1 ELSE 0
  /\ UNCHANGED <<flags, allDone, waits, life>>

\* The destructor shuts down but does not wait.
EndDestroyEager ==
  /\ life = "draining"
  /\ life' = "drained"
  /\ UNCHANGED <<flags, runningCount, allDone, call, waits>>

-----------------------------------------------------------------------------
(***************************************************************************)
(* Submit() and Execute().  They differ in their arguments only, and in    *)
(* the copy Submit() makes before it takes the mutex.  A call that is      *)
(* turned away by the first test, or whose copy fails, changes nothing.    *)
(***************************************************************************)

Enter(c) ==
  /\ life = "alive"
  /\ ~IsShutdown
  /\ Step(c, "idle", "checked")
  /\ UNCHANGED <<flags, runningCount, allDone, waits, life>>

Admit(c) ==
  /\ MutexFree
  /\ \/ IsShutdown  /\ Step(c, "checked", "idle")
     \/ ~IsShutdown /\ Step(c, "checked", "admitted")
  /\ UNCHANGED <<flags, runningCount, allDone, waits, life>>

CountCall(c) ==
  /\ Step(c, "admitted", "counted")
  /\ runningCount' = runningCount + 1
  /\ UNCHANGED <<flags, allDone, waits, life>>

\* `if (!p)' is reached only where `new' returns null; where exceptions are
\* enabled it throws and the call is unwound with runningCount incremented.
AllocationFails(c) ==
  /\ \/ AllocFailure = "null"   /\ Step(c, "counted", "failed")
     \/ AllocFailure = "throws" /\ Step(c, "counted", "leaked")
  /\ UNCHANGED <<flags, runningCount, allDone, waits, life>>

CreateTask(c) ==
  /\ \/ Step(c, "counted", "running")
     \/ Step(c, "counted", "failed")
  /\ UNCHANGED <<flags, runningCount, allDone, waits, life>>

RollBack(c) ==
  /\ MutexFree
  /\ Step(c, "failed", "idle")
  /\ runningCount' = runningCount - 1
  /\ GiveIfIdle
  /\ UNCHANGED <<flags, waits, life>>

(***************************************************************************)
(* The task: the body returns or throws, and both lead to the same end.    *)
(* Once the pool is destroyed the task has nothing left to report to, and  *)
(* the code's behaviour is undefined: the model stops there.               *)
(***************************************************************************)

TaskEnds(c) ==
  /\ Step(c, "running", "ended")
  /\ UNCHANGED <<flags, runningCount, allDone, waits, life>>

OnTaskComplete(c) ==
  /\ Usable /\ MutexFree
  /\ Step(c, "ended", "idle")
  /\ runningCount' = IF runningCount > 0 THEN runningCount - 1 ELSE 0
  /\ GiveIfIdle
  /\ UNCHANGED <<flags, waits, life>>

Accept(c) ==
  Admit(c) \/ CountCall(c) \/ AllocationFails(c) \/ CreateTask(c) \/ RollBack(c)

Submit(c) == c \in SubmitCalls /\ (Enter(c) \/ Accept(c))

Execute(c) == c \in ExecuteCalls /\ (Enter(c) \/ Accept(c))

Trampoline(c) == TaskEnds(c) \/ OnTaskComplete(c)

-----------------------------------------------------------------------------
Shutdown ==
  /\ life = "alive"
  /\ shutdownFlag' = TRUE
  /\ UNCHANGED <<shutdownNowFlag, runningCount, allDone, call, waits, life>>

\* The two writes are one step: every reader tests the disjunction, which the
\* first write settles.
ShutdownNow ==
  /\ life = "alive"
  /\ shutdownNowFlag' = TRUE
  /\ shutdownFlag' = TRUE
  /\ UNCHANGED <<runningCount, allDone, call, waits, life>>

-----------------------------------------------------------------------------
(***************************************************************************)
(* WaitForCompletion().  A timeout may strike at any moment the semaphore  *)
(* is not available; ThreadPoolTimed measures how long that takes.         *)
(***************************************************************************)

BeginWait(w) ==
  /\ life = "alive"
  /\ wait[w] \notin Blocked
  /\ wait' = [wait EXCEPT ![w] = "check"]
  /\ \E t \in BOOLEAN : timed' = [timed EXCEPT ![w] = t]
  /\ UNCHANGED <<flags, runningCount, allDone, call, life>>

CheckIdle(w) ==
  /\ MutexFree
  /\ \/ runningCount = 0 /\ WaitStep(w, "check", "true")
     \/ runningCount # 0 /\ WaitStep(w, "check", "take")
  /\ UNCHANGED <<flags, runningCount, allDone, call, timed, life>>

TakeAllDone(w) ==
  /\ allDone
  /\ WaitStep(w, "take", "recheck")
  /\ allDone' = FALSE
  /\ UNCHANGED <<flags, runningCount, call, timed, life>>

TimeOut(w) ==
  /\ timed[w] /\ ~allDone
  /\ WaitStep(w, "take", "false")
  /\ UNCHANGED <<flags, runningCount, allDone, call, timed, life>>

Recheck(w) ==
  /\ MutexFree
  /\ \/ runningCount = 0 /\ WaitStep(w, "recheck", "true")
     \/ runningCount # 0 /\ WaitStep(w, "recheck", "check")
  /\ UNCHANGED <<flags, runningCount, allDone, call, timed, life>>

WaitForCompletion(w) ==
  CheckIdle(w) \/ TakeAllDone(w) \/ TimeOut(w) \/ Recheck(w)

-----------------------------------------------------------------------------
(***************************************************************************)
(* The destructor.  The owner does not destroy the pool while a method of  *)
(* it is on some thread's stack; tasks may well be running.  It drains the *)
(* pool only when nobody shut it down before.                              *)
(***************************************************************************)

BeginDestroy ==
  /\ life = "alive"
  /\ \A c \in Calls : call[c] \notin InMethod
  /\ \A w \in Waiters : wait[w] \notin Blocked
  /\ IF IsShutdown
     THEN life' = "dropped" /\ UNCHANGED shutdownFlag
     ELSE life' = "closing" /\ shutdownFlag' = TRUE
  /\ UNCHANGED <<shutdownNowFlag, runningCount, allDone, call, waits>>

DestroyWaits(w) ==
  /\ life = "closing"
  /\ life' = "draining"
  /\ wait' = [wait EXCEPT ![w] = "check"]
  /\ timed' = [timed EXCEPT ![w] = FALSE]
  /\ UNCHANGED <<flags, runningCount, allDone, call>>

EndDestroy ==
  /\ life = "draining"
  /\ \A w \in Waiters : wait[w] \notin Blocked
  /\ life' = "drained"
  /\ UNCHANGED <<flags, runningCount, allDone, call, waits>>

Destroy == BeginDestroy \/ (\E w \in Waiters : DestroyWaits(w)) \/ EndDestroy

-----------------------------------------------------------------------------
Next ==
  \/ \E c \in Calls : Submit(c) \/ Execute(c) \/ Trampoline(c)
  \/ Shutdown \/ ShutdownNow
  \/ \E w \in Waiters : BeginWait(w) \/ WaitForCompletion(w)
  \/ Destroy

(***************************************************************************)
(* An invocation under way and a task whose body returns make progress, a  *)
(* thread that waits is scheduled when it can run, and so is the thread in *)
(* the destructor: all pool tasks share one priority and FreeRTOS slices   *)
(* time between equals.  Nobody is obliged to call anything.               *)
(***************************************************************************)
Fairness ==
  /\ \A c \in Calls : WF_vars(Accept(c)) /\ WF_vars(Trampoline(c))
  /\ \A w \in Waiters : WF_vars(WaitForCompletion(w))
  /\ WF_vars(\E w \in Waiters : DestroyWaits(w))
  /\ WF_vars(EndDestroy)

Spec == Init /\ [][Next]_vars

FairSpec == Spec /\ Fairness

-----------------------------------------------------------------------------
(***************************************************************************)
(* Properties.                                                             *)
(***************************************************************************)

\* Every variable stays in the range its C++ type and use give it.
TypeOK ==
  /\ shutdownFlag \in BOOLEAN /\ shutdownNowFlag \in BOOLEAN
  /\ runningCount \in Nat
  /\ allDone \in BOOLEAN
  /\ call \in [Calls -> CallPhases]
  /\ wait \in [Waiters -> WaitPhases]
  /\ timed \in [Waiters -> BOOLEAN]
  /\ life \in {"alive", "closing", "draining", "drained", "dropped"}

\* runningCount counts exactly the calls that were counted and not yet taken
\* back, over every error path of Submit() and Execute() and however tasks
\* end; `++' and `--' in seven places have to pair up.
CountMatches == runningCount = Cardinality(InFlight)

\* A call is pending from its admission to the moment its count is taken back.
Pending == InFlight \cup Admitted

\* WaitForCompletion() returns true only at a moment when no admitted task is
\* unfinished ("true if all tasks completed").
TrueMeansCompleted ==
  [][\A w \in Waiters :
       wait[w] \in Blocked /\ wait'[w] = "true" => Pending = {}]_vars

\* Once a shut-down pool is empty it stays empty: a Submit() that passed the
\* first test of the flags before Shutdown() is not accepted after a waiter
\* has seen the pool idle.
DrainedStaysDrained ==
  [][IsShutdown /\ Pending = {} => Pending' = {}]_vars

\* No wake-up is lost: whoever is about to sleep on allDone, or sleeps on it,
\* while nothing runs finds the semaphore available.  It needs that no two
\* threads wait at once.
NoLostWakeup ==
  \A w \in Waiters : wait[w] = "take" /\ InFlight = {} => allDone

\* A pool whose destructor drained it is gone only after its last task reported
\* its end: no task outlives the semaphores it will use.
DrainedBeforeFreed == life = "drained" => InFlight = {}

\* A call of WaitForCompletion() under way in a pool that was shut down returns.
WaitReturns ==
  \A w \in Waiters :
    (wait[w] \in Blocked /\ IsShutdown) ~> wait[w] \notin Blocked

\* The destructor, once it has begun, ends.
DestroyEnds == (life = "closing") ~> (life = "drained")

-----------------------------------------------------------------------------
(***************************************************************************)
(* The pool implements the interface's promise: a call is live while it is *)
(* pending.                                                                *)
(***************************************************************************)
Barrier == INSTANCE CompletionBarrier WITH
  open   <- ~IsShutdown,
  live   <- Pending,
  waiter <- [w \in Waiters |-> IF wait[w] \in Blocked THEN "waiting" ELSE wait[w]]

\* Every step of the pool is a step of the barrier or invisible in it.
ImplementsBarrier == Barrier!Spec
=============================================================================

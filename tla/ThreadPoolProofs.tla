--------------------------- MODULE ThreadPoolProofs ---------------------------
(***************************************************************************)
(* What ThreadPool does for any number of calls and waiters, and           *)
(* ThreadPoolTimed for any timeout.                                        *)
(*                                                                         *)
(* Two facts carry the rest.  runningCount is the cardinality of InFlight: *)
(* it makes "the count is zero" mean "no task is unfinished".  And at most *)
(* one call is between its second test of the flags and its increment,     *)
(* which holds the mutex.                                                  *)
(***************************************************************************)
EXTENDS ThreadPoolTimed, FiniteSetTheorems, TLAPS

-----------------------------------------------------------------------------
(***************************************************************************)
(* How a call's step changes the set of calls in flight.                   *)
(***************************************************************************)

\* The calls are finitely many, and so are those in flight: they have a number.
LEMMA InFlightFinite ==
  /\ IsFiniteSet(InFlight)
  /\ Cardinality(InFlight) \in Nat
<1>1. IsFiniteSet(Calls)
  BY CallsAssumption, FS_Union DEF Calls
<1>2. InFlight \subseteq Calls
  BY DEF InFlight
<1> QED
  BY <1>1, <1>2, FS_Subset, FS_CardinalityType

\* A call that enters the counted phases adds one to the calls in flight.
LEMMA Joins ==
  ASSUME call \in [Calls -> CallPhases], NEW c \in Calls, NEW from, NEW to,
         from \notin Counted, to \in Counted, Step(c, from, to)
  PROVE  Cardinality(InFlight') = Cardinality(InFlight) + 1
<1>1. InFlight' = InFlight \cup {c} /\ c \notin InFlight
  BY DEF Step, InFlight
<1> QED
  BY <1>1, InFlightFinite, FS_AddElement

\* A call that leaves them takes one away.
LEMMA Leaves ==
  ASSUME call \in [Calls -> CallPhases], NEW c \in Calls, NEW from, NEW to,
         from \in Counted, to \notin Counted, Step(c, from, to)
  PROVE  /\ Cardinality(InFlight') = Cardinality(InFlight) - 1
         /\ Cardinality(InFlight) > 0
<1>1. InFlight' = InFlight \ {c} /\ c \in InFlight
  BY DEF Step, InFlight
<1>2. Cardinality(InFlight') = Cardinality(InFlight) - 1
  BY <1>1, InFlightFinite, FS_RemoveElement
<1>3. InFlight # {}
  BY <1>1
<1> QED
  BY <1>2, <1>3, InFlightFinite, FS_EmptySet

\* A call that moves within the counted phases, or outside them, changes nothing.
LEMMA Stays ==
  ASSUME call \in [Calls -> CallPhases], NEW c \in Calls, NEW from, NEW to,
         from \in Counted <=> to \in Counted, Step(c, from, to)
  PROVE  InFlight' = InFlight
BY DEF Step, InFlight

\* The count of a set of calls is zero exactly when no call is in it.
LEMMA CountZero ==
  ASSUME CountMatches
  PROVE  runningCount = 0 <=> InFlight = {}
BY InFlightFinite, FS_EmptySet DEF CountMatches

-----------------------------------------------------------------------------
(***************************************************************************)
(* The types and the count are inductive only together: that runningCount  *)
(* does not go below zero is because it counts something.                  *)
(***************************************************************************)

Inv == TypeOK /\ CountMatches

LEMMA InvInit == Init => Inv
<1> SUFFICES ASSUME Init PROVE Inv
  OBVIOUS
<1>1. TypeOK
  BY DEF Init, TypeOK, CallPhases, WaitPhases
<1>2. InFlight = {}
  BY DEF Init, InFlight, Counted
<1> QED
  BY <1>1, <1>2, CountZero, FS_EmptySet DEF Init, Inv, CountMatches

LEMMA InvStep == Inv /\ [Next]_vars => Inv'
<1> SUFFICES ASSUME Inv, [Next]_vars PROVE Inv'
  OBVIOUS
<1> USE DEF Inv
<1>1. ASSUME NEW c \in Calls, Enter(c) \/ Admit(c) PROVE Inv'
  <2>1. TypeOK'
    BY <1>1 DEF Enter, Admit, Step, TypeOK, CallPhases, flags, waits
  <2>2. InFlight' = InFlight
    BY <1>1, Stays DEF Enter, Admit, TypeOK, Counted
  <2> QED
    BY <1>1, <2>1, <2>2 DEF Enter, Admit, CountMatches
<1>2. ASSUME NEW c \in Calls, CountCall(c) PROVE Inv'
  <2>1. TypeOK'
    BY <1>2 DEF CountCall, Step, TypeOK, CallPhases, Counted, flags, waits
  <2>2. Cardinality(InFlight') = Cardinality(InFlight) + 1
    BY <1>2, Joins DEF CountCall, TypeOK, Counted
  <2> QED
    BY <1>2, <2>1, <2>2 DEF CountCall, CountMatches
<1>3. ASSUME NEW c \in Calls, AllocationFails(c) \/ CreateTask(c) \/ TaskEnds(c)
      PROVE  Inv'
  <2>1. TypeOK'
    BY <1>3 DEF AllocationFails, CreateTask, TaskEnds, Step, TypeOK, CallPhases,
                Counted, flags, waits
  <2>2. InFlight' = InFlight
    BY <1>3, Stays DEF AllocationFails, CreateTask, TaskEnds, TypeOK, Counted
  <2> QED
    BY <1>3, <2>1, <2>2 DEF AllocationFails, CreateTask, TaskEnds, CountMatches
<1>4. ASSUME NEW c \in Calls, RollBack(c) \/ OnTaskComplete(c) PROVE Inv'
  <2>1. /\ Cardinality(InFlight') = Cardinality(InFlight) - 1
        /\ Cardinality(InFlight) > 0
    BY <1>4, Leaves DEF RollBack, OnTaskComplete, TypeOK, Counted
  <2>2. runningCount > 0 /\ runningCount' = runningCount - 1
    BY <1>4, <2>1, InFlightFinite DEF RollBack, OnTaskComplete, CountMatches
  <2>3. allDone' \in BOOLEAN
    BY <1>4 DEF RollBack, OnTaskComplete, GiveIfIdle
  <2>4. TypeOK'
    BY <1>4, <2>2, <2>3 DEF RollBack, OnTaskComplete, Step, TypeOK, CallPhases,
                            Counted, flags, waits
  <2> QED
    BY <2>1, <2>2, <2>4 DEF CountMatches
<1>5. ASSUME NEW w \in Waiters, BeginWait(w) \/ WaitForCompletion(w) \/ DestroyWaits(w)
      PROVE  Inv'
  <2>1. TypeOK'
    BY <1>5 DEF BeginWait, WaitForCompletion, CheckIdle, TakeAllDone, TimeOut, Recheck,
                DestroyWaits, WaitStep, TypeOK, WaitPhases, Blocked, flags
  <2>2. UNCHANGED <<runningCount, call>>
    BY <1>5 DEF BeginWait, WaitForCompletion, CheckIdle, TakeAllDone, TimeOut, Recheck,
                DestroyWaits
  <2> QED
    BY <2>1, <2>2 DEF CountMatches, InFlight
<1>6. ASSUME Shutdown \/ ShutdownNow \/ BeginDestroy \/ EndDestroy PROVE Inv'
  <2>1. TypeOK'
    BY <1>6 DEF Shutdown, ShutdownNow, BeginDestroy, EndDestroy, TypeOK, flags, waits
  <2>2. UNCHANGED <<runningCount, call>>
    BY <1>6 DEF Shutdown, ShutdownNow, BeginDestroy, EndDestroy
  <2> QED
    BY <2>1, <2>2 DEF CountMatches, InFlight
<1>7. CASE UNCHANGED vars
  BY <1>7 DEF vars, flags, waits, TypeOK, CountMatches, InFlight
<1> QED
  BY <1>1, <1>2, <1>3, <1>4, <1>5, <1>6, <1>7
  DEF Next, Submit, Execute, Accept, Trampoline, Destroy

LEMMA InvAlways == Spec => []Inv
BY InvInit, InvStep, PTL DEF Spec

\* Every variable keeps its type; in particular runningCount, which the code
\* holds in an unsigned Size and decrements unguarded where a task could not be
\* created, never falls below zero.
THEOREM TypeCorrect == Spec => []TypeOK
BY InvAlways, PTL DEF Inv

\* runningCount is the number of calls in flight, over every path of Submit(),
\* Execute() and the trampolines.
THEOREM CountIsExact == Spec => []CountMatches
BY InvAlways, PTL DEF Inv

-----------------------------------------------------------------------------
(***************************************************************************)
(* What a waiter is told.                                                  *)
(***************************************************************************)

\* A waiter reads a count of zero under the mutex: no call is in flight, and
\* none is about to be counted.
LEMMA IdleMeansCompleted ==
  ASSUME CountMatches, MutexFree, runningCount = 0
  PROVE  Pending = {}
BY CountZero DEF Pending, MutexFree

\* The steps that answer a waiter "true" are the two tests of the count.
LEMMA TrueStep ==
  ASSUME Inv, [Next]_vars, NEW w \in Waiters, wait[w] \in Blocked, wait'[w] = "true"
  PROVE  MutexFree /\ runningCount = 0
<1>1. wait' # wait
  BY DEF Blocked
<1>2. Next
  BY <1>1 DEF vars, waits
<1>3. PICK v \in Waiters : BeginWait(v) \/ WaitForCompletion(v) \/ DestroyWaits(v)
  BY <1>1, <1>2
  DEF Next, Submit, Execute, Trampoline, Enter, Accept, Admit, CountCall, AllocationFails,
      CreateTask, RollBack, TaskEnds, OnTaskComplete, Shutdown, ShutdownNow, Destroy,
      BeginDestroy, EndDestroy, waits
<1>4. CheckIdle(v) \/ Recheck(v)
  BY <1>3 DEF BeginWait, WaitForCompletion, TakeAllDone, TimeOut, DestroyWaits, WaitStep,
              Inv, TypeOK, Blocked
<1>5. \/ wait'[v] = "true" /\ runningCount = 0
     \/ wait'[v] \in Blocked
  BY <1>4 DEF CheckIdle, Recheck, WaitStep, Inv, TypeOK, Blocked
<1>6. v = w
  BY <1>4 DEF CheckIdle, Recheck, WaitStep, Inv, TypeOK, Blocked
<1> QED
  BY <1>4, <1>5, <1>6 DEF CheckIdle, Recheck, Blocked

\* WaitForCompletion() is truthful for any number of calls and of waiters.
THEOREM TrueIsTruthful == Spec => TrueMeansCompleted
<1>1. ASSUME Inv, [Next]_vars
      PROVE  [\A w \in Waiters :
                wait[w] \in Blocked /\ wait'[w] = "true" => Pending = {}]_vars
  <2> SUFFICES ASSUME NEW w \in Waiters, wait[w] \in Blocked, wait'[w] = "true"
               PROVE  Pending = {}
    OBVIOUS
  <2> QED
    BY <1>1, TrueStep, IdleMeansCompleted DEF Inv
<1> QED
  BY <1>1, InvAlways, PTL DEF Spec, TrueMeansCompleted

-----------------------------------------------------------------------------
(***************************************************************************)
(* Shutdown is final.                                                      *)
(***************************************************************************)

\* Only Admit() makes a call pending, and it tests the flags.
LEMMA PendingGrows ==
  ASSUME Inv, [Next]_vars, IsShutdown
  PROVE  Pending' \subseteq Pending
<1> USE DEF Pending, InFlight, Admitted
<1>1. ASSUME NEW c \in Calls,
             Enter(c) \/ Accept(c) \/ Trampoline(c)
      PROVE  Pending' \subseteq Pending
  BY <1>1 DEF Enter, Accept, Trampoline, Admit, CountCall, AllocationFails, CreateTask,
              RollBack, TaskEnds, OnTaskComplete, Step, Inv, TypeOK, Counted
<1>2. ASSUME UNCHANGED call PROVE Pending' \subseteq Pending
  BY <1>2
<1>3. ASSUME NEW w \in Waiters, BeginWait(w) \/ WaitForCompletion(w) \/ DestroyWaits(w)
      PROVE  UNCHANGED call
  BY <1>3 DEF BeginWait, WaitForCompletion, CheckIdle, TakeAllDone, TimeOut, Recheck,
              DestroyWaits
<1>4. ASSUME Shutdown \/ ShutdownNow \/ BeginDestroy \/ EndDestroy \/ UNCHANGED vars
      PROVE  UNCHANGED call
  BY <1>4 DEF Shutdown, ShutdownNow, BeginDestroy, EndDestroy, vars
<1> QED
  BY <1>1, <1>2, <1>3, <1>4 DEF Next, Submit, Execute, Destroy

\* A shut-down pool that is empty stays empty: with the theorem above, the first
\* "true" after Shutdown() is final.
THEOREM ShutdownIsFinal == Spec => DrainedStaysDrained
<1>1. ASSUME Inv, [Next]_vars
      PROVE  [IsShutdown /\ Pending = {} => Pending' = {}]_vars
  BY <1>1, PendingGrows
<1> QED
  BY <1>1, InvAlways, PTL DEF Spec, DrainedStaysDrained

-----------------------------------------------------------------------------
(***************************************************************************)
(* The wake-up.                                                            *)
(***************************************************************************)

\* The steps of a call that empty the pool give the semaphore; the others that
\* change the set of calls in flight leave it as it was or add to it.
LEMMA EmptyingGives ==
  ASSUME Inv, Inv', NEW c \in Calls, Enter(c) \/ Accept(c) \/ Trampoline(c), InFlight' = {}
  PROVE  allDone' \/ (InFlight = {} /\ UNCHANGED allDone)
<1>1. CASE RollBack(c) \/ OnTaskComplete(c)
  <2>1. runningCount' = 0
    BY InFlightFinite, FS_EmptySet DEF Inv, CountMatches
  <2> QED
    BY <1>1, <2>1 DEF RollBack, OnTaskComplete, GiveIfIdle
<1>2. CASE Enter(c) \/ Admit(c) \/ CountCall(c) \/ AllocationFails(c) \/ CreateTask(c)
           \/ TaskEnds(c)
  BY <1>2 DEF Enter, Admit, CountCall, AllocationFails, CreateTask, TaskEnds, Step,
              InFlight, Counted, Inv, TypeOK
<1> QED
  BY <1>1, <1>2 DEF Accept, Trampoline

\* With one waiting thread no wake-up is lost: the semaphore is binary, so it
\* can stand for one pending wake-up and no more.
THEOREM OneWaiterIsWoken ==
  ASSUME \A v, w \in Waiters : v = w
  PROVE  Spec => []NoLostWakeup
<1>1. Init => NoLostWakeup
  BY DEF Init, NoLostWakeup
<1>2. ASSUME Inv, Inv', NoLostWakeup, [Next]_vars PROVE NoLostWakeup'
  <2> SUFFICES ASSUME NEW w \in Waiters, wait'[w] = "take", InFlight' = {}
               PROVE  allDone'
    BY DEF NoLostWakeup
  <2>1. ASSUME NEW c \in Calls, Enter(c) \/ Accept(c) \/ Trampoline(c) PROVE allDone'
    <3>1. UNCHANGED wait
      BY <2>1 DEF Enter, Accept, Trampoline, Admit, CountCall, AllocationFails, CreateTask,
                  RollBack, TaskEnds, OnTaskComplete, waits
    <3> QED
      BY <1>2, <2>1, <3>1, EmptyingGives DEF NoLostWakeup
  <2>2. ASSUME NEW v \in Waiters, BeginWait(v) \/ WaitForCompletion(v) \/ DestroyWaits(v)
        PROVE  allDone'
    <3>1. v = w
      OBVIOUS
    <3>2. CheckIdle(w) /\ runningCount # 0
      BY <1>2, <2>2, <3>1 DEF BeginWait, WaitForCompletion, CheckIdle, TakeAllDone, TimeOut,
                              Recheck, DestroyWaits, WaitStep, Inv, TypeOK
    <3>3. InFlight # {} /\ UNCHANGED call
      BY <1>2, <3>2, CountZero DEF Inv, CheckIdle
    <3> QED
      BY <3>3 DEF InFlight
  <2>3. ASSUME Shutdown \/ ShutdownNow \/ BeginDestroy \/ EndDestroy \/ UNCHANGED vars
        PROVE  allDone'
    BY <1>2, <2>3 DEF Shutdown, ShutdownNow, BeginDestroy, EndDestroy, vars, waits,
                      NoLostWakeup, InFlight
  <2> QED
    BY <1>2, <2>1, <2>2, <2>3 DEF Next, Submit, Execute, Destroy
<1> QED
  BY <1>1, <1>2, InvAlways, PTL DEF Spec

-----------------------------------------------------------------------------
(***************************************************************************)
(* The destructor.                                                         *)
(***************************************************************************)

\* Once destruction has begun nobody is inside Submit() or Execute(), nobody
\* but the destructor waits, without a timeout, and while it no longer waits no
\* call is in flight.
DestroyInv ==
  /\ life # "alive" => \A c \in Calls : call[c] \notin InMethod
  /\ life = "closing" => \A w \in Waiters : wait[w] \notin Blocked
  /\ life = "draining" =>
       /\ \A w \in Waiters : wait[w] \in Blocked => ~timed[w]
       /\ InFlight = {} \/ \E w \in Waiters : wait[w] \in Blocked
  /\ DrainedBeforeFreed

LEMMA DestroyInvStep == Inv /\ DestroyInv /\ [Next]_vars => DestroyInv'
<1> SUFFICES ASSUME Inv, DestroyInv, [Next]_vars PROVE DestroyInv'
  OBVIOUS
<1> USE DEF DestroyInv, DrainedBeforeFreed
<1>1. ASSUME NEW c \in Calls, Enter(c) \/ Accept(c) \/ Trampoline(c) PROVE DestroyInv'
  <2>1. UNCHANGED <<wait, timed, life>>
    BY <1>1 DEF Enter, Accept, Trampoline, Admit, CountCall, AllocationFails, CreateTask,
                RollBack, TaskEnds, OnTaskComplete, waits
  <2>2. life # "alive" => Trampoline(c)
    BY <1>1 DEF Enter, Accept, Admit, CountCall, AllocationFails, CreateTask, RollBack, Step,
                InMethod
  <2>3. life # "alive" => InFlight' \subseteq InFlight
    BY <2>2 DEF Trampoline, TaskEnds, OnTaskComplete, Step, InFlight, Counted, Inv, TypeOK
  <2>4. life # "alive" => \A d \in Calls : call'[d] \notin InMethod
    BY <2>2 DEF Trampoline, TaskEnds, OnTaskComplete, Step, InMethod, Inv, TypeOK
  <2> QED
    BY <2>1, <2>3, <2>4
<1>2. ASSUME NEW w \in Waiters, BeginWait(w) PROVE DestroyInv'
  BY <1>2 DEF BeginWait
<1>3. ASSUME NEW w \in Waiters, WaitForCompletion(w) PROVE DestroyInv'
  <2>1. UNCHANGED <<call, timed, life>> /\ UNCHANGED InFlight
    BY <1>3 DEF WaitForCompletion, CheckIdle, TakeAllDone, TimeOut, Recheck, InFlight
  <2>2. wait[w] \in Blocked
    BY <1>3 DEF WaitForCompletion, CheckIdle, TakeAllDone, TimeOut, Recheck, WaitStep, Blocked
  <2>3. /\ \A v \in Waiters : v # w => wait'[v] = wait[v]
        /\ wait'[w] \in Blocked \/ timed[w] \/ runningCount = 0
    BY <1>3 DEF WaitForCompletion, CheckIdle, TakeAllDone, TimeOut, Recheck, WaitStep, Blocked,
                Inv, TypeOK
  <2>4. wait'[w] \in Blocked \/ timed[w] \/ InFlight = {}
    BY <2>3, CountZero DEF Inv
  <2> QED
    BY <2>1, <2>2, <2>3, <2>4
<1>4. CASE BeginDestroy
  BY <1>4 DEF BeginDestroy, InFlight, waits
<1>5. ASSUME NEW w \in Waiters, DestroyWaits(w) PROVE DestroyInv'
  <2>1. wait'[w] = "check" /\ ~timed'[w] /\ \A v \in Waiters : v # w => wait'[v] = wait[v]
    BY <1>5 DEF DestroyWaits, Inv, TypeOK
  <2> QED
    BY <1>5, <2>1 DEF DestroyWaits, Blocked, InFlight
<1>6. CASE EndDestroy
  BY <1>6 DEF EndDestroy, InFlight
<1>7. CASE Shutdown \/ ShutdownNow \/ UNCHANGED vars
  BY <1>7 DEF Shutdown, ShutdownNow, vars, waits, InFlight
<1> QED
  BY <1>1, <1>2, <1>3, <1>4, <1>5, <1>6, <1>7 DEF Next, Submit, Execute, Destroy

LEMMA DestroyInvAlways == Spec => []DestroyInv
<1>1. Init => DestroyInv
  BY DEF Init, DestroyInv, DrainedBeforeFreed
<1> QED
  BY <1>1, DestroyInvStep, InvAlways, PTL DEF Spec

\* The destructor that drains the pool deletes the semaphores after the last
\* task has reported its end.
THEOREM DrainedIsEmpty == Spec => []DrainedBeforeFreed
BY DestroyInvAlways, PTL DEF DestroyInv

-----------------------------------------------------------------------------
(***************************************************************************)
(* The pool implements the barrier.                                        *)
(***************************************************************************)

\* What the barrier sees of a waiter.
Seen == [w \in Waiters |-> IF wait[w] \in Blocked THEN "waiting" ELSE wait[w]]

\* A step of a call is Accept, Finish or invisible.
LEMMA CallRefines ==
  ASSUME Inv, NEW c \in Calls, Enter(c) \/ Accept(c) \/ Trampoline(c)
  PROVE  Barrier!Next \/ UNCHANGED Barrier!vars
<1>1. UNCHANGED <<flags, waits>>
  BY DEF Enter, Accept, Trampoline, Admit, CountCall, AllocationFails, CreateTask,
              RollBack, TaskEnds, OnTaskComplete, flags, waits
<1>2. UNCHANGED <<IsShutdown, Seen, timed>>
  BY <1>1 DEF flags, waits, IsShutdown, Seen
<1>3. \/ UNCHANGED Pending
      \/ ~IsShutdown /\ c \notin Pending /\ Pending' = Pending \cup {c}
      \/ c \in Pending /\ Pending' = Pending \ {c}
  BY DEF Enter, Accept, Trampoline, Admit, CountCall, AllocationFails, CreateTask,
         RollBack, TaskEnds, OnTaskComplete, Step, Pending, Admitted, InFlight, Counted,
         Inv, TypeOK
<1> QED
  BY <1>2, <1>3 DEF Barrier!Next, Barrier!Accept, Barrier!Finish, Barrier!vars, Seen

\* A step of a waiter starts a wait, returns, or is invisible.
LEMMA WaiterRefines ==
  ASSUME Inv, NEW w \in Waiters, BeginWait(w) \/ WaitForCompletion(w)
  PROVE  Barrier!Next \/ UNCHANGED Barrier!vars
<1>1. UNCHANGED <<flags, call>>
  BY DEF BeginWait, WaitForCompletion, CheckIdle, TakeAllDone, TimeOut, Recheck, flags
<1>2. UNCHANGED <<IsShutdown, Pending>>
  BY <1>1 DEF flags, IsShutdown, Pending, InFlight, Admitted
<1>3. CASE BeginWait(w)
  <2>1. Seen[w] # "waiting" /\ Seen' = [Seen EXCEPT ![w] = "waiting"]
    BY <1>3 DEF BeginWait, Seen, Inv, TypeOK, WaitPhases, Blocked
  <2>2. \E t \in BOOLEAN : timed' = [timed EXCEPT ![w] = t]
    BY <1>3 DEF BeginWait
  <2> QED
    BY <1>2, <2>1, <2>2 DEF Barrier!Next, Barrier!StartWaiting, Seen
<1>4. CASE WaitForCompletion(w)
  <2>1. UNCHANGED timed
    BY <1>4 DEF WaitForCompletion, CheckIdle, TakeAllDone, TimeOut, Recheck
  <2>2. \/ UNCHANGED Seen
        \/ /\ Seen[w] = "waiting" /\ Seen' = [Seen EXCEPT ![w] = "true"]
           /\ MutexFree /\ runningCount = 0
        \/ /\ Seen[w] = "waiting" /\ Seen' = [Seen EXCEPT ![w] = "false"]
           /\ timed[w]
    BY <1>4 DEF WaitForCompletion, CheckIdle, TakeAllDone, TimeOut, Recheck, WaitStep, Seen,
                Inv, TypeOK, WaitPhases, Blocked
  <2>3. MutexFree /\ runningCount = 0 => Pending = {}
    BY IdleMeansCompleted DEF Inv
  <2> QED
    BY <1>2, <2>1, <2>2, <2>3
    DEF Barrier!Next, Barrier!ReturnTrue, Barrier!ReturnFalse, Barrier!vars, Seen
<1> QED
  BY <1>3, <1>4

\* The initial states map to initial states and every step to a step or a stutter:
\* the whole pool keeps the interface's promise of safety.
THEOREM PoolIsBarrier == Spec => ImplementsBarrier
<1>1. Init => Barrier!Init
  BY DEF Init, Barrier!Init, IsShutdown, Pending, InFlight, Admitted, Counted, Blocked
<1>2. ASSUME Inv, DestroyInv, [Next]_vars PROVE [Barrier!Next]_(Barrier!vars)
  <2>1. ASSUME NEW c \in Calls, Enter(c) \/ Accept(c) \/ Trampoline(c)
        PROVE  [Barrier!Next]_(Barrier!vars)
    BY <1>2, <2>1, CallRefines
  <2>2. ASSUME NEW w \in Waiters, BeginWait(w) \/ WaitForCompletion(w)
        PROVE  [Barrier!Next]_(Barrier!vars)
    BY <1>2, <2>2, WaiterRefines
  <2>3. ASSUME NEW w \in Waiters, DestroyWaits(w) PROVE [Barrier!Next]_(Barrier!vars)
    <3>1. /\ UNCHANGED <<IsShutdown, Pending>>
          /\ timed' = [timed EXCEPT ![w] = FALSE]
          /\ wait' = [wait EXCEPT ![w] = "check"]
      BY <2>3 DEF DestroyWaits, flags, IsShutdown, Pending, InFlight, Admitted
    <3>2. Seen' = [Seen EXCEPT ![w] = "waiting"]
      BY <1>2, <3>1 DEF Seen, Inv, TypeOK, WaitPhases, Blocked
    <3>3. Seen[w] # "waiting"
      BY <1>2, <2>3 DEF DestroyWaits, DestroyInv, Seen, Inv, TypeOK, WaitPhases, Blocked
    <3> QED
      BY <3>1, <3>2, <3>3 DEF Barrier!Next, Barrier!StartWaiting, Seen
  <2>4. CASE Shutdown \/ ShutdownNow
    BY <2>4 DEF Shutdown, ShutdownNow, Barrier!Next, Barrier!Close, IsShutdown, Pending,
                InFlight, Admitted, waits
  <2>5. CASE BeginDestroy
    BY <2>5 DEF BeginDestroy, Barrier!Next, Barrier!Close, Barrier!vars, IsShutdown, Pending,
                InFlight, Admitted, waits
  <2>6. CASE EndDestroy \/ UNCHANGED vars
    BY <2>6 DEF EndDestroy, vars, flags, Barrier!vars, IsShutdown, Pending, InFlight, Admitted,
                waits
  <2> QED
    BY <1>2, <2>1, <2>2, <2>3, <2>4, <2>5, <2>6 DEF Next, Submit, Execute, Destroy
<1> QED
  BY <1>1, <1>2, InvAlways, DestroyInvAlways, PTL DEF Spec, ImplementsBarrier, Barrier!Spec

-----------------------------------------------------------------------------
(***************************************************************************)
(* How long WaitForCompletion() takes.                                     *)
(*                                                                         *)
(* A waiter's sleep is bounded by the kernel and its call is not, so the   *)
(* argument is that a call of which no task was accepted sleeps only once: *)
(* a token it finds after time has passed was given when the pool turned   *)
(* idle, and then the pool has stayed idle.                                *)
(***************************************************************************)

ClockTypes ==
  /\ slept \in [Waiters -> Nat]
  /\ elapsed \in [Waiters -> Nat]
  /\ joined \in [Waiters -> BOOLEAN]

\* Only a timed wait is measured.
Measured(w) == elapsed[w] > 0 => Waiting(w) /\ timed[w]

\* A call that no task was accepted during is in its first sleep, or woken by a
\* pool that is idle.
FirstSleep(w) ==
  ~joined[w] =>
    /\ elapsed[w] <= Timeout
    /\ Sleeping(w) => slept[w] = elapsed[w]
    /\ elapsed[w] > 0 => \/ wait[w] = "take" /\ (allDone => InFlight = {})
                         \/ wait[w] = "recheck" /\ InFlight = {}

TimedInv == ClockTypes /\ \A w \in Waiters : Measured(w) /\ FirstSleep(w)

-----------------------------------------------------------------------------
(***************************************************************************)
(* What a step of the pool can do to a waiter and to the semaphore.        *)
(***************************************************************************)

\* The semaphore is given only when the pool turns idle.
LEMMA GivenWhenIdle ==
  ASSUME Inv, [Next]_vars, allDone'
  PROVE  allDone \/ InFlight' = {}
<1>1. Inv'
  BY InvStep
<1>2. ASSUME runningCount' = 0 PROVE InFlight' = {}
  <2>1. CountMatches'
    BY <1>1 DEF Inv
  <2>2. IsFiniteSet(InFlight)'
    BY InFlightFinite, PTL
  <2> QED
    BY <1>2, <2>1, <2>2, FS_EmptySet DEF CountMatches
<1>3. ASSUME NEW c \in Calls, RollBack(c) \/ OnTaskComplete(c) PROVE allDone \/ runningCount' = 0
  BY <1>3 DEF RollBack, OnTaskComplete, GiveIfIdle
<1>4. ASSUME NEW c \in Calls,
             Enter(c) \/ Admit(c) \/ CountCall(c) \/ AllocationFails(c) \/ CreateTask(c)
               \/ TaskEnds(c)
      PROVE  allDone
  BY <1>4 DEF Enter, Admit, CountCall, AllocationFails, CreateTask, TaskEnds
<1>5. ASSUME NEW w \in Waiters, BeginWait(w) \/ WaitForCompletion(w) \/ DestroyWaits(w)
      PROVE  allDone
  BY <1>5 DEF BeginWait, WaitForCompletion, CheckIdle, TakeAllDone, TimeOut, Recheck,
              DestroyWaits
<1>6. ASSUME Shutdown \/ ShutdownNow \/ BeginDestroy \/ EndDestroy \/ UNCHANGED vars PROVE allDone
  BY <1>6 DEF Shutdown, ShutdownNow, BeginDestroy, EndDestroy, vars
<1> QED
  BY <1>2, <1>3, <1>4, <1>5, <1>6
  DEF Next, Submit, Execute, Accept, Trampoline, Destroy

\* A waiter that is in WaitForCompletion() before and after a step has gone to
\* the next line of the loop, or nowhere.
LEMMA TurnOfLoop ==
  ASSUME Inv, DestroyInv, [Next]_vars, NEW w \in Waiters, Waiting(w), Waiting(w)'
  PROVE  /\ timed'[w] = timed[w]
         /\ \/ wait'[w] = wait[w]
            \/ wait[w] = "check" /\ wait'[w] = "take"
            \/ wait[w] = "take" /\ wait'[w] = "recheck" /\ allDone
            \/ wait[w] = "recheck" /\ wait'[w] = "check" /\ runningCount # 0
<1>1. wait \in [Waiters -> WaitPhases] /\ timed \in [Waiters -> BOOLEAN]
  BY DEF Inv, TypeOK
<1>2. ASSUME NEW c \in Calls, Enter(c) \/ Accept(c) \/ Trampoline(c) PROVE UNCHANGED waits
  BY <1>2 DEF Enter, Accept, Trampoline, Admit, CountCall, AllocationFails, CreateTask,
              RollBack, TaskEnds, OnTaskComplete
<1>3. ASSUME NEW v \in Waiters, BeginWait(v) \/ DestroyWaits(v)
      PROVE  wait'[w] = wait[w] /\ timed'[w] = timed[w]
  <2>1. v # w
    BY <1>3 DEF BeginWait, DestroyWaits, DestroyInv, Waiting
  <2> QED
    BY <1>1, <1>3, <2>1 DEF BeginWait, DestroyWaits
<1>4. ASSUME NEW v \in Waiters, WaitForCompletion(v), v # w
      PROVE  wait'[w] = wait[w] /\ timed'[w] = timed[w]
  BY <1>1, <1>4 DEF WaitForCompletion, CheckIdle, TakeAllDone, TimeOut, Recheck, WaitStep
<1>5. ASSUME WaitForCompletion(w)
      PROVE  /\ timed'[w] = timed[w]
             /\ \/ wait[w] = "check" /\ wait'[w] = "take"
                \/ wait[w] = "take" /\ wait'[w] = "recheck" /\ allDone
                \/ wait[w] = "recheck" /\ wait'[w] = "check" /\ runningCount # 0
  BY <1>1, <1>5
  DEF WaitForCompletion, CheckIdle, TakeAllDone, TimeOut, Recheck, WaitStep, Waiting, Blocked
<1>6. ASSUME Shutdown \/ ShutdownNow \/ BeginDestroy \/ EndDestroy \/ UNCHANGED vars
      PROVE  UNCHANGED waits
  BY <1>6 DEF Shutdown, ShutdownNow, BeginDestroy, EndDestroy, vars, waits
<1> QED
  BY <1>2, <1>3, <1>4, <1>5, <1>6
  DEF Next, Submit, Execute, Destroy, waits

-----------------------------------------------------------------------------
(***************************************************************************)
(* The invariant.                                                          *)
(***************************************************************************)

LEMMA TimedStarts == ASSUME TimedInit PROVE TimedInv
BY TimeoutAssumption
DEF TimedInit, Init, TimedInv, ClockTypes, Measured, FirstSleep, Sleeping

\* The clocks run on, or are set to zero.
LEMMA KeepClocksGives ==
  ASSUME ClockTypes, KeepClocks
  PROVE  ClockTypes'
BY DEF ClockTypes, KeepClocks, Waiting, Sleeping

LEMMA StepKeepsMeasured ==
  ASSUME Inv, DestroyInv, TimedInv, TimedStep, NEW w \in Waiters
  PROVE  Measured(w)'
<1>1. [Next]_vars /\ KeepClocks
  BY DEF TimedStep
<1>2. elapsed'[w] = IF Waiting(w) /\ Waiting(w)' THEN elapsed[w] ELSE 0
  BY <1>1 DEF KeepClocks
<1>3. CASE Waiting(w) /\ Waiting(w)'
  <2>1. timed'[w] = timed[w]
    BY <1>1, <1>3, TurnOfLoop
  <2> QED
    BY <1>2, <1>3, <2>1 DEF TimedInv, Measured
<1>4. CASE ~(Waiting(w) /\ Waiting(w)')
  BY <1>2, <1>4 DEF Measured
<1> QED
  BY <1>3, <1>4

LEMMA StepKeepsFirstSleep ==
  ASSUME Inv, DestroyInv, TimedInv, TimedStep, NEW w \in Waiters
  PROVE  FirstSleep(w)'
<1> SUFFICES ASSUME ~joined'[w]
             PROVE  /\ elapsed'[w] <= Timeout
                    /\ Sleeping(w)' => slept'[w] = elapsed'[w]
                    /\ elapsed'[w] > 0 =>
                         \/ wait'[w] = "take" /\ (allDone' => InFlight' = {})
                         \/ wait'[w] = "recheck" /\ InFlight' = {}
  BY DEF FirstSleep
<1>1. [Next]_vars /\ KeepClocks
  BY DEF TimedStep
<1>2. /\ slept'[w] = IF Sleeping(w) /\ Sleeping(w)' THEN slept[w] ELSE 0
      /\ elapsed'[w] = IF Waiting(w) /\ Waiting(w)' THEN elapsed[w] ELSE 0
      /\ joined'[w] = (Waiting(w) /\ Waiting(w)' /\ (joined[w] \/ InFlight' \ InFlight # {}))
  BY <1>1 DEF KeepClocks
<1>3. slept[w] \in Nat /\ elapsed[w] \in Nat /\ Timeout \in Nat
  BY TimeoutAssumption DEF TimedInv, ClockTypes
<1>4. CASE ~(Waiting(w) /\ Waiting(w)')
  <2>1. elapsed'[w] = 0
    BY <1>2, <1>4
  <2>2. slept'[w] = 0
    BY <1>2, <1>4 DEF Sleeping, Waiting, Blocked
  <2> QED
    BY <1>3, <2>1, <2>2
<1>5. CASE Waiting(w) /\ Waiting(w)'
  <2>1. /\ elapsed'[w] = elapsed[w] /\ ~joined[w] /\ InFlight' \subseteq InFlight
    BY <1>2, <1>5
  <2>2. /\ elapsed[w] <= Timeout
        /\ Sleeping(w) => slept[w] = elapsed[w]
        /\ elapsed[w] > 0 => \/ wait[w] = "take" /\ (allDone => InFlight = {})
                             \/ wait[w] = "recheck" /\ InFlight = {}
    BY <2>1 DEF TimedInv, FirstSleep
  <2>3. /\ timed'[w] = timed[w]
        /\ \/ wait'[w] = wait[w]
           \/ wait[w] = "check" /\ wait'[w] = "take"
           \/ wait[w] = "take" /\ wait'[w] = "recheck" /\ allDone
           \/ wait[w] = "recheck" /\ wait'[w] = "check" /\ runningCount # 0
    BY <1>1, <1>5, TurnOfLoop
  <2>4. allDone' => allDone \/ InFlight' = {}
    BY <1>1, GivenWhenIdle
  <2>5. runningCount # 0 => InFlight # {}
    BY CountZero DEF Inv
  <2>6. elapsed[w] > 0 => \/ wait'[w] = "take" /\ (allDone' => InFlight' = {})
                          \/ wait'[w] = "recheck" /\ InFlight' = {}
    BY <2>1, <2>2, <2>3, <2>4, <2>5
  <2>7. Sleeping(w)' => slept'[w] = elapsed[w]
    <3>1. CASE Sleeping(w)
      BY <1>2, <2>2, <3>1
    <3>2. CASE ~Sleeping(w) /\ Sleeping(w)'
      <4>1. wait[w] = "check"
        BY <2>3, <3>2 DEF Sleeping
      <4>2. ~(elapsed[w] > 0)
        BY <2>2, <4>1
      <4> QED
        BY <1>2, <1>3, <3>2, <4>2
    <3> QED
      BY <3>1, <3>2
  <2> QED
    BY <2>1, <2>2, <2>6, <2>7
<1> QED
  BY <1>4, <1>5

\* Time passes for a waiter that sleeps, and not beyond the end of its sleep.
LEMMA TickKeeps ==
  ASSUME TimedInv, Tick
  PROVE  TimedInv'
<1>1. ClockTypes'
  BY DEF Tick, TimedInv, ClockTypes
<1>2. ASSUME NEW w \in Waiters PROVE Measured(w)' /\ FirstSleep(w)'
  <2>1. UNCHANGED <<wait, timed, allDone, call>> /\ joined'[w] = joined[w]
    BY DEF Tick, vars, waits
  <2>2. /\ Waiting(w)' <=> Waiting(w)
        /\ Sleeping(w)' <=> Sleeping(w)
        /\ InFlight' = InFlight
    BY <2>1 DEF Waiting, Sleeping, InFlight
  <2>3. slept[w] \in Nat /\ elapsed[w] \in Nat /\ Timeout \in Nat
    BY TimeoutAssumption DEF TimedInv, ClockTypes
  <2>4. CASE Sleeping(w)
    <3>1. slept'[w] = slept[w] + 1 /\ elapsed'[w] = elapsed[w] + 1
      BY <2>4 DEF Tick
    <3>2. wait[w] = "take" /\ timed[w] /\ Waiting(w)
      BY <2>4 DEF Sleeping, Waiting, Blocked
    <3>3. ~allDone /\ slept[w] < Timeout
      BY <3>2 DEF Tick
    <3>4. Measured(w)'
      BY <2>1, <2>2, <3>2 DEF Measured
    <3>5. ~joined[w] => slept[w] = elapsed[w]
      BY <2>4 DEF TimedInv, FirstSleep
    <3>6. ~joined[w] => elapsed'[w] <= Timeout /\ slept'[w] = elapsed'[w]
      BY <2>3, <3>1, <3>3, <3>5
    <3> QED
      BY <2>1, <3>2, <3>3, <3>4, <3>6 DEF FirstSleep
  <2>5. CASE ~Sleeping(w)
    <3>1. elapsed'[w] = elapsed[w] /\ slept'[w] = slept[w]
      BY <2>5 DEF Tick
    <3> QED
      BY <2>1, <2>2, <3>1 DEF TimedInv, Measured, FirstSleep
  <2> QED
    BY <2>4, <2>5
<1> QED
  BY <1>1, <1>2 DEF TimedInv

LEMMA TimedInvSteps ==
  ASSUME Inv, DestroyInv, TimedInv, [TimedNext]_<<vars, clocks>>
  PROVE  TimedInv'
<1>1. CASE TimedStep
  <2>1. ClockTypes'
    BY <1>1, KeepClocksGives DEF TimedStep, TimedInv
  <2> QED
    BY <1>1, <2>1, StepKeepsMeasured, StepKeepsFirstSleep DEF TimedInv
<1>2. CASE Tick
  BY <1>2, TickKeeps
<1>3. CASE UNCHANGED <<vars, clocks>>
  <2>1. UNCHANGED <<slept, elapsed, joined, wait, timed, allDone, call>>
    BY <1>3 DEF vars, waits, clocks
  <2>2. UNCHANGED InFlight
    BY <2>1 DEF InFlight
  <2> QED
    BY <2>1, <2>2 DEF TimedInv, ClockTypes, Measured, FirstSleep, Waiting, Sleeping
<1> QED
  BY <1>1, <1>2, <1>3 DEF TimedNext

\* A timed pool is a pool: what is proved of ThreadPool holds of it.
LEMMA TimedImplementsPool == TimedSpec => Spec
<1>1. TimedInit => Init
  BY DEF TimedInit
<1>2. [TimedNext]_<<vars, clocks>> => [Next]_vars
  BY DEF TimedNext, TimedStep, Tick
<1> QED
  BY <1>1, <1>2, PTL DEF TimedSpec, Spec

\* A call of WaitForCompletion() outlasts its timeout only if a task was accepted
\* while it waited: its second sleep of the whole timeout (244) needs a wake-up
\* with tasks unfinished, and the semaphore is given for an idle pool only.
THEOREM NeverLateAlone == TimedSpec => []LateOnlyIfJoined
<1>1. TimedInit => TimedInv
  BY TimedStarts
<1>2. Inv /\ DestroyInv /\ TimedInv /\ [TimedNext]_<<vars, clocks>> => TimedInv'
  BY TimedInvSteps
<1>3. TimedSpec => [](Inv /\ DestroyInv)
  BY TimedImplementsPool, InvAlways, DestroyInvAlways, PTL
<1>4. TimedInv => LateOnlyIfJoined
  <2> SUFFICES ASSUME TimedInv, NEW w \in Waiters, elapsed[w] > Timeout PROVE joined[w]
    BY DEF LateOnlyIfJoined
  <2>1. elapsed[w] \in Nat /\ Timeout \in Nat
    BY TimeoutAssumption DEF TimedInv, ClockTypes
  <2> QED
    BY <2>1 DEF TimedInv, FirstSleep
<1> QED
  BY <1>1, <1>2, <1>3, <1>4, PTL DEF TimedSpec

\* The barrier that the interface describes is what the timed pool implements.
THEOREM TimedPoolIsBarrier == TimedSpec => ImplementsBarrier
BY TimedImplementsPool, PoolIsBarrier, PTL
=============================================================================

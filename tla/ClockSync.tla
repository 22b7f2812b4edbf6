------------------------------ MODULE ClockSync ------------------------------
(***************************************************************************)
(* EspidfClockSynchronizer: one thread calls SyncIfNeeded() and polls      *)
(* lastSyncTime while the SNTP client's task, when a server answers, sets  *)
(* the system time and runs TimeSyncCallback().                            *)
(*                                                                         *)
(* uptime counts units since boot, UnitsPerSecond of them to a second.     *)
(* Until it is set the system time is the seconds since boot; then it is   *)
(* ahead of that by Epoch.  A warm restart may find it set.  A turn of the *)
(* polling loop takes no time: it is short against StaleAfter.             *)
(***************************************************************************)
EXTENDS Integers

CONSTANTS
  UnitsPerSecond,
  Epoch,      \* the system time, once set, of the moment of boot
  StaleAfter, \* seconds a synchronisation is good for
  WaitTurns,  \* turns of the polling loop before it times out
  LastUnit    \* bound: the run of time that is looked at

ASSUME ClockSyncAssumption ==
  /\ {UnitsPerSecond, Epoch, StaleAfter} \subseteq Nat \ {0}
  /\ {WaitTurns, LastUnit} \subseteq Nat

VARIABLES
  uptime,       \* esp_timer_get_time()
  timeSet,      \* the system time has been set
  lastSyncTime, \* 0 until the first synchronisation
  sntp,         \* the SNTP client polls servers
  answered,     \* a server answered and TimeSyncCallback() is still to run
  sync,         \* where the caller is in SyncIfNeeded(), or what it returned
  elapsed,      \* turns of the polling loop
  synced        \* history: TimeSyncCallback() has run since the call began

clock == <<uptime, timeSet, lastSyncTime, sntp, answered, sync, elapsed, synced>>

Returned == {"none", "true", "false"}

ClockTypeOK ==
  /\ uptime \in 0 .. LastUnit
  /\ {timeSet, sntp, answered, synced} \subseteq BOOLEAN
  /\ lastSyncTime \in Nat
  /\ sync \in Returned \cup {"stop", "start", "poll", "answer"}
  /\ elapsed \in 0 .. WaitTurns

ClockInit ==
  /\ uptime = 0
  /\ timeSet \in BOOLEAN
  /\ lastSyncTime = 0
  /\ sntp = FALSE /\ answered = FALSE
  /\ sync = "none" /\ elapsed = 0 /\ synced = FALSE

Seconds == uptime \div UnitsPerSecond

\* What time() returns.
SystemTime == IF timeSet THEN Epoch + Seconds ELSE Seconds

\* The caller of SyncIfNeeded() goes from one place to the next.
SyncMoves(from, to) ==
  /\ sync = from
  /\ sync' = to
  /\ UNCHANGED <<uptime, timeSet, lastSyncTime, answered>>

-----------------------------------------------------------------------------
\* Faulty variants, each substituted for its original to show that a property
\* depends on it.

\* That there never was a synchronisation is not looked at.
SyncedRecentlyAtBoot == SystemTime - lastSyncTime < StaleAfter

\* The polling loop runs once too often.
PollTurnLate ==
  /\ lastSyncTime = 0 /\ elapsed <= WaitTurns
  /\ SyncMoves("poll", "poll")
  /\ elapsed' = elapsed + 1
  /\ UNCHANGED <<sntp, synced>>

-----------------------------------------------------------------------------
(***************************************************************************)
(* Time and the SNTP client's task.                                        *)
(***************************************************************************)

TimePasses ==
  /\ uptime < LastUnit
  /\ uptime' = uptime + 1
  /\ UNCHANGED <<timeSet, lastSyncTime, sntp, answered, sync, elapsed, synced>>

ServerAnswers ==
  /\ sntp /\ ~answered
  /\ timeSet' = TRUE
  /\ answered' = TRUE
  /\ UNCHANGED <<uptime, lastSyncTime, sntp, sync, elapsed, synced>>

TimeSyncCallback ==
  /\ answered
  /\ lastSyncTime' = SystemTime
  /\ answered' = FALSE
  /\ synced' = TRUE
  /\ UNCHANGED <<uptime, timeSet, sntp, sync, elapsed>>

-----------------------------------------------------------------------------
(***************************************************************************)
(* SyncIfNeeded().                                                         *)
(***************************************************************************)

SyncedRecently == lastSyncTime # 0 /\ SystemTime - lastSyncTime < StaleAfter

SyncIfNeeded ==
  /\ sync \in Returned
  /\ SyncMoves(sync, IF SyncedRecently THEN "true" ELSE "stop")
  /\ synced' = FALSE
  /\ UNCHANGED <<sntp, elapsed>>

StopSntp ==
  /\ SyncMoves("stop", "start")
  /\ sntp' = FALSE
  /\ UNCHANGED <<elapsed, synced>>

StartSntp ==
  /\ SyncMoves("start", "poll")
  /\ sntp' = TRUE
  /\ elapsed' = 0
  /\ UNCHANGED synced

PollTurn ==
  /\ lastSyncTime = 0 /\ elapsed < WaitTurns
  /\ SyncMoves("poll", "poll")
  /\ elapsed' = elapsed + 1
  /\ UNCHANGED <<sntp, synced>>

PollEnds ==
  /\ lastSyncTime # 0 \/ elapsed >= WaitTurns
  /\ SyncMoves("poll", "answer")
  /\ UNCHANGED <<sntp, elapsed, synced>>

\* The field is read once more: an answer after the last turn still counts.
ReturnSync ==
  /\ SyncMoves("answer", IF lastSyncTime # 0 THEN "true" ELSE "false")
  /\ UNCHANGED <<sntp, elapsed, synced>>

SyncContinues == StopSntp \/ StartSntp \/ PollTurn \/ PollEnds \/ ReturnSync

ClockNext ==
  \/ TimePasses \/ ServerAnswers \/ TimeSyncCallback
  \/ SyncIfNeeded \/ SyncContinues

\* A caller that polls is scheduled, and time does not stand still.
ClockFairness == WF_clock(SyncContinues) /\ WF_clock(TimePasses)

ClockSpec == ClockInit /\ [][ClockNext]_clock /\ ClockFairness

-----------------------------------------------------------------------------
\* A caller that is told "true" has a valid system time, although the flag it
\* polled is written by another task and is never reset (35, 59, 66).
TrueMeansTimeSet == sync = "true" => timeSet

\* What the interface says of "true" (01-IClockSynchronizer.h:12): the
\* synchronisation succeeded, or was skipped because of a recent one.
TrueMeansSynced ==
  [][sync # "true" /\ sync' = "true" => synced \/ SyncedRecently]_clock
=============================================================================

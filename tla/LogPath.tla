------------------------------- MODULE LogPath -------------------------------
(***************************************************************************)
(* The way of a log message: Logger filters it by its level,               *)
(* EspidfLogSink makes a key of the time and of a sequence counter,        *)
(* EspidfLogBuffer keeps it until an uploader takes it.                    *)
(*                                                                         *)
(* The scale of the key depends on whether the clock synchronizer has set  *)
(* the time.  The sequence counter is a static variable without a lock: it *)
(* is loaded and stored in two steps.  The uploader, which is not part of  *)
(* the repository, takes a batch, publishes it, and puts it back with      *)
(* AddLogs() when that fails.                                              *)
(*                                                                         *)
(* A message is the number of the key that was made for it.                *)
(***************************************************************************)
EXTENDS ClockSync, LogBuffer

CONSTANTS
  Writers,       \* threads that log
  Levels,        \* LogLevel, as numbers
  Info,          \* the level in force at first
  SeqWrap,       \* the sequence counter enters the key modulo this
  MinValidEpoch, \* kMinValidEpoch
  Budgets,       \* byte and record limits the uploader asks for
  LastMessage    \* bound: messages logged

ASSUME LogPathAssumption ==
  /\ Levels \subseteq Int /\ Info \in Levels
  /\ SeqWrap \in Nat \ {0}
  /\ MinValidEpoch \in (LastUnit \div UnitsPerSecond) + 1 .. Epoch
  /\ Budgets \subseteq Nat
  /\ LastMessage \in Nat
  /\ \A message \in 1 .. LastMessage : EntryBytes(message) \in Nat \ {0}

VARIABLES
  currentLogLevel,
  seqPerSec,
  made,   \* keys made so far
  raced,  \* two threads have used the counter at once
  writer, \* where each thread is in WriteLog()
  logs,   \* logs_
  batch   \* what the uploader has taken

path == <<currentLogLevel, seqPerSec, made, raced, writer, logs, batch>>
vars == <<clock, path>>

Idle == [at |-> "idle"]

Messages == 1 .. LastMessage

Places == {"began", "keyed", "adding"}

TypeOK ==
  /\ ClockTypeOK
  /\ currentLogLevel \in Levels
  /\ seqPerSec \in 0 .. LastMessage /\ made \in 0 .. LastMessage
  /\ raced \in BOOLEAN
  /\ \A w \in Writers : writer[w] = Idle \/ writer[w].at \in Places
  /\ DOMAIN logs \cup DOMAIN batch \subseteq Nat
  /\ Range(logs) \cup Range(batch) \subseteq Messages

Init ==
  /\ ClockInit
  /\ currentLogLevel = Info
  /\ seqPerSec = 0 /\ made = 0 /\ raced = FALSE
  /\ writer = [w \in Writers |-> Idle]
  /\ logs = NoLogs /\ batch = NoLogs

Moves(w, from, to) ==
  /\ writer[w].at = from
  /\ writer' = [writer EXCEPT ![w] = to]
  /\ UNCHANGED clock

-----------------------------------------------------------------------------
\* Faulty variants, each substituted for its original to show that a property
\* depends on it.

\* The sequence counter is not advanced.
StoreSeqSame(w) ==
  /\ Moves(w, "keyed", [writer[w] EXCEPT !.at = "adding"])
  /\ UNCHANGED <<currentLogLevel, seqPerSec, made, raced, logs, batch>>

\* A batch that is taken stays in the buffer.
TakeCopies(keys) ==
  /\ batch = NoLogs
  /\ batch' = Restrict(logs, keys)
  /\ UNCHANGED <<clock, currentLogLevel, seqPerSec, made, raced, writer, logs>>

-----------------------------------------------------------------------------
(***************************************************************************)
(* Logger and EspidfLogSink.                                               *)
(***************************************************************************)

SetLogLevel(level) ==
  /\ currentLogLevel' = level
  /\ UNCHANGED <<clock, seqPerSec, made, raced, writer, logs, batch>>

ShouldLog(level) == level >= currentLogLevel

\* The message passes the filter and the sink reads the time.
Log(w, level) ==
  /\ ShouldLog(level)
  /\ Moves(w, "idle", [at |-> "began", now |-> SystemTime])
  /\ UNCHANGED <<currentLogLevel, seqPerSec, made, raced, logs, batch>>

TimeValid(now) == now >= MinValidEpoch

Key(now) ==
  (IF TimeValid(now) THEN now ELSE uptime) * SeqWrap + (seqPerSec % SeqWrap)

LoadSeq(w) ==
  /\ made < LastMessage
  /\ made' = made + 1
  /\ raced' = (raced \/ \E v \in Writers : writer[v].at = "keyed")
  /\ Moves(w, "began", [at |-> "keyed", key |-> Key(writer[w].now),
                        seq |-> seqPerSec, message |-> made'])
  /\ UNCHANGED <<currentLogLevel, seqPerSec, logs, batch>>

StoreSeq(w) ==
  /\ Moves(w, "keyed", [writer[w] EXCEPT !.at = "adding"])
  /\ seqPerSec' = writer[w].seq + 1
  /\ UNCHANGED <<currentLogLevel, made, raced, logs, batch>>

AddLog(w) ==
  /\ Moves(w, "adding", Idle)
  /\ logs' = AddLogs(logs, OneLog(writer[w].key, writer[w].message))
  /\ UNCHANGED <<currentLogLevel, seqPerSec, made, raced, batch>>

WriteLog(w) == LoadSeq(w) \/ StoreSeq(w) \/ AddLog(w)

-----------------------------------------------------------------------------
(***************************************************************************)
(* The uploader.                                                           *)
(***************************************************************************)

Take(keys) ==
  /\ batch = NoLogs
  /\ batch' = Restrict(logs, keys)
  /\ logs' = Without(logs, keys)
  /\ UNCHANGED <<clock, currentLogLevel, seqPerSec, made, raced, writer>>

TakeLogs == Take(DOMAIN logs)

TakeLogsAtMost(maxCount) == Take(First(logs, maxCount))

TakeLogsByApproxBytes(maxBytes) == Take(WithinBytes(logs, maxBytes))

Published ==
  /\ batch # NoLogs /\ batch' = NoLogs
  /\ UNCHANGED <<clock, currentLogLevel, seqPerSec, made, raced, writer, logs>>

PublishFails ==
  /\ batch # NoLogs /\ batch' = NoLogs
  /\ logs' = AddLogs(logs, batch)
  /\ UNCHANGED <<clock, currentLogLevel, seqPerSec, made, raced, writer>>

-----------------------------------------------------------------------------
Next ==
  \/ ClockNext /\ UNCHANGED path
  \/ \E level \in Levels : SetLogLevel(level)
  \/ \E w \in Writers :
       \/ \E level \in Levels : Log(w, level)
       \/ WriteLog(w)
  \/ TakeLogs
  \/ \E n \in Budgets : TakeLogsAtMost(n) \/ TakeLogsByApproxBytes(n)
  \/ Published \/ PublishFails

Spec == Init /\ [][Next]_vars /\ ClockFairness

-----------------------------------------------------------------------------
\* What a step adds to the buffer, before it trims.
Added ==
  CASE PublishFails -> batch
    [] \E w \in Writers : AddLog(w) ->
         LET w == CHOOSE v \in Writers : AddLog(v)
         IN OneLog(writer[w].key, writer[w].message)
    [] OTHER -> NoLogs

\* A record leaves the buffer untaken only because the buffer was over its
\* limit or because a record with the same key came; and unless two threads
\* have used the counter at once, at least SeqWrap messages lie between two
\* with the same key, whatever the clock did in between (AddLog, 43, 45).
LostForCause ==
  [][\A k \in DOMAIN logs :
       \/ k \in DOMAIN logs' /\ logs'[k] = logs[k]
       \/ k \in DOMAIN batch' /\ batch'[k] = logs[k]
       \/ Added # NoLogs /\ Size(Merge(logs, Added)) > MaxRecordCount
       \/ /\ k \in DOMAIN Added
          /\ \/ raced
             \/ Added[k] - logs[k] >= SeqWrap
             \/ logs[k] - Added[k] >= SeqWrap]_vars

\* The buffer grows over its limit only when a batch of more records than a
\* trim removes is put back; otherwise an oversized buffer shrinks with every
\* addition (18-23, 41).
LimitKept ==
  [][\/ Size(logs') <= MaxRecordCount
     \/ Size(logs') <= Size(logs)
     \/ Size(batch) > TrimRecordCount]_vars

\* No message is held twice, by the buffer, the uploader, or the two (44-81).
HeldOnce ==
  /\ IsInjective(logs) /\ IsInjective(batch)
  /\ Range(logs) \cap Range(batch) = {}

Bytes(m, keys) == MapThenSumSet(LAMBDA k : EntryBytes(m[k]), keys)

LongestFit(m, maxBytes) ==
  {k \in DOMAIN m :
     LET upTo == {j \in DOMAIN m : j <= k}
     IN maxBytes > 0 /\ (upTo = {k} \/ Bytes(m, upTo) <= maxBytes)}

\* A batch taken by size is the longest that fits, and never empty while there
\* is something to take and a budget (63-81).
TakesLongestFit ==
  \A n \in Budgets : WithinBytes(logs, n) = LongestFit(logs, n)

\* What the comment at TrimIfOverCapacity() (16) says: the oldest records go.
TrimRemovesOldest ==
  [][Added # NoLogs =>
       \A k \in Trimmed(Merge(logs, Added)) : \A j \in DOMAIN logs' :
         Merge(logs, Added)[k] < logs'[j]]_vars
=============================================================================

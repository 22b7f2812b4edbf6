------------------------------ MODULE LogBuffer ------------------------------
(***************************************************************************)
(* What the methods of EspidfLogBuffer compute.  The buffer is a function  *)
(* from keys, which are numbers, to messages; std::map keeps it in the     *)
(* order of the keys.  Each method holds the mutex throughout.             *)
(***************************************************************************)
EXTENDS Integers, FiniteSets, FiniteSetsExt, Folds, Functions

CONSTANTS
  MaxRecordCount,  \* kMaxRecordCount
  TrimRecordCount, \* kTrimRecordCount
  EntryBytes(_)    \* size of a message and its key

ASSUME LogBufferAssumption ==
  /\ MaxRecordCount \in Nat
  /\ TrimRecordCount \in 1 .. MaxRecordCount

NoLogs == [k \in {} |-> k]

OneLog(key, message) == [k \in {key} |-> message]

Size(logs) == Cardinality(DOMAIN logs)

\* The n smallest keys, or all if there are fewer.
First(logs, n) ==
  {k \in DOMAIN logs : Cardinality({j \in DOMAIN logs : j < k}) < n}

Without(logs, keys) == Restrict(logs, DOMAIN logs \ keys)

-----------------------------------------------------------------------------
\* Faulty variants, each substituted for its original to show that a property
\* depends on it.

\* The limit is exceeded by one.
TrimmedLate(logs) ==
  First(logs, IF Size(logs) > MaxRecordCount + 1 THEN TrimRecordCount ELSE 0)

\* An entry that crosses the budget is taken as well.
FitsLate(used, key, logs, maxBytes) == used <= maxBytes

-----------------------------------------------------------------------------
\* The entries TrimIfOverCapacity() erases.
Trimmed(logs) ==
  First(logs, IF Size(logs) > MaxRecordCount THEN TrimRecordCount ELSE 0)

TrimIfOverCapacity(logs) == Without(logs, Trimmed(logs))

\* A key that is there is overwritten; trimming comes once, at the end.
Merge(logs, more) ==
  [k \in DOMAIN logs \cup DOMAIN more |-> IF k \in DOMAIN more THEN more[k] ELSE logs[k]]

AddLogs(logs, more) == TrimIfOverCapacity(Merge(logs, more))

Fits(used, key, logs, maxBytes) ==
  used = 0 \/ used + EntryBytes(logs[key]) <= maxBytes

\* The keys TakeLogsByApproxBytes() erases: the loop over the map, entry by entry.
\* The turn of the greatest key comes last.
WithinBytes(logs, maxBytes) ==
  LET turn(key, state) ==
        IF state.go /\ Fits(state.used, key, logs, maxBytes)
        THEN [keys |-> state.keys \cup {key},
              used |-> state.used + EntryBytes(logs[key]), go |-> TRUE]
        ELSE [state EXCEPT !.go = FALSE]
      end == MapThenFoldSet(turn, [keys |-> {}, used |-> 0, go |-> maxBytes # 0],
                            LAMBDA key : key, Max, DOMAIN logs)
  IN {key \in DOMAIN logs : key \in end.keys}
=============================================================================

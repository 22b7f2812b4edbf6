---------------------------- MODULE LogPathProofs ----------------------------
(***************************************************************************)
(* What LogPath does for any number of threads, levels and messages, any   *)
(* limits of the buffer, and any course of the clock.                      *)
(*                                                                         *)
(* Four arguments meet.  A message is in one place at a time: a thread, a  *)
(* buffer or a batch.  A trim removes as many records as it was told to,   *)
(* which takes the ranks of the keys to see.  The loop that takes a batch  *)
(* by size is a recursion over the keys, which takes an induction over     *)
(* finite sets.  And while no two threads are between the load and the     *)
(* store of the sequence counter, the counter is the number of the         *)
(* messages, so what the keys of two messages have in common says how far  *)
(* the messages are apart.                                                 *)
(***************************************************************************)
EXTENDS LogPath, FiniteSetTheorems, WellFoundedInduction, TLAPS

-----------------------------------------------------------------------------
(***************************************************************************)
(* The clock synchronizer alone: what its caller can rely on, for any unit *)
(* and course of time, any period a synchronisation is good for, and any   *)
(* number of turns of the polling loop.                                    *)
(***************************************************************************)

LEMMA ConstantTypes ==
  /\ UnitsPerSecond \in Nat \ {0} /\ Epoch \in Nat \ {0} /\ StaleAfter \in Nat \ {0}
  /\ WaitTurns \in Nat /\ LastUnit \in Nat
<1>1. {UnitsPerSecond, Epoch, StaleAfter} \subseteq Nat \ {0}
  BY ClockSyncAssumption
<1>2. {WaitTurns, LastUnit} \subseteq Nat
  BY ClockSyncAssumption
<1> QED
  BY <1>1, <1>2

\* The types, variable by variable.
ClockTypes ==
  /\ uptime \in 0 .. LastUnit
  /\ timeSet \in BOOLEAN /\ sntp \in BOOLEAN /\ answered \in BOOLEAN /\ synced \in BOOLEAN
  /\ lastSyncTime \in Nat
  /\ sync \in Returned \cup {"stop", "start", "poll", "answer"}
  /\ elapsed \in 0 .. WaitTurns

\* The flag that the caller polls is written by a callback, and the callback
\* runs after the answer that sets the time: the flag implies the time, and so
\* does an answer whose callback is still to run.
ClockInv ==
  /\ ClockTypes
  /\ answered => timeSet
  /\ lastSyncTime # 0 => timeSet
  /\ TrueMeansTimeSet

LEMMA ClockTypesGiveTypeOK == ASSUME ClockTypes PROVE ClockTypeOK
BY DEF ClockTypes, ClockTypeOK

LEMMA SystemTimeIsNat == ASSUME ClockTypes PROVE Seconds \in Nat /\ SystemTime \in Nat
<1>1. uptime \in Nat /\ UnitsPerSecond \in Nat \ {0} /\ Epoch \in Nat
  BY ConstantTypes DEF ClockTypes
<1>2. uptime \div UnitsPerSecond \in Nat
  BY <1>1
<1> QED
  BY <1>1, <1>2 DEF Seconds, SystemTime

LEMMA ClockStarts == ASSUME ClockInit PROVE ClockInv
<1>1. uptime \in 0 .. LastUnit /\ elapsed \in 0 .. WaitTurns
  BY ConstantTypes DEF ClockInit
<1>2. timeSet \in BOOLEAN /\ sntp \in BOOLEAN /\ answered \in BOOLEAN /\ synced \in BOOLEAN
  BY DEF ClockInit
<1>3. lastSyncTime = 0 /\ sync = "none" /\ ~answered
  BY DEF ClockInit
<1> QED
  BY <1>1, <1>2, <1>3 DEF ClockInv, ClockTypes, TrueMeansTimeSet, Returned

LEMMA ClockSteps == ASSUME ClockInv, [ClockNext]_clock PROVE ClockInv'
<1> USE DEF ClockInv, ClockTypes, TrueMeansTimeSet, Returned
<1>1. CASE UNCHANGED clock
  BY <1>1 DEF clock
<1>2. CASE TimePasses
  BY <1>2, ConstantTypes DEF TimePasses
<1>3. CASE ServerAnswers
  BY <1>3 DEF ServerAnswers
<1>4. CASE TimeSyncCallback
  BY <1>4, SystemTimeIsNat DEF TimeSyncCallback
<1>5. CASE SyncIfNeeded
  BY <1>5 DEF SyncIfNeeded, SyncMoves, SyncedRecently
<1>6. CASE StopSntp
  BY <1>6 DEF StopSntp, SyncMoves
<1>7. CASE StartSntp
  BY <1>7, ConstantTypes DEF StartSntp, SyncMoves
<1>8. CASE PollTurn
  BY <1>8, ConstantTypes DEF PollTurn, SyncMoves
<1>9. CASE PollEnds
  BY <1>9 DEF PollEnds, SyncMoves
<1>10. CASE ReturnSync
  BY <1>10 DEF ReturnSync, SyncMoves
<1> QED
  BY <1>1, <1>2, <1>3, <1>4, <1>5, <1>6, <1>7, <1>8, <1>9, <1>10 DEF ClockNext, SyncContinues

\* The variables of EspidfClockSynchronizer and of its caller keep their types.
THEOREM ClockTypeCorrect == ClockSpec => []ClockTypeOK
<1>1. ClockInit => ClockInv
  BY ClockStarts
<1>2. ClockInv /\ [ClockNext]_clock => ClockInv'
  BY ClockSteps
<1>3. ClockInv => ClockTypeOK
  BY ClockTypesGiveTypeOK DEF ClockInv
<1> QED
  BY <1>1, <1>2, <1>3, PTL DEF ClockSpec

\* A caller of SyncIfNeeded() that is told "true" has a valid system time,
\* whenever the SNTP client's task runs the callback that sets the polled flag.
THEOREM TrueAlwaysMeansTimeSet == ClockSpec => []TrueMeansTimeSet
<1>1. ClockInit => ClockInv
  BY ClockStarts
<1>2. ClockInv /\ [ClockNext]_clock => ClockInv'
  BY ClockSteps
<1>3. ClockInv => TrueMeansTimeSet
  BY DEF ClockInv
<1> QED
  BY <1>1, <1>2, <1>3, PTL DEF ClockSpec

\* What the comment at SyncIfNeeded() (01-IClockSynchronizer.h:12) says of "true"
\* is so for the calls that begin before the first synchronisation: an answer
\* came during the call.  clock_resync shows that it is not so for later ones.
THEOREM FirstTrueMeansSynced ==
  ClockSpec /\ [][SyncIfNeeded => lastSyncTime = 0]_clock => TrueMeansSynced
<1> DEFINE Seen == lastSyncTime # 0 => synced
<1>1. ClockInit => Seen
  BY DEF ClockInit
<1>2. Seen /\ [ClockNext]_clock /\ [SyncIfNeeded => lastSyncTime = 0]_clock => Seen'
  <2> SUFFICES ASSUME Seen, ClockNext, SyncIfNeeded => lastSyncTime = 0 PROVE Seen'
    BY DEF clock
  <2>1. CASE SyncIfNeeded
    BY <2>1 DEF SyncIfNeeded, SyncMoves
  <2>2. CASE TimeSyncCallback
    BY <2>2 DEF TimeSyncCallback
  <2>3. CASE TimePasses \/ ServerAnswers \/ SyncContinues
    <3>1. lastSyncTime' = lastSyncTime /\ synced' = synced
      BY <2>3 DEF TimePasses, ServerAnswers, SyncContinues, StopSntp, StartSntp, PollTurn,
                  PollEnds, ReturnSync, SyncMoves
    <3> QED
      BY <3>1
  <2> QED
    BY <2>1, <2>2, <2>3 DEF ClockNext
<1>3. Seen /\ [ClockNext]_clock =>
        [sync # "true" /\ sync' = "true" => synced \/ SyncedRecently]_clock
  <2> SUFFICES ASSUME Seen, ClockNext, sync # "true", sync' = "true"
               PROVE  synced \/ SyncedRecently
    BY DEF clock
  <2>1. CASE SyncIfNeeded
    BY <2>1 DEF SyncIfNeeded, SyncMoves
  <2>2. CASE ReturnSync
    BY <2>2 DEF ReturnSync, SyncMoves
  <2>3. CASE ~SyncIfNeeded /\ ~ReturnSync
    BY <2>3 DEF ClockNext, SyncContinues, TimePasses, ServerAnswers, TimeSyncCallback,
                StopSntp, StartSntp, PollTurn, PollEnds, SyncMoves
  <2> QED
    BY <2>1, <2>2, <2>3
<1> QED
  BY <1>1, <1>2, <1>3, PTL DEF ClockSpec, TrueMeansSynced

-----------------------------------------------------------------------------
(***************************************************************************)
(* Quotients and remainders.                                               *)
(***************************************************************************)

LEMMA DivisionUnique ==
  ASSUME NEW d \in Nat \ {0}, NEW p \in Int, NEW q \in Int,
         NEW r \in 0 .. d - 1, NEW s \in 0 .. d - 1, p * d + r = q * d + s
  PROVE  p = q /\ r = s
OBVIOUS

LEMMA Division ==
  ASSUME NEW d \in Nat \ {0}, NEW n \in Nat
  PROVE  /\ n % d \in 0 .. d - 1 /\ n \div d \in Nat
         /\ n = (n \div d) * d + (n % d)
OBVIOUS

\* What a key leaves modulo SeqWrap is what its sequence number leaves.
LEMMA KeyRemainder ==
  ASSUME NEW d \in Nat \ {0}, NEW t \in Nat, NEW s \in Nat
  PROVE  t * d + (s % d) \in Nat /\ (t * d + (s % d)) % d = s % d
<1>1. s % d \in 0 .. d - 1 /\ t * d \in Nat
  BY Division
<1> DEFINE k == t * d + (s % d)
<1>2. k \in Nat
  BY <1>1
<1>3. k % d \in 0 .. d - 1 /\ k \div d \in Nat /\ k = (k \div d) * d + (k % d)
  BY <1>2, Division
<1> DEFINE q == k \div d
           r == k % d
           c == s % d
<1>4. q \in Int /\ r \in 0 .. d - 1 /\ c \in 0 .. d - 1 /\ t * d + c = q * d + r
  BY <1>1, <1>3
<1>5. c = r
  <2> HIDE DEF k, q, r, c
  <2> QED
    BY <1>4, DivisionUnique
<1> QED
  BY <1>2, <1>5 DEF k

\* Numbers with one remainder are equal or far apart.
LEMMA RemainderGap ==
  ASSUME NEW d \in Nat \ {0}, NEW m \in Nat, NEW n \in Nat, m % d = n % d, m # n
  PROVE  m - n >= d \/ n - m >= d
<1>1. /\ m \div d \in Nat /\ m % d \in 0 .. d - 1 /\ m = (m \div d) * d + (m % d)
      /\ n \div d \in Nat /\ n = (n \div d) * d + (m % d)
  BY Division
<1> DEFINE p == m \div d
           q == n \div d
           r == m % d
<1>2. p \in Nat /\ q \in Nat /\ r \in Nat /\ m = p * d + r /\ n = q * d + r
  BY <1>1
<1> HIDE DEF p, q, r
<1>3. p # q
  BY <1>2
<1>4. ASSUME NEW a \in Nat, NEW b \in Nat, a > b PROVE a * d - b * d >= d
  <2>1. a - b >= 1 /\ a - b \in Nat
    BY <1>4
  <2>2. (a - b) * d >= d
    BY <2>1
  <2>3. (a - b) * d = a * d - b * d
    BY <1>4
  <2> QED
    BY <2>2, <2>3
<1>5. CASE p > q
  <2>1. p * d - q * d >= d
    BY <1>2, <1>4, <1>5
  <2>2. p * d \in Nat /\ q * d \in Nat
    BY <1>2
  <2> QED
    BY <1>2, <2>1, <2>2
<1>6. CASE q > p
  <2>1. q * d - p * d >= d
    BY <1>2, <1>4, <1>6
  <2>2. p * d \in Nat /\ q * d \in Nat
    BY <1>2
  <2> QED
    BY <1>2, <2>1, <2>2
<1> QED
  BY <1>2, <1>3, <1>5, <1>6

-----------------------------------------------------------------------------
(***************************************************************************)
(* Buffers.                                                                *)
(***************************************************************************)

\* A buffer: finitely many records, under keys that are numbers.
Buffer(m) == IsFiniteSet(DOMAIN m) /\ DOMAIN m \subseteq Nat

Below(m, k) == {j \in DOMAIN m : j < k}

LEMMA BelowSize ==
  ASSUME NEW m, Buffer(m)
  PROVE  /\ \A k \in DOMAIN m : Cardinality(Below(m, k)) \in 0 .. Size(m) - 1
         /\ \A j, k \in DOMAIN m :
              Cardinality(Below(m, j)) = Cardinality(Below(m, k)) => j = k
<1>1. Size(m) \in Nat
  BY FS_CardinalityType DEF Buffer, Size
<1>2. ASSUME NEW k \in DOMAIN m
      PROVE  IsFiniteSet(Below(m, k)) /\ Cardinality(Below(m, k)) \in 0 .. Size(m) - 1
  <2>1. IsFiniteSet(DOMAIN m \ {k}) /\ Cardinality(DOMAIN m \ {k}) = Size(m) - 1
    BY FS_RemoveElement DEF Buffer, Size
  <2>2. Below(m, k) \subseteq DOMAIN m \ {k}
    BY DEF Below, Buffer
  <2>3. IsFiniteSet(Below(m, k)) /\ Cardinality(Below(m, k)) <= Size(m) - 1
    BY <2>1, <2>2, FS_Subset
  <2>4. Cardinality(Below(m, k)) \in Nat
    BY <2>3, FS_CardinalityType
  <2> QED
    BY <1>1, <2>3, <2>4
<1>3. ASSUME NEW j \in DOMAIN m, NEW k \in DOMAIN m, j < k
      PROVE  Cardinality(Below(m, j)) # Cardinality(Below(m, k))
  <2>1. Below(m, j) \subseteq Below(m, k)
    BY <1>3 DEF Below, Buffer
  <2>2. j \in Below(m, k) /\ j \notin Below(m, j)
    BY <1>3 DEF Below, Buffer
  <2>3. Below(m, j) # Below(m, k) /\ IsFiniteSet(Below(m, k))
    BY <1>2, <2>2
  <2> QED
    BY <2>1, <2>3, FS_Subset
<1>4. ASSUME NEW j \in DOMAIN m, NEW k \in DOMAIN m,
             Cardinality(Below(m, j)) = Cardinality(Below(m, k))
      PROVE  j = k
  <2>1. j \in Nat /\ k \in Nat
    BY DEF Buffer
  <2>2. ~(j < k) /\ ~(k < j)
    BY <1>3, <1>4
  <2> QED
    BY <2>1, <2>2
<1> QED
  BY <1>2, <1>4

\* The ranks of the keys are the numbers from 0 on, so the keys with the n
\* smallest ranks are n.
LEMMA FirstSize ==
  ASSUME NEW m, Buffer(m), NEW n \in Nat, n <= Size(m)
  PROVE  First(m, n) \subseteq DOMAIN m /\ Cardinality(First(m, n)) = n
<1>a. Size(m) \in Nat /\ IsFiniteSet(DOMAIN m)
  BY FS_CardinalityType DEF Buffer, Size
<1>b. First(m, n) = {k \in DOMAIN m : Cardinality(Below(m, k)) < n}
  BY DEF First, Below
<1>c. First(m, n) \subseteq DOMAIN m
  BY <1>b
<1> DEFINE rank == [k \in DOMAIN m |-> Cardinality(Below(m, k))]
           ranks == 0 .. Size(m) - 1
<1>1. IsFiniteSet(ranks) /\ Cardinality(ranks) = Size(m)
  <2>1. \A b \in Int : IsFiniteSet(0 .. b) /\ Cardinality(0 .. b) = IF 0 > b THEN 0 ELSE b - 0 + 1
    BY FS_Interval
  <2>2. Size(m) - 1 \in Int
    BY <1>a
  <2>3. /\ IsFiniteSet(ranks)
        /\ Cardinality(ranks) = IF 0 > Size(m) - 1 THEN 0 ELSE Size(m) - 1 - 0 + 1
    BY <2>1, <2>2
  <2> QED
    BY <1>a, <2>3
<1>2. rank \in Injection(DOMAIN m, ranks)
  BY BelowSize DEF Injection, IsInjective
<1>3. rank \in Surjection(DOMAIN m, ranks)
  BY <1>1, <1>2, FS_Injection DEF Size
<1>4. \A r \in ranks : \E k \in DOMAIN m : Cardinality(Below(m, k)) = r
  BY <1>3 DEF Surjection
<1> DEFINE low == [k \in First(m, n) |-> Cardinality(Below(m, k))]
<1>5. \A k \in First(m, n) : Cardinality(Below(m, k)) \in 0 .. n - 1
  BY <1>b, BelowSize
<1>6. \A r \in 0 .. n - 1 : \E k \in First(m, n) : Cardinality(Below(m, k)) = r
  <2>1. 0 .. n - 1 \subseteq ranks
    BY <1>a
  <2>2. ASSUME NEW r \in 0 .. n - 1 PROVE \E k \in First(m, n) : Cardinality(Below(m, k)) = r
    <3>1. PICK k \in DOMAIN m : Cardinality(Below(m, k)) = r
      BY <1>4, <2>1
    <3>2. k \in First(m, n)
      BY <1>b, <3>1
    <3> QED
      BY <3>1, <3>2
  <2> QED
    BY <2>2
<1>7. low \in Injection(First(m, n), 0 .. n - 1)
  BY <1>c, <1>5, BelowSize DEF Injection, IsInjective
<1>8. low \in Surjection(First(m, n), 0 .. n - 1)
  BY <1>5, <1>6 DEF Surjection
<1>9. IsFiniteSet(0 .. n - 1) /\ Cardinality(0 .. n - 1) = n
  BY FS_Interval
<1> QED
  BY <1>c, <1>7, <1>8, <1>9, FS_Injection

LEMMA OneLogIsBuffer ==
  ASSUME NEW k \in Nat, NEW message
  PROVE  /\ Buffer(OneLog(k, message)) /\ Size(OneLog(k, message)) = 1
         /\ DOMAIN OneLog(k, message) = {k} /\ OneLog(k, message)[k] = message
<1>1. DOMAIN OneLog(k, message) = {k} /\ OneLog(k, message)[k] = message
  BY DEF OneLog
<1>2. IsFiniteSet({k}) /\ Cardinality({k}) = 1
  BY FS_Singleton
<1> QED
  BY <1>1, <1>2 DEF Buffer, Size

LEMMA NoLogsIsBuffer == Buffer(NoLogs) /\ DOMAIN NoLogs = {}
BY FS_EmptySet DEF Buffer, NoLogs

LEMMA PartIsBuffer ==
  ASSUME NEW m, Buffer(m), NEW keys \in SUBSET DOMAIN m
  PROVE  /\ Buffer(Without(m, keys)) /\ Buffer(Restrict(m, keys))
         /\ DOMAIN Without(m, keys) = DOMAIN m \ keys /\ DOMAIN Restrict(m, keys) = keys
         /\ \A k \in DOMAIN m \ keys : Without(m, keys)[k] = m[k]
         /\ \A k \in keys : Restrict(m, keys)[k] = m[k]
         /\ Size(Without(m, keys)) = Size(m) - Cardinality(keys)
<1>1. DOMAIN Without(m, keys) = DOMAIN m \ keys /\ DOMAIN Restrict(m, keys) = keys
  BY DEF Without, Restrict
<1>2. /\ \A k \in DOMAIN m \ keys : Without(m, keys)[k] = m[k]
      /\ \A k \in keys : Restrict(m, keys)[k] = m[k]
  BY DEF Without, Restrict
<1>3. IsFiniteSet(DOMAIN m \ keys) /\ IsFiniteSet(keys)
  BY FS_Subset, FS_Difference DEF Buffer
<1>4. Cardinality(DOMAIN m \ keys) = Cardinality(DOMAIN m) - Cardinality(keys)
  <2>1. DOMAIN m \cap keys = keys
    OBVIOUS
  <2> QED
    BY <2>1, FS_Difference DEF Buffer
<1> QED
  BY <1>1, <1>2, <1>3, <1>4 DEF Buffer, Size

LEMMA MergeIsBuffer ==
  ASSUME NEW a, NEW b, Buffer(a), Buffer(b)
  PROVE  /\ Buffer(Merge(a, b)) /\ Size(Merge(a, b)) <= Size(a) + Size(b)
         /\ DOMAIN Merge(a, b) = DOMAIN a \cup DOMAIN b
         /\ \A k \in DOMAIN b : Merge(a, b)[k] = b[k]
         /\ \A k \in DOMAIN a \ DOMAIN b : Merge(a, b)[k] = a[k]
<1>1. /\ DOMAIN Merge(a, b) = DOMAIN a \cup DOMAIN b
      /\ \A k \in DOMAIN b : Merge(a, b)[k] = b[k]
      /\ \A k \in DOMAIN a \ DOMAIN b : Merge(a, b)[k] = a[k]
  BY DEF Merge
<1>2. /\ IsFiniteSet(DOMAIN a \cup DOMAIN b)
      /\ Cardinality(DOMAIN a \cup DOMAIN b)
           = Cardinality(DOMAIN a) + Cardinality(DOMAIN b) - Cardinality(DOMAIN a \cap DOMAIN b)
  BY FS_Union DEF Buffer
<1>3. IsFiniteSet(DOMAIN a \cap DOMAIN b)
  BY FS_Intersection DEF Buffer
<1>4. /\ Cardinality(DOMAIN a) \in Nat /\ Cardinality(DOMAIN b) \in Nat
      /\ Cardinality(DOMAIN a \cap DOMAIN b) \in Nat
  BY <1>3, FS_CardinalityType DEF Buffer
<1> QED
  BY <1>1, <1>2, <1>4 DEF Buffer, Size

\* What is in the buffer after AddLogs() was there or was added, and either all
\* of it is there, or the buffer was over its limit and a trim's worth is gone.
LEMMA AddLogsGives ==
  ASSUME NEW a, NEW b, Buffer(a), Buffer(b)
  PROVE  /\ Buffer(AddLogs(a, b))
         /\ DOMAIN AddLogs(a, b) \subseteq DOMAIN a \cup DOMAIN b
         /\ \A k \in DOMAIN AddLogs(a, b) :
              \/ k \in DOMAIN a \ DOMAIN b /\ AddLogs(a, b)[k] = a[k]
              \/ k \in DOMAIN b /\ AddLogs(a, b)[k] = b[k]
         /\ \/ /\ Size(Merge(a, b)) <= MaxRecordCount
               /\ DOMAIN AddLogs(a, b) = DOMAIN a \cup DOMAIN b
               /\ Size(AddLogs(a, b)) = Size(Merge(a, b))
            \/ /\ Size(Merge(a, b)) > MaxRecordCount
               /\ Size(AddLogs(a, b)) = Size(Merge(a, b)) - TrimRecordCount
<1>a. /\ Buffer(Merge(a, b)) /\ DOMAIN Merge(a, b) = DOMAIN a \cup DOMAIN b
      /\ \A k \in DOMAIN b : Merge(a, b)[k] = b[k]
      /\ \A k \in DOMAIN a \ DOMAIN b : Merge(a, b)[k] = a[k]
  <2>1. Buffer(Merge(a, b))
    BY MergeIsBuffer
  <2> QED
    BY <2>1 DEF Merge
<1>b. Size(Merge(a, b)) \in Nat
  BY <1>a, FS_CardinalityType DEF Buffer, Size
<1>c. MaxRecordCount \in Nat /\ TrimRecordCount \in 1 .. MaxRecordCount
  BY LogBufferAssumption
<1> DEFINE m == Merge(a, b)
           n == IF Size(m) > MaxRecordCount THEN TrimRecordCount ELSE 0
           gone == First(m, n)
<1>1. AddLogs(a, b) = Without(m, gone)
  BY DEF AddLogs, TrimIfOverCapacity, Trimmed
<1>2. n \in Nat /\ n <= Size(m)
  BY <1>b, <1>c
<1>3. gone \subseteq DOMAIN m /\ Cardinality(gone) = n
  <2> HIDE DEF m, n
  <2> QED
    BY <1>a, <1>2, FirstSize DEF m
<1>4. /\ Buffer(Without(m, gone)) /\ DOMAIN Without(m, gone) = DOMAIN m \ gone
      /\ \A k \in DOMAIN m \ gone : Without(m, gone)[k] = m[k]
      /\ Size(Without(m, gone)) = Size(m) - n
  <2> HIDE DEF m, n, gone
  <2> QED
    BY <1>a, <1>3, PartIsBuffer DEF m
<1>5. CASE Size(m) > MaxRecordCount
  BY <1>a, <1>1, <1>4, <1>5
<1>6. CASE ~(Size(m) > MaxRecordCount)
  <2>1. n = 0
    BY <1>6
  <2>2. gone = {}
    <3>1. IsFiniteSet(gone)
      BY <1>a, <1>3, FS_Subset DEF Buffer
    <3> QED
      BY <1>3, <2>1, <3>1, FS_EmptySet
  <2>3. Size(m) <= MaxRecordCount
    BY <1>6, <1>b, <1>c
  <2>4. Size(m) - 0 = Size(m)
    BY <1>b
  <2> QED
    BY <1>a, <1>1, <1>4, <2>1, <2>2, <2>3, <2>4
<1> QED
  BY <1>5, <1>6

LEMMA AddLogsPointwise ==
  ASSUME NEW a, NEW b, Buffer(a), Buffer(b), NEW k \in DOMAIN AddLogs(a, b)
  PROVE  \/ k \in DOMAIN a \ DOMAIN b /\ AddLogs(a, b)[k] = a[k]
         \/ k \in DOMAIN b /\ AddLogs(a, b)[k] = b[k]
BY AddLogsGives

\* One message is not in the buffer twice after AddLogs() unless it was added
\* again.
LEMMA AddLogsValues ==
  ASSUME NEW a, NEW b, Buffer(a), Buffer(b)
  PROVE  \A j, k \in DOMAIN AddLogs(a, b) :
           \/ j = k
           \/ AddLogs(a, b)[j] # AddLogs(a, b)[k]
           \/ j \in DOMAIN a /\ k \in DOMAIN a /\ a[j] = a[k]
           \/ j \in DOMAIN b /\ k \in DOMAIN b /\ b[j] = b[k]
           \/ j \in DOMAIN a /\ k \in DOMAIN b /\ a[j] = b[k]
           \/ j \in DOMAIN b /\ k \in DOMAIN a /\ b[j] = a[k]
<1>1. \A k \in DOMAIN AddLogs(a, b) :
        \/ k \in DOMAIN a \ DOMAIN b /\ AddLogs(a, b)[k] = a[k]
        \/ k \in DOMAIN b /\ AddLogs(a, b)[k] = b[k]
  BY AddLogsGives
<1> QED
  BY <1>1

-----------------------------------------------------------------------------
(***************************************************************************)
(* Induction over finite sets, and the functions it gives.  What holds of  *)
(* a set if it holds of the set less one element holds of all finite sets: *)
(* otherwise there would be a smallest of which it does not hold.          *)
(***************************************************************************)

\* A set of numbers that is not empty has a least element.
LEMMA LeastNat ==
  ASSUME NEW T, T \subseteq Nat, T # {}
  PROVE  \E n \in T : \A m \in T : n <= m
<1>1. PICK n \in T : \A m \in T : <<m, n>> \notin OpToRel(<, Nat)
  BY NatLessThanWellFounded, WFMin
<1>2. \A m \in T : ~(m < n)
  BY <1>1 DEF OpToRel
<1> QED
  BY <1>2

\* What is left of a finite set without one of its elements is smaller.
LEMMA WithoutOne ==
  ASSUME NEW S, IsFiniteSet(S), NEW x \in S
  PROVE  /\ IsFiniteSet(S \ {x})
         /\ Cardinality(S) \in Nat \ {0}
         /\ Cardinality(S \ {x}) = Cardinality(S) - 1
<1>1. IsFiniteSet(S \ {x}) /\ Cardinality(S \ {x}) = Cardinality(S) - 1
  BY FS_RemoveElement
<1>2. Cardinality(S) \in Nat /\ Cardinality(S) # 0
  BY FS_CardinalityType, FS_EmptySet
<1> QED
  BY <1>1, <1>2

\* Among some finite sets there is a smallest: less one element, it is not one
\* of them.
LEMMA SmallestSet ==
  ASSUME NEW Off, \A U \in Off : IsFiniteSet(U), Off # {}
  PROVE  \E U \in Off : \A x \in U : U \ {x} \notin Off
<1> DEFINE sizes == {Cardinality(U) : U \in Off}
<1>1. sizes \subseteq Nat /\ sizes # {}
  BY FS_CardinalityType
<1>2. PICK n \in sizes : \A j \in sizes : n <= j
  <2> HIDE DEF sizes
  <2> QED
    BY <1>1, LeastNat
<1>3. PICK U \in Off : Cardinality(U) = n
  OBVIOUS
<1>4. ASSUME NEW x \in U PROVE U \ {x} \notin Off
  <2>1. Cardinality(U \ {x}) = n - 1 /\ n \in Nat
    BY <1>1, <1>3, WithoutOne
  <2>2. U \ {x} \in Off => Cardinality(U \ {x}) \in sizes
    OBVIOUS
  <2> HIDE DEF sizes
  <2> QED
    BY <1>2, <2>1, <2>2
<1> QED
  BY <1>4

Picks(S, pick) == \A T \in SUBSET S : T # {} => pick[T] \in T

Turns(S, V, op) == op \in [S -> [V -> V]]

\* g carries a value of V through every part of S, element by element: the one
\* that pick gives has its turn last.
Carries(S, V, base, pick, op, g) ==
  /\ g \in [SUBSET S -> V]
  /\ \A T \in SUBSET S :
       g[T] = IF T = {} THEN base ELSE op[pick[T]][g[T \ {pick[T]}]]

LEMMA FoldExists ==
  ASSUME NEW S, IsFiniteSet(S), NEW V, NEW base \in V,
         NEW pick, Picks(S, pick), NEW op, Turns(S, V, op)
  PROVE  \E g : Carries(S, V, base, pick, op, g)
<1>a. op \in [S -> [V -> V]] /\ \A T \in SUBSET S : T # {} => pick[T] \in T
  BY DEF Picks, Turns
<1> DEFINE Small(n) == {T \in SUBSET S : Cardinality(T) <= n}
           Folds(n) == \E g \in [Small(n) -> V] :
             \A T \in Small(n) :
               g[T] = IF T = {} THEN base ELSE op[pick[T]][g[T \ {pick[T]}]]
           Not == {n \in Nat : ~Folds(n)}
<1>1. \A T \in SUBSET S : IsFiniteSet(T) /\ Cardinality(T) \in Nat /\ (Cardinality(T) = 0 => T = {})
  BY FS_Subset, FS_CardinalityType, FS_EmptySet
<1>2. Folds(0)
  <2>1. \A T \in Small(0) : T = {}
    BY <1>1
  <2> DEFINE g == [T \in Small(0) |-> base]
  <2>2. g \in [Small(0) -> V] /\ \A T \in Small(0) : g[T] = base
    OBVIOUS
  <2> QED
    BY <2>1, <2>2
<1>3. ASSUME NEW n \in Nat, Folds(n) PROVE Folds(n + 1)
  <2>1. PICK g \in [Small(n) -> V] :
          \A T \in Small(n) :
            g[T] = IF T = {} THEN base ELSE op[pick[T]][g[T \ {pick[T]}]]
    BY <1>3
  <2> DEFINE next(T) == IF T = {} THEN base ELSE op[pick[T]][g[T \ {pick[T]}]]
             h == [T \in Small(n + 1) |-> next(T)]
  <2>2. \A T \in Small(n + 1) : T # {} => pick[T] \in S /\ T \ {pick[T]} \in Small(n)
    <3> SUFFICES ASSUME NEW T \in Small(n + 1), T # {}
                 PROVE  pick[T] \in S /\ T \ {pick[T]} \in Small(n)
      OBVIOUS
    <3>1. pick[T] \in T /\ T \in SUBSET S /\ IsFiniteSet(T)
      BY <1>a, <1>1
    <3>2. Cardinality(T \ {pick[T]}) = Cardinality(T) - 1 /\ Cardinality(T) \in Nat
      BY <3>1, WithoutOne
    <3>3. Cardinality(T) <= n + 1
      OBVIOUS
    <3> QED
      BY <3>1, <3>2, <3>3
  <2>3. h \in [Small(n + 1) -> V]
    <3>1. \A T \in Small(n + 1) : next(T) \in V
      BY <1>a, <2>2
    <3> QED
      BY <3>1
  <2>4. \A T \in Small(n) : T \in Small(n + 1) /\ h[T] = g[T]
    <3> SUFFICES ASSUME NEW T \in Small(n) PROVE T \in Small(n + 1) /\ h[T] = g[T]
      OBVIOUS
    <3>1. T \in SUBSET S /\ Cardinality(T) \in Nat /\ Cardinality(T) <= n
      BY <1>1
    <3>2. T \in Small(n + 1)
      BY <3>1
    <3>3. g[T] = next(T)
      BY <2>1
    <3> QED
      BY <3>2, <3>3
  <2>5. \A T \in Small(n + 1) :
          h[T] = IF T = {} THEN base ELSE op[pick[T]][h[T \ {pick[T]}]]
    <3> SUFFICES ASSUME NEW T \in Small(n + 1), T # {}
                 PROVE  h[T] = op[pick[T]][h[T \ {pick[T]}]]
      OBVIOUS
    <3>1. h[T] = op[pick[T]][g[T \ {pick[T]}]]
      OBVIOUS
    <3> QED
      BY <2>2, <2>4, <3>1
  <2> HIDE DEF h
  <2> QED
    BY <2>3, <2>5
<1>4. Not = {}
  <2> SUFFICES ASSUME Not # {} PROVE FALSE
    OBVIOUS
  <2>1. PICK n \in Not : \A m \in Not : n <= m
    BY LeastNat
  <2> HIDE DEF Folds
  <2>2. n \in Nat /\ ~Folds(n) /\ n # 0
    BY <1>2
  <2>3. n - 1 \in Nat /\ n - 1 + 1 = n /\ n - 1 \notin Not
    BY <2>1, <2>2
  <2>4. Folds(n - 1)
    BY <2>3
  <2> QED
    BY <1>3, <2>2, <2>3, <2>4
<1>5. Folds(Cardinality(S)) /\ Small(Cardinality(S)) = SUBSET S
  <2>1. Cardinality(S) \in Nat /\ \A T \in SUBSET S : Cardinality(T) <= Cardinality(S)
    BY <1>1, FS_Subset
  <2> HIDE DEF Folds
  <2> QED
    BY <1>4, <2>1
<1> QED
  BY <1>5 DEF Carries

\* The greatest of finitely many numbers is one of them.
LEMMA GreatestNat ==
  ASSUME NEW T, IsFiniteSet(T), T \subseteq Nat, T # {}
  PROVE  Max(T) \in T /\ \A k \in T : k <= Max(T)
<1> DEFINE Top(U) == \E k \in U : \A j \in U : j <= k
           Off == {U \in SUBSET T : U # {} /\ ~Top(U)}
<1>1. \A U \in Off : IsFiniteSet(U)
  BY FS_Subset
<1>2. Off = {}
  <2> SUFFICES ASSUME Off # {} PROVE FALSE
    OBVIOUS
  <2>1. PICK U \in Off : \A x \in U : U \ {x} \notin Off
    <3> HIDE DEF Off
    <3> QED
      BY <1>1, SmallestSet
  <2>2. PICK x \in U : TRUE
    OBVIOUS
  <2>3. x \in Nat /\ U # {x}
    <3>1. x \in Nat /\ x <= x
      OBVIOUS
    <3>2. U = {x} => Top(U)
      BY <3>1
    <3> HIDE DEF Top
    <3> QED
      BY <3>1, <3>2
  <2>4. PICK k \in U \ {x} : \A j \in U \ {x} : j <= k
    <3>1. U \ {x} \in SUBSET T /\ U \ {x} # {}
      BY <2>3
    <3>2. Top(U \ {x})
      <4> HIDE DEF Top
      <4> QED
        BY <2>1, <2>2, <3>1
    <3> QED
      BY <3>2
  <2>5. k \in Nat /\ x \in Nat
    OBVIOUS
  <2>6. CASE x <= k
    BY <2>4, <2>6
  <2>7. CASE k <= x
    <3>1. \A j \in U : j <= x
      BY <2>4, <2>5, <2>7
    <3> QED
      BY <3>1
  <2> QED
    BY <2>5, <2>6, <2>7
<1>3. \E k \in T : \A j \in T : k >= j
  BY <1>2
<1>4. Max(T) \in T /\ \A k \in T : Max(T) >= k
  BY <1>3 DEF Max
<1> QED
  BY <1>4

-----------------------------------------------------------------------------
(***************************************************************************)
(* The size of some records: Bytes() adds them up in an order it leaves    *)
(* open, and the sum is the same in any.                                   *)
(***************************************************************************)

Chosen(T) == CHOOSE k \in T : TRUE

\* The recursive function Bytes() is made of.
Sizes(m, S) ==
  LET iter[s \in SUBSET S] ==
        IF s = {} THEN 0
        ELSE LET x == CHOOSE y \in s : TRUE
             IN  EntryBytes(m[x]) + iter[s \ {x}]
  IN  iter

LEMMA BytesIsSizes == ASSUME NEW m, NEW S PROVE Bytes(m, S) = Sizes(m, S)[S]
BY DEF Bytes, Sizes, MapThenSumSet, MapThenFoldSet

\* g gives every set of keys of S the size of its records.
Adds(m, S, g) ==
  /\ g \in [SUBSET S -> Nat]
  /\ \A T \in SUBSET S :
       g[T] = IF T = {} THEN 0 ELSE EntryBytes(m[Chosen(T)]) + g[T \ {Chosen(T)}]

Sized(m, S) == IsFiniteSet(S) /\ \A k \in S : EntryBytes(m[k]) \in Nat \ {0}

LEMMA ChosenIn == ASSUME NEW T, T # {} PROVE Chosen(T) \in T
BY DEF Chosen

LEMMA AddsExists == ASSUME NEW m, NEW S, Sized(m, S) PROVE \E g : Adds(m, S, g)
<1> DEFINE pick == [T \in SUBSET S |-> Chosen(T)]
           op == [k \in S |-> [n \in Nat |-> EntryBytes(m[k]) + n]]
<1>1. Turns(S, Nat, op)
  BY DEF Sized, Turns
<1>2. Picks(S, pick)
  BY ChosenIn DEF Picks
<1>3. PICK g : Carries(S, Nat, 0, pick, op, g)
  <2> HIDE DEF pick, op
  <2>1. IsFiniteSet(S) /\ 0 \in Nat
    BY DEF Sized
  <2> QED
    BY <1>1, <1>2, <2>1, FoldExists
<1>4. g \in [SUBSET S -> Nat] /\ \A T \in SUBSET S :
        g[T] = IF T = {} THEN 0 ELSE op[pick[T]][g[T \ {pick[T]}]]
  BY <1>3 DEF Carries
<1>5. ASSUME NEW T \in SUBSET S, T # {}
      PROVE  g[T] = EntryBytes(m[Chosen(T)]) + g[T \ {Chosen(T)}]
  <2>1. pick[T] = Chosen(T) /\ Chosen(T) \in S /\ T \ {Chosen(T)} \in SUBSET S
    BY <1>2, <1>5 DEF Picks
  <2> QED
    BY <1>4, <1>5, <2>1
<1> QED
  BY <1>4, <1>5 DEF Adds

\* The recursive function is well defined.
LEMMA SizesEquation ==
  ASSUME NEW m, NEW S, NEW T \in SUBSET S, Sized(m, S)
  PROVE  Sizes(m, S)[T] =
           IF T = {} THEN 0
           ELSE EntryBytes(m[Chosen(T)]) + Sizes(m, S)[T \ {Chosen(T)}]
<1>1. PICK g : Adds(m, S, g)
  BY AddsExists
<1>2. g = [s \in SUBSET S |->
             IF s = {} THEN 0
             ELSE LET x == CHOOSE y \in s : TRUE IN EntryBytes(m[x]) + g[s \ {x}]]
  BY <1>1 DEF Adds, Chosen
<1>3. Sizes(m, S) = [s \in SUBSET S |->
        IF s = {} THEN 0
        ELSE LET x == CHOOSE y \in s : TRUE IN EntryBytes(m[x]) + Sizes(m, S)[s \ {x}]]
  BY <1>2, Zenon DEF Sizes
<1> QED
  BY <1>3 DEF Chosen

\* The size of a set of keys does not depend on the set it is taken from.
LEMMA BytesAdds ==
  ASSUME NEW m, NEW S, Sized(m, S), NEW g, Adds(m, S, g), NEW T \in SUBSET S
  PROVE  Bytes(m, T) = g[T]
<1>1. Sized(m, T)
  BY FS_Subset DEF Sized
<1> DEFINE Off == {U \in SUBSET T : Sizes(m, T)[U] # g[U]}
<1>2. \A U \in Off : IsFiniteSet(U)
  BY <1>1, FS_Subset DEF Sized
<1>3. Off = {}
  <2> SUFFICES ASSUME Off # {} PROVE FALSE
    OBVIOUS
  <2>1. PICK U \in Off : \A x \in U : U \ {x} \notin Off
    <3> HIDE DEF Off
    <3> QED
      BY <1>2, SmallestSet
  <2>2. U # {}
    <3>1. {} \in SUBSET T /\ {} \in SUBSET S
      OBVIOUS
    <3>2. Sizes(m, T)[{}] = 0
      BY <1>1, <3>1, SizesEquation
    <3>3. g[{}] = 0
      BY <3>1 DEF Adds
    <3> QED
      BY <3>2, <3>3
  <2> DEFINE c == Chosen(U)
             R == U \ {c}
  <2>3. c \in U /\ R \in SUBSET T
    BY <2>2, ChosenIn
  <2>4. Sizes(m, T)[R] = g[R]
    BY <2>1, <2>3
  <2>5. g[U] = EntryBytes(m[c]) + g[R]
    BY <2>2 DEF Adds
  <2>6. Sizes(m, T)[U] = EntryBytes(m[c]) + Sizes(m, T)[R]
    BY <1>1, <2>2, SizesEquation
  <2> QED
    BY <2>4, <2>5, <2>6
<1> QED
  BY <1>3, BytesIsSizes

\* It does not depend on the order of the keys either.
LEMMA AddsAnyOrder ==
  ASSUME NEW m, NEW S, Sized(m, S), NEW g, Adds(m, S, g),
         NEW T \in SUBSET S, NEW x \in T
  PROVE  g[T] = EntryBytes(m[x]) + g[T \ {x}]
<1> DEFINE Any(U) == \A k \in U : g[U] = EntryBytes(m[k]) + g[U \ {k}]
           Off == {U \in SUBSET S : ~Any(U)}
<1>1. \A U \in Off : IsFiniteSet(U)
  BY FS_Subset DEF Sized
<1>2. Off = {}
  <2> SUFFICES ASSUME Off # {} PROVE FALSE
    OBVIOUS
  <2>1. PICK U \in Off : \A k \in U : U \ {k} \notin Off
    <3> HIDE DEF Off
    <3> QED
      BY <1>1, SmallestSet
  <2>2. \A k \in U : U \ {k} \in SUBSET S /\ Any(U \ {k})
    BY <2>1
  <2>3. PICK k \in U : g[U] # EntryBytes(m[k]) + g[U \ {k}]
    OBVIOUS
  <2> DEFINE c == Chosen(U)
             R == (U \ {c}) \ {k}
  <2>4. c \in U /\ g[U] = EntryBytes(m[c]) + g[U \ {c}]
    BY <2>3, ChosenIn DEF Adds
  <2> HIDE DEF c
  <2>5. c # k
    BY <2>3, <2>4
  <2>6. g[U \ {c}] = EntryBytes(m[k]) + g[R]
    BY <2>2, <2>4, <2>5
  <2>7. g[U \ {k}] = EntryBytes(m[c]) + g[R]
    <3>1. (U \ {k}) \ {c} = R
      OBVIOUS
    <3> QED
      BY <2>2, <2>4, <2>5, <3>1
  <2>8. EntryBytes(m[c]) \in Nat /\ EntryBytes(m[k]) \in Nat /\ g[R] \in Nat
    BY <2>4 DEF Sized, Adds
  <2> QED
    BY <2>3, <2>4, <2>6, <2>7, <2>8
<1> QED
  BY <1>2

\* What the proofs below use of Bytes().
LEMMA BytesOfKeys ==
  ASSUME NEW m, NEW S, Sized(m, S)
  PROVE  /\ Bytes(m, {}) = 0
         /\ \A T \in SUBSET S : Bytes(m, T) \in Nat
         /\ \A T \in SUBSET S : \A x \in T :
              Bytes(m, T) = EntryBytes(m[x]) + Bytes(m, T \ {x})
<1>1. PICK g : Adds(m, S, g)
  BY AddsExists
<1>2. \A T \in SUBSET S : Bytes(m, T) = g[T]
  BY <1>1, BytesAdds
<1>3. g[{}] = 0 /\ \A T \in SUBSET S : g[T] \in Nat
  BY <1>1 DEF Adds
<1>4. ASSUME NEW T \in SUBSET S, NEW x \in T
      PROVE  Bytes(m, T) = EntryBytes(m[x]) + Bytes(m, T \ {x})
  BY <1>1, <1>2, AddsAnyOrder
<1> QED
  BY <1>2, <1>3, <1>4

-----------------------------------------------------------------------------
(***************************************************************************)
(* TakeLogsByApproxBytes(): the loop over the keys takes the longest batch *)
(* that fits.  When it has visited the keys up to some key, it has taken   *)
(* those that fit and knows their size; it goes on only if all did.        *)
(***************************************************************************)

State(keys, used, go) == [keys |-> keys, used |-> used, go |-> go]

Turn(m, n, key, state) ==
  IF state.go /\ Fits(state.used, key, m, n)
  THEN State(state.keys \cup {key}, state.used + EntryBytes(m[key]), TRUE)
  ELSE [state EXCEPT !.go = FALSE]

\* The recursive function the loop of TakeLogsByApproxBytes() is made of.
Loop(m, n) ==
  LET iter[s \in SUBSET DOMAIN m] ==
        IF s = {} THEN State({}, 0, n # 0)
        ELSE LET x == Max(s) IN Turn(m, n, x, iter[s \ {x}])
  IN  iter

LEMMA WithinBytesIsLoop ==
  ASSUME NEW m, NEW n
  PROVE  WithinBytes(m, n) = {k \in DOMAIN m : k \in Loop(m, n)[DOMAIN m].keys}
BY DEF WithinBytes, Loop, MapThenFoldSet, Turn, State

LEMMA LoopEquation ==
  ASSUME NEW m, Buffer(m), Sized(m, DOMAIN m), NEW n \in Nat, NEW T \in SUBSET DOMAIN m
  PROVE  Loop(m, n)[T] =
           IF T = {} THEN State({}, 0, n # 0)
           ELSE Turn(m, n, Max(T), Loop(m, n)[T \ {Max(T)}])
<1> DEFINE S == DOMAIN m
           V == [keys : SUBSET S, used : Nat, go : BOOLEAN]
           pick == [U \in SUBSET S |-> Max(U)]
           op == [k \in S |-> [state \in V |-> Turn(m, n, k, state)]]
           base == State({}, 0, n # 0)
<1>1. Turns(S, V, op)
  <2>1. ASSUME NEW k \in S, NEW state \in V PROVE Turn(m, n, k, state) \in V
    <3>1. EntryBytes(m[k]) \in Nat
      BY DEF Sized
    <3>2. State(state.keys \cup {k}, state.used + EntryBytes(m[k]), TRUE) \in V
      BY <3>1 DEF State
    <3>3. [state EXCEPT !.go = FALSE] \in V
      OBVIOUS
    <3> QED
      BY <3>2, <3>3 DEF Turn
  <2> HIDE DEF V
  <2> QED
    BY <2>1 DEF Turns
<1>2. Picks(S, pick) /\ IsFiniteSet(S)
  <2>1. IsFiniteSet(S) /\ S \subseteq Nat
    BY DEF Buffer
  <2>2. ASSUME NEW U \in SUBSET S, U # {} PROVE Max(U) \in U
    <3>1. IsFiniteSet(U) /\ U \subseteq Nat
      BY <2>1, FS_Subset
    <3> QED
      BY <2>2, <3>1, GreatestNat
  <2> QED
    BY <2>1, <2>2 DEF Picks
<1>3. base \in V
  BY DEF State
<1>4. PICK g : Carries(S, V, base, pick, op, g)
  <2> HIDE DEF S, V, pick, op, base
  <2> QED
    BY <1>1, <1>2, <1>3, FoldExists
<1>5. ASSUME NEW U \in SUBSET S, U # {}
      PROVE  g[U] = Turn(m, n, Max(U), g[U \ {Max(U)}])
  <2>1. pick[U] = Max(U) /\ Max(U) \in S /\ g[U \ {Max(U)}] \in V
    BY <1>2, <1>4, <1>5 DEF Picks, Carries
  <2>2. g[U] = op[Max(U)][g[U \ {Max(U)}]]
    BY <1>4, <1>5, <2>1 DEF Carries
  <2> HIDE DEF V
  <2> QED
    BY <2>1, <2>2
<1>6. g = [s \in SUBSET DOMAIN m |->
        IF s = {} THEN State({}, 0, n # 0)
        ELSE LET x == Max(s) IN Turn(m, n, x, g[s \ {x}])]
  <2>1. g \in [SUBSET S -> V] /\ g[{}] = base
    BY <1>4 DEF Carries
  <2> HIDE DEF V
  <2> QED
    BY <1>5, <2>1
<1>7. Loop(m, n) = [s \in SUBSET DOMAIN m |->
        IF s = {} THEN State({}, 0, n # 0)
        ELSE LET x == Max(s) IN Turn(m, n, x, Loop(m, n)[s \ {x}])]
  <2> HIDE DEF pick, op, V, base, S
  <2> QED
    BY <1>6, Zenon DEF Loop
<1> QED
  BY <1>7

\* The keys up to some key.
Prefix(m, T) ==
  T \subseteq DOMAIN m /\ \A k \in T : \A j \in DOMAIN m : j < k => j \in T

\* What the loop knows when it has visited a prefix.
Visited(m, n, T) ==
  LET fits == LongestFit(m, n) \cap T
  IN /\ Loop(m, n)[T] = State(fits, Bytes(m, fits), n # 0 /\ T \subseteq LongestFit(m, n))
     /\ n # 0 /\ ~(T \subseteq LongestFit(m, n)) => Bytes(m, T) > n

LEMMA VisitedNone ==
  ASSUME NEW m, Buffer(m), Sized(m, DOMAIN m), NEW n \in Nat
  PROVE  Visited(m, n, {})
<1>1. Loop(m, n)[{}] = State({}, 0, n # 0)
  BY LoopEquation
<1>2. Bytes(m, {}) = 0 /\ LongestFit(m, n) \cap {} = {}
  BY BytesOfKeys
<1> QED
  BY <1>1, <1>2 DEF Visited

\* The last key of a prefix fits when the prefix does.
LEMMA LastFits ==
  ASSUME NEW m, Buffer(m), NEW n \in Nat, NEW T, Prefix(m, T),
         NEW x \in T, \A k \in T : k <= x
  PROVE  /\ x \in LongestFit(m, n) <=> n # 0 /\ (T = {x} \/ Bytes(m, T) <= n)
         /\ Prefix(m, T \ {x})
<1>1. DOMAIN m \subseteq Nat /\ x \in DOMAIN m
  BY DEF Buffer, Prefix
<1>2. {j \in DOMAIN m : j <= x} = T
  <2>1. ASSUME NEW j \in DOMAIN m, j <= x PROVE j \in T
    BY <1>1, <2>1 DEF Prefix
  <2> QED
    BY <2>1 DEF Prefix
<1>3. x \in LongestFit(m, n) <=> n > 0 /\ (T = {x} \/ Bytes(m, T) <= n)
  BY <1>1, <1>2 DEF LongestFit
<1>4. Prefix(m, T \ {x})
  <2>1. ASSUME NEW k \in T \ {x}, NEW j \in DOMAIN m, j < k PROVE j \in T \ {x}
    <3>1. j \in T /\ k <= x /\ j \in Nat /\ k \in Nat /\ x \in Nat
      BY <1>1, <2>1 DEF Prefix
    <3> QED
      BY <2>1, <3>1
  <2> QED
    BY <2>1 DEF Prefix
<1> QED
  BY <1>3, <1>4

LEMMA VisitedNext ==
  ASSUME NEW m, Buffer(m), Sized(m, DOMAIN m), NEW n \in Nat,
         NEW T, Prefix(m, T), T # {}, Visited(m, n, T \ {Max(T)})
  PROVE  Visited(m, n, T)
<1> DEFINE x == Max(T)
           R == T \ {x}
           L == LongestFit(m, n)
<1>1. /\ T \in SUBSET DOMAIN m /\ IsFiniteSet(T) /\ T \subseteq Nat
      /\ R \in SUBSET DOMAIN m /\ L \in SUBSET DOMAIN m
  BY FS_Subset DEF Prefix, Buffer, LongestFit
<1>2. x \in T /\ \A k \in T : k <= x
  BY <1>1, GreatestNat
<1> HIDE DEF x
<1>3. x \in L <=> n # 0 /\ (T = {x} \/ Bytes(m, T) <= n)
  BY <1>2, LastFits
<1>4. Loop(m, n)[T] = Turn(m, n, x, Loop(m, n)[R])
  BY <1>1, LoopEquation DEF x
<1>5. /\ Loop(m, n)[R] = State(L \cap R, Bytes(m, L \cap R), n # 0 /\ R \subseteq L)
      /\ n # 0 /\ ~(R \subseteq L) => Bytes(m, R) > n
  BY DEF Visited, x
<1> HIDE DEF L, R
<1>6. EntryBytes(m[x]) \in Nat /\ EntryBytes(m[x]) > 0
  BY <1>1, <1>2 DEF Sized
<1>7. /\ Bytes(m, R) \in Nat /\ Bytes(m, T) \in Nat /\ Bytes(m, {}) = 0
      /\ Bytes(m, T) = EntryBytes(m[x]) + Bytes(m, R)
  BY <1>1, <1>2, BytesOfKeys DEF R
<1>8. Bytes(m, R) = 0 <=> R = {}
  <2>1. ASSUME NEW k \in R PROVE Bytes(m, R) # 0
    <3>1. Bytes(m, R) = EntryBytes(m[k]) + Bytes(m, R \ {k}) /\ Bytes(m, R \ {k}) \in Nat
      BY <1>1, BytesOfKeys
    <3>2. EntryBytes(m[k]) \in Nat /\ EntryBytes(m[k]) > 0
      BY <1>1 DEF Sized
    <3> QED
      BY <3>1, <3>2
  <2> QED
    BY <1>7, <2>1
<1>9. R = {} <=> T = {x}
  BY <1>2 DEF R
<1>10. n # 0 /\ ~(T \subseteq L) => Bytes(m, T) > n
  <2>1. ASSUME n # 0, x \notin L PROVE Bytes(m, T) > n
    BY <1>3, <1>7, <2>1
  <2>2. ASSUME n # 0, ~(R \subseteq L) PROVE Bytes(m, T) > n
    BY <1>5, <1>6, <1>7, <2>2
  <2>3. x \in L /\ R \subseteq L => T \subseteq L
    BY DEF R
  <2> QED
    BY <2>1, <2>2, <2>3
<1>11. Loop(m, n)[T] = State(L \cap T, Bytes(m, L \cap T), n # 0 /\ T \subseteq L)
  <2>1. CASE n # 0 /\ R \subseteq L /\ x \in L
    <3>1. L \cap R = R /\ L \cap T = T /\ T \subseteq L /\ R \cup {x} = T
      BY <1>2, <2>1 DEF R
    <3>2. Loop(m, n)[R] = State(R, Bytes(m, R), TRUE)
      BY <1>5, <2>1, <3>1
    <3>3. Fits(Bytes(m, R), x, m, n)
      BY <1>3, <1>6, <1>7, <1>8, <1>9, <2>1 DEF Fits
    <3>4. Turn(m, n, x, State(R, Bytes(m, R), TRUE)) =
            State(R \cup {x}, Bytes(m, R) + EntryBytes(m[x]), TRUE)
      BY <3>3 DEF Turn, State
    <3>5. Bytes(m, R) + EntryBytes(m[x]) = Bytes(m, T)
      BY <1>6, <1>7
    <3> QED
      BY <1>4, <2>1, <3>1, <3>2, <3>4, <3>5
  <2>2. CASE x \notin L
    <3>1. L \cap R = L \cap T /\ ~(T \subseteq L)
      BY <1>2, <2>2 DEF R
    <3>2. CASE n # 0 /\ R \subseteq L
      <4>1. L \cap R = R
        BY <3>2
      <4>2. Loop(m, n)[R] = State(R, Bytes(m, R), TRUE)
        BY <1>5, <3>2, <4>1
      <4>3. ~Fits(Bytes(m, R), x, m, n)
        BY <1>3, <1>6, <1>7, <1>8, <1>9, <2>2, <3>2 DEF Fits
      <4>4. Turn(m, n, x, State(R, Bytes(m, R), TRUE)) = State(R, Bytes(m, R), FALSE)
        BY <4>3 DEF Turn, State
      <4> QED
        BY <1>4, <3>1, <4>1, <4>2, <4>4
    <3>3. CASE ~(n # 0 /\ R \subseteq L)
      <4>1. Loop(m, n)[R] = State(L \cap R, Bytes(m, L \cap R), FALSE)
        BY <1>5, <3>3
      <4>2. \A keys, used :
              Turn(m, n, x, State(keys, used, FALSE)) = State(keys, used, FALSE)
        BY DEF Turn, State
      <4> QED
        BY <1>4, <3>1, <4>1, <4>2
    <3> QED
      BY <3>2, <3>3
  <2>3. CASE x \in L /\ ~(R \subseteq L)
    <3>1. Bytes(m, T) > n /\ T # {x}
      BY <1>3, <1>5, <1>6, <1>7, <1>9, <2>3
    <3> QED
      BY <1>3, <1>7, <2>3, <3>1
  <2>4. CASE n = 0
    BY <1>3, <2>2, <2>4
  <2> QED
    BY <2>1, <2>2, <2>3, <2>4
<1> QED
  BY <1>10, <1>11 DEF Visited, L

LEMMA WithinBytesIsLongestFit ==
  ASSUME NEW m, Buffer(m), Sized(m, DOMAIN m), NEW n \in Nat
  PROVE  WithinBytes(m, n) = LongestFit(m, n)
<1> DEFINE Off == {T \in SUBSET DOMAIN m : Prefix(m, T) /\ ~Visited(m, n, T)}
<1>1. \A T \in SUBSET DOMAIN m : IsFiniteSet(T) /\ T \subseteq Nat
  BY FS_Subset DEF Buffer
<1>2. Off = {}
  <2> SUFFICES ASSUME Off # {} PROVE FALSE
    OBVIOUS
  <2>1. PICK T \in Off : \A x \in T : T \ {x} \notin Off
    <3>1. \A U \in Off : IsFiniteSet(U)
      BY <1>1
    <3> HIDE DEF Off
    <3> QED
      BY <3>1, SmallestSet
  <2>2. T # {}
    BY VisitedNone
  <2>3. Max(T) \in T /\ \A k \in T : k <= Max(T)
    BY <1>1, <2>2, GreatestNat
  <2>4. T \ {Max(T)} \in SUBSET DOMAIN m /\ Prefix(m, T \ {Max(T)})
    BY <2>3, LastFits
  <2>5. Visited(m, n, T \ {Max(T)})
    BY <2>1, <2>3, <2>4
  <2> QED
    BY <2>2, <2>5, VisitedNext
<1>3. Prefix(m, DOMAIN m)
  BY DEF Prefix
<1>4. Visited(m, n, DOMAIN m)
  BY <1>2, <1>3
<1>5. LongestFit(m, n) \subseteq DOMAIN m
  BY DEF LongestFit
<1>6. Loop(m, n)[DOMAIN m].keys = LongestFit(m, n)
  BY <1>4, <1>5 DEF Visited, State
<1> QED
  BY <1>5, <1>6, WithinBytesIsLoop

-----------------------------------------------------------------------------
(***************************************************************************)
(* Steps.                                                                  *)
(***************************************************************************)

LEMMA PathConstants ==
  /\ SeqWrap \in Nat \ {0} /\ LastMessage \in Nat /\ Info \in Levels
  /\ MaxRecordCount \in Nat /\ TrimRecordCount \in Nat /\ TrimRecordCount >= 1
BY LogPathAssumption, LogBufferAssumption

StepKinds ==
  \/ UNCHANGED <<seqPerSec, made, raced, writer, logs, batch>>
  \/ \E w \in Writers, level \in Levels : Log(w, level)
  \/ \E w \in Writers : LoadSeq(w) \/ StoreSeq(w) \/ AddLog(w)
  \/ \E keys \in SUBSET DOMAIN logs : Take(keys)
  \/ Published
  \/ PublishFails

\* The three ways to take a batch take some keys of the buffer.
LEMMA StepCases ==
  ASSUME [Next]_vars
  PROVE  /\ StepKinds
         /\ [ClockNext]_clock
         /\ currentLogLevel' = currentLogLevel \/ currentLogLevel' \in Levels
<1>1. CASE UNCHANGED vars
  BY <1>1 DEF StepKinds, vars, path
<1>2. CASE ClockNext /\ UNCHANGED path
  BY <1>2 DEF StepKinds, path
<1>3. ASSUME NEW level \in Levels, SetLogLevel(level) PROVE StepKinds
  BY <1>3 DEF SetLogLevel, StepKinds
<1>4. ASSUME NEW level \in Levels, SetLogLevel(level)
      PROVE  UNCHANGED clock /\ currentLogLevel' \in Levels
  BY <1>4 DEF SetLogLevel
<1>5. ASSUME NEW w \in Writers, NEW level \in Levels, Log(w, level)
      PROVE  StepKinds /\ UNCHANGED clock /\ currentLogLevel' = currentLogLevel
  <2>1. UNCHANGED clock /\ currentLogLevel' = currentLogLevel
    BY <1>5 DEF Log, Moves
  <2> QED
    BY <1>5, <2>1 DEF StepKinds
<1>6. ASSUME NEW w \in Writers, WriteLog(w)
      PROVE  StepKinds /\ UNCHANGED clock /\ currentLogLevel' = currentLogLevel
  <2>1. UNCHANGED clock /\ currentLogLevel' = currentLogLevel
    BY <1>6 DEF WriteLog, LoadSeq, StoreSeq, AddLog, Moves
  <2> QED
    BY <1>6, <2>1 DEF WriteLog, StepKinds
<1>7. ASSUME NEW keys \in SUBSET DOMAIN logs, Take(keys)
      PROVE  StepKinds /\ UNCHANGED clock /\ currentLogLevel' = currentLogLevel
  <2>1. UNCHANGED clock /\ currentLogLevel' = currentLogLevel
    BY <1>7 DEF Take
  <2> QED
    BY <1>7, <2>1 DEF StepKinds
<1>8. CASE TakeLogs
  BY <1>7, <1>8 DEF TakeLogs
<1>9. ASSUME NEW n \in Budgets, TakeLogsAtMost(n) \/ TakeLogsByApproxBytes(n)
      PROVE  StepKinds /\ UNCHANGED clock /\ currentLogLevel' = currentLogLevel
  <2>1. First(logs, n) \in SUBSET DOMAIN logs
    BY DEF First
  <2>2. WithinBytes(logs, n) \in SUBSET DOMAIN logs
    BY DEF WithinBytes
  <2> QED
    BY <1>7, <1>9, <2>1, <2>2 DEF TakeLogsAtMost, TakeLogsByApproxBytes
<1>10. CASE Published \/ PublishFails
  <2>1. UNCHANGED clock /\ currentLogLevel' = currentLogLevel
    BY <1>10 DEF Published, PublishFails
  <2> QED
    BY <1>10, <2>1 DEF StepKinds
<1> QED
  BY <1>1, <1>2, <1>3, <1>4, <1>5, <1>6, <1>8, <1>9, <1>10 DEF Next

-----------------------------------------------------------------------------
(***************************************************************************)
(* Types: what a thread in WriteLog() knows, and that the messages are the *)
(* numbers up to the keys made.                                            *)
(***************************************************************************)

BeganAt == [at : {"began"}, now : Nat]

KeyedAt == [at : {"keyed", "adding"}, key : Nat, seq : Nat, message : Nat]

\* The thread has a message that is neither in the buffer nor in a batch.
Holds(w) == writer[w].at \in {"keyed", "adding"}

Counters ==
  /\ made \in 0 .. LastMessage
  /\ seqPerSec \in 0 .. made
  /\ raced \in BOOLEAN

Threads ==
  /\ writer \in [Writers -> {Idle} \cup BeganAt \cup KeyedAt]
  /\ \A w \in Writers : Holds(w) => writer[w].message \in 1 .. made
  /\ \A w \in Writers : writer[w].at = "keyed" => writer[w].seq < made

Stores ==
  /\ Buffer(logs) /\ Buffer(batch)
  /\ \A k \in DOMAIN logs : logs[k] \in 1 .. made
  /\ \A k \in DOMAIN batch : batch[k] \in 1 .. made

TypeInv ==
  /\ ClockInv
  /\ currentLogLevel \in Levels
  /\ Counters
  /\ Threads
  /\ Stores

LEMMA TypesGiveTypeOK == ASSUME TypeInv PROVE TypeOK
<1>1. ClockTypeOK
  BY ClockTypesGiveTypeOK DEF TypeInv, ClockInv
<1>2. LastMessage \in Nat /\ made \in 0 .. LastMessage /\ seqPerSec \in 0 .. made
  BY PathConstants DEF TypeInv, Counters
<1>3. made \in 0 .. LastMessage /\ seqPerSec \in 0 .. LastMessage
  BY <1>2
<1>4. raced \in BOOLEAN /\ currentLogLevel \in Levels
  BY DEF TypeInv, Counters
<1>5. \A w \in Writers : writer[w] = Idle \/ writer[w].at \in Places
  BY DEF TypeInv, Threads, BeganAt, KeyedAt, Places
<1>6. DOMAIN logs \cup DOMAIN batch \subseteq Nat
  BY DEF TypeInv, Stores, Buffer
<1>7. \A k \in DOMAIN logs : logs[k] \in Messages
  BY <1>2 DEF TypeInv, Stores, Messages
<1>8. \A k \in DOMAIN batch : batch[k] \in Messages
  BY <1>2 DEF TypeInv, Stores, Messages
<1>9. Range(logs) \cup Range(batch) \subseteq Messages
  BY <1>7, <1>8 DEF Range
<1> QED
  BY <1>1, <1>3, <1>4, <1>5, <1>6, <1>9 DEF TypeOK

LEMMA TypesStart == ASSUME Init PROVE TypeInv
<1>1. ClockInv /\ currentLogLevel \in Levels
  BY ClockStarts, PathConstants DEF Init
<1>2. Counters
  <2>1. made = 0 /\ seqPerSec = 0 /\ raced = FALSE
    BY DEF Init
  <2>2. 0 \in 0 .. LastMessage /\ 0 \in 0 .. 0
    BY PathConstants
  <2> QED
    BY <2>1, <2>2 DEF Counters
<1>3. Threads
  BY DEF Init, Threads, Holds, Idle
<1>4. Stores
  BY NoLogsIsBuffer DEF Init, Stores
<1> QED
  BY <1>1, <1>2, <1>3, <1>4 DEF TypeInv

LEMMA KeyIsNat ==
  ASSUME TypeInv, NEW now \in Nat
  PROVE  Key(now) \in Nat /\ Key(now) % SeqWrap = seqPerSec % SeqWrap
<1>1. SeqWrap \in Nat \ {0} /\ seqPerSec \in Nat
  BY PathConstants DEF TypeInv, Counters
<1>2. uptime \in Nat
  BY ConstantTypes DEF TypeInv, ClockInv, ClockTypes
<1> DEFINE t == IF TimeValid(now) THEN now ELSE uptime
<1>3. t \in Nat
  BY <1>2
<1>4. Key(now) = t * SeqWrap + (seqPerSec % SeqWrap)
  BY DEF Key
<1> HIDE DEF t
<1>5. /\ t * SeqWrap + (seqPerSec % SeqWrap) \in Nat
      /\ (t * SeqWrap + (seqPerSec % SeqWrap)) % SeqWrap = seqPerSec % SeqWrap
  BY <1>1, <1>3, KeyRemainder
<1> QED
  BY <1>4, <1>5

LEMMA CounterSteps == ASSUME TypeInv, [Next]_vars PROVE Counters'
<1>a. LastMessage \in Nat /\ made \in 0 .. LastMessage /\ seqPerSec \in 0 .. made
  BY PathConstants DEF TypeInv, Counters
<1>b. raced \in BOOLEAN
  BY DEF TypeInv, Counters
<1>1. CASE UNCHANGED <<seqPerSec, made, raced>>
  BY <1>1, <1>a, <1>b DEF Counters
<1>2. ASSUME NEW w \in Writers, LoadSeq(w) PROVE Counters'
  <2>1. /\ made < LastMessage /\ made' = made + 1 /\ seqPerSec' = seqPerSec
        /\ raced' \in BOOLEAN
    BY <1>2 DEF LoadSeq
  <2>2. made' \in 0 .. LastMessage /\ seqPerSec' \in 0 .. made'
    BY <2>1, <1>a
  <2> QED
    BY <2>1, <2>2 DEF Counters
<1>3. ASSUME NEW w \in Writers, StoreSeq(w) PROVE Counters'
  <2>1. /\ writer[w].at = "keyed" /\ seqPerSec' = writer[w].seq + 1
        /\ made' = made /\ raced' = raced
    BY <1>3 DEF StoreSeq, Moves
  <2>2. writer[w].seq \in Nat /\ writer[w].seq < made
    BY <2>1 DEF TypeInv, Threads, BeganAt, KeyedAt, Idle
  <2>3. made' \in 0 .. LastMessage /\ seqPerSec' \in 0 .. made'
    BY <2>1, <2>2, <1>a
  <2> QED
    BY <2>1, <2>3, <1>b DEF Counters
<1>4. ASSUME NEW w \in Writers, AddLog(w) PROVE UNCHANGED <<seqPerSec, made, raced>>
  BY <1>4 DEF AddLog
<1>5. ASSUME NEW w \in Writers, NEW level \in Levels, Log(w, level)
      PROVE  UNCHANGED <<seqPerSec, made, raced>>
  BY <1>5 DEF Log
<1>6. ASSUME (\E keys \in SUBSET DOMAIN logs : Take(keys)) \/ Published \/ PublishFails
      PROVE  UNCHANGED <<seqPerSec, made, raced>>
  BY <1>6 DEF Take, Published, PublishFails
<1> QED
  BY StepCases, <1>1, <1>2, <1>3, <1>4, <1>5, <1>6 DEF StepKinds

LEMMA ThreadSteps == ASSUME TypeInv, [Next]_vars PROVE Threads'
<1>a. /\ writer \in [Writers -> {Idle} \cup BeganAt \cup KeyedAt]
      /\ \A w \in Writers : Holds(w) => writer[w].message \in 1 .. made
      /\ \A w \in Writers : writer[w].at = "keyed" => writer[w].seq < made
  BY DEF TypeInv, Threads
<1>b. seqPerSec \in Nat /\ made \in Nat /\ seqPerSec <= made
  BY DEF TypeInv, Counters
<1>1. CASE UNCHANGED <<made, writer>>
  BY <1>1, <1>a DEF Threads, Holds
<1>2. ASSUME NEW w \in Writers, NEW level \in Levels, Log(w, level) PROVE Threads'
  <2> DEFINE to == [at |-> "began", now |-> SystemTime]
  <2>1. writer' = [writer EXCEPT ![w] = to] /\ made' = made
    BY <1>2 DEF Log, Moves
  <2>2. to \in BeganAt /\ to.at = "began"
    BY SystemTimeIsNat DEF TypeInv, ClockInv, BeganAt
  <2> HIDE DEF to
  <2> QED
    BY <1>a, <2>1, <2>2 DEF Threads, Holds
<1>3. ASSUME NEW w \in Writers, LoadSeq(w) PROVE Threads'
  <2> DEFINE to == [at |-> "keyed", key |-> Key(writer[w].now), seq |-> seqPerSec,
                    message |-> made']
  <2>1. writer' = [writer EXCEPT ![w] = to] /\ made' = made + 1 /\ writer[w].at = "began"
    BY <1>3 DEF LoadSeq, Moves
  <2>2. writer[w].now \in Nat
    BY <1>a, <2>1 DEF Idle, BeganAt, KeyedAt
  <2>3. Key(writer[w].now) \in Nat
    BY <2>2, KeyIsNat
  <2>4. to \in KeyedAt /\ to.at = "keyed" /\ to.seq < made' /\ to.message \in 1 .. made'
    BY <2>1, <2>3, <1>b DEF KeyedAt
  <2> HIDE DEF to
  <2>5. \A m \in 1 .. made : m \in 1 .. made'
    BY <1>b, <2>1
  <2>6. writer' \in [Writers -> {Idle} \cup BeganAt \cup KeyedAt]
    BY <1>a, <2>1, <2>4
  <2>7. \A v \in Writers : writer'[v] = IF v = w THEN to ELSE writer[v]
    BY <1>a, <2>1
  <2>8. \A v \in Writers : Holds(v)' => writer'[v].message \in 1 .. made'
    BY <1>a, <2>4, <2>5, <2>7 DEF Holds
  <2>9. \A v \in Writers : writer'[v].at = "keyed" => writer'[v].seq < made'
    <3> SUFFICES ASSUME NEW v \in Writers, writer'[v].at = "keyed"
                 PROVE  writer'[v].seq < made'
      OBVIOUS
    <3>1. CASE v = w
      BY <3>1, <2>4, <2>7
    <3>2. CASE v # w
      <4>1. writer'[v] = writer[v]
        BY <3>2, <2>7
      <4>2. writer[v].seq < made /\ writer[v].seq \in Nat
        BY <4>1, <1>a DEF Idle, BeganAt, KeyedAt
      <4> QED
        BY <4>1, <4>2, <1>b, <2>1
    <3> QED
      BY <3>1, <3>2
  <2> QED
    BY <2>6, <2>8, <2>9 DEF Threads
<1>4. ASSUME NEW w \in Writers, StoreSeq(w) PROVE Threads'
  <2> DEFINE to == [writer[w] EXCEPT !.at = "adding"]
  <2>1. writer' = [writer EXCEPT ![w] = to] /\ made' = made /\ writer[w].at = "keyed"
    BY <1>4 DEF StoreSeq, Moves
  <2>2. writer[w] \in KeyedAt
    BY <1>a, <2>1 DEF Idle, BeganAt, KeyedAt
  <2>3. to \in KeyedAt /\ to.at = "adding" /\ to.message = writer[w].message
    BY <2>2 DEF KeyedAt
  <2>4. to.message \in 1 .. made
    BY <1>a, <2>1, <2>3 DEF Holds
  <2> HIDE DEF to
  <2> QED
    BY <1>a, <2>1, <2>3, <2>4 DEF Threads, Holds
<1>5. ASSUME NEW w \in Writers, AddLog(w) PROVE Threads'
  <2>1. writer' = [writer EXCEPT ![w] = Idle] /\ made' = made
    BY <1>5 DEF AddLog, Moves
  <2> QED
    BY <1>a, <2>1 DEF Threads, Holds, Idle
<1>6. ASSUME (\E keys \in SUBSET DOMAIN logs : Take(keys)) \/ Published \/ PublishFails
      PROVE  UNCHANGED <<made, writer>>
  BY <1>6 DEF Take, Published, PublishFails
<1> QED
  BY StepCases, <1>1, <1>2, <1>3, <1>4, <1>5, <1>6 DEF StepKinds

\* How each kind of step moves the messages.
LEMMA StoreSteps ==
  ASSUME TypeInv, [Next]_vars
  PROVE  /\ made' \in Nat /\ made' >= made
         /\ \/ UNCHANGED <<logs, batch>>
            \/ \E w \in Writers :
                 /\ AddLog(w)
                 /\ writer[w] \in KeyedAt
                 /\ batch' = batch
                 /\ logs' = AddLogs(logs, OneLog(writer[w].key, writer[w].message))
            \/ \E keys \in SUBSET DOMAIN logs :
                 /\ batch = NoLogs
                 /\ batch' = Restrict(logs, keys)
                 /\ logs' = Without(logs, keys)
                 /\ UNCHANGED writer
            \/ batch' = NoLogs /\ logs' = logs /\ UNCHANGED writer
            \/ /\ PublishFails
               /\ batch # NoLogs /\ batch' = NoLogs
               /\ logs' = AddLogs(logs, batch)
               /\ UNCHANGED writer
<1>a. made \in Nat /\ writer \in [Writers -> {Idle} \cup BeganAt \cup KeyedAt]
  BY DEF TypeInv, Counters, Threads
<1>1. made' \in Nat /\ made' >= made
  <2>1. made' = made \/ made' = made + 1
    BY StepCases
       DEF StepKinds, Log, LoadSeq, StoreSeq, AddLog, Take, Published, PublishFails
  <2> QED
    BY <1>a, <2>1
<1>2. ASSUME NEW w \in Writers, AddLog(w)
      PROVE  /\ writer[w] \in KeyedAt /\ batch' = batch
             /\ logs' = AddLogs(logs, OneLog(writer[w].key, writer[w].message))
  BY <1>2, <1>a DEF AddLog, Moves, Idle, BeganAt, KeyedAt
<1>3. ASSUME NEW w \in Writers, NEW level \in Levels, Log(w, level)
      PROVE  UNCHANGED <<logs, batch>>
  BY <1>3 DEF Log
<1>4. ASSUME NEW w \in Writers, LoadSeq(w) \/ StoreSeq(w) PROVE UNCHANGED <<logs, batch>>
  BY <1>4 DEF LoadSeq, StoreSeq
<1> QED
  BY <1>1, <1>2, <1>3, <1>4, StepCases DEF StepKinds, Take, Published, PublishFails

LEMMA StoresStep == ASSUME TypeInv, [Next]_vars PROVE Stores'
<1>a. /\ Buffer(logs) /\ Buffer(batch)
      /\ \A k \in DOMAIN logs : logs[k] \in 1 .. made
      /\ \A k \in DOMAIN batch : batch[k] \in 1 .. made
  BY DEF TypeInv, Stores
<1>b. \A m \in 1 .. made : m \in 1 .. made'
  BY StoreSteps DEF TypeInv, Counters
<1>c. /\ \A k \in DOMAIN logs : logs[k] \in 1 .. made'
      /\ \A k \in DOMAIN batch : batch[k] \in 1 .. made'
  BY <1>a, <1>b
<1>d. Buffer(NoLogs) /\ \A k \in DOMAIN NoLogs : NoLogs[k] \in 1 .. made'
  BY NoLogsIsBuffer
<1>1. CASE UNCHANGED <<logs, batch>>
  BY <1>1, <1>a, <1>c DEF Stores, Buffer
<1>2. ASSUME NEW more, Buffer(more), \A k \in DOMAIN more : more[k] \in 1 .. made',
             logs' = AddLogs(logs, more)
      PROVE  Buffer(logs)' /\ \A k \in DOMAIN logs' : logs'[k] \in 1 .. made'
  <2>1. /\ Buffer(AddLogs(logs, more))
        /\ \A k \in DOMAIN AddLogs(logs, more) :
             \/ k \in DOMAIN logs \ DOMAIN more /\ AddLogs(logs, more)[k] = logs[k]
             \/ k \in DOMAIN more /\ AddLogs(logs, more)[k] = more[k]
    BY <1>2, <1>a, AddLogsGives
  <2>2. Buffer(logs)'
    BY <1>2, <2>1 DEF Buffer
  <2> QED
    BY <1>2, <1>c, <2>1, <2>2
<1>3. ASSUME NEW w \in Writers, writer[w] \in KeyedAt, AddLog(w), batch' = batch,
             logs' = AddLogs(logs, OneLog(writer[w].key, writer[w].message))
      PROVE  Stores'
  <2> DEFINE one == OneLog(writer[w].key, writer[w].message)
  <2>1. writer[w].message \in 1 .. made'
    <3>1. writer[w].at = "adding"
      BY <1>3 DEF AddLog, Moves
    <3> QED
      BY <1>b, <3>1 DEF TypeInv, Threads, Holds
  <2>2. writer[w].key \in Nat
    BY <1>3 DEF KeyedAt
  <2>3. /\ Buffer(one) /\ DOMAIN one = {writer[w].key}
        /\ one[writer[w].key] = writer[w].message
    BY <2>2, OneLogIsBuffer
  <2> HIDE DEF one
  <2>4. \A k \in DOMAIN one : one[k] \in 1 .. made'
    BY <2>1, <2>3
  <2>5. Buffer(logs)' /\ \A k \in DOMAIN logs' : logs'[k] \in 1 .. made'
    BY <1>2, <1>3, <2>3, <2>4 DEF one
  <2> QED
    BY <1>3, <1>a, <1>c, <2>5 DEF Stores, Buffer
<1>4. ASSUME NEW keys \in SUBSET DOMAIN logs,
             batch' = Restrict(logs, keys), logs' = Without(logs, keys)
      PROVE  Stores'
  <2>1. /\ Buffer(Without(logs, keys)) /\ Buffer(Restrict(logs, keys))
        /\ DOMAIN Without(logs, keys) = DOMAIN logs \ keys
        /\ DOMAIN Restrict(logs, keys) = keys
        /\ \A k \in DOMAIN logs \ keys : Without(logs, keys)[k] = logs[k]
        /\ \A k \in keys : Restrict(logs, keys)[k] = logs[k]
    BY <1>a, PartIsBuffer
  <2>2. Buffer(logs)' /\ Buffer(batch)'
    BY <1>4, <2>1 DEF Buffer
  <2> QED
    BY <1>4, <1>c, <2>1, <2>2 DEF Stores
<1>5. CASE batch' = NoLogs /\ logs' = logs
  BY <1>5, <1>a, <1>c, <1>d DEF Stores, Buffer
<1>6. CASE batch' = NoLogs /\ logs' = AddLogs(logs, batch)
  <2>1. Buffer(logs)' /\ \A k \in DOMAIN logs' : logs'[k] \in 1 .. made'
    BY <1>2, <1>6, <1>a, <1>c
  <2> QED
    BY <1>6, <1>d, <2>1 DEF Stores, Buffer
<1> QED
  BY StoreSteps, <1>1, <1>3, <1>4, <1>5, <1>6

LEMMA TypesStep == ASSUME TypeInv, [Next]_vars PROVE TypeInv'
<1>1. ClockInv'
  BY StepCases, ClockSteps DEF TypeInv
<1>2. currentLogLevel' \in Levels
  BY StepCases DEF TypeInv
<1> QED
  BY <1>1, <1>2, CounterSteps, ThreadSteps, StoresStep DEF TypeInv

LEMMA TypesAlways == Spec => []TypeInv
<1>1. Init => TypeInv
  BY TypesStart
<1>2. TypeInv /\ [Next]_vars => TypeInv'
  BY TypesStep
<1> QED
  BY <1>1, <1>2, PTL DEF Spec

\* Every variable of the logger, the sink, the buffer and the uploader keeps
\* its type; that the counter stays within the bound is part of it.
THEOREM TypeCorrect == Spec => []TypeOK
<1>1. TypeInv => TypeOK
  BY TypesGiveTypeOK
<1> QED
  BY <1>1, TypesAlways, PTL

\* A caller of SyncIfNeeded() that is told "true" has a valid system time, in
\* the program that logs with this clock as well.
THEOREM ClockAlwaysValid == Spec => []TrueMeansTimeSet
<1>1. TypeInv => TrueMeansTimeSet
  BY DEF TypeInv, ClockInv
<1> QED
  BY <1>1, TypesAlways, PTL

\* TakeLogsByApproxBytes() takes the longest batch from the front that fits the
\* budget, and one record where there is one and a budget, whatever the sizes of
\* the records (63-81).
THEOREM AlwaysTakesLongestFit == Spec => []TakesLongestFit
<1>1. TypeInv => TakesLongestFit
  <2> SUFFICES ASSUME TypeInv, NEW n \in Budgets
               PROVE  WithinBytes(logs, n) = LongestFit(logs, n)
    BY DEF TakesLongestFit
  <2>1. Buffer(logs) /\ IsFiniteSet(DOMAIN logs) /\ n \in Nat
    BY LogPathAssumption DEF TypeInv, Stores, Buffer
  <2>2. \A k \in DOMAIN logs : logs[k] \in 1 .. LastMessage
    <3>1. made \in 0 .. LastMessage /\ LastMessage \in Nat
      BY PathConstants DEF TypeInv, Counters
    <3>2. \A k \in DOMAIN logs : logs[k] \in 1 .. made
      BY DEF TypeInv, Stores
    <3> QED
      BY <3>1, <3>2
  <2>3. Sized(logs, DOMAIN logs)
    BY <2>1, <2>2, LogPathAssumption DEF Sized
  <2> QED
    BY <2>1, <2>3, WithinBytesIsLongestFit
<1> QED
  BY <1>1, TypesAlways, PTL

-----------------------------------------------------------------------------
(***************************************************************************)
(* A message is in one place.                                              *)
(***************************************************************************)

Once ==
  /\ \A j, k \in DOMAIN logs : logs[j] = logs[k] => j = k
  /\ \A j, k \in DOMAIN batch : batch[j] = batch[k] => j = k
  /\ \A j \in DOMAIN logs, k \in DOMAIN batch : logs[j] # batch[k]

OnceHeld ==
  /\ \A w \in Writers : Holds(w) => \A k \in DOMAIN logs : logs[k] # writer[w].message
  /\ \A w \in Writers : Holds(w) => \A k \in DOMAIN batch : batch[k] # writer[w].message
  /\ \A v, w \in Writers :
       Holds(v) /\ Holds(w) /\ writer[v].message = writer[w].message => v = w

LEMMA OnceGivesHeldOnce == ASSUME Once PROVE HeldOnce
<1>1. IsInjective(logs) /\ IsInjective(batch)
  BY DEF Once, IsInjective
<1>2. Range(logs) \cap Range(batch) = {}
  BY DEF Once, Range
<1> QED
  BY <1>1, <1>2 DEF HeldOnce

\* A thread that has a message after a step had it before, or has made it.
LEMMA HolderSteps ==
  ASSUME TypeInv, [Next]_vars, NEW w \in Writers, Holds(w)'
  PROVE  \/ /\ Holds(w) /\ ~AddLog(w)
            /\ writer'[w].message = writer[w].message /\ writer'[w].key = writer[w].key
         \/ /\ LoadSeq(w) /\ writer'[w].message = made + 1
            /\ \A v \in Writers : v # w => writer'[v] = writer[v]
            /\ UNCHANGED <<logs, batch>>
<1>a. writer \in [Writers -> {Idle} \cup BeganAt \cup KeyedAt]
  BY DEF TypeInv, Threads
<1>b. ASSUME AddLog(w) PROVE FALSE
  BY <1>a, <1>b DEF AddLog, Moves, Holds, Idle
<1>c. CASE writer'[w] = writer[w]
  BY <1>b, <1>c DEF Holds
<1>d. ASSUME NEW v \in Writers, NEW to, writer' = [writer EXCEPT ![v] = to], v # w
      PROVE  writer'[w] = writer[w]
  BY <1>a, <1>d
<1>1. ASSUME NEW v \in Writers, NEW level \in Levels, Log(v, level)
      PROVE  writer'[w] = writer[w]
  <2>1. writer' = [writer EXCEPT ![v] = [at |-> "began", now |-> SystemTime]]
    BY <1>1 DEF Log, Moves
  <2>2. v # w
    BY <2>1, <1>a DEF Holds
  <2> QED
    BY <1>d, <2>1, <2>2
<1>2. ASSUME NEW v \in Writers, LoadSeq(v), v # w PROVE writer'[w] = writer[w]
  BY <1>2, <1>d DEF LoadSeq, Moves
<1>3. ASSUME LoadSeq(w)
      PROVE  /\ writer'[w].message = made + 1 /\ UNCHANGED <<logs, batch>>
             /\ \A v \in Writers : v # w => writer'[v] = writer[v]
  BY <1>3, <1>a DEF LoadSeq, Moves
<1>4. ASSUME NEW v \in Writers, StoreSeq(v), v # w PROVE writer'[w] = writer[w]
  BY <1>4, <1>d DEF StoreSeq, Moves
<1>5. CASE StoreSeq(w)
  <2>1. /\ writer[w].at = "keyed"
        /\ writer' = [writer EXCEPT ![w] = [writer[w] EXCEPT !.at = "adding"]]
    BY <1>5 DEF StoreSeq, Moves
  <2>2. writer[w] \in KeyedAt
    BY <1>a, <2>1 DEF Idle, BeganAt, KeyedAt
  <2>3. writer'[w].message = writer[w].message /\ writer'[w].key = writer[w].key
    BY <1>a, <2>1, <2>2 DEF KeyedAt
  <2> QED
    BY <1>b, <2>1, <2>3 DEF Holds
<1>6. ASSUME NEW v \in Writers, AddLog(v) PROVE writer'[w] = writer[w]
  <2>1. v # w
    BY <1>b, <1>6
  <2> QED
    BY <1>6, <1>d, <2>1 DEF AddLog, Moves
<1>7. ASSUME (\E keys \in SUBSET DOMAIN logs : Take(keys)) \/ Published \/ PublishFails
      PROVE  writer'[w] = writer[w]
  BY <1>7 DEF Take, Published, PublishFails
<1> QED
  BY <1>c, <1>1, <1>2, <1>3, <1>4, <1>5, <1>6, <1>7, StepCases DEF StepKinds

\* A thread that adds its message holds it, and one record under its key.
LEMMA Adding ==
  ASSUME TypeInv, NEW w \in Writers, writer[w] \in KeyedAt, AddLog(w)
  PROVE  /\ Holds(w)
         /\ Buffer(OneLog(writer[w].key, writer[w].message))
         /\ Size(OneLog(writer[w].key, writer[w].message)) = 1
         /\ DOMAIN OneLog(writer[w].key, writer[w].message) = {writer[w].key}
         /\ OneLog(writer[w].key, writer[w].message)[writer[w].key] = writer[w].message
<1>1. Holds(w)
  BY DEF AddLog, Moves, Holds
<1>2. writer[w].key \in Nat
  BY DEF KeyedAt
<1> QED
  BY <1>1, <1>2, OneLogIsBuffer

\* What the buffer and the batch hold was in one of them, or a thread held it.
LEMMA ValuesSteps ==
  ASSUME TypeInv, [Next]_vars, NEW m,
         \/ \E k \in DOMAIN logs' : logs'[k] = m
         \/ \E k \in DOMAIN batch' : batch'[k] = m
  PROVE  \/ \E k \in DOMAIN logs : logs[k] = m
         \/ \E k \in DOMAIN batch : batch[k] = m
         \/ \E w \in Writers : AddLog(w) /\ Holds(w) /\ writer[w].message = m
<1>a. Buffer(logs) /\ Buffer(batch)
  BY DEF TypeInv, Stores
<1>1. CASE UNCHANGED <<logs, batch>>
  BY <1>1
<1>2. ASSUME NEW w \in Writers, writer[w] \in KeyedAt, AddLog(w), batch' = batch,
             logs' = AddLogs(logs, OneLog(writer[w].key, writer[w].message))
      PROVE  \/ \E k \in DOMAIN logs : logs[k] = m
             \/ \E k \in DOMAIN batch : batch[k] = m
             \/ AddLog(w) /\ Holds(w) /\ writer[w].message = m
  <2> DEFINE one == OneLog(writer[w].key, writer[w].message)
  <2>1. /\ Holds(w) /\ Buffer(one) /\ DOMAIN one = {writer[w].key}
        /\ one[writer[w].key] = writer[w].message
    BY <1>2, Adding
  <2> HIDE DEF one
  <2>2. \A k \in DOMAIN AddLogs(logs, one) :
          \/ k \in DOMAIN logs \ DOMAIN one /\ AddLogs(logs, one)[k] = logs[k]
          \/ k \in DOMAIN one /\ AddLogs(logs, one)[k] = one[k]
    BY <1>a, <2>1, AddLogsPointwise
  <2>3. logs' = AddLogs(logs, one)
    BY <1>2 DEF one
  <2> QED
    BY <1>2, <2>1, <2>2, <2>3
<1>3. ASSUME NEW keys \in SUBSET DOMAIN logs,
             batch' = Restrict(logs, keys), logs' = Without(logs, keys)
      PROVE  \E k \in DOMAIN logs : logs[k] = m
  <2>1. /\ DOMAIN Without(logs, keys) = DOMAIN logs \ keys
        /\ DOMAIN Restrict(logs, keys) = keys
        /\ \A k \in DOMAIN logs \ keys : Without(logs, keys)[k] = logs[k]
        /\ \A k \in keys : Restrict(logs, keys)[k] = logs[k]
    BY <1>a, PartIsBuffer
  <2> QED
    BY <1>3, <2>1
<1>4. CASE batch' = NoLogs /\ logs' = logs
  BY <1>4, NoLogsIsBuffer
<1>5. CASE batch' = NoLogs /\ logs' = AddLogs(logs, batch)
  <2>1. \A k \in DOMAIN AddLogs(logs, batch) :
          \/ k \in DOMAIN logs \ DOMAIN batch /\ AddLogs(logs, batch)[k] = logs[k]
          \/ k \in DOMAIN batch /\ AddLogs(logs, batch)[k] = batch[k]
    BY <1>a, AddLogsPointwise
  <2> QED
    BY <1>5, <2>1, NoLogsIsBuffer
<1> QED
  BY StoreSteps, <1>1, <1>2, <1>3, <1>4, <1>5

LEMMA OnceStep == ASSUME TypeInv, Once, OnceHeld, [Next]_vars PROVE Once'
<1>a. Buffer(logs) /\ Buffer(batch)
  BY DEF TypeInv, Stores
<1>b. DOMAIN NoLogs = {}
  BY NoLogsIsBuffer
<1>1. CASE UNCHANGED <<logs, batch>>
  BY <1>1 DEF Once
<1>2. ASSUME NEW more, Buffer(more), logs' = AddLogs(logs, more),
             \A j, k \in DOMAIN more : more[j] = more[k] => j = k,
             \A j \in DOMAIN logs, k \in DOMAIN more : logs[j] # more[k]
      PROVE  \A j, k \in DOMAIN logs' : logs'[j] = logs'[k] => j = k
  <2> SUFFICES ASSUME NEW j \in DOMAIN logs', NEW k \in DOMAIN logs', logs'[j] = logs'[k]
               PROVE  j = k
    OBVIOUS
  <2>1. \/ j = k
        \/ j \in DOMAIN logs /\ k \in DOMAIN logs /\ logs[j] = logs[k]
        \/ j \in DOMAIN more /\ k \in DOMAIN more /\ more[j] = more[k]
        \/ j \in DOMAIN logs /\ k \in DOMAIN more /\ logs[j] = more[k]
        \/ j \in DOMAIN more /\ k \in DOMAIN logs /\ more[j] = logs[k]
    BY <1>2, <1>a, AddLogsValues
  <2> QED
    BY <1>2, <2>1 DEF Once
<1>3. ASSUME NEW w \in Writers, writer[w] \in KeyedAt, AddLog(w), batch' = batch,
             logs' = AddLogs(logs, OneLog(writer[w].key, writer[w].message))
      PROVE  Once'
  <2> DEFINE one == OneLog(writer[w].key, writer[w].message)
  <2>1. /\ Holds(w) /\ Buffer(one) /\ DOMAIN one = {writer[w].key}
        /\ one[writer[w].key] = writer[w].message
    BY <1>3, Adding
  <2> HIDE DEF one
  <2>2. logs' = AddLogs(logs, one)
    BY <1>3 DEF one
  <2>3. /\ \A j, k \in DOMAIN one : one[j] = one[k] => j = k
        /\ \A j \in DOMAIN logs, k \in DOMAIN one : logs[j] # one[k]
        /\ \A j \in DOMAIN batch, k \in DOMAIN one : batch[j] # one[k]
    BY <2>1 DEF OnceHeld
  <2>4. \A j, k \in DOMAIN logs' : logs'[j] = logs'[k] => j = k
    BY <1>2, <2>1, <2>2, <2>3
  <2>5. \A k \in DOMAIN AddLogs(logs, one) :
          \/ k \in DOMAIN logs \ DOMAIN one /\ AddLogs(logs, one)[k] = logs[k]
          \/ k \in DOMAIN one /\ AddLogs(logs, one)[k] = one[k]
    BY <1>a, <2>1, AddLogsGives
  <2>6. \A j \in DOMAIN logs', k \in DOMAIN batch : logs'[j] # batch[k]
    BY <2>2, <2>3, <2>5 DEF Once
  <2> QED
    BY <1>3, <2>4, <2>6 DEF Once
<1>4. ASSUME NEW keys \in SUBSET DOMAIN logs,
             batch' = Restrict(logs, keys), logs' = Without(logs, keys)
      PROVE  Once'
  <2>1. /\ DOMAIN Without(logs, keys) = DOMAIN logs \ keys
        /\ DOMAIN Restrict(logs, keys) = keys
        /\ \A k \in DOMAIN logs \ keys : Without(logs, keys)[k] = logs[k]
        /\ \A k \in keys : Restrict(logs, keys)[k] = logs[k]
    BY <1>a, PartIsBuffer
  <2> QED
    BY <1>4, <2>1 DEF Once
<1>5. CASE batch' = NoLogs /\ logs' = logs
  BY <1>5, <1>b DEF Once
<1>6. CASE batch' = NoLogs /\ logs' = AddLogs(logs, batch)
  <2>1. \A j, k \in DOMAIN logs' : logs'[j] = logs'[k] => j = k
    BY <1>2, <1>6, <1>a DEF Once
  <2> QED
    BY <1>6, <1>b, <2>1 DEF Once
<1> QED
  BY StoreSteps, <1>1, <1>3, <1>4, <1>5, <1>6

LEMMA OnceHeldStep == ASSUME TypeInv, OnceHeld, [Next]_vars PROVE OnceHeld'
<1>a. /\ made \in Nat
      /\ \A k \in DOMAIN logs : logs[k] # made + 1
      /\ \A k \in DOMAIN batch : batch[k] # made + 1
      /\ \A v \in Writers : Holds(v) => writer[v].message # made + 1
  BY DEF TypeInv, Counters, Stores, Threads
<1>1. ASSUME NEW w \in Writers, Holds(w)', NEW m, m = writer'[w].message,
             \/ \E k \in DOMAIN logs' : logs'[k] = m
             \/ \E k \in DOMAIN batch' : batch'[k] = m
      PROVE  FALSE
  <2>1. CASE Holds(w) /\ writer'[w].message = writer[w].message /\ ~AddLog(w)
    <3>1. \/ \E k \in DOMAIN logs : logs[k] = m
          \/ \E k \in DOMAIN batch : batch[k] = m
          \/ \E v \in Writers : AddLog(v) /\ Holds(v) /\ writer[v].message = m
      BY <1>1, ValuesSteps
    <3> QED
      BY <1>1, <2>1, <3>1 DEF OnceHeld
  <2>2. CASE writer'[w].message = made + 1 /\ UNCHANGED <<logs, batch>>
    BY <1>1, <1>a, <2>2
  <2> QED
    BY <1>1, <2>1, <2>2, HolderSteps
<1>2. ASSUME NEW v \in Writers, NEW w \in Writers, Holds(v)', Holds(w)',
             writer'[v].message = writer'[w].message, v # w
      PROVE  FALSE
  <2>1. CASE /\ Holds(v) /\ writer'[v].message = writer[v].message
             /\ Holds(w) /\ writer'[w].message = writer[w].message
    BY <1>2, <2>1 DEF OnceHeld
  <2>2. ASSUME NEW u \in Writers, NEW x \in Writers, u # x, Holds(x)',
               writer'[u].message = made + 1, writer'[x].message = made + 1,
               \A y \in Writers : y # u => writer'[y] = writer[y]
        PROVE  FALSE
    BY <2>2, <1>a DEF Holds
  <2> QED
    BY <1>2, <2>1, <2>2, HolderSteps
<1>3. \A w \in Writers : Holds(w)' => \A k \in DOMAIN logs' : logs'[k] # writer'[w].message
  BY <1>1
<1>4. \A w \in Writers : Holds(w)' => \A k \in DOMAIN batch' : batch'[k] # writer'[w].message
  BY <1>1
<1>5. \A v, w \in Writers :
        Holds(v)' /\ Holds(w)' /\ writer'[v].message = writer'[w].message => v = w
  BY <1>2
<1> QED
  BY <1>3, <1>4, <1>5 DEF OnceHeld

LEMMA OnceAlways == Spec => [](Once /\ OnceHeld)
<1>1. Init => Once /\ OnceHeld
  <2> SUFFICES ASSUME Init PROVE Once /\ OnceHeld
    OBVIOUS
  <2>1. DOMAIN logs = {} /\ DOMAIN batch = {}
    BY NoLogsIsBuffer DEF Init
  <2>2. \A w \in Writers : ~Holds(w)
    BY DEF Init, Holds, Idle
  <2> QED
    BY <2>1, <2>2 DEF Once, OnceHeld
<1>2. TypeInv /\ Once /\ OnceHeld /\ [Next]_vars => (Once /\ OnceHeld)'
  BY OnceStep, OnceHeldStep
<1> QED
  BY <1>1, <1>2, TypesAlways, PTL DEF Spec

\* No message is in the buffer or in a batch twice, or in both, whatever is
\* trimmed, overwritten, taken or put back while others log.
THEOREM AlwaysHeldOnce == Spec => []HeldOnce
<1>1. Once => HeldOnce
  BY OnceGivesHeldOnce
<1> QED
  BY <1>1, OnceAlways, PTL

-----------------------------------------------------------------------------
(***************************************************************************)
(* The limit.                                                              *)
(***************************************************************************)

LEMMA LimitStep ==
  ASSUME TypeInv, [Next]_vars
  PROVE  \/ Size(logs') <= MaxRecordCount
         \/ Size(logs') <= Size(logs)
         \/ Size(batch) > TrimRecordCount
<1>a. Buffer(logs) /\ Buffer(batch)
  BY DEF TypeInv, Stores
<1>b. Size(logs) \in Nat /\ Size(batch) \in Nat
  BY <1>a, FS_CardinalityType DEF Buffer, Size
<1>c. /\ MaxRecordCount \in Nat /\ TrimRecordCount \in Nat /\ TrimRecordCount >= 1
  BY PathConstants
<1>1. CASE logs' = logs
  BY <1>1, <1>b
<1>2. ASSUME NEW more, Buffer(more), logs' = AddLogs(logs, more),
             NEW n \in Nat, Size(more) <= n, n <= TrimRecordCount
      PROVE  Size(logs') <= MaxRecordCount \/ Size(logs') <= Size(logs)
  <2>1. Buffer(Merge(logs, more)) /\ Size(Merge(logs, more)) <= Size(logs) + Size(more)
    BY <1>2, <1>a, MergeIsBuffer
  <2>2. \/ /\ Size(Merge(logs, more)) <= MaxRecordCount
           /\ Size(logs') = Size(Merge(logs, more))
        \/ Size(logs') = Size(Merge(logs, more)) - TrimRecordCount
    BY <1>2, <1>a, AddLogsGives
  <2>3. Size(Merge(logs, more)) \in Nat /\ Size(more) \in Nat
    BY <1>2, <2>1, FS_CardinalityType DEF Buffer, Size
  <2> QED
    BY <1>2, <1>b, <1>c, <2>1, <2>2, <2>3
<1>3. ASSUME NEW w \in Writers, writer[w] \in KeyedAt, AddLog(w), batch' = batch,
             logs' = AddLogs(logs, OneLog(writer[w].key, writer[w].message))
      PROVE  Size(logs') <= MaxRecordCount \/ Size(logs') <= Size(logs)
  <2> DEFINE one == OneLog(writer[w].key, writer[w].message)
  <2>1. Buffer(one) /\ Size(one) = 1
    BY <1>3, Adding
  <2> HIDE DEF one
  <2>2. logs' = AddLogs(logs, one)
    BY <1>3 DEF one
  <2>3. 1 \in Nat /\ Size(one) <= 1 /\ 1 <= TrimRecordCount
    BY <2>1, <1>c
  <2> QED
    BY <1>2, <2>1, <2>2, <2>3
<1>4. ASSUME NEW keys \in SUBSET DOMAIN logs, logs' = Without(logs, keys)
      PROVE  Size(logs') <= Size(logs)
  <2>1. IsFiniteSet(keys)
    BY <1>a, FS_Subset DEF Buffer
  <2>2. Cardinality(keys) \in Nat
    BY <2>1, FS_CardinalityType
  <2>3. Size(Without(logs, keys)) = Size(logs) - Cardinality(keys)
    BY <1>a, PartIsBuffer
  <2> QED
    BY <1>4, <1>b, <2>2, <2>3
<1>5. ASSUME logs' = AddLogs(logs, batch), ~(Size(batch) > TrimRecordCount)
      PROVE  Size(logs') <= MaxRecordCount \/ Size(logs') <= Size(logs)
  <2>1. Size(batch) <= TrimRecordCount
    BY <1>5, <1>b, <1>c
  <2> QED
    BY <1>2, <1>5, <1>a, <1>b, <2>1
<1> QED
  BY StoreSteps, <1>1, <1>3, <1>4, <1>5

\* The buffer grows over its limit only by a batch of more records than a trim
\* removes, put back after a publish that failed; otherwise every addition
\* brings an oversized buffer closer to its limit (18-23, 41).
THEOREM LimitAlwaysKept == Spec => LimitKept
<1>1. TypeInv /\ [Next]_vars =>
        [\/ Size(logs') <= MaxRecordCount
         \/ Size(logs') <= Size(logs)
         \/ Size(batch) > TrimRecordCount]_vars
  BY LimitStep
<1> QED
  BY <1>1, TypesAlways, PTL DEF Spec, LimitKept

-----------------------------------------------------------------------------
(***************************************************************************)
(* The sequence counter and the keys.                                      *)
(***************************************************************************)

\* The counter is the number of the messages, but for one between its load and
\* its store.
Counted ==
  /\ \A v, w \in Writers : writer[v].at = "keyed" /\ writer[w].at = "keyed" => v = w
  /\ \A w \in Writers : writer[w].at = "keyed" =>
       writer[w].seq = seqPerSec /\ made = seqPerSec + 1
  /\ (\A w \in Writers : writer[w].at # "keyed") => made = seqPerSec

\* The number of a message shows in its key.
Marked ==
  /\ \A k \in DOMAIN logs : k % SeqWrap = (logs[k] - 1) % SeqWrap
  /\ \A k \in DOMAIN batch : k % SeqWrap = (batch[k] - 1) % SeqWrap
  /\ \A w \in Writers : Holds(w) =>
       writer[w].key % SeqWrap = (writer[w].message - 1) % SeqWrap

KeysInv == ~raced => Counted /\ Marked

\* Once two threads have used the counter at once, nothing is promised; a step
\* that finds the counter loaded by another thread is what makes it so.
LEMMA RacedSteps ==
  ASSUME TypeInv, [Next]_vars, ~raced'
  PROVE  ~raced /\ \A w \in Writers : LoadSeq(w) => \A v \in Writers : writer[v].at # "keyed"
<1>1. ~raced
  BY StepCases
     DEF StepKinds, Log, LoadSeq, StoreSeq, AddLog, Take, Published, PublishFails
<1>2. ASSUME NEW w \in Writers, LoadSeq(w) PROVE \A v \in Writers : writer[v].at # "keyed"
  BY <1>2 DEF LoadSeq
<1> QED
  BY <1>1, <1>2

LEMMA CountedStep == ASSUME TypeInv, KeysInv, [Next]_vars, ~raced' PROVE Counted'
<1>a. writer \in [Writers -> {Idle} \cup BeganAt \cup KeyedAt] /\ made \in Nat
  BY DEF TypeInv, Counters, Threads
<1>b. Counted
  BY RacedSteps DEF KeysInv
<1>1. CASE UNCHANGED <<made, seqPerSec, writer>>
  BY <1>1, <1>b DEF Counted
<1>2. ASSUME NEW w \in Writers, NEW to, writer' = [writer EXCEPT ![w] = to],
             writer[w].at # "keyed", to.at # "keyed", UNCHANGED <<made, seqPerSec>>
      PROVE  Counted'
  <2>1. \A v \in Writers : writer'[v].at = "keyed" =>
          writer[v].at = "keyed" /\ writer'[v] = writer[v]
    BY <1>2, <1>a
  <2>2. \A v \in Writers : writer[v].at = "keyed" => writer'[v].at = "keyed"
    BY <1>2, <1>a
  <2> QED
    BY <1>2, <1>b, <2>1, <2>2 DEF Counted
<1>3. ASSUME NEW w \in Writers, NEW level \in Levels, Log(w, level) PROVE Counted'
  <2> DEFINE to == [at |-> "began", now |-> SystemTime]
  <2>1. /\ writer' = [writer EXCEPT ![w] = to] /\ writer[w].at # "keyed" /\ to.at # "keyed"
        /\ UNCHANGED <<made, seqPerSec>>
    BY <1>3 DEF Log, Moves
  <2> HIDE DEF to
  <2> QED
    BY <1>2, <2>1
<1>4. ASSUME NEW w \in Writers, LoadSeq(w) PROVE Counted'
  <2> DEFINE to == [at |-> "keyed", key |-> Key(writer[w].now), seq |-> seqPerSec,
                    message |-> made']
  <2>1. /\ writer' = [writer EXCEPT ![w] = to] /\ made' = made + 1
        /\ seqPerSec' = seqPerSec
    BY <1>4 DEF LoadSeq, Moves
  <2>2. \A v \in Writers : writer[v].at # "keyed"
    BY <1>4, RacedSteps
  <2>3. made = seqPerSec
    BY <1>b, <2>2 DEF Counted
  <2>4. writer'[w].at = "keyed" /\ writer'[w].seq = seqPerSec
    BY <2>1, <1>a
  <2> HIDE DEF to
  <2>5. \A v \in Writers : v # w => writer'[v].at # "keyed"
    BY <2>1, <2>2, <1>a
  <2> QED
    BY <2>1, <2>3, <2>4, <2>5 DEF Counted
<1>5. ASSUME NEW w \in Writers, StoreSeq(w) PROVE Counted'
  <2>1. /\ writer' = [writer EXCEPT ![w] = [writer[w] EXCEPT !.at = "adding"]]
        /\ writer[w].at = "keyed" /\ seqPerSec' = writer[w].seq + 1 /\ made' = made
    BY <1>5 DEF StoreSeq, Moves
  <2>2. writer[w] \in KeyedAt
    BY <1>a, <2>1 DEF Idle, BeganAt, KeyedAt
  <2>3. writer'[w].at = "adding"
    BY <1>a, <2>1, <2>2 DEF KeyedAt
  <2>4. \A v \in Writers : v # w => writer'[v].at # "keyed"
    BY <1>a, <1>b, <2>1 DEF Counted
  <2>5. made' = seqPerSec'
    BY <1>b, <2>1 DEF Counted
  <2> QED
    BY <2>3, <2>4, <2>5 DEF Counted
<1>6. ASSUME NEW w \in Writers, AddLog(w) PROVE Counted'
  <2>1. /\ writer' = [writer EXCEPT ![w] = Idle] /\ writer[w].at # "keyed"
        /\ UNCHANGED <<made, seqPerSec>>
    BY <1>6 DEF AddLog, Moves
  <2>2. Idle.at # "keyed"
    BY DEF Idle
  <2> QED
    BY <1>2, <2>1, <2>2
<1>7. ASSUME (\E keys \in SUBSET DOMAIN logs : Take(keys)) \/ Published \/ PublishFails
      PROVE  UNCHANGED <<made, seqPerSec, writer>>
  BY <1>7 DEF Take, Published, PublishFails
<1> QED
  BY StepCases, <1>1, <1>3, <1>4, <1>5, <1>6, <1>7 DEF StepKinds

\* Records keep their keys wherever they go, and the batch that is put back
\* overwrites no key by one with another remainder.
LEMMA MarkedStores ==
  ASSUME TypeInv, Marked, [Next]_vars
  PROVE  /\ \A k \in DOMAIN logs' : k % SeqWrap = (logs'[k] - 1) % SeqWrap
         /\ \A k \in DOMAIN batch' : k % SeqWrap = (batch'[k] - 1) % SeqWrap
<1>a. Buffer(logs) /\ Buffer(batch)
  BY DEF TypeInv, Stores
<1> DEFINE Fit(k, m) == k % SeqWrap = (m - 1) % SeqWrap
<1>b. /\ \A k \in DOMAIN logs : Fit(k, logs[k])
      /\ \A k \in DOMAIN batch : Fit(k, batch[k])
      /\ \A w \in Writers : Holds(w) => Fit(writer[w].key, writer[w].message)
  BY DEF Marked
<1>c. DOMAIN NoLogs = {}
  BY NoLogsIsBuffer
<1> HIDE DEF Fit
<1>1. CASE UNCHANGED <<logs, batch>>
  BY <1>1, <1>b DEF Fit
<1>2. ASSUME NEW more, Buffer(more), logs' = AddLogs(logs, more),
             \A k \in DOMAIN more : Fit(k, more[k])
      PROVE  \A k \in DOMAIN logs' : Fit(k, logs'[k])
  <2>1. \A k \in DOMAIN AddLogs(logs, more) :
          \/ k \in DOMAIN logs \ DOMAIN more /\ AddLogs(logs, more)[k] = logs[k]
          \/ k \in DOMAIN more /\ AddLogs(logs, more)[k] = more[k]
    BY <1>2, <1>a, AddLogsGives
  <2> QED
    BY <1>2, <1>b, <2>1
<1>3. ASSUME NEW w \in Writers, writer[w] \in KeyedAt, AddLog(w), batch' = batch,
             logs' = AddLogs(logs, OneLog(writer[w].key, writer[w].message))
      PROVE  /\ \A k \in DOMAIN logs' : Fit(k, logs'[k])
             /\ \A k \in DOMAIN batch' : Fit(k, batch'[k])
  <2> DEFINE one == OneLog(writer[w].key, writer[w].message)
  <2>1. /\ Holds(w) /\ Buffer(one) /\ DOMAIN one = {writer[w].key}
        /\ one[writer[w].key] = writer[w].message
    BY <1>3, Adding
  <2> HIDE DEF one
  <2>2. logs' = AddLogs(logs, one)
    BY <1>3 DEF one
  <2>3. \A k \in DOMAIN one : Fit(k, one[k])
    BY <1>b, <2>1
  <2> QED
    BY <1>2, <1>3, <1>b, <2>1, <2>2, <2>3
<1>4. ASSUME NEW keys \in SUBSET DOMAIN logs,
             batch' = Restrict(logs, keys), logs' = Without(logs, keys)
      PROVE  /\ \A k \in DOMAIN logs' : Fit(k, logs'[k])
             /\ \A k \in DOMAIN batch' : Fit(k, batch'[k])
  <2>1. /\ DOMAIN Without(logs, keys) = DOMAIN logs \ keys
        /\ DOMAIN Restrict(logs, keys) = keys
        /\ \A k \in DOMAIN logs \ keys : Without(logs, keys)[k] = logs[k]
        /\ \A k \in keys : Restrict(logs, keys)[k] = logs[k]
    BY <1>a, PartIsBuffer
  <2> QED
    BY <1>4, <1>b, <2>1
<1>5. CASE batch' = NoLogs /\ logs' = logs
  BY <1>5, <1>b, <1>c DEF Fit
<1>6. CASE batch' = NoLogs /\ logs' = AddLogs(logs, batch)
  <2>1. \A k \in DOMAIN logs' : Fit(k, logs'[k])
    BY <1>2, <1>6, <1>a, <1>b
  <2> QED
    BY <1>6, <1>c, <2>1 DEF Fit
<1> QED
  BY StoreSteps, <1>1, <1>3, <1>4, <1>5, <1>6 DEF Fit

LEMMA MarkedHeld ==
  ASSUME TypeInv, Counted, Marked, [Next]_vars, ~raced', NEW w \in Writers, Holds(w)'
  PROVE  writer'[w].key % SeqWrap = (writer'[w].message - 1) % SeqWrap
<1>a. writer \in [Writers -> {Idle} \cup BeganAt \cup KeyedAt]
  BY DEF TypeInv, Threads
<1>1. CASE LoadSeq(w)
  <2>1. /\ writer[w].at = "began" /\ made' = made + 1
        /\ writer' = [writer EXCEPT ![w] = [at |-> "keyed", key |-> Key(writer[w].now),
                                            seq |-> seqPerSec, message |-> made']]
    BY <1>1 DEF LoadSeq, Moves
  <2>2. writer[w].now \in Nat
    BY <1>a, <2>1 DEF Idle, BeganAt, KeyedAt
  <2>3. writer'[w].key = Key(writer[w].now) /\ writer'[w].message = made + 1
    BY <1>a, <2>1
  <2>4. made = seqPerSec /\ made \in Nat
    BY <1>1, RacedSteps DEF Counted, TypeInv, Counters
  <2>5. Key(writer[w].now) % SeqWrap = seqPerSec % SeqWrap
    BY <2>2, KeyIsNat
  <2>6. writer'[w].message - 1 = seqPerSec
    BY <2>3, <2>4
  <2> QED
    BY <2>3, <2>5, <2>6
<1>2. CASE /\ Holds(w)
           /\ writer'[w].message = writer[w].message /\ writer'[w].key = writer[w].key
  BY <1>2 DEF Marked
<1> QED
  BY <1>1, <1>2, HolderSteps

LEMMA KeysStep == ASSUME TypeInv, KeysInv, [Next]_vars PROVE KeysInv'
<1> SUFFICES ASSUME ~raced' PROVE Counted' /\ Marked'
  BY DEF KeysInv
<1>1. Counted /\ Marked
  BY RacedSteps DEF KeysInv
<1>2. Counted'
  BY CountedStep
<1>3. \A w \in Writers : Holds(w)' =>
        writer'[w].key % SeqWrap = (writer'[w].message - 1) % SeqWrap
  BY <1>1, MarkedHeld
<1>4. Marked'
  BY <1>1, <1>3, MarkedStores DEF Marked
<1> QED
  BY <1>2, <1>4

LEMMA KeysAlways == Spec => []KeysInv
<1>1. Init => KeysInv
  <2> SUFFICES ASSUME Init PROVE Counted /\ Marked
    BY DEF KeysInv
  <2>1. DOMAIN logs = {} /\ DOMAIN batch = {}
    BY NoLogsIsBuffer DEF Init
  <2>2. \A w \in Writers : writer[w].at = "idle"
    BY DEF Init, Idle
  <2>3. made = seqPerSec
    BY DEF Init
  <2> QED
    BY <2>1, <2>2, <2>3 DEF Counted, Marked, Holds
<1>2. TypeInv /\ KeysInv /\ [Next]_vars => KeysInv'
  BY KeysStep
<1> QED
  BY <1>1, <1>2, TypesAlways, PTL DEF Spec

\* Two messages whose numbers leave one remainder are equal or far apart.
LEMMA MessagesApart ==
  ASSUME NEW m \in Nat \ {0}, NEW n \in Nat \ {0}, m # n,
         (m - 1) % SeqWrap = (n - 1) % SeqWrap
  PROVE  m - n >= SeqWrap \/ n - m >= SeqWrap
<1>1. SeqWrap \in Nat \ {0}
  BY PathConstants
<1> DEFINE p == m - 1
           q == n - 1
<1>2. p \in Nat /\ q \in Nat /\ p # q /\ p - q = m - n /\ q - p = n - m
  OBVIOUS
<1>3. p % SeqWrap = q % SeqWrap
  OBVIOUS
<1> HIDE DEF p, q
<1>4. p - q >= SeqWrap \/ q - p >= SeqWrap
  BY <1>1, <1>2, <1>3, RemainderGap
<1> QED
  BY <1>2, <1>4

\* What becomes of a record when others are added to the buffer.
LEMMA KeptOrLost ==
  ASSUME TypeInv, KeysInv, NEW more, Buffer(more), logs' = AddLogs(logs, more),
         \A j \in DOMAIN more : more[j] \in Nat \ {0},
         \A j \in DOMAIN logs, k \in DOMAIN more : logs[j] # more[k],
         ~raced => \A j \in DOMAIN more : j % SeqWrap = (more[j] - 1) % SeqWrap,
         NEW k \in DOMAIN logs
  PROVE  \/ k \in DOMAIN logs' /\ logs'[k] = logs[k]
         \/ Size(Merge(logs, more)) > MaxRecordCount
         \/ /\ k \in DOMAIN more
            /\ \/ raced
               \/ more[k] - logs[k] >= SeqWrap
               \/ logs[k] - more[k] >= SeqWrap
<1>a. Buffer(logs) /\ logs[k] \in Nat \ {0}
  BY DEF TypeInv, Stores, Counters
<1>1. \/ DOMAIN logs' = DOMAIN logs \cup DOMAIN more
      \/ Size(Merge(logs, more)) > MaxRecordCount
  <2>1. \/ /\ Size(Merge(logs, more)) <= MaxRecordCount
           /\ DOMAIN AddLogs(logs, more) = DOMAIN logs \cup DOMAIN more
           /\ Size(AddLogs(logs, more)) = Size(Merge(logs, more))
        \/ /\ Size(Merge(logs, more)) > MaxRecordCount
           /\ Size(AddLogs(logs, more)) = Size(Merge(logs, more)) - TrimRecordCount
    BY <1>a, AddLogsGives
  <2> QED
    BY <2>1
<1>2. ASSUME k \in DOMAIN logs' PROVE k \in DOMAIN more \/ logs'[k] = logs[k]
  BY <1>2, <1>a, AddLogsPointwise
<1>3. CASE Size(Merge(logs, more)) > MaxRecordCount
  BY <1>3
<1>4. CASE DOMAIN logs' = DOMAIN logs \cup DOMAIN more /\ k \notin DOMAIN more
  BY <1>2, <1>4
<1>5. CASE k \in DOMAIN more /\ ~raced
  <2>1. k % SeqWrap = (more[k] - 1) % SeqWrap
    BY <1>5
  <2>2. k % SeqWrap = (logs[k] - 1) % SeqWrap
    BY <1>5 DEF KeysInv, Marked
  <2>3. more[k] # logs[k] /\ more[k] \in Nat \ {0}
    BY <1>5
  <2>4. more[k] - logs[k] >= SeqWrap \/ logs[k] - more[k] >= SeqWrap
    BY <2>1, <2>2, <2>3, <1>a, MessagesApart
  <2> QED
    BY <1>5, <2>4
<1> QED
  BY <1>1, <1>3, <1>4, <1>5

LEMMA AddedByAddLog ==
  ASSUME TypeInv, NEW w \in Writers, AddLog(w)
  PROVE  Added = OneLog(writer[w].key, writer[w].message)
<1>a. writer \in [Writers -> {Idle} \cup BeganAt \cup KeyedAt]
  BY DEF TypeInv, Threads
<1>1. \A v \in Writers : AddLog(v) => writer[v].at = "adding" /\ writer'[v] = Idle
  BY <1>a DEF AddLog, Moves
<1>2. \A v \in Writers : writer[v].at = "adding" => writer[v] # Idle
  BY DEF Idle
<1>3. \A v \in Writers : v # w => writer'[v] = writer[v]
  BY <1>a DEF AddLog, Moves
<1>4. \A v \in Writers : AddLog(v) <=> v = w
  BY <1>1, <1>2, <1>3
<1>5. (CHOOSE v \in Writers : AddLog(v)) = w
  BY <1>4
<1>6. ~PublishFails
  BY <1>1, <1>2 DEF PublishFails
<1> QED
  BY <1>5, <1>6 DEF Added

LEMMA AddedByPublishFails == ASSUME PublishFails PROVE Added = batch /\ batch # NoLogs
<1>1. batch # NoLogs /\ ~ \E w \in Writers : AddLog(w)
  BY DEF AddLog, PublishFails
<1> QED
  BY <1>1 DEF Added

LEMMA LostStep ==
  ASSUME TypeInv, Once, OnceHeld, KeysInv, [Next]_vars, NEW k \in DOMAIN logs
  PROVE  \/ k \in DOMAIN logs' /\ logs'[k] = logs[k]
         \/ k \in DOMAIN batch' /\ batch'[k] = logs[k]
         \/ Added # NoLogs /\ Size(Merge(logs, Added)) > MaxRecordCount
         \/ /\ k \in DOMAIN Added
            /\ \/ raced
               \/ Added[k] - logs[k] >= SeqWrap
               \/ logs[k] - Added[k] >= SeqWrap
<1>a. Buffer(logs) /\ Buffer(batch)
  BY DEF TypeInv, Stores
<1>1. CASE logs' = logs
  BY <1>1
<1>2. ASSUME NEW w \in Writers, writer[w] \in KeyedAt, AddLog(w), batch' = batch,
             logs' = AddLogs(logs, OneLog(writer[w].key, writer[w].message))
      PROVE  \/ k \in DOMAIN logs' /\ logs'[k] = logs[k]
             \/ Added # NoLogs /\ Size(Merge(logs, Added)) > MaxRecordCount
             \/ /\ k \in DOMAIN Added
                /\ \/ raced
                   \/ Added[k] - logs[k] >= SeqWrap
                   \/ logs[k] - Added[k] >= SeqWrap
  <2> DEFINE one == OneLog(writer[w].key, writer[w].message)
  <2>1. /\ Holds(w) /\ Buffer(one) /\ DOMAIN one = {writer[w].key}
        /\ one[writer[w].key] = writer[w].message
    BY <1>2, Adding
  <2>2. Added = one /\ one # NoLogs
    BY <1>2, <2>1, AddedByAddLog, NoLogsIsBuffer
  <2>3. logs' = AddLogs(logs, one)
    BY <1>2
  <2> HIDE DEF one
  <2>4. \A j \in DOMAIN one : one[j] \in Nat \ {0}
    BY <2>1 DEF TypeInv, Threads, Counters
  <2>5. \A i \in DOMAIN logs, j \in DOMAIN one : logs[i] # one[j]
    BY <2>1 DEF OnceHeld
  <2>6. ~raced => \A j \in DOMAIN one : j % SeqWrap = (one[j] - 1) % SeqWrap
    BY <2>1 DEF KeysInv, Marked
  <2> QED
    BY <2>1, <2>2, <2>3, <2>4, <2>5, <2>6, KeptOrLost
<1>3. ASSUME NEW keys \in SUBSET DOMAIN logs,
             batch' = Restrict(logs, keys), logs' = Without(logs, keys)
      PROVE  \/ k \in DOMAIN logs' /\ logs'[k] = logs[k]
             \/ k \in DOMAIN batch' /\ batch'[k] = logs[k]
  <2>1. /\ DOMAIN Without(logs, keys) = DOMAIN logs \ keys
        /\ DOMAIN Restrict(logs, keys) = keys
        /\ \A j \in DOMAIN logs \ keys : Without(logs, keys)[j] = logs[j]
        /\ \A j \in keys : Restrict(logs, keys)[j] = logs[j]
    BY <1>a, PartIsBuffer
  <2> QED
    BY <1>3, <2>1
<1>4. CASE PublishFails /\ logs' = AddLogs(logs, batch)
  <2>1. Added = batch /\ batch # NoLogs
    BY <1>4, AddedByPublishFails
  <2>2. \A j \in DOMAIN batch : batch[j] \in Nat \ {0}
    BY DEF TypeInv, Stores, Counters
  <2>3. \A i \in DOMAIN logs, j \in DOMAIN batch : logs[i] # batch[j]
    BY DEF Once
  <2>4. ~raced => \A j \in DOMAIN batch : j % SeqWrap = (batch[j] - 1) % SeqWrap
    BY DEF KeysInv, Marked
  <2> QED
    BY <1>4, <1>a, <2>1, <2>2, <2>3, <2>4, KeptOrLost
<1> QED
  BY StoreSteps, <1>1, <1>2, <1>3, <1>4

\* A record leaves the buffer untaken only because the buffer was over its
\* limit, or because a record with the same key came; and then, unless two
\* threads have used the counter at once, at least SeqWrap messages lie between
\* the two, whatever the clock did in between (43, 45).
THEOREM AlwaysLostForCause == Spec => LostForCause
<1>1. TypeInv /\ Once /\ OnceHeld /\ KeysInv /\ [Next]_vars =>
        [\A k \in DOMAIN logs :
           \/ k \in DOMAIN logs' /\ logs'[k] = logs[k]
           \/ k \in DOMAIN batch' /\ batch'[k] = logs[k]
           \/ Added # NoLogs /\ Size(Merge(logs, Added)) > MaxRecordCount
           \/ /\ k \in DOMAIN Added
              /\ \/ raced
                 \/ Added[k] - logs[k] >= SeqWrap
                 \/ logs[k] - Added[k] >= SeqWrap]_vars
  BY LostStep
<1> QED
  BY <1>1, TypesAlways, OnceAlways, KeysAlways, PTL DEF Spec, LostForCause

-----------------------------------------------------------------------------
(***************************************************************************)
(* Which records are the oldest.  Trimming goes by the keys.  While the    *)
(* keys keep one format, one thread logs and the counter has not come      *)
(* round, a later message has the greater key, wherever the record is.     *)
(***************************************************************************)

\* There is a record of message i under k, or a thread is about to store it.
Kept(k, i) ==
  \/ k \in DOMAIN logs /\ logs[k] = i
  \/ k \in DOMAIN batch /\ batch[k] = i
  \/ \E w \in Writers : Holds(w) /\ writer[w].key = k /\ writer[w].message = i

\* The time the next key is made of, at least.
Stamp(w) ==
  IF timeSet
  THEN IF writer[w].at = "began" THEN writer[w].now ELSE SystemTime
  ELSE uptime

\* What the thread has read is not later than now, and of the format of now.
ReadBefore(w) ==
  writer[w].at = "began" =>
    /\ TimeValid(writer[w].now) <=> timeSet
    /\ timeSet => writer[w].now <= SystemTime

Earlier(w) == \A k, i \in Nat : Kept(k, i) => k <= Stamp(w) * SeqWrap + (i - 1)

InOrder == \A j, k, i, l \in Nat : Kept(j, i) /\ Kept(k, l) /\ i <= l => j <= k

OrderInv(w) == ~raced /\ ReadBefore(w) /\ Earlier(w) /\ InOrder

LEMMA KeptTypes ==
  ASSUME TypeInv, NEW k, NEW i, Kept(k, i)
  PROVE  k \in Nat /\ i \in Nat /\ i >= 1 /\ i <= made
<1>a. made \in Nat
  BY DEF TypeInv, Counters
<1>1. CASE k \in DOMAIN logs /\ logs[k] = i
  BY <1>1, <1>a DEF TypeInv, Stores, Buffer
<1>2. CASE k \in DOMAIN batch /\ batch[k] = i
  BY <1>2, <1>a DEF TypeInv, Stores, Buffer
<1>3. ASSUME NEW w \in Writers, Holds(w), writer[w].key = k, writer[w].message = i
      PROVE  k \in Nat /\ i \in 1 .. made
  BY <1>3 DEF TypeInv, Threads, Holds, Idle, BeganAt, KeyedAt
<1> QED
  BY <1>1, <1>2, <1>3, <1>a DEF Kept

\* A step moves records and drops some; only LoadSeq() makes a new one.
LEMMA KeptSteps ==
  ASSUME TypeInv, [Next]_vars, NEW k, NEW i, Kept(k, i)'
  PROVE  \/ Kept(k, i)
         \/ \E w \in Writers : LoadSeq(w) /\ k = Key(writer[w].now) /\ i = made + 1
<1>a. Buffer(logs) /\ Buffer(batch)
  BY DEF TypeInv, Stores
<1>b. writer \in [Writers -> {Idle} \cup BeganAt \cup KeyedAt]
  BY DEF TypeInv, Threads
<1>1. ASSUME NEW w \in Writers, Holds(w)', writer'[w].key = k, writer'[w].message = i
      PROVE  Kept(k, i) \/ (LoadSeq(w) /\ k = Key(writer[w].now) /\ i = made + 1)
  <2>1. CASE Holds(w) /\ writer'[w].message = writer[w].message /\ writer'[w].key = writer[w].key
    BY <1>1, <2>1 DEF Kept
  <2>2. CASE LoadSeq(w) /\ writer'[w].message = made + 1
    <3>1. writer'[w].key = Key(writer[w].now)
      BY <1>b, <2>2 DEF LoadSeq, Moves
    <3> QED
      BY <1>1, <2>2, <3>1
  <2> QED
    BY <1>1, <2>1, <2>2, HolderSteps
<1>2. ASSUME NEW more, Buffer(more), logs' = AddLogs(logs, more),
             k \in DOMAIN logs', logs'[k] = i
      PROVE  (k \in DOMAIN logs /\ logs[k] = i) \/ (k \in DOMAIN more /\ more[k] = i)
  <2>1. k \in DOMAIN AddLogs(logs, more) /\ AddLogs(logs, more)[k] = i
    BY <1>2
  <2> QED
    BY <1>2, <1>a, <2>1, AddLogsPointwise
<1> DEFINE Stored == \/ k \in DOMAIN logs' /\ logs'[k] = i
                     \/ k \in DOMAIN batch' /\ batch'[k] = i
<1>3. ASSUME Stored, NEW w \in Writers, writer[w] \in KeyedAt, AddLog(w), batch' = batch,
             logs' = AddLogs(logs, OneLog(writer[w].key, writer[w].message))
      PROVE  Kept(k, i)
  <2> DEFINE one == OneLog(writer[w].key, writer[w].message)
  <2>1. /\ Holds(w) /\ Buffer(one) /\ DOMAIN one = {writer[w].key}
        /\ one[writer[w].key] = writer[w].message
    BY <1>3, Adding
  <2>2. logs' = AddLogs(logs, one)
    BY <1>3
  <2> HIDE DEF one
  <2>3. CASE k \in DOMAIN logs' /\ logs'[k] = i
    <3>1. (k \in DOMAIN logs /\ logs[k] = i) \/ (k \in DOMAIN one /\ one[k] = i)
      BY <1>2, <2>1, <2>2, <2>3
    <3> QED
      BY <2>1, <3>1 DEF Kept
  <2>4. CASE k \in DOMAIN batch' /\ batch'[k] = i
    BY <1>3, <2>4 DEF Kept
  <2> QED
    BY <1>3, <2>3, <2>4
<1>4. ASSUME Stored, NEW keys \in SUBSET DOMAIN logs,
             batch' = Restrict(logs, keys), logs' = Without(logs, keys)
      PROVE  Kept(k, i)
  <2>1. /\ DOMAIN Without(logs, keys) = DOMAIN logs \ keys
        /\ DOMAIN Restrict(logs, keys) = keys
        /\ \A j \in DOMAIN logs \ keys : Without(logs, keys)[j] = logs[j]
        /\ \A j \in keys : Restrict(logs, keys)[j] = logs[j]
    BY <1>a, PartIsBuffer
  <2> QED
    BY <1>4, <2>1 DEF Kept
<1>5. ASSUME Stored, batch' = NoLogs, logs' = logs PROVE Kept(k, i)
  BY <1>5, NoLogsIsBuffer DEF Kept
<1>6. ASSUME Stored, batch' = NoLogs, logs' = AddLogs(logs, batch) PROVE Kept(k, i)
  BY <1>2, <1>6, <1>a, NoLogsIsBuffer DEF Kept
<1>7. ASSUME Stored, UNCHANGED <<logs, batch>> PROVE Kept(k, i)
  BY <1>7 DEF Kept
<1>8. ASSUME Stored PROVE Kept(k, i)
  BY StoreSteps, <1>3, <1>4, <1>5, <1>6, <1>7, <1>8
<1> QED
  BY <1>1, <1>8 DEF Kept

LEMMA Greater ==
  ASSUME NEW a \in Nat, NEW b \in Nat, NEW d \in Nat, a <= b
  PROVE  a * d \in Nat /\ b * d \in Nat /\ a * d <= b * d
<1>1. b - a \in Nat /\ (b - a) * d \in Nat /\ (b - a) * d = b * d - a * d
  OBVIOUS
<1>2. a * d \in Nat /\ b * d \in Nat
  OBVIOUS
<1> QED
  BY <1>1, <1>2

LEMMA QuotientGrows ==
  ASSUME NEW d \in Nat \ {0}, NEW m \in Nat, NEW n \in Nat, m <= n
  PROVE  m \div d <= n \div d
<1> DEFINE p == m \div d
           q == n \div d
           r == n % d
           s == m % d
<1>1. p \in Nat /\ q \in Nat /\ r \in 0 .. d - 1 /\ s \in 0 .. d - 1
  BY Division
<1>2. m = p * d + s /\ n = q * d + r
  BY Division
<1> HIDE DEF p, q, r, s
<1>3. ASSUME q + 1 <= p PROVE FALSE
  <2>1. (q + 1) * d <= p * d /\ p * d \in Nat
    BY <1>1, <1>3, Greater
  <2>2. (q + 1) * d = q * d + d /\ q * d \in Nat
    BY <1>1
  <2> QED
    BY <1>1, <1>2, <2>1, <2>2
<1>4. p <= q
  BY <1>1, <1>3
<1> QED
  BY <1>4 DEF p, q

\* The sink can tell from the time whether it was set.
LEMMA ValidMeansSet ==
  ASSUME ClockTypes
  PROVE  TimeValid(SystemTime) <=> timeSet
<1>1. /\ UnitsPerSecond \in Nat \ {0} /\ LastUnit \in Nat /\ Epoch \in Nat
      /\ uptime \in Nat /\ uptime <= LastUnit /\ timeSet \in BOOLEAN
  BY ConstantTypes DEF ClockTypes
<1>2. Seconds \in Nat /\ Seconds <= LastUnit \div UnitsPerSecond
  BY <1>1, QuotientGrows, SystemTimeIsNat DEF Seconds
<1>3. LastUnit \div UnitsPerSecond \in Nat
  BY <1>1, Division
<1>4. /\ MinValidEpoch \in Nat /\ MinValidEpoch <= Epoch
      /\ MinValidEpoch >= (LastUnit \div UnitsPerSecond) + 1
  BY <1>1, <1>3, LogPathAssumption
<1>5. CASE timeSet
  <2>1. SystemTime = Epoch + Seconds
    BY <1>5 DEF SystemTime
  <2> QED
    BY <1>1, <1>2, <1>4, <1>5, <2>1 DEF TimeValid
<1>6. CASE ~timeSet
  <2>1. SystemTime = Seconds
    BY <1>6 DEF SystemTime
  <2> QED
    BY <1>2, <1>3, <1>4, <1>6, <2>1 DEF TimeValid
<1> QED
  BY <1>5, <1>6

LEMMA TimeGoesOn ==
  ASSUME ClockTypes, ClockTypes', [ClockNext]_clock, timeSet' = timeSet
  PROVE  /\ uptime \in Nat /\ uptime' \in Nat /\ uptime <= uptime'
         /\ SystemTime \in Nat /\ SystemTime' \in Nat /\ SystemTime <= SystemTime'
<1>1. uptime \in Nat /\ uptime' \in Nat
  BY ConstantTypes DEF ClockTypes
<1>2. uptime' = uptime \/ uptime' = uptime + 1
  BY DEF clock, ClockNext, SyncContinues, TimePasses, ServerAnswers, TimeSyncCallback,
         SyncIfNeeded, StopSntp, StartSntp, PollTurn, PollEnds, ReturnSync, SyncMoves
<1>3. uptime <= uptime'
  BY <1>1, <1>2
<1>4. SystemTime \in Nat /\ Seconds \in Nat
  BY SystemTimeIsNat
<1>5. Seconds' = uptime' \div UnitsPerSecond /\ Seconds = uptime \div UnitsPerSecond
  BY DEF Seconds
<1>6. Epoch \in Nat /\ UnitsPerSecond \in Nat \ {0}
  BY ConstantTypes
<1>7. Seconds' \in Nat /\ Seconds <= Seconds'
  BY <1>1, <1>3, <1>5, <1>6, Division, QuotientGrows
<1>8. SystemTime' = IF timeSet THEN Epoch + Seconds' ELSE Seconds'
  BY DEF SystemTime
<1>9. SystemTime = IF timeSet THEN Epoch + Seconds ELSE Seconds
  BY DEF SystemTime
<1>10. SystemTime' \in Nat /\ SystemTime <= SystemTime'
  <2>1. CASE timeSet
    <3>1. SystemTime' = Epoch + Seconds' /\ SystemTime = Epoch + Seconds
      BY <1>8, <1>9, <2>1
    <3>2. \A e, a, b \in Nat : a <= b => e + a \in Nat /\ e + b \in Nat /\ e + a <= e + b
      OBVIOUS
    <3>3. Epoch + Seconds' \in Nat /\ Epoch + Seconds <= Epoch + Seconds'
      BY <1>4, <1>6, <1>7, <3>2
    <3> QED
      BY <3>1, <3>3
  <2>2. CASE ~timeSet
    <3>1. SystemTime' = Seconds' /\ SystemTime = Seconds
      BY <1>8, <1>9, <2>2
    <3> QED
      BY <1>4, <1>7, <3>1
  <2> QED
    BY <2>1, <2>2
<1> QED
  BY <1>1, <1>3, <1>4, <1>10

\* What a step does to a thread, as far as the times it has read go.
LEMMA ReadSteps ==
  ASSUME TypeInv, [Next]_vars, NEW w \in Writers
  PROVE  \/ writer'[w] = writer[w]
         \/ writer[w].at = "idle" /\ writer'[w] = [at |-> "began", now |-> SystemTime]
         \/ writer'[w].at # "began"
<1>a. writer \in [Writers -> {Idle} \cup BeganAt \cup KeyedAt]
  BY DEF TypeInv, Threads
<1>1. ASSUME NEW v \in Writers, NEW to, writer' = [writer EXCEPT ![v] = to], v # w
      PROVE  writer'[w] = writer[w]
  BY <1>a, <1>1
<1>2. ASSUME NEW v \in Writers, NEW level \in Levels, Log(v, level)
      PROVE  \/ writer'[w] = writer[w]
             \/ writer[w].at = "idle" /\ writer'[w] = [at |-> "began", now |-> SystemTime]
  BY <1>1, <1>2, <1>a DEF Log, Moves
<1>3. ASSUME NEW v \in Writers, LoadSeq(v) \/ StoreSeq(v) \/ AddLog(v)
      PROVE  writer'[w] = writer[w] \/ writer'[w].at # "began"
  <2>1. CASE v # w
    BY <1>1, <1>3, <2>1 DEF LoadSeq, StoreSeq, AddLog, Moves
  <2>2. CASE LoadSeq(w) \/ AddLog(w)
    BY <1>a, <2>2 DEF LoadSeq, AddLog, Moves, Idle
  <2>3. CASE StoreSeq(w)
    <3>1. /\ writer[w].at = "keyed"
          /\ writer' = [writer EXCEPT ![w] = [writer[w] EXCEPT !.at = "adding"]]
      BY <2>3 DEF StoreSeq, Moves
    <3>2. writer[w] \in KeyedAt
      BY <1>a, <3>1 DEF Idle, BeganAt, KeyedAt
    <3>3. writer'[w].at = "adding"
      BY <1>a, <3>1, <3>2 DEF KeyedAt
    <3> QED
      BY <3>3
  <2> QED
    BY <1>3, <2>1, <2>2, <2>3
<1> QED
  BY <1>2, <1>3, StepCases DEF StepKinds, Take, Published, PublishFails

LEMMA StampSteps ==
  ASSUME TypeInv, [Next]_vars, timeSet' = timeSet, NEW w \in Writers, ReadBefore(w)
  PROVE  /\ ReadBefore(w)'
         /\ Stamp(w) \in Nat /\ Stamp(w)' \in Nat /\ Stamp(w) <= Stamp(w)'
<1>1. TypeInv' /\ ClockTypes /\ ClockTypes' /\ [ClockNext]_clock
  BY TypesStep, StepCases DEF TypeInv, ClockInv
<1>2. /\ uptime \in Nat /\ uptime' \in Nat /\ uptime <= uptime'
      /\ SystemTime \in Nat /\ SystemTime' \in Nat /\ SystemTime <= SystemTime'
  BY <1>1, TimeGoesOn
<1>3. writer[w].at = "began" => writer[w].now \in Nat
  BY DEF TypeInv, Threads, Idle, BeganAt, KeyedAt
<1>4. writer'[w].at = "began" => writer'[w].now \in Nat
  BY <1>1 DEF TypeInv, Threads, Idle, BeganAt, KeyedAt
<1>5. TimeValid(SystemTime) <=> timeSet
  BY <1>1, ValidMeansSet
<1>6. Stamp(w)' = IF timeSet
                  THEN IF writer'[w].at = "began" THEN writer'[w].now ELSE SystemTime'
                  ELSE uptime'
  BY DEF Stamp
<1>7. timeSet /\ writer[w].at = "began" => writer[w].now <= SystemTime
  BY DEF ReadBefore
<1>8. Stamp(w) \in Nat /\ Stamp(w)' \in Nat
  BY <1>2, <1>3, <1>4, <1>6 DEF Stamp
<1>9. Stamp(w) <= SystemTime \/ ~timeSet
  BY <1>2, <1>3, <1>7 DEF Stamp
<1>10. ReadBefore(w)' <=>
         (writer'[w].at = "began" =>
            /\ TimeValid(writer'[w].now) <=> timeSet
            /\ timeSet => writer'[w].now <= SystemTime')
  BY DEF ReadBefore, TimeValid
<1>11. CASE writer'[w] = writer[w]
  <2>1. Stamp(w) <= Stamp(w)'
    BY <1>2, <1>3, <1>6, <1>11 DEF Stamp
  <2>2. ReadBefore(w)'
    BY <1>2, <1>3, <1>7, <1>10, <1>11 DEF ReadBefore
  <2> QED
    BY <1>8, <2>1, <2>2
<1>12. CASE writer[w].at = "idle" /\ writer'[w] = [at |-> "began", now |-> SystemTime]
  <2>1. writer'[w].at = "began" /\ writer'[w].now = SystemTime
    BY <1>12
  <2>2. Stamp(w) <= Stamp(w)'
    BY <1>2, <1>6, <1>12, <2>1 DEF Stamp
  <2>3. ReadBefore(w)'
    BY <1>2, <1>5, <1>10, <2>1
  <2> QED
    BY <1>8, <2>2, <2>3
<1>13. CASE writer'[w].at # "began"
  <2>1. Stamp(w) <= Stamp(w)'
    BY <1>2, <1>6, <1>8, <1>9, <1>13 DEF Stamp
  <2> QED
    BY <1>8, <1>10, <1>13, <2>1
<1> QED
  BY <1>11, <1>12, <1>13, ReadSteps

LEMMA NewKey ==
  ASSUME TypeInv, KeysInv, NEW w, Writers = {w}, LastMessage <= SeqWrap,
         OrderInv(w), LoadSeq(w)
  PROVE  /\ Key(writer[w].now) = Stamp(w) * SeqWrap + made
         /\ raced' = FALSE
<1>1. writer[w].at = "began" /\ made < LastMessage
  BY DEF LoadSeq, Moves
<1>2. Counted /\ ~raced
  BY DEF KeysInv, OrderInv
<1>3. made = seqPerSec
  BY <1>1, <1>2 DEF Counted
<1>4. made \in Nat /\ SeqWrap \in Nat \ {0} /\ LastMessage \in Nat
  BY PathConstants DEF TypeInv, Counters
<1>5. made % SeqWrap = made
  BY <1>1, <1>4
<1>6. Stamp(w) = IF TimeValid(writer[w].now) THEN writer[w].now ELSE uptime
  BY <1>1 DEF Stamp, OrderInv, ReadBefore
<1>7. Key(writer[w].now) = Stamp(w) * SeqWrap + made
  BY <1>3, <1>5, <1>6 DEF Key
<1>8. raced' = FALSE
  BY <1>1, <1>2 DEF LoadSeq
<1> QED
  BY <1>7, <1>8

LEMMA OrderStep ==
  ASSUME TypeInv, KeysInv, NEW w, Writers = {w}, LastMessage <= SeqWrap,
         OrderInv(w), [Next]_vars, timeSet' = timeSet
  PROVE  OrderInv(w)'
<1>a. made \in Nat /\ SeqWrap \in Nat
  BY PathConstants DEF TypeInv, Counters
<1>1. /\ ReadBefore(w)'
      /\ Stamp(w) \in Nat /\ Stamp(w)' \in Nat /\ Stamp(w) <= Stamp(w)'
  BY StampSteps DEF OrderInv
<1> DEFINE t == Stamp(w) * SeqWrap
           u == Stamp(w)' * SeqWrap
           fresh == t + made
<1>2. t \in Nat /\ u \in Nat /\ t <= u
  BY <1>1, <1>a, Greater
<1>3. \A k, i \in Nat : Kept(k, i) => k <= t + (i - 1)
  BY DEF OrderInv, Earlier
<1>4. \A k, i \in Nat : Kept(k, i)' => Kept(k, i) \/ (k = fresh /\ i = made + 1)
  <2>1. ASSUME NEW k \in Nat, NEW i \in Nat, Kept(k, i)', NEW v \in Writers,
               LoadSeq(v), k = Key(writer[v].now), i = made + 1
        PROVE  k = fresh
    BY <2>1, NewKey
  <2> QED
    BY <2>1, KeptSteps
<1>5. \A k, i \in Nat : Kept(k, i) => i <= made /\ i >= 1
  BY KeptTypes
<1>6. ~raced'
  <2>1. ASSUME NEW v \in Writers, LoadSeq(v) PROVE ~raced'
    BY <2>1, NewKey
  <2>2. ~raced
    BY DEF OrderInv
  <2> QED
    BY StepCases, <2>1, <2>2
       DEF StepKinds, Log, StoreSeq, AddLog, Take, Published, PublishFails
<1> HIDE DEF t, u, fresh
<1>7. \A k, i \in Nat : Kept(k, i)' => k <= u + (i - 1)
  <2> SUFFICES ASSUME NEW k \in Nat, NEW i \in Nat, Kept(k, i)' PROVE k <= u + (i - 1)
    OBVIOUS
  <2>1. CASE Kept(k, i)
    <3>1. k <= t + (i - 1)
      BY <1>3, <2>1
    <3> QED
      BY <1>2, <3>1
  <2>2. CASE k = fresh /\ i = made + 1
    BY <1>2, <1>a, <2>2 DEF fresh
  <2> QED
    BY <1>4, <2>1, <2>2
<1>8. \A j, k, i, l \in Nat : Kept(j, i)' /\ Kept(k, l)' /\ i <= l => j <= k
  <2> SUFFICES ASSUME NEW j \in Nat, NEW k \in Nat, NEW i \in Nat, NEW l \in Nat,
                      Kept(j, i)', Kept(k, l)', i <= l
               PROVE  j <= k
    OBVIOUS
  <2>1. CASE Kept(j, i) /\ Kept(k, l)
    BY <2>1 DEF OrderInv, InOrder
  <2>2. CASE Kept(j, i) /\ k = fresh /\ l = made + 1
    <3>1. j <= t + (i - 1) /\ i <= made
      BY <1>3, <1>5, <2>2
    <3> QED
      BY <1>2, <1>a, <2>2, <3>1 DEF fresh
  <2>3. CASE j = fresh /\ i = made + 1 /\ Kept(k, l)
    <3>1. l <= made
      BY <1>5, <2>3
    <3> QED
      BY <1>a, <2>3, <3>1
  <2>4. CASE j = fresh /\ k = fresh
    BY <2>4
  <2> QED
    BY <1>4, <2>1, <2>2, <2>3, <2>4
<1>9. Earlier(w)'
  BY <1>7 DEF Earlier, u
<1>10. InOrder'
  BY <1>8 DEF InOrder
<1> QED
  BY <1>1, <1>6, <1>9, <1>10 DEF OrderInv

LEMMA OrderStarts == ASSUME Init, NEW w \in Writers PROVE OrderInv(w)
<1>1. \A k, i : ~Kept(k, i)
  BY NoLogsIsBuffer DEF Init, Kept, Holds, Idle
<1>2. ~raced /\ writer[w].at # "began"
  BY DEF Init, Idle
<1> QED
  BY <1>1, <1>2 DEF OrderInv, ReadBefore, Earlier, InOrder

\* The first records of a buffer have smaller keys than the rest.
LEMMA FirstAreSmallest ==
  ASSUME NEW m, Buffer(m), NEW n \in Nat, NEW k \in First(m, n),
         NEW j \in DOMAIN m \ First(m, n)
  PROVE  k < j
<1>1. First(m, n) = {i \in DOMAIN m : Cardinality(Below(m, i)) < n}
  BY DEF First, Below
<1>2. j \in Nat /\ k \in Nat /\ j # k
  BY <1>1 DEF Buffer
<1>3. ASSUME j < k PROVE FALSE
  <2>1. Below(m, j) \subseteq Below(m, k)
    BY <1>2, <1>3 DEF Below, Buffer
  <2>2. IsFiniteSet(Below(m, k)) /\ IsFiniteSet(Below(m, j))
    BY FS_Subset DEF Buffer, Below
  <2>3. /\ Cardinality(Below(m, j)) <= Cardinality(Below(m, k))
        /\ Cardinality(Below(m, j)) \in Nat /\ Cardinality(Below(m, k)) \in Nat
    BY <2>1, <2>2, FS_Subset, FS_CardinalityType
  <2> QED
    BY <1>1, <2>3
<1> QED
  BY <1>2, <1>3

\* What a step adds was kept before, and the buffer that it makes is the merged
\* one without its smallest keys.
LEMMA TrimmedAreOldest ==
  ASSUME TypeInv, InOrder, NEW more, Buffer(more), logs' = AddLogs(logs, more),
         \A j \in DOMAIN more : Kept(j, more[j]),
         NEW k \in Trimmed(Merge(logs, more)), NEW j \in DOMAIN logs'
  PROVE  Merge(logs, more)[k] < logs'[j]
<1> DEFINE m == Merge(logs, more)
           n == IF Size(m) > MaxRecordCount THEN TrimRecordCount ELSE 0
<1>a. Buffer(logs)
  BY DEF TypeInv, Stores
<1>1. Buffer(m) /\ DOMAIN m = DOMAIN logs \cup DOMAIN more
  BY <1>a, MergeIsBuffer, Zenon
<1>2. \A i \in DOMAIN m : Kept(i, m[i])
  <2>1. \A i \in DOMAIN m : m[i] = IF i \in DOMAIN more THEN more[i] ELSE logs[i]
    BY DEF Merge
  <2> QED
    BY <1>1, <2>1 DEF Kept
<1>3. n \in Nat /\ Trimmed(m) = First(m, n)
  BY PathConstants DEF Trimmed
<1>4. logs' = Without(m, Trimmed(m))
  BY DEF AddLogs, TrimIfOverCapacity
<1> HIDE DEF m, n
<1>5. First(m, n) \subseteq DOMAIN m
  BY DEF First
<1>6. /\ DOMAIN Without(m, First(m, n)) = DOMAIN m \ First(m, n)
      /\ \A i \in DOMAIN m \ First(m, n) : Without(m, First(m, n))[i] = m[i]
  BY <1>1, <1>5, PartIsBuffer, Zenon
<1>7. j \in DOMAIN m \ First(m, n) /\ logs'[j] = m[j]
  BY <1>3, <1>4, <1>6
<1>8. k \in First(m, n) /\ k \in DOMAIN m
  BY <1>3, <1>5 DEF m
<1>9. k < j
  BY <1>1, <1>3, <1>7, <1>8, FirstAreSmallest
<1>10. /\ Kept(k, m[k]) /\ Kept(j, m[j])
       /\ k \in Nat /\ j \in Nat /\ m[k] \in Nat /\ m[j] \in Nat
  BY <1>2, <1>7, <1>8, KeptTypes
<1>11. m[j] <= m[k] => j <= k
  BY <1>10 DEF InOrder
<1>12. m[k] < m[j]
  BY <1>9, <1>10, <1>11
<1> QED
  BY <1>7, <1>12 DEF m

LEMMA TrimStep ==
  ASSUME TypeInv, InOrder, [Next]_vars, Added # NoLogs,
         NEW k \in Trimmed(Merge(logs, Added)), NEW j \in DOMAIN logs'
  PROVE  Merge(logs, Added)[k] < logs'[j]
<1>1. ASSUME NEW w \in Writers, AddLog(w), writer[w] \in KeyedAt
      PROVE  Merge(logs, Added)[k] < logs'[j]
  <2> DEFINE one == OneLog(writer[w].key, writer[w].message)
  <2>1. /\ Holds(w) /\ Buffer(one) /\ DOMAIN one = {writer[w].key}
        /\ one[writer[w].key] = writer[w].message
    BY <1>1, Adding
  <2>2. Added = one /\ logs' = AddLogs(logs, one)
    BY <1>1, AddedByAddLog DEF AddLog
  <2> HIDE DEF one
  <2>3. \A i \in DOMAIN one : Kept(i, one[i])
    BY <2>1 DEF Kept
  <2> QED
    BY <2>1, <2>2, <2>3, TrimmedAreOldest
<1>2. CASE PublishFails
  <2>1. Added = batch /\ logs' = AddLogs(logs, batch) /\ Buffer(batch)
    BY <1>2, AddedByPublishFails DEF PublishFails, TypeInv, Stores
  <2>2. \A i \in DOMAIN batch : Kept(i, batch[i])
    BY DEF Kept
  <2> QED
    BY <2>1, <2>2, TrimmedAreOldest
<1>3. ASSUME NEW w \in Writers, AddLog(w) PROVE writer[w] \in KeyedAt
  BY <1>3 DEF AddLog, Moves, TypeInv, Threads, Idle, BeganAt, KeyedAt
<1>4. PublishFails \/ \E w \in Writers : AddLog(w)
  BY DEF Added
<1> QED
  BY <1>1, <1>2, <1>3, <1>4

\* What the comment at TrimIfOverCapacity() (16) says is so while the format of
\* the keys stays, one thread logs, and it logs no more than SeqWrap messages:
\* the records that go are the oldest, also when a batch is put back.  log_oldest
\* shows what becomes of it when the time is set.
THEOREM SteadyTrimRemovesOldest ==
  ASSUME NEW w, Writers = {w}, LastMessage <= SeqWrap
  PROVE  Spec /\ [][timeSet' = timeSet]_timeSet => TrimRemovesOldest
<1>1. Init => OrderInv(w)
  BY OrderStarts
<1>2. TypeInv /\ KeysInv /\ OrderInv(w) /\ [Next]_vars /\ [timeSet' = timeSet]_timeSet
        => OrderInv(w)'
  BY OrderStep
<1>3. TypeInv /\ OrderInv(w) /\ [Next]_vars =>
        [Added # NoLogs =>
           \A k \in Trimmed(Merge(logs, Added)) : \A j \in DOMAIN logs' :
             Merge(logs, Added)[k] < logs'[j]]_vars
  BY TrimStep DEF OrderInv
<1> QED
  BY <1>1, <1>2, <1>3, TypesAlways, KeysAlways, PTL DEF Spec, TrimRemovesOldest
==============================================================================

----------------------------- MODULE RadioProofs -----------------------------
(***************************************************************************)
(* What Radio does for any length of the event loop's queue, any stations  *)
(* and any number of connects.                                             *)
(*                                                                         *)
(* The managers learn of the driver from a queue that is behind, so each   *)
(* invariant says what a manager's variables and the events that are still *)
(* queued have to say together of the driver: that a loss is still to come *)
(* for a link that is gone, that the latest start or stop is that of the   *)
(* access point, that the clients and the queued arrivals and departures   *)
(* add up to the stations.                                                 *)
(***************************************************************************)
EXTENDS Radio, FiniteSetTheorems, SequenceTheorems, TLAPS

-----------------------------------------------------------------------------
(***************************************************************************)
(* Queues.                                                                 *)
(***************************************************************************)

Has(q, e) == \E i \in 1 .. Len(q) : q[i] = e

None(q, S) == \A i \in 1 .. Len(q) : q[i] \notin S

\* x is in the queue, and nothing of S behind it.
Latest(q, S, x) ==
  \E i \in 1 .. Len(q) : q[i] = x /\ \A j \in 1 .. Len(q) : j > i => q[j] \notin S

Count(q, e) == Cardinality({i \in DOMAIN q : q[i] = e})

LEMMA AppendGives ==
  ASSUME NEW T, NEW q \in Seq(T), NEW p \in Seq(T)
  PROVE  /\ q \o p \in Seq(T) /\ Len(q \o p) = Len(q) + Len(p)
         /\ Len(q) \in Nat /\ Len(p) \in Nat
         /\ \A i \in 1 .. Len(q) : (q \o p)[i] = q[i]
         /\ \A i \in 1 .. Len(p) : (q \o p)[Len(q) + i] = p[i]
<1>1. q \o p \in Seq(T) /\ Len(q \o p) = Len(q) + Len(p)
  BY ConcatProperties
<1>2. Len(q) \in Nat /\ Len(p) \in Nat
  BY LenProperties
<1>3. \A i \in 1 .. Len(q) + Len(p) :
        (q \o p)[i] = IF i <= Len(q) THEN q[i] ELSE p[i - Len(q)]
  BY ConcatProperties
<1>4. ASSUME NEW i \in 1 .. Len(q) PROVE (q \o p)[i] = q[i]
  BY <1>2, <1>3
<1>5. ASSUME NEW i \in 1 .. Len(p) PROVE (q \o p)[Len(q) + i] = p[i]
  <2>1. Len(q) + i \in 1 .. Len(q) + Len(p) /\ ~(Len(q) + i <= Len(q))
    BY <1>2
  <2>2. Len(q) + i - Len(q) = i
    BY <1>2
  <2> QED
    BY <1>3, <2>1, <2>2
<1> QED
  BY <1>1, <1>2, <1>4, <1>5

\* Every place of a queue that was appended to is an old one or a new one.
LEMMA AppendPlaces ==
  ASSUME NEW T, NEW q \in Seq(T), NEW p \in Seq(T), NEW i \in 1 .. Len(q \o p)
  PROVE  \/ i \in 1 .. Len(q) /\ (q \o p)[i] = q[i]
         \/ \E j \in 1 .. Len(p) : i = Len(q) + j /\ (q \o p)[i] = p[j]
<1>1. Len(q) \in Nat /\ Len(p) \in Nat /\ Len(q \o p) = Len(q) + Len(p)
  BY AppendGives
<1>2. CASE i <= Len(q)
  <2>1. i \in 1 .. Len(q)
    BY <1>1, <1>2
  <2> QED
    BY <2>1, AppendGives
<1>3. CASE ~(i <= Len(q))
  <2>1. i - Len(q) \in 1 .. Len(p) /\ i = Len(q) + (i - Len(q))
    BY <1>1, <1>3
  <2>2. (q \o p)[Len(q) + (i - Len(q))] = p[i - Len(q)]
    BY <2>1, AppendGives
  <2> QED
    BY <2>1, <2>2
<1> QED
  BY <1>2, <1>3

LEMMA TailGives ==
  ASSUME NEW T, NEW q \in Seq(T), q # <<>>
  PROVE  /\ Tail(q) \in Seq(T) /\ Len(Tail(q)) = Len(q) - 1
         /\ Len(q) \in Nat /\ Len(q) >= 1 /\ Head(q) = q[1] /\ q[1] \in T
         /\ \A i \in 1 .. Len(Tail(q)) : Tail(q)[i] = q[i + 1]
<1>1. Len(q) \in Nat /\ Len(q) # 0
  BY LenProperties, EmptySeq
<1>2. Len(q) >= 1
  BY <1>1
<1>3. Tail(q) \in Seq(T) /\ Len(Tail(q)) = Len(q) - 1
  BY HeadTailProperties
<1>4. \A i \in 1 .. Len(Tail(q)) : Tail(q)[i] = q[i + 1]
  BY HeadTailProperties
<1>5. Head(q) = q[1] /\ q[1] \in T
  BY <1>2, HeadTailProperties, ElementOfSeq
<1> QED
  BY <1>1, <1>2, <1>3, <1>4, <1>5

LEMMA AppendHead ==
  ASSUME NEW T, NEW q \in Seq(T), NEW p \in Seq(T), q # <<>>
  PROVE  q \o p # <<>> /\ Head(q \o p) = Head(q)
<1>1. /\ Len(q) >= 1 /\ Len(q) \in Nat /\ Head(q) = q[1]
      /\ q \o p \in Seq(T) /\ Len(q \o p) = Len(q) + Len(p) /\ Len(p) \in Nat
      /\ \A i \in 1 .. Len(q) : (q \o p)[i] = q[i]
  BY TailGives, AppendGives
<1>2. Len(q \o p) # 0 /\ (q \o p)[1] = q[1]
  BY <1>1
<1>3. q \o p # <<>>
  BY <1>1, <1>2, EmptySeq
<1> QED
  BY <1>1, <1>2, <1>3, TailGives

LEMMA HasIsRange ==
  ASSUME NEW T, NEW q \in Seq(T), NEW e
  PROVE  e \in Range(q) <=> Has(q, e)
<1>1. DOMAIN q = 1 .. Len(q)
  BY LenProperties
<1> QED
  BY <1>1 DEF Range, Has

LEMMA HasAppend ==
  ASSUME NEW T, NEW q \in Seq(T), NEW p \in Seq(T), NEW e
  PROVE  Has(q \o p, e) <=> Has(q, e) \/ Has(p, e)
<1>1. Has(q \o p, e) => Has(q, e) \/ Has(p, e)
  BY AppendPlaces DEF Has
<1>2. Has(q, e) => Has(q \o p, e)
  <2>1. /\ \A i \in 1 .. Len(q) : (q \o p)[i] = q[i]
        /\ Len(q \o p) = Len(q) + Len(p) /\ Len(q) \in Nat /\ Len(p) \in Nat
    BY AppendGives
  <2>2. \A i \in 1 .. Len(q) : i \in 1 .. Len(q \o p)
    BY <2>1
  <2> QED
    BY <2>1, <2>2 DEF Has
<1>3. Has(p, e) => Has(q \o p, e)
  <2>1. /\ \A i \in 1 .. Len(p) : (q \o p)[Len(q) + i] = p[i]
        /\ Len(q \o p) = Len(q) + Len(p) /\ Len(q) \in Nat /\ Len(p) \in Nat
    BY AppendGives
  <2>2. \A i \in 1 .. Len(p) : Len(q) + i \in 1 .. Len(q \o p)
    BY <2>1
  <2> QED
    BY <2>1, <2>2 DEF Has
<1> QED
  BY <1>1, <1>2, <1>3

LEMMA NoneIsNotHas ==
  ASSUME NEW q, NEW S
  PROVE  None(q, S) <=> \A e \in S : ~Has(q, e)
BY DEF None, Has

LEMMA NoneAppend ==
  ASSUME NEW T, NEW q \in Seq(T), NEW p \in Seq(T), NEW S
  PROVE  None(q \o p, S) <=> None(q, S) /\ None(p, S)
BY NoneIsNotHas, HasAppend

LEMMA HasTail ==
  ASSUME NEW T, NEW q \in Seq(T), q # <<>>, NEW e
  PROVE  Has(q, e) <=> q[1] = e \/ Has(Tail(q), e)
<1>a. /\ Len(Tail(q)) = Len(q) - 1 /\ Len(q) \in Nat /\ Len(q) >= 1
      /\ \A i \in 1 .. Len(Tail(q)) : Tail(q)[i] = q[i + 1]
  BY TailGives
<1>1. ASSUME NEW i \in 1 .. Len(q), q[i] = e PROVE q[1] = e \/ Has(Tail(q), e)
  <2>1. CASE i = 1
    BY <1>1, <2>1
  <2>2. CASE i # 1
    <3>1. i - 1 \in 1 .. Len(Tail(q)) /\ (i - 1) + 1 = i
      BY <1>a, <2>2
    <3>2. Tail(q)[i - 1] = e
      BY <1>a, <1>1, <3>1
    <3> QED
      BY <3>1, <3>2 DEF Has
  <2> QED
    BY <2>1, <2>2
<1>2. ASSUME NEW i \in 1 .. Len(Tail(q)), Tail(q)[i] = e PROVE Has(q, e)
  <2>1. i + 1 \in 1 .. Len(q) /\ q[i + 1] = e
    BY <1>a, <1>2
  <2> QED
    BY <2>1 DEF Has
<1>3. q[1] = e => Has(q, e)
  BY <1>a DEF Has
<1> QED
  BY <1>1, <1>2, <1>3 DEF Has

LEMMA NoneTail ==
  ASSUME NEW T, NEW q \in Seq(T), q # <<>>, NEW S
  PROVE  None(q, S) <=> q[1] \notin S /\ None(Tail(q), S)
BY NoneIsNotHas, HasTail

LEMMA LatestAppend ==
  ASSUME NEW T, NEW q \in Seq(T), NEW p \in Seq(T), NEW S, NEW x
  PROVE  /\ Latest(q, S, x) /\ None(p, S) => Latest(q \o p, S, x)
         /\ Latest(p, S, x) => Latest(q \o p, S, x)
<1>a. /\ Len(q \o p) = Len(q) + Len(p) /\ Len(q) \in Nat /\ Len(p) \in Nat
      /\ \A i \in 1 .. Len(q) : (q \o p)[i] = q[i]
      /\ \A i \in 1 .. Len(p) : (q \o p)[Len(q) + i] = p[i]
  BY AppendGives
<1>1. ASSUME Latest(q, S, x), None(p, S) PROVE Latest(q \o p, S, x)
  <2>1. PICK i \in 1 .. Len(q) : q[i] = x /\ \A j \in 1 .. Len(q) : j > i => q[j] \notin S
    BY <1>1 DEF Latest
  <2>2. i \in 1 .. Len(q \o p) /\ (q \o p)[i] = x
    BY <1>a, <2>1
  <2>3. ASSUME NEW j \in 1 .. Len(q \o p), j > i PROVE (q \o p)[j] \notin S
    <3>1. CASE j \in 1 .. Len(q) /\ (q \o p)[j] = q[j]
      BY <2>1, <2>3, <3>1
    <3>2. CASE \E k \in 1 .. Len(p) : (q \o p)[j] = p[k]
      BY <1>1, <3>2 DEF None
    <3> QED
      BY <3>1, <3>2, AppendPlaces
  <2> QED
    BY <2>2, <2>3 DEF Latest
<1>2. ASSUME Latest(p, S, x) PROVE Latest(q \o p, S, x)
  <2>1. PICK i \in 1 .. Len(p) : p[i] = x /\ \A j \in 1 .. Len(p) : j > i => p[j] \notin S
    BY <1>2 DEF Latest
  <2>2. Len(q) + i \in 1 .. Len(q \o p) /\ (q \o p)[Len(q) + i] = x
    BY <1>a, <2>1
  <2>3. ASSUME NEW j \in 1 .. Len(q \o p), j > Len(q) + i PROVE (q \o p)[j] \notin S
    <3>1. ~(j \in 1 .. Len(q))
      BY <1>a, <2>3
    <3>2. PICK k \in 1 .. Len(p) : j = Len(q) + k /\ (q \o p)[j] = p[k]
      BY <3>1, AppendPlaces
    <3>3. k > i
      BY <1>a, <2>3, <3>2
    <3> QED
      BY <2>1, <3>2, <3>3
  <2> QED
    BY <2>2, <2>3 DEF Latest
<1> QED
  BY <1>1, <1>2

LEMMA LatestTail ==
  ASSUME NEW T, NEW q \in Seq(T), q # <<>>, NEW S, NEW x, Latest(q, S, x)
  PROVE  Latest(Tail(q), S, x) \/ (q[1] = x /\ None(Tail(q), S))
<1>a. /\ Len(Tail(q)) = Len(q) - 1 /\ Len(q) \in Nat /\ Len(q) >= 1
      /\ \A i \in 1 .. Len(Tail(q)) : Tail(q)[i] = q[i + 1]
  BY TailGives
<1>1. PICK i \in 1 .. Len(q) : q[i] = x /\ \A j \in 1 .. Len(q) : j > i => q[j] \notin S
  BY DEF Latest
<1>2. ASSUME NEW j \in 1 .. Len(Tail(q)), j + 1 > i PROVE Tail(q)[j] \notin S
  <2>1. j + 1 \in 1 .. Len(q)
    BY <1>a
  <2> QED
    BY <1>a, <1>1, <1>2, <2>1
<1>3. CASE i = 1
  <2>1. \A j \in 1 .. Len(Tail(q)) : j + 1 > i
    BY <1>a, <1>3
  <2> QED
    BY <1>1, <1>2, <1>3, <2>1 DEF None
<1>4. CASE i # 1
  <2>1. i - 1 \in 1 .. Len(Tail(q)) /\ (i - 1) + 1 = i
    BY <1>a, <1>4
  <2>2. Tail(q)[i - 1] = x
    BY <1>a, <1>1, <2>1
  <2>3. \A j \in 1 .. Len(Tail(q)) : j > i - 1 => j + 1 > i
    BY <1>a
  <2> QED
    BY <1>2, <2>1, <2>2, <2>3 DEF Latest
<1> QED
  BY <1>3, <1>4

-----------------------------------------------------------------------------
(***************************************************************************)
(* Counting in queues.                                                     *)
(***************************************************************************)

At(q, e) == {i \in 1 .. Len(q) : q[i] = e}

LEMMA CountIsNat ==
  ASSUME NEW T, NEW q \in Seq(T), NEW e
  PROVE  /\ Count(q, e) = Cardinality(At(q, e)) /\ IsFiniteSet(At(q, e))
         /\ Count(q, e) \in Nat
<1>1. DOMAIN q = 1 .. Len(q) /\ Len(q) \in Nat
  BY LenProperties
<1>2. IsFiniteSet(1 .. Len(q))
  BY <1>1, FS_Interval
<1>3. At(q, e) \subseteq 1 .. Len(q)
  BY DEF At
<1>4. IsFiniteSet(At(q, e))
  BY <1>2, <1>3, FS_Subset
<1>5. Count(q, e) = Cardinality(At(q, e))
  BY <1>1 DEF Count, At
<1> QED
  BY <1>4, <1>5, FS_CardinalityType

Shift(S, n) == {n + i : i \in S}

\* Moving places by n does not change how many there are.
LEMMA ShiftSize ==
  ASSUME NEW S \in SUBSET Int, IsFiniteSet(S), NEW n \in Int
  PROVE  IsFiniteSet(Shift(S, n)) /\ Cardinality(Shift(S, n)) = Cardinality(S)
<1> DEFINE shift == [i \in S |-> n + i]
<1>1. shift \in Injection(S, Shift(S, n))
  BY DEF Injection, IsInjective, Shift
<1>2. shift \in Surjection(S, Shift(S, n))
  BY DEF Surjection, Shift
<1> HIDE DEF shift
<1> QED
  BY <1>1, <1>2, FS_Surjection

LEMMA CountAppend ==
  ASSUME NEW T, NEW q \in Seq(T), NEW p \in Seq(T), NEW e
  PROVE  Count(q \o p, e) = Count(q, e) + Count(p, e)
<1>a. /\ q \o p \in Seq(T)
      /\ Len(q \o p) = Len(q) + Len(p) /\ Len(q) \in Nat /\ Len(p) \in Nat
      /\ \A i \in 1 .. Len(q) : (q \o p)[i] = q[i]
      /\ \A i \in 1 .. Len(p) : (q \o p)[Len(q) + i] = p[i]
  BY AppendGives
<1> DEFINE late == Shift(At(p, e), Len(q))
<1>1. At(q \o p, e) = At(q, e) \cup late
  <2>1. ASSUME NEW i \in At(q \o p, e) PROVE i \in At(q, e) \cup late
    <3>1. i \in 1 .. Len(q \o p) /\ (q \o p)[i] = e
      BY DEF At
    <3> QED
      BY <3>1, AppendPlaces DEF At, Shift
  <2>2. ASSUME NEW i \in At(q, e) PROVE i \in At(q \o p, e)
    BY <1>a DEF At
  <2>3. ASSUME NEW i \in At(p, e) PROVE Len(q) + i \in At(q \o p, e)
    <3>1. i \in 1 .. Len(p) /\ p[i] = e
      BY DEF At
    <3>2. Len(q) + i \in 1 .. Len(q \o p) /\ (q \o p)[Len(q) + i] = e
      BY <1>a, <3>1
    <3> QED
      BY <3>2 DEF At
  <2> QED
    BY <2>1, <2>2, <2>3 DEF Shift
<1>2. At(q, e) \cap late = {}
  BY <1>a DEF At, Shift
<1>3. IsFiniteSet(At(q, e)) /\ IsFiniteSet(At(p, e))
  BY CountIsNat
<1>4. At(p, e) \in SUBSET Int
  BY DEF At
<1>5. IsFiniteSet(late) /\ Cardinality(late) = Cardinality(At(p, e))
  BY <1>a, <1>3, <1>4, ShiftSize
<1> HIDE DEF late
<1>6. Cardinality(At(q, e) \cup late)
        = Cardinality(At(q, e)) + Cardinality(late) - Cardinality(At(q, e) \cap late)
  BY <1>3, <1>5, FS_Union
<1>7. Cardinality(At(q, e) \cap late) = 0
  BY <1>2, FS_EmptySet
<1>8. /\ Count(q \o p, e) = Cardinality(At(q \o p, e))
      /\ Count(q, e) = Cardinality(At(q, e)) /\ Count(q, e) \in Nat
      /\ Count(p, e) = Cardinality(At(p, e)) /\ Count(p, e) \in Nat
  BY <1>a, CountIsNat
<1> QED
  BY <1>1, <1>5, <1>6, <1>7, <1>8

LEMMA CountTail ==
  ASSUME NEW T, NEW q \in Seq(T), q # <<>>, NEW e
  PROVE  Count(q, e) = Count(Tail(q), e) + (IF q[1] = e THEN 1 ELSE 0)
<1>a. /\ Tail(q) \in Seq(T)
      /\ Len(Tail(q)) = Len(q) - 1 /\ Len(q) \in Nat /\ Len(q) >= 1
      /\ \A i \in 1 .. Len(Tail(q)) : Tail(q)[i] = q[i + 1]
  BY TailGives
<1> DEFINE late == Shift(At(Tail(q), e), 1)
           first == IF q[1] = e THEN {1} ELSE {}
<1>1. At(q, e) = first \cup late
  <2>1. ASSUME NEW i \in At(q, e) PROVE i \in first \cup late
    <3>1. i \in 1 .. Len(q) /\ q[i] = e
      BY DEF At
    <3>2. CASE i = 1
      BY <3>1, <3>2
    <3>3. CASE i # 1
      <4>1. i - 1 \in 1 .. Len(Tail(q)) /\ (i - 1) + 1 = i /\ 1 + (i - 1) = i
        BY <1>a, <3>1, <3>3
      <4>2. i - 1 \in At(Tail(q), e)
        BY <1>a, <3>1, <4>1 DEF At
      <4> QED
        BY <4>1, <4>2 DEF Shift
    <3> QED
      BY <3>2, <3>3
  <2>2. first \subseteq At(q, e)
    BY <1>a DEF At
  <2>3. ASSUME NEW i \in At(Tail(q), e) PROVE 1 + i \in At(q, e)
    <3>1. i \in 1 .. Len(Tail(q)) /\ Tail(q)[i] = e
      BY DEF At
    <3>2. i + 1 \in 1 .. Len(q) /\ q[i + 1] = e /\ 1 + i = i + 1
      BY <1>a, <3>1
    <3> QED
      BY <3>2 DEF At
  <2> QED
    BY <2>1, <2>2, <2>3 DEF Shift
<1>2. first \cap late = {}
  BY <1>a DEF At, Shift
<1>3. IsFiniteSet(At(Tail(q), e)) /\ At(Tail(q), e) \in SUBSET Int
  <2>1. IsFiniteSet(At(Tail(q), e))
    BY <1>a, CountIsNat
  <2>2. At(Tail(q), e) \in SUBSET Int
    BY DEF At
  <2> QED
    BY <2>1, <2>2
<1>4. IsFiniteSet(late) /\ Cardinality(late) = Cardinality(At(Tail(q), e))
  BY <1>3, ShiftSize
<1>5. IsFiniteSet(first) /\ Cardinality(first) = IF q[1] = e THEN 1 ELSE 0
  BY FS_EmptySet, FS_Singleton
<1> HIDE DEF late, first
<1>6. Cardinality(first \cup late)
        = Cardinality(first) + Cardinality(late) - Cardinality(first \cap late)
  BY <1>4, <1>5, FS_Union
<1>7. Cardinality(first \cap late) = 0
  BY <1>2, FS_EmptySet
<1>8. /\ Count(q, e) = Cardinality(At(q, e))
      /\ Count(Tail(q), e) = Cardinality(At(Tail(q), e)) /\ Count(Tail(q), e) \in Nat
  BY <1>a, CountIsNat
<1> QED
  BY <1>1, <1>4, <1>5, <1>6, <1>7, <1>8

LEMMA CountNone ==
  ASSUME NEW T, NEW q \in Seq(T), NEW e, ~Has(q, e)
  PROVE  Count(q, e) = 0
<1>1. At(q, e) = {}
  BY DEF At, Has
<1> QED
  BY <1>1, CountIsNat, FS_EmptySet

LEMMA CountAll ==
  ASSUME NEW n \in Nat, NEW e
  PROVE  Count([i \in 1 .. n |-> e], e) = n
<1>1. {i \in DOMAIN [j \in 1 .. n |-> e] : [j \in 1 .. n |-> e][i] = e} = 1 .. n
  OBVIOUS
<1>2. Cardinality(1 .. n) = n
  BY FS_Interval
<1> QED
  BY <1>1, <1>2 DEF Count

-----------------------------------------------------------------------------
(***************************************************************************)
(* What the driver posts when it goes from one mode to another.            *)
(***************************************************************************)

HotspotEvents == {"ap start", "ap stop", "joined", "left"}

ApEvents == {"ap start", "ap stop"}

Lefts == [i \in 1 .. Cardinality(stations) |-> "left"]

Posted(to) ==
  If(link = "up", "lost") \o Lefts \o If(mode = "ap", "ap stop")
    \o If(to = "sta", "sta start") \o If(to = "ap", "ap start")

LEMMA EventKinds ==
  /\ \A e \in HotspotEvents : e \in Events /\ e \notin WifiEvents /\ e # "got ip"
  /\ \A e \in ApEvents : e \in HotspotEvents
  /\ "lost" \in Events /\ "sta start" \in Events /\ "got ip" \in Events
  /\ "left" \in Events /\ "joined" \in Events
BY DEF HotspotEvents, ApEvents, Events, WifiEvents

LEMMA IfGives ==
  ASSUME NEW c \in BOOLEAN, NEW e \in Events
  PROVE  /\ If(c, e) \in Seq(Events)
         /\ \A x : Has(If(c, e), x) <=> c /\ x = e
         /\ \A S : c => Latest(If(c, e), S, e)
         /\ \A x : Count(If(c, e), x) = IF c /\ x = e THEN 1 ELSE 0
<1>1. CASE c
  <2>1. If(c, e) = <<e>>
    BY <1>1 DEF If
  <2>2. <<e>> \in Seq(Events) /\ Len(<<e>>) = 1 /\ <<e>>[1] = e /\ DOMAIN <<e>> = 1 .. 1
    OBVIOUS
  <2>3. \A x : Has(<<e>>, x) <=> x = e
    BY <2>2 DEF Has
  <2>4. \A S : Latest(<<e>>, S, e)
    BY <2>2 DEF Latest
  <2>5. ASSUME NEW x PROVE Count(<<e>>, x) = IF x = e THEN 1 ELSE 0
    <3>1. CASE x = e
      <4>1. {i \in DOMAIN <<e>> : <<e>>[i] = x} = {1}
        BY <2>2, <3>1
      <4> QED
        BY <3>1, <4>1, FS_Singleton DEF Count
    <3>2. CASE x # e
      <4>1. {i \in DOMAIN <<e>> : <<e>>[i] = x} = {}
        BY <2>2, <3>2
      <4> QED
        BY <3>2, <4>1, FS_EmptySet DEF Count
    <3> QED
      BY <3>1, <3>2
  <2> QED
    BY <1>1, <2>1, <2>2, <2>3, <2>4, <2>5
<1>2. CASE ~c
  <2>1. If(c, e) = <<>> /\ <<>> \in Seq(Events) /\ Len(<<>>) = 0 /\ DOMAIN <<>> = {}
    BY <1>2 DEF If
  <2>2. \A x : ~Has(<<>>, x)
    BY <2>1 DEF Has
  <2>3. ASSUME NEW x PROVE Count(<<>>, x) = 0
    <3>1. {i \in DOMAIN <<>> : <<>>[i] = x} = {}
      BY <2>1
    <3> QED
      BY <3>1, FS_EmptySet DEF Count
  <2> QED
    BY <1>2, <2>1, <2>2, <2>3
<1> QED
  BY <1>1, <1>2

LEMMA LeftsGive ==
  ASSUME stations \subseteq Stations
  PROVE  /\ Lefts \in Seq(Events)
         /\ \A x : Has(Lefts, x) => x = "left" /\ stations # {}
         /\ Count(Lefts, "left") = Cardinality(stations)
         /\ Count(Lefts, "joined") = 0
         /\ Cardinality(stations) \in Nat
<1>1. IsFiniteSet(stations)
  BY DriverAssumption, FS_Subset
<1>2. Cardinality(stations) \in Nat
  BY <1>1, FS_CardinalityType
<1>3. Lefts \in Seq(Events) /\ Len(Lefts) = Cardinality(stations)
  <2>1. Lefts \in [1 .. Cardinality(stations) -> Events]
    BY EventKinds DEF Lefts
  <2>2. Lefts \in Seq(Events)
    BY <1>2, <2>1, SeqDef
  <2>3. DOMAIN Lefts = 1 .. Cardinality(stations) /\ DOMAIN Lefts = 1 .. Len(Lefts)
    BY <2>2, LenProperties DEF Lefts
  <2>4. Len(Lefts) \in Nat
    BY <2>2, LenProperties
  <2> QED
    BY <1>2, <2>2, <2>3, <2>4
<1>4. stations = {} => Cardinality(stations) = 0
  BY FS_EmptySet
<1>5. ASSUME NEW x, Has(Lefts, x) PROVE x = "left" /\ stations # {}
  <2>1. PICK i \in 1 .. Cardinality(stations) : Lefts[i] = x
    BY <1>3, <1>5 DEF Has
  <2>2. Cardinality(stations) # 0
    BY <1>2, <2>1
  <2> QED
    BY <1>4, <2>1, <2>2 DEF Lefts
<1>6. Count(Lefts, "left") = Cardinality(stations)
  BY <1>2, CountAll DEF Lefts
<1>7. Count(Lefts, "joined") = 0
  BY <1>3, <1>5, CountNone
<1> QED
  BY <1>2, <1>3, <1>5, <1>6, <1>7

LEMMA AppendIf ==
  ASSUME NEW q \in Seq(Events), NEW c \in BOOLEAN, NEW e \in Events \ {"left", "joined"}
  PROVE  /\ q \o If(c, e) \in Seq(Events)
         /\ \A x : Has(q \o If(c, e), x) <=> Has(q, x) \/ (c /\ x = e)
         /\ \A S : c => Latest(q \o If(c, e), S, e)
         /\ \A S, x : Latest(q, S, x) /\ (c => e \notin S) => Latest(q \o If(c, e), S, x)
         /\ Count(q \o If(c, e), "left") = Count(q, "left")
         /\ Count(q \o If(c, e), "joined") = Count(q, "joined")
<1> DEFINE p == If(c, e)
<1>1. /\ p \in Seq(Events)
      /\ \A x : Has(p, x) <=> c /\ x = e
      /\ \A S : c => Latest(p, S, e)
      /\ Count(p, "left") = 0 /\ Count(p, "joined") = 0
  BY IfGives
<1> HIDE DEF p
<1>2. q \o p \in Seq(Events)
  BY <1>1, ConcatProperties
<1>3. \A x : Has(q \o p, x) <=> Has(q, x) \/ (c /\ x = e)
  BY <1>1, HasAppend
<1>4. \A S : c => Latest(q \o p, S, e)
  BY <1>1, LatestAppend
<1>5. ASSUME NEW S, NEW x, Latest(q, S, x), c => e \notin S PROVE Latest(q \o p, S, x)
  <2>1. None(p, S)
    BY <1>1, <1>5, NoneIsNotHas
  <2> QED
    BY <1>1, <1>5, <2>1, LatestAppend
<1>6. /\ Count(q \o p, "left") = Count(q, "left") + Count(p, "left")
      /\ Count(q \o p, "joined") = Count(q, "joined") + Count(p, "joined")
  BY <1>1, CountAppend
<1>7. Count(q, "left") \in Nat /\ Count(q, "joined") \in Nat
  BY CountIsNat
<1>8. Count(q \o p, "left") = Count(q, "left") /\ Count(q \o p, "joined") = Count(q, "joined")
  BY <1>1, <1>6, <1>7
<1> QED
  BY <1>2, <1>3, <1>4, <1>5, <1>8 DEF p

LEMMA PostedGives ==
  ASSUME stations \subseteq Stations, mode \in Modes, NEW to \in Modes, to # mode,
         stations # {} => mode = "ap"
  PROVE  /\ Posted(to) \in Seq(Events)
         /\ Has(Posted(to), "lost") <=> link = "up"
         /\ ~Has(Posted(to), "got ip") /\ ~Has(Posted(to), "joined")
         /\ Has(Posted(to), "sta start") <=> to = "sta"
         /\ to = "ap" => Latest(Posted(to), ApEvents, "ap start")
         /\ to # "ap" /\ mode = "ap" => Latest(Posted(to), ApEvents, "ap stop")
         /\ to # "ap" /\ mode # "ap" => None(Posted(to), HotspotEvents)
         /\ Count(Posted(to), "joined") = 0
         /\ Count(Posted(to), "left") = Cardinality(stations)
<1> DEFINE c1 == link = "up"
           c3 == mode = "ap"
           c4 == to = "sta"
           c5 == to = "ap"
           q1 == If(c1, "lost")
           q2 == q1 \o Lefts
           q3 == q2 \o If(c3, "ap stop")
           q4 == q3 \o If(c4, "sta start")
           q5 == q4 \o If(c5, "ap start")
<1>a. Posted(to) = q5
  BY DEF Posted
<1>b. /\ "ap stop" \in Events \ {"left", "joined"} /\ "ap start" \in Events \ {"left", "joined"}
      /\ "sta start" \in Events \ {"left", "joined"} /\ "lost" \in Events \ {"left", "joined"}
  BY DEF Events, WifiEvents
<1>c. c1 \in BOOLEAN /\ c3 \in BOOLEAN /\ c4 \in BOOLEAN /\ c5 \in BOOLEAN
  OBVIOUS
<1> HIDE DEF c1, c3, c4, c5
<1>1. /\ q1 \in Seq(Events) /\ \A x : Has(q1, x) <=> c1 /\ x = "lost"
      /\ Count(q1, "left") = 0 /\ Count(q1, "joined") = 0
  <2>1. q1 \in Seq(Events) /\ \A x : Has(q1, x) <=> c1 /\ x = "lost"
    BY <1>b, <1>c, IfGives
  <2>2. \A x : Count(q1, x) = IF c1 /\ x = "lost" THEN 1 ELSE 0
    <3>1. c1 \in BOOLEAN /\ "lost" \in Events
      BY <1>b, <1>c
    <3> QED
      BY <3>1, IfGives, Zenon
  <2> HIDE DEF q1
  <2> QED
    BY <2>1, <2>2
<1> HIDE DEF q1
<1>2. /\ q2 \in Seq(Events)
      /\ \A x : Has(q2, x) <=> (c1 /\ x = "lost") \/ Has(Lefts, x)
      /\ Count(q2, "left") = Cardinality(stations) /\ Count(q2, "joined") = 0
  <2>1. /\ Lefts \in Seq(Events) /\ Cardinality(stations) \in Nat
        /\ Count(Lefts, "left") = Cardinality(stations) /\ Count(Lefts, "joined") = 0
    BY LeftsGive
  <2>2. q2 \in Seq(Events)
    BY <1>1, <2>1, ConcatProperties
  <2>3. \A x : Has(q2, x) <=> Has(q1, x) \/ Has(Lefts, x)
    BY <1>1, <2>1, HasAppend
  <2>4. /\ Count(q2, "left") = Count(q1, "left") + Count(Lefts, "left")
        /\ Count(q2, "joined") = Count(q1, "joined") + Count(Lefts, "joined")
    BY <1>1, <2>1, CountAppend
  <2> HIDE DEF q2
  <2> QED
    BY <1>1, <2>1, <2>2, <2>3, <2>4
<1> HIDE DEF q2
<1>3. /\ q3 \in Seq(Events) /\ \A x : Has(q3, x) <=> Has(q2, x) \/ (c3 /\ x = "ap stop")
      /\ c3 => Latest(q3, ApEvents, "ap stop")
      /\ Count(q3, "left") = Count(q2, "left") /\ Count(q3, "joined") = Count(q2, "joined")
  <2>1. q2 \in Seq(Events) /\ c3 \in BOOLEAN /\ "ap stop" \in Events \ {"left", "joined"}
    BY <1>b, <1>c, <1>2
  <2> QED
    BY <2>1, AppendIf, Zenon
<1> HIDE DEF q3
<1>4. /\ q4 \in Seq(Events) /\ \A x : Has(q4, x) <=> Has(q3, x) \/ (c4 /\ x = "sta start")
      /\ Count(q4, "left") = Count(q3, "left") /\ Count(q4, "joined") = Count(q3, "joined")
  <2>1. q3 \in Seq(Events) /\ c4 \in BOOLEAN /\ "sta start" \in Events \ {"left", "joined"}
    BY <1>b, <1>c, <1>3
  <2> QED
    BY <2>1, AppendIf, Zenon
<1>5. c3 => Latest(q4, ApEvents, "ap stop")
  <2>1. "sta start" \notin ApEvents
    BY DEF ApEvents
  <2> QED
    BY <1>b, <1>c, <1>3, <2>1, AppendIf
<1> HIDE DEF q4
<1>6. /\ q5 \in Seq(Events) /\ \A x : Has(q5, x) <=> Has(q4, x) \/ (c5 /\ x = "ap start")
      /\ c5 => Latest(q5, ApEvents, "ap start")
      /\ Count(q5, "left") = Count(q4, "left") /\ Count(q5, "joined") = Count(q4, "joined")
  <2>1. q4 \in Seq(Events) /\ c5 \in BOOLEAN /\ "ap start" \in Events \ {"left", "joined"}
    BY <1>b, <1>c, <1>4
  <2> QED
    BY <2>1, AppendIf, Zenon
<1>7. ~c5 /\ c3 => Latest(q5, ApEvents, "ap stop")
  BY <1>b, <1>c, <1>4, <1>5, AppendIf
<1> HIDE DEF q5
<1>8. \A x : Has(q5, x) <=>
        \/ c1 /\ x = "lost"
        \/ Has(Lefts, x)
        \/ c3 /\ x = "ap stop"
        \/ c4 /\ x = "sta start"
        \/ c5 /\ x = "ap start"
  BY <1>2, <1>3, <1>4, <1>6
<1>9. \A x : Has(Lefts, x) => x = "left" /\ stations # {}
  BY LeftsGive
<1>10. \A x : x = "lost" => (Has(q5, x) <=> c1)
  BY <1>8, <1>9
<1>11. \A x : x = "sta start" => (Has(q5, x) <=> c4)
  BY <1>8, <1>9
<1>12. \A x : x = "got ip" \/ x = "joined" => ~Has(q5, x)
  BY <1>8, <1>9
<1>13. /\ Has(q5, "lost") <=> c1
       /\ Has(q5, "sta start") <=> c4
       /\ ~Has(q5, "got ip") /\ ~Has(q5, "joined")
  BY <1>10, <1>11, <1>12, Zenon
<1>14. stations = {} /\ ~c3 /\ ~c5 => \A x \in HotspotEvents : ~Has(q5, x)
  BY <1>8, <1>9 DEF HotspotEvents
<1>15. stations = {} /\ ~c3 /\ ~c5 => None(q5, HotspotEvents)
  BY <1>14, NoneIsNotHas
<1>16. Count(q5, "left") = Cardinality(stations) /\ Count(q5, "joined") = 0
  BY <1>2, <1>3, <1>4, <1>6
<1> QED
  BY <1>a, <1>6, <1>7, <1>13, <1>15, <1>16 DEF c1, c3, c4, c5

LEMMA NoneOfHotspot ==
  ASSUME NEW q, None(q, HotspotEvents)
  PROVE  None(q, ApEvents)
BY DEF None, HotspotEvents, ApEvents

-----------------------------------------------------------------------------
(***************************************************************************)
(* What the managers have to know of a queue.                              *)
(***************************************************************************)

LostIn(q) == Has(q, "lost")

\* An address was reported, and no start of the station mode since.
Fresh(q) == Latest(q, {"sta start"}, "got ip")

NoStart(q) == None(q, {"sta start"})

NoHotspot(q) == None(q, HotspotEvents)

\* The latest word on the access point is that it started, or stopped.
ApOn(q) == Latest(q, ApEvents, "ap start")
ApOff(q) == Latest(q, ApEvents, "ap stop")
NoAp(q) == None(q, ApEvents)

Joined(q) == Count(q, "joined")
Left(q) == Count(q, "left")

LEMMA OnAppend ==
  ASSUME NEW q \in Seq(Events), NEW p \in Seq(Events)
  PROVE  /\ q \o p \in Seq(Events)
         /\ LostIn(q \o p) <=> LostIn(q) \/ LostIn(p)
         /\ Fresh(q) /\ NoStart(p) => Fresh(q \o p)
         /\ Fresh(p) => Fresh(q \o p)
         /\ NoStart(q \o p) <=> NoStart(q) /\ NoStart(p)
         /\ NoHotspot(q \o p) <=> NoHotspot(q) /\ NoHotspot(p)
         /\ ApOn(q) /\ NoAp(p) => ApOn(q \o p)
         /\ ApOn(p) => ApOn(q \o p)
         /\ ApOff(q) /\ NoAp(p) => ApOff(q \o p)
         /\ ApOff(p) => ApOff(q \o p)
         /\ NoAp(q \o p) <=> NoAp(q) /\ NoAp(p)
         /\ Joined(q \o p) = Joined(q) + Joined(p)
         /\ Left(q \o p) = Left(q) + Left(p)
<1>1. q \o p \in Seq(Events)
  BY ConcatProperties
<1>2. LostIn(q \o p) <=> LostIn(q) \/ LostIn(p)
  <2>1. \A e : Has(q \o p, e) <=> Has(q, e) \/ Has(p, e)
    BY HasAppend
  <2> QED
    BY <2>1, Zenon DEF LostIn
<1>3. \A S : None(q \o p, S) <=> None(q, S) /\ None(p, S)
  BY NoneAppend
<1>4. /\ NoStart(q \o p) <=> NoStart(q) /\ NoStart(p)
      /\ NoHotspot(q \o p) <=> NoHotspot(q) /\ NoHotspot(p)
      /\ NoAp(q \o p) <=> NoAp(q) /\ NoAp(p)
  BY <1>3, Zenon DEF NoStart, NoHotspot, NoAp
<1>5. \A S, x : /\ Latest(q, S, x) /\ None(p, S) => Latest(q \o p, S, x)
                /\ Latest(p, S, x) => Latest(q \o p, S, x)
  BY LatestAppend
<1>6. /\ Fresh(q) /\ NoStart(p) => Fresh(q \o p)
      /\ Fresh(p) => Fresh(q \o p)
  BY <1>5, Zenon DEF Fresh, NoStart
<1>7. /\ ApOn(q) /\ NoAp(p) => ApOn(q \o p)
      /\ ApOn(p) => ApOn(q \o p)
      /\ ApOff(q) /\ NoAp(p) => ApOff(q \o p)
      /\ ApOff(p) => ApOff(q \o p)
  BY <1>5, Zenon DEF ApOn, ApOff, NoAp
<1>8. \A e : Count(q \o p, e) = Count(q, e) + Count(p, e)
  BY CountAppend
<1>9. Joined(q \o p) = Joined(q) + Joined(p) /\ Left(q \o p) = Left(q) + Left(p)
  BY <1>8, Zenon DEF Joined, Left
<1> QED
  BY <1>1, <1>2, <1>4, <1>6, <1>7, <1>9

LEMMA OnTail ==
  ASSUME NEW q \in Seq(Events), q # <<>>
  PROVE  /\ Tail(q) \in Seq(Events) /\ Head(q) \in Events
         /\ LostIn(q) <=> Head(q) = "lost" \/ LostIn(Tail(q))
         /\ Fresh(q) => Fresh(Tail(q)) \/ (Head(q) = "got ip" /\ NoStart(Tail(q)))
         /\ NoStart(q) <=> Head(q) # "sta start" /\ NoStart(Tail(q))
         /\ NoHotspot(q) <=> Head(q) \notin HotspotEvents /\ NoHotspot(Tail(q))
         /\ ApOn(q) => ApOn(Tail(q)) \/ (Head(q) = "ap start" /\ NoAp(Tail(q)))
         /\ ApOff(q) => ApOff(Tail(q)) \/ (Head(q) = "ap stop" /\ NoAp(Tail(q)))
         /\ NoAp(q) <=> Head(q) \notin ApEvents /\ NoAp(Tail(q))
         /\ Joined(q) = Joined(Tail(q)) + (IF Head(q) = "joined" THEN 1 ELSE 0)
         /\ Left(q) = Left(Tail(q)) + (IF Head(q) = "left" THEN 1 ELSE 0)
<1>1. Tail(q) \in Seq(Events) /\ Head(q) = q[1] /\ Head(q) \in Events
  BY TailGives
<1>2. LostIn(q) <=> Head(q) = "lost" \/ LostIn(Tail(q))
  <2>1. \A e : Has(q, e) <=> Head(q) = e \/ Has(Tail(q), e)
    BY <1>1, HasTail
  <2> QED
    BY <2>1, Zenon DEF LostIn
<1>3. \A S : None(q, S) <=> Head(q) \notin S /\ None(Tail(q), S)
  BY <1>1, NoneTail
<1>4. /\ NoHotspot(q) <=> Head(q) \notin HotspotEvents /\ NoHotspot(Tail(q))
      /\ NoAp(q) <=> Head(q) \notin ApEvents /\ NoAp(Tail(q))
      /\ NoStart(q) <=> Head(q) \notin {"sta start"} /\ NoStart(Tail(q))
  BY <1>3, Zenon DEF NoStart, NoHotspot, NoAp
<1>5. \A S, x : Latest(q, S, x) =>
        Latest(Tail(q), S, x) \/ (Head(q) = x /\ None(Tail(q), S))
  BY <1>1, LatestTail
<1>6. Fresh(q) => Fresh(Tail(q)) \/ (Head(q) = "got ip" /\ NoStart(Tail(q)))
  BY <1>5, Zenon DEF Fresh, NoStart
<1>7. /\ ApOn(q) => ApOn(Tail(q)) \/ (Head(q) = "ap start" /\ NoAp(Tail(q)))
      /\ ApOff(q) => ApOff(Tail(q)) \/ (Head(q) = "ap stop" /\ NoAp(Tail(q)))
  BY <1>5, Zenon DEF ApOn, ApOff, NoAp
<1>8. \A e : Count(q, e) = Count(Tail(q), e) + (IF Head(q) = e THEN 1 ELSE 0)
  BY <1>1, CountTail
<1>9. /\ Joined(q) = Joined(Tail(q)) + (IF Head(q) = "joined" THEN 1 ELSE 0)
      /\ Left(q) = Left(Tail(q)) + (IF Head(q) = "left" THEN 1 ELSE 0)
  BY <1>8, Zenon DEF Joined, Left
<1>10. NoStart(q) <=> Head(q) # "sta start" /\ NoStart(Tail(q))
  BY <1>4
<1> QED
  BY <1>1, <1>2, <1>4, <1>6, <1>7, <1>9, <1>10

LEMMA OnOne ==
  ASSUME NEW e \in Events
  PROVE  /\ <<e>> \in Seq(Events)
         /\ LostIn(<<e>>) <=> e = "lost"
         /\ e = "got ip" => Fresh(<<e>>)
         /\ NoStart(<<e>>) <=> e # "sta start"
         /\ NoHotspot(<<e>>) <=> e \notin HotspotEvents
         /\ NoAp(<<e>>) <=> e \notin ApEvents
         /\ Joined(<<e>>) = IF e = "joined" THEN 1 ELSE 0
         /\ Left(<<e>>) = IF e = "left" THEN 1 ELSE 0
<1>1. <<e>> \in Seq(Events) /\ Len(<<e>>) = 1 /\ <<e>>[1] = e /\ DOMAIN <<e>> = 1 .. 1
  OBVIOUS
<1>2. LostIn(<<e>>) <=> e = "lost"
  BY <1>1 DEF LostIn, Has
<1>3. e = "got ip" => Fresh(<<e>>)
  <2>1. \A S, x : e = x => Latest(<<e>>, S, x)
    BY <1>1 DEF Latest
  <2> QED
    BY <2>1, Zenon DEF Fresh
<1>4. NoStart(<<e>>) <=> e # "sta start"
  <2>1. \A x : None(<<e>>, {x}) <=> e # x
    BY <1>1 DEF None
  <2> QED
    BY <2>1, Zenon DEF NoStart
<1>5. NoHotspot(<<e>>) <=> e \notin HotspotEvents
  BY <1>1 DEF NoHotspot, None
<1>6. NoAp(<<e>>) <=> e \notin ApEvents
  BY <1>1 DEF NoAp, None
<1>7. ASSUME NEW x PROVE Count(<<e>>, x) = IF e = x THEN 1 ELSE 0
  <2>1. CASE e = x
    <3>1. {i \in DOMAIN <<e>> : <<e>>[i] = x} = {1}
      BY <1>1, <2>1
    <3> QED
      BY <2>1, <3>1, FS_Singleton DEF Count
  <2>2. CASE e # x
    <3>1. {i \in DOMAIN <<e>> : <<e>>[i] = x} = {}
      BY <1>1, <2>2
    <3> QED
      BY <2>2, <3>1, FS_EmptySet DEF Count
  <2> QED
    BY <2>1, <2>2
<1>8. /\ Joined(<<e>>) = IF e = "joined" THEN 1 ELSE 0
      /\ Left(<<e>>) = IF e = "left" THEN 1 ELSE 0
  BY <1>7, Zenon DEF Joined, Left
<1> QED
  BY <1>1, <1>2, <1>3, <1>4, <1>5, <1>6, <1>8

LEMMA OnEmpty ==
  /\ <<>> \in Seq(Events)
  /\ ~LostIn(<<>>) /\ ~Fresh(<<>>) /\ ~ApOn(<<>>) /\ ~ApOff(<<>>)
  /\ NoStart(<<>>) /\ NoHotspot(<<>>) /\ NoAp(<<>>)
  /\ Joined(<<>>) = 0 /\ Left(<<>>) = 0
<1>1. <<>> \in Seq(Events) /\ Len(<<>>) = 0 /\ DOMAIN <<>> = {}
  OBVIOUS
<1>2. ~LostIn(<<>>) /\ ~Fresh(<<>>) /\ ~ApOn(<<>>) /\ ~ApOff(<<>>)
  BY <1>1 DEF LostIn, Fresh, ApOn, ApOff, Has, Latest
<1>3. NoStart(<<>>) /\ NoHotspot(<<>>) /\ NoAp(<<>>)
  BY <1>1 DEF NoStart, NoHotspot, NoAp, None
<1>4. ASSUME NEW x PROVE Count(<<>>, x) = 0
  <2>1. {i \in DOMAIN <<>> : <<>>[i] = x} = {}
    BY <1>1
  <2> QED
    BY <2>1, FS_EmptySet DEF Count
<1>5. Joined(<<>>) = 0 /\ Left(<<>>) = 0
  BY <1>4, Zenon DEF Joined, Left
<1> QED
  BY <1>1, <1>2, <1>3, <1>5

LEMMA CountsAreNat ==
  ASSUME NEW q \in Seq(Events)
  PROVE  Joined(q) \in Nat /\ Left(q) \in Nat
<1>1. \A e : Count(q, e) \in Nat
  BY CountIsNat
<1> QED
  BY <1>1, Zenon DEF Joined, Left

LEMMA OnPosted ==
  ASSUME stations \subseteq Stations, mode \in Modes, NEW to \in Modes, to # mode,
         stations # {} => mode = "ap"
  PROVE  /\ Posted(to) \in Seq(Events)
         /\ LostIn(Posted(to)) <=> link = "up"
         /\ to # "sta" => NoStart(Posted(to))
         /\ to = "ap" => ApOn(Posted(to))
         /\ to # "ap" /\ mode = "ap" => ApOff(Posted(to))
         /\ to # "ap" /\ mode # "ap" => NoAp(Posted(to)) /\ NoHotspot(Posted(to))
         /\ Joined(Posted(to)) = 0 /\ Left(Posted(to)) = Cardinality(stations)
<1> DEFINE q == Posted(to)
<1>1. /\ q \in Seq(Events)
      /\ Has(q, "lost") <=> link = "up"
      /\ Has(q, "sta start") <=> to = "sta"
      /\ to = "ap" => Latest(q, ApEvents, "ap start")
      /\ to # "ap" /\ mode = "ap" => Latest(q, ApEvents, "ap stop")
      /\ to # "ap" /\ mode # "ap" => None(q, HotspotEvents)
      /\ Count(q, "joined") = 0
      /\ Count(q, "left") = Cardinality(stations)
  BY PostedGives
<1> HIDE DEF q
<1>2. to # "sta" => NoStart(q)
  <2>1. \A e \in {"sta start"} : to # "sta" => ~Has(q, e)
    BY <1>1
  <2> QED
    BY <2>1, NoneIsNotHas DEF NoStart
<1>3. to # "ap" /\ mode # "ap" => NoAp(q) /\ NoHotspot(q)
  BY <1>1, NoneOfHotspot DEF NoAp, NoHotspot
<1>4. /\ LostIn(q) <=> link = "up"
      /\ to = "ap" => ApOn(q)
      /\ to # "ap" /\ mode = "ap" => ApOff(q)
      /\ Joined(q) = 0 /\ Left(q) = Cardinality(stations)
  BY <1>1, Zenon DEF LostIn, ApOn, ApOff, Joined, Left
<1> QED
  BY <1>1, <1>2, <1>3, <1>4 DEF q

LEMMA LostIsRange ==
  ASSUME queue \in Seq(Events)
  PROVE  "lost" \in Range(queue) <=> LostIn(queue)
<1>1. \A e : e \in Range(queue) <=> Has(queue, e)
  BY HasIsRange
<1> QED
  BY <1>1, Zenon DEF LostIn

-----------------------------------------------------------------------------
(***************************************************************************)
(* The inductive invariant.                                                *)
(***************************************************************************)

Statuses == {"Disconnected", "Connected", "Connecting", "Failed", "Timeout"}

Waits == {"idle", "set up", "say connecting", "say disconnected",
          "wait", "check", "say connected", "say timeout"}

DriverTypes ==
  /\ mode \in Modes /\ link \in {"down", "trying", "up"}
  /\ addr \in BOOLEAN /\ loop \in BOOLEAN
  /\ stations \subseteq Stations
  /\ queue \in Seq(Events)
  /\ calls \in Nat
  /\ handlers \in [{"wifi", "ip", "hotspot"} -> Nat]

WifiTypes ==
  /\ status \in Statuses /\ wifi \in Waits
  /\ connectedBit \in BOOLEAN /\ rising \in BOOLEAN /\ byCaller \in BOOLEAN

HotspotTypes ==
  /\ active \in BOOLEAN /\ startedBit \in BOOLEAN
  /\ listening \in BOOLEAN /\ zeroedEarly \in BOOLEAN
  /\ connectedClients \in Int
  /\ hot \in {"idle", "start", "run", "stop", "restart"}

\* Handlers are called for an event that is still queued, no more often than
\* they were registered.
LoopInv ==
  /\ calls > 0 => queue # <<>> /\ calls <= CallsFor(Head(queue))
  /\ rising => calls > 0 /\ Head(queue) = "got ip"

\* Who was registered, and that the driver can only run as what that allows:
\* the hotspot is registered once, before there is any event for it.
RegInv ==
  /\ handlers["ip"] <= handlers["wifi"]
  /\ handlers["hotspot"] = 0 \/ (handlers["hotspot"] = 1 /\ loop)
  /\ mode = "sta" => handlers["ip"] > 0
  /\ hot = "run" \/ mode = "ap" => handlers["hotspot"] = 1
  /\ ~NoHotspot(queue) => handlers["hotspot"] = 1
  /\ link # "down" => mode = "sta"
  /\ stations # {} => mode = "ap"
  /\ hot \in {"stop", "restart"} => mode # "ap"

\* What address, bit and status say of a link is so, or a loss is queued that
\* will take it back; an address will be reported, or has been.
LinkInv ==
  /\ addr => handlers["ip"] > 0
  /\ ~byCaller \/ connectedBit => handlers["wifi"] > 0
  /\ rising => connectedBit
  /\ calls > 0 /\ Head(queue) = "lost" => ~addr
  /\ addr \/ connectedBit => link = "up" \/ LostIn(queue)
  /\ status = "Connected" /\ ~byCaller => link = "up" \/ LostIn(queue)
  /\ addr => \/ LostIn(queue)
             \/ Fresh(queue)
             \/ NoStart(queue) /\ (byCaller \/ status = "Connected")

\* The latest queued word on the access point is true, or none is queued and
\* the hotspot knows.
ApInv ==
  \/ mode = "ap" /\ ApOn(queue)
  \/ mode # "ap" /\ ApOff(queue)
  \/ NoAp(queue) /\ (hot \notin {"stop", "restart"} => (active <=> mode = "ap"))

CountInv ==
  ~zeroedEarly => connectedClients = Cardinality(stations) - Joined(queue) + Left(queue)

Types == DriverTypes /\ WifiTypes /\ HotspotTypes

Inv == Types /\ LoopInv /\ RegInv /\ LinkInv /\ ApInv /\ CountInv

LEMMA ExpectedIs == Expected = Cardinality(stations) - Joined(queue) + Left(queue)
BY DEF Expected, Queued, Joined, Left, Count

LEMMA HandlersAre ==
  ASSUME DriverTypes
  PROVE  /\ handlers["wifi"] \in Nat /\ handlers["ip"] \in Nat /\ handlers["hotspot"] \in Nat
         /\ \A e \in Events : CallsFor(e) \in Nat
         /\ \A e \in HotspotEvents : CallsFor(e) = handlers["hotspot"]
         /\ \A e \in WifiEvents : CallsFor(e) = handlers["wifi"]
         /\ CallsFor("got ip") = handlers["ip"]
<1>1. /\ handlers["wifi"] \in Nat /\ handlers["ip"] \in Nat /\ handlers["hotspot"] \in Nat
  BY DEF DriverTypes
<1>2. \A e \in WifiEvents : CallsFor(e) = handlers["wifi"]
  BY DEF CallsFor, WifiEvents
<1>3. CallsFor("got ip") = handlers["ip"]
  BY DEF CallsFor, WifiEvents
<1>4. \A e \in HotspotEvents : CallsFor(e) = handlers["hotspot"]
  BY DEF CallsFor, WifiEvents, HotspotEvents
<1>5. \A e \in Events : e \in HotspotEvents \/ e \in WifiEvents \/ e = "got ip"
  BY DEF Events, HotspotEvents
<1>6. \A e \in Events : CallsFor(e) \in Nat
  BY <1>1, <1>2, <1>3, <1>4, <1>5
<1> QED
  BY <1>1, <1>2, <1>3, <1>4, <1>6

-----------------------------------------------------------------------------
(***************************************************************************)
(* The forms that a step takes.                                            *)
(***************************************************************************)

\* A link that was not there may be tried, and one that was tried may come.
LinkStays ==
  /\ link = "up" => link' = "up"
  /\ link' # "down" => link # "down" \/ mode = "sta"
  /\ link' \in {"down", "trying", "up"}

\* The driver does something that posts nothing, or nothing.
Quiet ==
  /\ UNCHANGED <<mode, stations, queue>>
  /\ LinkStays

Switched(to) ==
  /\ to # mode /\ mode' = to /\ link' = "down" /\ stations' = {}
  /\ queue' = queue \o Posted(to)

LEMMA SwitchGives ==
  ASSUME DriverTypes, NEW to \in Modes, SwitchTo(to)
  PROVE  (to = mode /\ Quiet) \/ Switched(to)
<1>1. CASE to = mode
  BY <1>1 DEF SwitchTo, Quiet, LinkStays, air, DriverTypes
<1>2. CASE to # mode
  BY <1>2 DEF SwitchTo, Switched, Post, Posted, Lefts
<1> QED
  BY <1>1, <1>2

LEMMA MaySwitchGives ==
  ASSUME DriverTypes, NEW to \in Modes, MaySwitchTo(to)
  PROVE  Quiet \/ Switched(to)
<1>1. CASE SwitchTo(to)
  BY <1>1, SwitchGives
<1>2. CASE UNCHANGED <<air, queue>>
  BY <1>2 DEF Quiet, LinkStays, air, DriverTypes
<1> QED
  BY <1>1, <1>2 DEF MaySwitchTo

LEMMA TryLinkGives ==
  ASSUME DriverTypes, TryLink
  PROVE  LinkStays
BY DEF TryLink, LinkStays, DriverTypes

\* What a switch of the driver does to the queue.
LEMMA SwitchedQueue ==
  ASSUME DriverTypes, RegInv, NEW to \in Modes, Switched(to)
  PROVE  /\ queue' \in Seq(Events)
         /\ queue # <<>> => queue' # <<>> /\ Head(queue') = Head(queue)
         /\ LostIn(queue') <=> LostIn(queue) \/ link = "up"
         /\ to # "sta" /\ Fresh(queue) => Fresh(queue')
         /\ to # "sta" /\ NoStart(queue) => NoStart(queue')
         /\ to = "ap" => ApOn(queue')
         /\ to # "ap" /\ mode = "ap" => ApOff(queue')
         /\ to # "ap" /\ mode # "ap" => /\ NoHotspot(queue) => NoHotspot(queue')
                                        /\ NoAp(queue) => NoAp(queue')
                                        /\ ApOff(queue) => ApOff(queue')
         /\ Joined(queue') = Joined(queue)
         /\ Left(queue') = Left(queue) + Cardinality(stations)
<1> DEFINE p == Posted(to)
<1>1. /\ stations \subseteq Stations /\ mode \in Modes /\ to # mode
      /\ stations # {} => mode = "ap"
  BY DEF DriverTypes, RegInv, Switched
<1>2. /\ p \in Seq(Events)
      /\ LostIn(p) <=> link = "up"
      /\ to # "sta" => NoStart(p)
      /\ to = "ap" => ApOn(p)
      /\ to # "ap" /\ mode = "ap" => ApOff(p)
      /\ to # "ap" /\ mode # "ap" => NoAp(p) /\ NoHotspot(p)
      /\ Joined(p) = 0 /\ Left(p) = Cardinality(stations)
  BY <1>1, OnPosted
<1> HIDE DEF p
<1>3. queue' = queue \o p /\ queue \in Seq(Events)
  BY DEF Switched, DriverTypes, p
<1>4. queue # <<>> => queue' # <<>> /\ Head(queue') = Head(queue)
  BY <1>2, <1>3, AppendHead
<1>5. Joined(queue) \in Nat /\ Left(queue) \in Nat
  BY <1>3, CountsAreNat
<1>6. /\ queue' \in Seq(Events)
      /\ LostIn(queue') <=> LostIn(queue) \/ LostIn(p)
      /\ Fresh(queue) /\ NoStart(p) => Fresh(queue')
      /\ NoStart(queue') <=> NoStart(queue) /\ NoStart(p)
      /\ NoHotspot(queue') <=> NoHotspot(queue) /\ NoHotspot(p)
      /\ ApOn(p) => ApOn(queue')
      /\ ApOff(queue) /\ NoAp(p) => ApOff(queue')
      /\ ApOff(p) => ApOff(queue')
      /\ NoAp(queue') <=> NoAp(queue) /\ NoAp(p)
      /\ Joined(queue') = Joined(queue) + Joined(p)
      /\ Left(queue') = Left(queue) + Left(p)
  BY <1>2, <1>3, OnAppend
<1> QED
  BY <1>2, <1>4, <1>5, <1>6

\* An event is posted.
LEMMA PostOne ==
  ASSUME queue \in Seq(Events), NEW e \in Events, Post(<<e>>)
  PROVE  /\ queue' \in Seq(Events)
         /\ queue # <<>> => queue' # <<>> /\ Head(queue') = Head(queue)
         /\ LostIn(queue') <=> LostIn(queue) \/ e = "lost"
         /\ Fresh(queue) /\ e # "sta start" => Fresh(queue')
         /\ e = "got ip" => Fresh(queue')
         /\ NoStart(queue') <=> NoStart(queue) /\ e # "sta start"
         /\ NoHotspot(queue') <=> NoHotspot(queue) /\ e \notin HotspotEvents
         /\ e \notin ApEvents => /\ ApOn(queue) => ApOn(queue')
                                 /\ ApOff(queue) => ApOff(queue')
                                 /\ NoAp(queue) => NoAp(queue')
         /\ Joined(queue') = Joined(queue) + (IF e = "joined" THEN 1 ELSE 0)
         /\ Left(queue') = Left(queue) + (IF e = "left" THEN 1 ELSE 0)
<1> DEFINE p == <<e>>
<1>2. /\ p \in Seq(Events)
      /\ LostIn(p) <=> e = "lost"
      /\ e = "got ip" => Fresh(p)
      /\ NoStart(p) <=> e # "sta start"
      /\ NoHotspot(p) <=> e \notin HotspotEvents
      /\ NoAp(p) <=> e \notin ApEvents
      /\ Joined(p) = IF e = "joined" THEN 1 ELSE 0
      /\ Left(p) = IF e = "left" THEN 1 ELSE 0
  BY OnOne
<1>3. queue' = queue \o p
  BY DEF Post
<1> HIDE DEF p
<1>4. queue # <<>> => queue' # <<>> /\ Head(queue') = Head(queue)
  BY <1>2, <1>3, AppendHead
<1>6. /\ queue' \in Seq(Events)
      /\ LostIn(queue') <=> LostIn(queue) \/ LostIn(p)
      /\ Fresh(queue) /\ NoStart(p) => Fresh(queue')
      /\ Fresh(p) => Fresh(queue')
      /\ NoStart(queue') <=> NoStart(queue) /\ NoStart(p)
      /\ NoHotspot(queue') <=> NoHotspot(queue) /\ NoHotspot(p)
      /\ ApOn(queue) /\ NoAp(p) => ApOn(queue')
      /\ ApOff(queue) /\ NoAp(p) => ApOff(queue')
      /\ NoAp(queue') <=> NoAp(queue) /\ NoAp(p)
      /\ Joined(queue') = Joined(queue) + Joined(p)
      /\ Left(queue') = Left(queue) + Left(p)
  BY <1>2, <1>3, OnAppend
<1> QED
  BY <1>2, <1>4, <1>6

\* Handlers are registered, the hotspot's only together with a new event loop.
Registers ==
  /\ handlers' \in [{"wifi", "ip", "hotspot"} -> Nat]
  /\ loop' \in BOOLEAN /\ (loop => loop')
  /\ handlers'["wifi"] >= handlers["wifi"] /\ handlers'["ip"] >= handlers["ip"]
  /\ handlers["ip"] <= handlers["wifi"] => handlers'["ip"] <= handlers'["wifi"]
  /\ \/ handlers'["hotspot"] = handlers["hotspot"]
     \/ ~loop /\ loop' /\ handlers'["hotspot"] = handlers["hotspot"] + 1

\* What the WiFi manager's caller does, as far as the invariant can tell.
WifiCalls ==
  /\ UNCHANGED <<calls, connectedBit, rising>>
  /\ addr' \in {addr, FALSE}
  /\ status' \in Statuses /\ wifi' \in Waits
  /\ UNCHANGED <<status, byCaller>> \/ byCaller' = TRUE
  /\ Registers
  /\ Quiet \/ Switched("off") \/ (Switched("sta") /\ handlers'["ip"] > 0)

\* What the hotspot's caller does.
HotspotCalls ==
  /\ UNCHANGED <<calls, addr>>
  /\ active' \in BOOLEAN /\ startedBit' \in BOOLEAN /\ listening' \in BOOLEAN
  /\ hot' \in {"idle", "start", "run", "stop", "restart"}
  /\ Registers
  /\ \/ /\ Quiet /\ hot \notin {"stop", "restart"}
        /\ UNCHANGED <<active, connectedClients, zeroedEarly>>
        /\ hot' = "run" => handlers'["hotspot"] > 0
        /\ hot' \in {"stop", "restart"} => mode # "ap"
     \/ /\ Switched("ap") /\ hot = "run" /\ hot' = "idle"
        /\ UNCHANGED <<active, connectedClients, zeroedEarly>>
     \/ /\ Switched("off") /\ hot' \in {"stop", "restart"}
        /\ UNCHANGED <<active, connectedClients, zeroedEarly>>
     \/ /\ Quiet /\ hot \in {"stop", "restart"} /\ hot' \in {"idle", "start"}
        /\ active' = FALSE /\ connectedClients' = 0
        /\ zeroedEarly' = (zeroedEarly \/ Expected # 0)

LEMMA RestQuiet ==
  ASSUME DriverTypes
  PROVE  /\ UNCHANGED driver => Quiet /\ addr' = addr
         /\ UNCHANGED <<air, queue>> => Quiet
         /\ UNCHANGED registry => Registers
<1>1. link \in {"down", "trying", "up"}
  BY DEF DriverTypes
<1>2. UNCHANGED <<air, queue>> => Quiet
  BY <1>1 DEF Quiet, LinkStays, air
<1>3. UNCHANGED driver => UNCHANGED <<air, queue>> /\ addr' = addr
  BY DEF driver
<1>4. ASSUME UNCHANGED registry PROVE Registers
  <2>1. loop' = loop /\ handlers' = handlers
    BY <1>4 DEF registry
  <2>2. handlers["wifi"] \in Nat /\ handlers["ip"] \in Nat /\ handlers["hotspot"] \in Nat
    BY HandlersAre
  <2>3. handlers["wifi"] >= handlers["wifi"] /\ handlers["ip"] >= handlers["ip"]
    BY <2>2
  <2> QED
    BY <2>1, <2>3 DEF Registers, DriverTypes
<1> QED
  BY <1>2, <1>3, <1>4

LEMMA GoesTo ==
  ASSUME WifiTypes, NEW from, NEW to \in Waits, Moves(from, to)
  PROVE  /\ wifi' \in Waits /\ status' \in Statuses
         /\ UNCHANGED <<status, connectedBit, byCaller, rising>>
BY DEF Moves, Goes, WifiTypes

LEMMA WifiCallsIt ==
  ASSUME DriverTypes, WifiTypes, WifiCaller
  PROVE  WifiCalls
<1>w. /\ \A w \in {"idle", "set up", "say connecting", "say disconnected",
                   "wait", "check", "say connected", "say timeout"} : w \in Waits
  BY DEF Waits
<1>a. "off" \in Modes /\ "sta" \in Modes
  BY DEF Modes
<1>b. addr \in BOOLEAN
  BY DEF DriverTypes
<1>c. ASSUME NEW from, NEW s \in Statuses, Says(from, s) PROVE WifiCalls
  <2>1. UNCHANGED driver /\ UNCHANGED registry
    BY <1>c DEF Says
  <2>2. UNCHANGED <<calls, connectedBit, rising>> /\ status' \in Statuses /\ byCaller' = TRUE
    BY <1>c DEF Says, Goes, Write
  <2>3. wifi' \in Waits
    BY <1>c, <1>w DEF Says, Goes
  <2>4. Quiet /\ addr' = addr /\ Registers
    BY <2>1, RestQuiet
  <2> QED
    BY <2>2, <2>3, <2>4 DEF WifiCalls
<1>d. ASSUME NEW from, NEW to \in Waits, Moves(from, to), UNCHANGED <<driver, calls, registry>>
      PROVE  WifiCalls
  <2>1. Quiet /\ addr' = addr /\ Registers /\ UNCHANGED calls
    BY <1>d, RestQuiet
  <2>2. /\ wifi' \in Waits /\ status' \in Statuses
        /\ UNCHANGED <<status, connectedBit, byCaller, rising>>
    BY <1>d, GoesTo
  <2> QED
    BY <2>1, <2>2 DEF WifiCalls
<1>e. ASSUME NEW from, Retry(from) PROVE WifiCalls
  <2>1. PICK to \in Waits : Moves(from, to)
    BY <1>e, <1>w DEF Retry
  <2>2. /\ wifi' \in Waits /\ status' \in Statuses
        /\ UNCHANGED <<status, connectedBit, byCaller, rising>>
    BY <2>1, GoesTo
  <2>3. TryLink /\ UNCHANGED <<mode, stations, addr, queue, calls, registry>>
    BY <1>e DEF Retry
  <2>4. Quiet
    BY <2>3, TryLinkGives DEF Quiet
  <2>5. Registers
    BY <2>3, RestQuiet
  <2> QED
    BY <2>2, <2>3, <2>4, <2>5 DEF WifiCalls
<1>1. CASE Connect
  <2>1. /\ wifi' \in Waits /\ status' \in Statuses
        /\ UNCHANGED <<status, connectedBit, byCaller, rising>>
    BY <1>1, <1>w, GoesTo DEF Connect
  <2>2. Quiet \/ Switched("off")
    BY <1>1, <1>a, MaySwitchGives DEF Connect
  <2>3. addr' = FALSE /\ UNCHANGED calls /\ Registers
    BY <1>1, RestQuiet DEF Connect
  <2> QED
    BY <2>1, <2>2, <2>3 DEF WifiCalls
<1>2. CASE SetUp
  <2>1. PICK registered \in {{}, {"wifi"}, {"wifi", "ip"}} :
          /\ handlers' = [e \in DOMAIN handlers |->
                            handlers[e] + (IF e \in registered THEN 1 ELSE 0)]
          /\ loop' \in IF registered = {} THEN {loop, TRUE} ELSE {TRUE}
          /\ \/ Moves("set up", "idle") /\ UNCHANGED <<air, queue>>
             \/ /\ registered = {"wifi", "ip"}
                /\ Moves("set up", "say connecting")
                /\ SwitchTo("sta")
    BY <1>2 DEF SetUp
  <2>2. /\ handlers \in [{"wifi", "ip", "hotspot"} -> Nat]
        /\ handlers["wifi"] \in Nat /\ handlers["ip"] \in Nat /\ handlers["hotspot"] \in Nat
    BY HandlersAre DEF DriverTypes
  <2>3. /\ handlers' \in [{"wifi", "ip", "hotspot"} -> Nat]
        /\ handlers'["wifi"] = handlers["wifi"] + (IF "wifi" \in registered THEN 1 ELSE 0)
        /\ handlers'["ip"] = handlers["ip"] + (IF "ip" \in registered THEN 1 ELSE 0)
        /\ handlers'["hotspot"]
             = handlers["hotspot"] + (IF "hotspot" \in registered THEN 1 ELSE 0)
    <3>1. DOMAIN handlers = {"wifi", "ip", "hotspot"}
      BY <2>2
    <3>2. ASSUME NEW e \in {"wifi", "ip", "hotspot"}
          PROVE  /\ handlers'[e] = handlers[e] + (IF e \in registered THEN 1 ELSE 0)
                 /\ handlers[e] + (IF e \in registered THEN 1 ELSE 0) \in Nat
      <4>1. handlers'[e] = handlers[e] + (IF e \in registered THEN 1 ELSE 0)
        BY <2>1, <3>1
      <4>2. handlers[e] \in Nat
        BY <2>2
      <4> QED
        BY <4>1, <4>2
    <3>3. handlers' \in [{"wifi", "ip", "hotspot"} -> Nat]
      BY <2>1, <3>1, <3>2
    <3> QED
      BY <3>2, <3>3
  <2>4. "hotspot" \notin registered /\ ("ip" \in registered => "wifi" \in registered)
    BY <2>1
  <2>5. loop' \in BOOLEAN /\ (loop => loop')
    BY <2>1 DEF DriverTypes
  <2>6. Registers
    BY <2>2, <2>3, <2>4, <2>5 DEF Registers
  <2>7. /\ wifi' \in Waits /\ status' \in Statuses
        /\ UNCHANGED <<status, connectedBit, byCaller, rising>>
    BY <2>1, <1>w, GoesTo
  <2>8. UNCHANGED <<addr, calls>>
    BY <1>2 DEF SetUp
  <2>9. CASE UNCHANGED <<air, queue>>
    <3>1. Quiet
      BY <2>9, RestQuiet
    <3> QED
      BY <2>6, <2>7, <2>8, <3>1 DEF WifiCalls
  <2>10. CASE registered = {"wifi", "ip"} /\ SwitchTo("sta")
    <3>1. Quiet \/ Switched("sta")
      BY <1>a, <2>10, SwitchGives
    <3>2. handlers'["ip"] > 0
      BY <2>2, <2>3, <2>10
    <3> QED
      BY <2>6, <2>7, <2>8, <3>1, <3>2 DEF WifiCalls
  <2> QED
    BY <2>1, <2>9, <2>10
<1>3. CASE Disconnect
  <2>1. /\ wifi' \in Waits /\ status' \in Statuses
        /\ UNCHANGED <<status, connectedBit, byCaller, rising>>
    BY <1>3, <1>w, GoesTo DEF Disconnect
  <2>2. Quiet \/ Switched("off")
    BY <1>3, <1>a, MaySwitchGives DEF Disconnect
  <2>3. UNCHANGED <<addr, calls>> /\ Registers
    BY <1>3, RestQuiet DEF Disconnect
  <2> QED
    BY <2>1, <2>2, <2>3 DEF WifiCalls
<1>4. CASE SayConnecting \/ SayDisconnected \/ SayConnected \/ SayTimeout
  <2>1. /\ "Connecting" \in Statuses /\ "Disconnected" \in Statuses
        /\ "Connected" \in Statuses /\ "Timeout" \in Statuses
    BY DEF Statuses
  <2>2. SayConnecting => WifiCalls
    BY <1>c, <2>1 DEF SayConnecting
  <2>3. SayDisconnected => WifiCalls
    BY <1>c, <2>1 DEF SayDisconnected
  <2>4. SayConnected => WifiCalls
    BY <1>c, <2>1 DEF SayConnected
  <2>5. SayTimeout => WifiCalls
    BY <1>c, <2>1 DEF SayTimeout
  <2> QED
    BY <1>4, <2>2, <2>3, <2>4, <2>5
<1>5. CASE WaitForConnection \/ SeeBit
  BY <1>5, <1>d, <1>w DEF WaitForConnection, SeeBit
<1>6. CASE SleepOut \/ CheckAddress
  BY <1>6, <1>d, <1>e, <1>w DEF SleepOut, CheckAddress
<1> QED
  BY <1>1, <1>2, <1>3, <1>4, <1>5, <1>6 DEF WifiCaller

LEMMA HotspotCallsIt ==
  ASSUME DriverTypes, HotspotTypes, HotspotCaller
  PROVE  HotspotCalls
<1>a. "off" \in Modes /\ "ap" \in Modes
  BY DEF Modes
<1>b. UNCHANGED calls
  BY DEF HotspotCaller
<1>c. ASSUME NEW from, NEW to \in {"idle", "start", "run", "stop", "restart"},
             HotMoves(from, to)
      PROVE  /\ hot = from /\ hot' = to
             /\ hot' \in {"idle", "start", "run", "stop", "restart"}
             /\ active' \in BOOLEAN /\ startedBit' \in BOOLEAN /\ listening' \in BOOLEAN
             /\ UNCHANGED <<active, connectedClients, zeroedEarly>>
  BY <1>c DEF HotMoves, HotGoes, HotspotTypes
<1>d. ASSUME NEW call \in {"stop", "restart"}, NEW then \in {"idle", "start"},
             StopDriver(call, then)
      PROVE  HotspotCalls
  <2>1. UNCHANGED addr /\ Registers
    BY <1>d, RestQuiet DEF StopDriver
  <2>2. CASE HotMoves("idle", call) /\ SwitchTo("off")
    <3>1. (mode = "off" /\ Quiet) \/ Switched("off")
      BY <1>a, <2>2, SwitchGives
    <3> QED
      BY <1>b, <1>c, <2>1, <2>2, <3>1 DEF HotspotCalls
  <2>3. CASE HotMoves("idle", then) /\ UNCHANGED <<air, queue>>
    <3>1. Quiet
      BY <2>3, RestQuiet
    <3> QED
      BY <1>b, <1>c, <2>1, <2>3, <3>1 DEF HotspotCalls
  <2> QED
    BY <1>d, <2>2, <2>3 DEF StopDriver
<1>1. CASE Start
  <2>1. Quiet /\ UNCHANGED addr
    BY <1>1, RestQuiet DEF Start
  <2>2. hot \in {"idle", "start"}
    BY <1>1 DEF Start
  <2>3. CASE HotMoves(hot, "idle") /\ UNCHANGED registry
    <3>1. Registers
      BY <2>3, RestQuiet
    <3> QED
      BY <1>b, <1>c, <2>1, <2>2, <2>3, <3>1 DEF HotspotCalls
  <2>4. CASE ~loop /\ loop' = TRUE /\ HotMoves(hot, "idle") /\ UNCHANGED handlers
    <3>1. UNCHANGED handlers => Registers
      <4>1. handlers["wifi"] \in Nat /\ handlers["ip"] \in Nat
        BY HandlersAre
      <4>2. handlers["wifi"] >= handlers["wifi"] /\ handlers["ip"] >= handlers["ip"]
        BY <4>1
      <4> QED
        BY <2>4, <4>2 DEF Registers, DriverTypes
    <3> QED
      BY <1>b, <1>c, <2>1, <2>2, <2>4, <3>1 DEF HotspotCalls
  <2>5. CASE /\ ~loop /\ loop' = TRUE
             /\ handlers' = [handlers EXCEPT !["hotspot"] = @ + 1]
             /\ HotMoves(hot, "run")
    <3>1. /\ handlers \in [{"wifi", "ip", "hotspot"} -> Nat]
          /\ handlers["wifi"] \in Nat /\ handlers["ip"] \in Nat /\ handlers["hotspot"] \in Nat
      BY HandlersAre DEF DriverTypes
    <3>2. /\ handlers' \in [{"wifi", "ip", "hotspot"} -> Nat]
          /\ handlers'["wifi"] = handlers["wifi"] /\ handlers'["ip"] = handlers["ip"]
          /\ handlers'["hotspot"] = handlers["hotspot"] + 1
      BY <2>5, <3>1
    <3>3. Registers /\ handlers'["hotspot"] > 0
      BY <2>5, <3>1, <3>2 DEF Registers
    <3> QED
      BY <1>b, <1>c, <2>1, <2>2, <2>5, <3>3 DEF HotspotCalls
  <2> QED
    BY <1>1, <2>3, <2>4, <2>5 DEF Start, MayCreateLoop
<1>2. CASE StartAp
  <2>1. UNCHANGED addr /\ Registers
    BY <1>2, RestQuiet DEF StartAp
  <2>2. Quiet \/ Switched("ap")
    BY <1>2, <1>a, MaySwitchGives DEF StartAp
  <2>3. HotMoves("run", "idle")
    BY <1>2 DEF StartAp
  <2> QED
    BY <1>b, <1>c, <2>1, <2>2, <2>3 DEF HotspotCalls
<1>3. CASE Stop \/ ChangeCredentials
  BY <1>3, <1>d DEF Stop, ChangeCredentials
<1>4. CASE StopResets
  <2>1. UNCHANGED driver /\ UNCHANGED registry /\ UNCHANGED <<startedBit, listening>>
    BY <1>4 DEF StopResets
  <2>2. Quiet /\ UNCHANGED addr /\ Registers
    BY <2>1, RestQuiet
  <2>3. hot \in {"stop", "restart"} /\ hot' \in {"idle", "start"}
    BY <1>4 DEF StopResets, HotGoes
  <2>4. startedBit' \in BOOLEAN /\ listening' \in BOOLEAN
    BY <2>1 DEF HotspotTypes
  <2>5. /\ active' = FALSE /\ connectedClients' = 0
        /\ zeroedEarly' = (zeroedEarly \/ Expected # 0)
    BY <1>4 DEF StopResets
  <2> QED
    BY <1>b, <2>2, <2>3, <2>4, <2>5 DEF HotspotCalls
<1>5. CASE WaitForStart
  <2>1. Quiet /\ UNCHANGED addr /\ Registers
    BY <1>5, RestQuiet DEF WaitForStart
  <2>2. hot = "idle" /\ hot' = "idle"
    BY <1>5 DEF WaitForStart, HotGoes
  <2>3. active' \in BOOLEAN /\ startedBit' \in BOOLEAN /\ listening' \in BOOLEAN
    BY <1>5 DEF WaitForStart, HotspotTypes
  <2>4. UNCHANGED <<active, connectedClients, zeroedEarly>>
    BY <1>5 DEF WaitForStart
  <2> QED
    BY <1>b, <2>1, <2>2, <2>3, <2>4 DEF HotspotCalls
<1> QED
  BY <1>1, <1>2, <1>3, <1>4, <1>5 DEF HotspotCaller

-----------------------------------------------------------------------------
(***************************************************************************)
(* The event loop's steps.                                                 *)
(***************************************************************************)

\* The event at the head is dropped, or stays.
LEMMA Dropped ==
  ASSUME queue \in Seq(Events), queue # <<>>, queue' = queue \/ queue' = Tail(queue)
  PROVE  /\ queue' \in Seq(Events)
         /\ LostIn(queue) /\ Head(queue) # "lost" => LostIn(queue')
         /\ Fresh(queue) =>
              Fresh(queue') \/ (Head(queue) = "got ip" /\ NoStart(queue'))
         /\ NoStart(queue) => NoStart(queue') /\ Head(queue) # "sta start"
         /\ NoHotspot(queue) => NoHotspot(queue') /\ Head(queue) \notin HotspotEvents
         /\ ApOn(queue) /\ Head(queue) # "ap start" => ApOn(queue')
         /\ ApOff(queue) /\ Head(queue) # "ap stop" => ApOff(queue')
         /\ NoAp(queue) => NoAp(queue') /\ Head(queue) \notin ApEvents
         /\ Head(queue) # "joined" => Joined(queue') = Joined(queue)
         /\ Head(queue) # "left" => Left(queue') = Left(queue)
<1>1. /\ Tail(queue) \in Seq(Events)
      /\ LostIn(queue) <=> Head(queue) = "lost" \/ LostIn(Tail(queue))
      /\ Fresh(queue) =>
           Fresh(Tail(queue)) \/ (Head(queue) = "got ip" /\ NoStart(Tail(queue)))
      /\ NoStart(queue) <=> Head(queue) # "sta start" /\ NoStart(Tail(queue))
      /\ NoHotspot(queue) <=> Head(queue) \notin HotspotEvents /\ NoHotspot(Tail(queue))
      /\ ApOn(queue) => ApOn(Tail(queue)) \/ (Head(queue) = "ap start" /\ NoAp(Tail(queue)))
      /\ ApOff(queue) => ApOff(Tail(queue)) \/ (Head(queue) = "ap stop" /\ NoAp(Tail(queue)))
      /\ NoAp(queue) <=> Head(queue) \notin ApEvents /\ NoAp(Tail(queue))
      /\ Joined(queue) = Joined(Tail(queue)) + (IF Head(queue) = "joined" THEN 1 ELSE 0)
      /\ Left(queue) = Left(Tail(queue)) + (IF Head(queue) = "left" THEN 1 ELSE 0)
  BY OnTail
<1>2. Joined(Tail(queue)) \in Nat /\ Left(Tail(queue)) \in Nat
  BY <1>1, CountsAreNat
<1>3. CASE queue' = queue
  BY <1>1, <1>3
<1>4. CASE queue' = Tail(queue)
  <2>1. /\ Head(queue) # "joined" => Joined(Tail(queue)) = Joined(queue)
        /\ Head(queue) # "left" => Left(Tail(queue)) = Left(queue)
    <3>1. ASSUME NEW n, NEW m \in Nat, NEW b \in BOOLEAN, n = m + (IF b THEN 1 ELSE 0)
          PROVE  ~b => m = n
      BY <3>1
    <3>2. Head(queue) # "joined" => Joined(Tail(queue)) = Joined(queue)
      BY <1>1, <1>2, <3>1
    <3>3. Head(queue) # "left" => Left(Tail(queue)) = Left(queue)
      BY <1>1, <1>2, <3>1
    <3> QED
      BY <3>2, <3>3
  <2> QED
    BY <1>1, <1>4, <2>1
<1> QED
  BY <1>3, <1>4

LEMMA Returns ==
  ASSUME DriverTypes, LoopInv, calls > 0, HandlerReturns
  PROVE  /\ calls' \in Nat /\ calls' = calls - 1
         /\ queue # <<>> /\ Head(queue) \in Events /\ CallsFor(Head(queue)) > 0
         /\ calls' > 0 => queue' = queue
         /\ queue' = queue \/ queue' = Tail(queue)
         /\ queue' \in Seq(Events)
<1>1. calls' = calls - 1 /\ calls' \in Nat
  BY DEF HandlerReturns, DriverTypes
<1>2. queue # <<>> /\ queue \in Seq(Events) /\ calls <= CallsFor(Head(queue))
  BY DEF LoopInv, DriverTypes
<1>3. Head(queue) \in Events /\ Tail(queue) \in Seq(Events)
  BY <1>2, OnTail
<1>4. CallsFor(Head(queue)) \in Nat
  BY <1>3, HandlersAre
<1>5. CallsFor(Head(queue)) > 0
  BY <1>2, <1>4 DEF DriverTypes
<1>6. queue' = IF calls' = 0 THEN Tail(queue) ELSE queue
  BY DEF HandlerReturns
<1> QED
  BY <1>1, <1>2, <1>3, <1>5, <1>6

\* The hotspot's handler is called once, so that the event is dropped.
LEMMA Pops ==
  ASSUME DriverTypes, LoopInv, RegInv, NEW e \in HotspotEvents, Handles(e), HandlerReturns
  PROVE  /\ calls' = 0 /\ queue' = Tail(queue)
         /\ queue # <<>> /\ Head(queue) = e /\ queue \in Seq(Events)
<1>1. calls > 0 /\ Head(queue) = e
  BY DEF Handles
<1>2. /\ queue # <<>> /\ calls' = calls - 1 /\ CallsFor(Head(queue)) > 0
  BY <1>1, Returns
<1>3. CallsFor(Head(queue)) = handlers["hotspot"] /\ calls <= CallsFor(Head(queue))
  BY <1>1, HandlersAre DEF LoopInv
<1>4. handlers["hotspot"] = 0 \/ handlers["hotspot"] = 1
  BY DEF RegInv
<1>5. calls = 1
  BY <1>1, <1>2, <1>3, <1>4 DEF DriverTypes
<1> QED
  BY <1>1, <1>2, <1>5 DEF HandlerReturns, DriverTypes

\* TakeEvent, as far as the invariant can tell.
LEMMA Takes ==
  ASSUME DriverTypes, TakeEvent
  PROVE  /\ calls = 0 /\ queue # <<>> /\ Head(queue) \in Events
         /\ calls' = CallsFor(Head(queue)) /\ calls' \in Nat
         /\ calls' > 0 => queue' = queue
         /\ calls' = 0 => queue' = Tail(queue)
         /\ queue' \in Seq(Events)
         /\ addr' = (addr /\ Head(queue) # "lost") /\ addr' \in BOOLEAN
         /\ UNCHANGED <<mode, link, stations, loop, handlers>>
<1>1. /\ calls = 0 /\ queue # <<>> /\ calls' = CallsFor(Head(queue))
      /\ queue' = IF calls' = 0 THEN Tail(queue) ELSE queue
      /\ addr' = (addr /\ Head(queue) # "lost")
  BY DEF TakeEvent
<1>2. Head(queue) \in Events /\ Tail(queue) \in Seq(Events) /\ queue \in Seq(Events)
  BY <1>1, OnTail DEF DriverTypes
<1>3. calls' \in Nat
  BY <1>1, <1>2, HandlersAre
<1>4. addr' \in BOOLEAN
  BY <1>1 DEF DriverTypes
<1>5. UNCHANGED <<mode, link, stations, loop, handlers>>
  BY DEF TakeEvent, air, registry
<1> QED
  BY <1>1, <1>2, <1>3, <1>4, <1>5

LEMMA WifiHandles ==
  ASSUME DriverTypes, LoopInv, WifiHandler
  PROVE  /\ UNCHANGED <<mode, stations, addr, loop, handlers, wifi>> /\ LinkStays
         /\ calls > 0 /\ Head(queue) \notin HotspotEvents
         /\ (UNCHANGED <<calls, queue>> /\ rising' = TRUE /\ Head(queue) = "got ip")
            \/ (HandlerReturns /\ (rising' => rising) /\ (Head(queue) = "got ip" => ~rising'))
<1>1. \A e \in HotspotEvents : e # "sta start" /\ e # "lost" /\ e # "got ip"
  BY DEF HotspotEvents
<1>2. UNCHANGED air => UNCHANGED <<mode, stations>> /\ LinkStays
  BY DEF air, LinkStays, DriverTypes
<1>3. UNCHANGED registry => UNCHANGED <<loop, handlers>>
  BY DEF registry
<1>4. CASE HandleStaStart
  <2>1. LinkStays
    BY <1>4, TryLinkGives DEF HandleStaStart
  <2> QED
    BY <1>1, <1>3, <1>4, <2>1 DEF HandleStaStart, Handles, LoopInv
<1>5. CASE HandleLost
  BY <1>1, <1>2, <1>3, <1>5 DEF HandleLost, Handles
<1>6. CASE HandleGotIp
  BY <1>1, <1>2, <1>3, <1>6 DEF HandleGotIp, Handles
<1>7. CASE EndGotIp
  <2>1. calls > 0 /\ Head(queue) = "got ip"
    BY <1>7 DEF EndGotIp, LoopInv
  <2> QED
    BY <1>1, <1>2, <1>3, <1>7, <2>1 DEF EndGotIp
<1> QED
  BY <1>4, <1>5, <1>6, <1>7 DEF WifiHandler

LEMMA HotspotHandles ==
  ASSUME DriverTypes, LoopInv, RegInv, HotspotHandler
  PROVE  /\ UNCHANGED <<mode, link, stations, addr, loop, handlers, hot, zeroedEarly>>
         /\ calls > 0 /\ calls' = 0 /\ queue' = Tail(queue)
         /\ queue # <<>> /\ Head(queue) \in HotspotEvents /\ queue \in Seq(Events)
<1>1. /\ "ap start" \in HotspotEvents /\ "ap stop" \in HotspotEvents
      /\ "joined" \in HotspotEvents /\ "left" \in HotspotEvents
  BY DEF HotspotEvents
<1>2. UNCHANGED <<mode, link, stations, addr, loop, handlers>>
  BY DEF HotspotHandler, air, registry
<1>3. PICK e \in HotspotEvents : Handles(e)
  BY <1>1 DEF HotspotHandler, HandleApStart, HandleApStop, HandleStation
<1>4. HandlerReturns /\ UNCHANGED <<hot, zeroedEarly>>
  BY DEF HotspotHandler, HandleApStart, HandleApStop, HandleStation
<1>5. calls > 0
  BY <1>3 DEF Handles
<1> QED
  BY <1>2, <1>3, <1>4, <1>5, Pops

-----------------------------------------------------------------------------
(***************************************************************************)
(* The air's steps.                                                        *)
(***************************************************************************)

\* Anything but the coming of a link posts one event.
LEMMA AirGives ==
  ASSUME DriverTypes, AirNext
  PROVE  /\ UNCHANGED <<mode, calls, loop, handlers>>
         /\ \/ Quiet /\ UNCHANGED addr
            \/ /\ link = "up" /\ ~LostIn(queue) /\ addr' = TRUE
               /\ UNCHANGED <<link, stations>> /\ Post(<<"got ip">>)
            \/ /\ link' = "down" /\ Post(<<"lost">>) /\ UNCHANGED <<stations, addr>>
            \/ \E s \in Stations :
                 /\ mode = "ap" /\ s \notin stations /\ stations' = stations \cup {s}
                 /\ Post(<<"joined">>) /\ UNCHANGED <<link, addr>>
            \/ \E s \in stations :
                 /\ stations' = stations \ {s}
                 /\ Post(<<"left">>) /\ UNCHANGED <<link, addr>>
<1>1. UNCHANGED <<calls, loop, handlers>>
  BY DEF AirNext, registry
<1>2. CASE LinkComes
  BY <1>1, <1>2 DEF LinkComes, Quiet, LinkStays
<1>3. CASE AddressComes
  <2>1. ~LostIn(queue)
    BY <1>3, LostIsRange DEF AddressComes, DriverTypes
  <2> QED
    BY <1>1, <1>3, <2>1 DEF AddressComes, air
<1>4. CASE LinkGoes
  BY <1>1, <1>4 DEF LinkGoes
<1>5. ASSUME NEW s \in Stations, StationJoins(s)
      PROVE  /\ mode = "ap" /\ s \notin stations /\ stations' = stations \cup {s}
             /\ Post(<<"joined">>) /\ UNCHANGED <<mode, link, addr>>
  BY <1>5 DEF StationJoins
<1>6. ASSUME NEW s \in Stations, StationLeaves(s)
      PROVE  /\ s \in stations /\ stations' = stations \ {s}
             /\ Post(<<"left">>) /\ UNCHANGED <<mode, link, addr>>
  BY <1>6 DEF StationLeaves
<1> QED
  BY <1>1, <1>2, <1>3, <1>4, <1>5, <1>6 DEF AirNext

-----------------------------------------------------------------------------
(***************************************************************************)
(* Types.                                                                  *)
(***************************************************************************)

LEMMA ManagersRest ==
  /\ UNCHANGED wifiState => UNCHANGED <<status, connectedBit, wifi, rising, byCaller>>
  /\ UNCHANGED hotspotState =>
       UNCHANGED <<active, connectedClients, startedBit, listening, hot, zeroedEarly>>
  /\ WifiTypes /\ UNCHANGED wifiState => WifiTypes'
  /\ HotspotTypes /\ UNCHANGED hotspotState => HotspotTypes'
<1>1. UNCHANGED wifiState => UNCHANGED <<status, connectedBit, wifi, rising, byCaller>>
  BY DEF wifiState
<1>2. UNCHANGED hotspotState =>
        UNCHANGED <<active, connectedClients, startedBit, listening, hot, zeroedEarly>>
  BY DEF hotspotState
<1> QED
  BY <1>1, <1>2 DEF WifiTypes, HotspotTypes

LEMMA QuietTypes ==
  ASSUME DriverTypes, Quiet
  PROVE  /\ mode' \in Modes /\ link' \in {"down", "trying", "up"}
         /\ stations' \subseteq Stations /\ queue' \in Seq(Events)
BY DEF DriverTypes, Quiet, LinkStays

LEMMA SwitchedTypes ==
  ASSUME DriverTypes, RegInv, NEW to \in Modes, Switched(to)
  PROVE  /\ mode' \in Modes /\ link' \in {"down", "trying", "up"}
         /\ stations' \subseteq Stations /\ queue' \in Seq(Events)
BY SwitchedQueue DEF Switched

LEMMA AirTypes ==
  ASSUME DriverTypes, AirNext
  PROVE  DriverTypes'
<1>e. "got ip" \in Events /\ "lost" \in Events /\ "joined" \in Events /\ "left" \in Events
  BY EventKinds
<1>q. queue \in Seq(Events)
  BY DEF DriverTypes
<1>1. UNCHANGED <<mode, calls, loop, handlers>>
  BY AirGives
<1>2. /\ link' \in {"down", "trying", "up"} /\ addr' \in BOOLEAN
      /\ stations' \subseteq Stations /\ queue' \in Seq(Events)
  <2>1. CASE Quiet /\ UNCHANGED addr
    BY <2>1, QuietTypes DEF DriverTypes
  <2>2. CASE addr' = TRUE /\ UNCHANGED <<link, stations>> /\ Post(<<"got ip">>)
    BY <1>e, <1>q, <2>2, PostOne DEF DriverTypes
  <2>3. CASE link' = "down" /\ Post(<<"lost">>) /\ UNCHANGED <<stations, addr>>
    BY <1>e, <1>q, <2>3, PostOne DEF DriverTypes
  <2>4. CASE \E s \in Stations : /\ stations' = stations \cup {s}
                                 /\ Post(<<"joined">>) /\ UNCHANGED <<link, addr>>
    BY <1>e, <1>q, <2>4, PostOne DEF DriverTypes
  <2>5. CASE \E s \in stations : /\ stations' = stations \ {s}
                                 /\ Post(<<"left">>) /\ UNCHANGED <<link, addr>>
    BY <1>e, <1>q, <2>5, PostOne DEF DriverTypes
  <2> QED
    BY <2>1, <2>2, <2>3, <2>4, <2>5, AirGives
<1> QED
  BY <1>1, <1>2 DEF DriverTypes

LEMMA WifiHandlerTypes ==
  ASSUME DriverTypes, WifiTypes, LoopInv, WifiHandler
  PROVE  DriverTypes' /\ WifiTypes'
<1>1. /\ UNCHANGED <<mode, stations, addr, loop, handlers, wifi>> /\ LinkStays
      /\ calls > 0 /\ (UNCHANGED <<calls, queue>> \/ HandlerReturns)
  BY WifiHandles
<1>2. calls' \in Nat /\ queue' \in Seq(Events)
  BY <1>1, Returns DEF DriverTypes
<1>3. DriverTypes'
  BY <1>1, <1>2 DEF DriverTypes, LinkStays
<1>4. "Connecting" \in Statuses /\ "Failed" \in Statuses /\ "Connected" \in Statuses
  BY DEF Statuses
<1>5. status' \in Statuses
  BY <1>4 DEF WifiTypes, WifiHandler, HandleStaStart, HandleLost, HandleGotIp, EndGotIp, Write
<1>6. byCaller' \in BOOLEAN
  BY DEF WifiTypes, WifiHandler, HandleStaStart, HandleLost, HandleGotIp, EndGotIp, Write
<1>7. connectedBit' \in BOOLEAN
  BY DEF WifiTypes, WifiHandler, HandleStaStart, HandleLost, HandleGotIp, EndGotIp
<1>8. rising' \in BOOLEAN
  BY DEF WifiTypes, WifiHandler, HandleStaStart, HandleLost, HandleGotIp, EndGotIp
<1> QED
  BY <1>1, <1>3, <1>5, <1>6, <1>7, <1>8 DEF WifiTypes

LEMMA HotspotHandlerTypes ==
  ASSUME DriverTypes, HotspotTypes, LoopInv, RegInv, HotspotHandler
  PROVE  DriverTypes' /\ HotspotTypes'
<1>1. /\ UNCHANGED <<mode, link, stations, addr, loop, handlers, hot, zeroedEarly>>
      /\ calls' = 0 /\ queue' = Tail(queue) /\ queue # <<>> /\ queue \in Seq(Events)
  BY HotspotHandles
<1>2. queue' \in Seq(Events)
  BY <1>1, OnTail
<1>3. DriverTypes'
  BY <1>1, <1>2 DEF DriverTypes
<1>4. active' \in BOOLEAN
  BY DEF HotspotHandler, HandleApStart, HandleApStop, HandleStation, HotspotTypes
<1>5. startedBit' \in BOOLEAN
  BY DEF HotspotHandler, HandleApStart, HandleApStop, HandleStation, HotspotTypes
<1>6. listening' = listening
  BY DEF HotspotHandler, HandleApStart, HandleApStop, HandleStation
<1>7. connectedClients' \in Int
  <2>1. connectedClients' \in {connectedClients, connectedClients + 1, connectedClients - 1}
    BY DEF HotspotHandler, HandleApStart, HandleApStop, HandleStation
  <2>2. connectedClients \in Int
    BY DEF HotspotTypes
  <2> QED
    BY <2>1, <2>2
<1> QED
  BY <1>1, <1>3, <1>4, <1>5, <1>6, <1>7 DEF HotspotTypes

LEMMA CallerTypes ==
  ASSUME Types, RegInv
  PROVE  /\ WifiCalls => DriverTypes' /\ WifiTypes'
         /\ HotspotCalls => DriverTypes' /\ HotspotTypes'
<1>m. "off" \in Modes /\ "sta" \in Modes /\ "ap" \in Modes
  BY DEF Modes
<1>t. DriverTypes /\ WifiTypes /\ HotspotTypes
  BY DEF Types
<1>1. ASSUME WifiCalls PROVE DriverTypes' /\ WifiTypes'
  <2>1. /\ mode' \in Modes /\ link' \in {"down", "trying", "up"}
        /\ stations' \subseteq Stations /\ queue' \in Seq(Events)
    BY <1>1, <1>m, <1>t, QuietTypes, SwitchedTypes DEF WifiCalls
  <2>2. DriverTypes'
    BY <1>1, <1>t, <2>1 DEF WifiCalls, Registers, DriverTypes
  <2>3. WifiTypes'
    BY <1>1, <1>t DEF WifiCalls, WifiTypes
  <2> QED
    BY <2>2, <2>3
<1>2. ASSUME HotspotCalls PROVE DriverTypes' /\ HotspotTypes'
  <2>1. /\ mode' \in Modes /\ link' \in {"down", "trying", "up"}
        /\ stations' \subseteq Stations /\ queue' \in Seq(Events)
    BY <1>2, <1>m, <1>t, QuietTypes, SwitchedTypes DEF HotspotCalls
  <2>2. DriverTypes'
    BY <1>2, <1>t, <2>1 DEF HotspotCalls, Registers, DriverTypes
  <2>3. zeroedEarly' \in BOOLEAN /\ connectedClients' \in Int
    <3>1. zeroedEarly' = zeroedEarly \/ zeroedEarly' = (zeroedEarly \/ Expected # 0)
      BY <1>2 DEF HotspotCalls
    <3>2. connectedClients' = connectedClients \/ connectedClients' = 0
      BY <1>2 DEF HotspotCalls
    <3>3. connectedClients' \in Int
      BY <1>t, <3>2 DEF HotspotTypes
    <3>4. (zeroedEarly \/ Expected # 0) \in BOOLEAN /\ zeroedEarly \in BOOLEAN
      BY <1>t DEF HotspotTypes
    <3> QED
      BY <3>1, <3>3, <3>4
  <2>4. HotspotTypes'
    BY <1>2, <2>3 DEF HotspotCalls, HotspotTypes
  <2> QED
    BY <2>2, <2>4
<1> QED
  BY <1>1, <1>2

LEMMA TypesKept ==
  ASSUME Types, LoopInv, RegInv, RadioNext
  PROVE  Types'
<1>t. DriverTypes /\ WifiTypes /\ HotspotTypes
  BY DEF Types
<1>1. CASE AirNext /\ UNCHANGED <<wifiState, hotspotState>>
  BY <1>1, <1>t, AirTypes, ManagersRest DEF Types
<1>2. CASE TakeEvent /\ UNCHANGED <<wifiState, hotspotState>>
  <2>1. DriverTypes'
    BY <1>2, <1>t, Takes DEF DriverTypes
  <2> QED
    BY <1>2, <1>t, <2>1, ManagersRest DEF Types
<1>3. CASE WifiHandler /\ UNCHANGED hotspotState
  BY <1>3, <1>t, WifiHandlerTypes, ManagersRest DEF Types
<1>4. CASE HotspotHandler /\ UNCHANGED wifiState
  BY <1>4, <1>t, HotspotHandlerTypes, ManagersRest DEF Types
<1>5. CASE WifiCaller /\ UNCHANGED hotspotState
  BY <1>5, <1>t, WifiCallsIt, CallerTypes, ManagersRest DEF Types
<1>6. CASE HotspotCaller /\ UNCHANGED wifiState
  BY <1>6, <1>t, HotspotCallsIt, CallerTypes, ManagersRest DEF Types
<1> QED
  BY <1>1, <1>2, <1>3, <1>4, <1>5, <1>6 DEF RadioNext, EventLoop

-----------------------------------------------------------------------------
(***************************************************************************)
(* The event loop.                                                         *)
(***************************************************************************)

LEMMA MoreHandlers ==
  ASSUME DriverTypes, DriverTypes', Registers, NEW e \in Events
  PROVE  CallsFor(e)' >= CallsFor(e) /\ CallsFor(e)' \in Nat /\ CallsFor(e) \in Nat
<1>1. CallsFor(e) \in Nat
  BY HandlersAre
<1>2. /\ handlers["wifi"] \in Nat /\ handlers["ip"] \in Nat /\ handlers["hotspot"] \in Nat
      /\ handlers'["wifi"] \in Nat /\ handlers'["ip"] \in Nat /\ handlers'["hotspot"] \in Nat
  BY DEF DriverTypes
<1>3. /\ handlers'["wifi"] >= handlers["wifi"] /\ handlers'["ip"] >= handlers["ip"]
      /\ handlers'["hotspot"] >= handlers["hotspot"]
  BY <1>2 DEF Registers
<1>4. /\ CallsFor(e) = IF e \in WifiEvents THEN handlers["wifi"]
                       ELSE IF e = "got ip" THEN handlers["ip"] ELSE handlers["hotspot"]
      /\ CallsFor(e)' = IF e \in WifiEvents THEN handlers'["wifi"]
                        ELSE IF e = "got ip" THEN handlers'["ip"] ELSE handlers'["hotspot"]
  BY DEF CallsFor, WifiEvents
<1> QED
  BY <1>1, <1>2, <1>3, <1>4

\* Whatever leaves the head of the queue and the calls, and takes no handler away,
\* keeps LoopInv.
LEMMA LoopRests ==
  ASSUME DriverTypes, DriverTypes', LoopInv, Registers, UNCHANGED <<calls, rising>>,
         queue # <<>> => queue' # <<>> /\ Head(queue') = Head(queue)
  PROVE  LoopInv'
<1>1. ASSUME calls > 0
      PROVE  queue' # <<>> /\ calls <= CallsFor(Head(queue))'
  <2>1. queue # <<>> /\ calls <= CallsFor(Head(queue)) /\ queue' # <<>>
    BY <1>1 DEF LoopInv
  <2>2. PICK e \in Events : e = Head(queue)
    BY <2>1, OnTail DEF DriverTypes
  <2>3. Head(queue') = e
    BY <2>1, <2>2
  <2>4. CallsFor(e)' >= CallsFor(e) /\ CallsFor(e)' \in Nat /\ CallsFor(e) \in Nat
    BY MoreHandlers
  <2>5. calls <= CallsFor(e)'
    BY <2>1, <2>2, <2>4 DEF DriverTypes
  <2>6. CallsFor(Head(queue))' = CallsFor(e)'
    BY <2>3 DEF CallsFor
  <2> QED
    BY <2>1, <2>5, <2>6
<1>2. rising => calls > 0 /\ queue # <<>> /\ Head(queue) = "got ip"
  BY DEF LoopInv
<1> QED
  BY <1>1, <1>2 DEF LoopInv

LEMMA LoopKept ==
  ASSUME Types, Types', LoopInv, RegInv, RadioNext
  PROVE  LoopInv'
<1>t. DriverTypes /\ WifiTypes /\ HotspotTypes /\ DriverTypes' /\ rising \in BOOLEAN
  BY DEF Types, WifiTypes
<1>m. "off" \in Modes /\ "sta" \in Modes /\ "ap" \in Modes
  BY DEF Modes
<1>q. queue \in Seq(Events) /\ calls \in Nat /\ calls' \in Nat
  BY <1>t DEF DriverTypes
<1>r. rising => calls > 0 /\ Head(queue) = "got ip"
  BY DEF LoopInv
<1>1. CASE AirNext /\ UNCHANGED <<wifiState, hotspotState>>
  <2>1. UNCHANGED <<calls, loop, handlers, rising>>
    BY <1>1, <1>t, AirGives, ManagersRest
  <2>2. Registers
    BY <1>t, <2>1, RestQuiet DEF registry
  <2>3. queue # <<>> => queue' # <<>> /\ Head(queue') = Head(queue)
    <3>1. "got ip" \in Events /\ "lost" \in Events /\ "joined" \in Events /\ "left" \in Events
      BY EventKinds
    <3>2. Quiet \/ (\E e \in Events : Post(<<e>>))
      BY <1>1, <1>t, <3>1, AirGives
    <3> QED
      BY <1>q, <3>2, PostOne DEF Quiet
  <2> QED
    BY <1>t, <2>1, <2>2, <2>3, LoopRests
<1>2. CASE TakeEvent /\ UNCHANGED <<wifiState, hotspotState>>
  <2>1. /\ calls = 0 /\ queue # <<>> /\ calls' = CallsFor(Head(queue))
        /\ calls' > 0 => queue' = queue
        /\ UNCHANGED <<handlers, rising>>
    BY <1>2, <1>t, Takes, ManagersRest
  <2>2. ~rising'
    BY <1>r, <1>q, <2>1
  <2>3. queue' = queue => CallsFor(Head(queue))' = CallsFor(Head(queue))
    BY <2>1 DEF CallsFor
  <2>4. calls' <= CallsFor(Head(queue))
    BY <1>q, <2>1
  <2> QED
    BY <2>1, <2>2, <2>3, <2>4 DEF LoopInv
<1>3. CASE WifiHandler /\ UNCHANGED hotspotState
  <2>1. /\ UNCHANGED handlers /\ calls > 0
        /\ \/ UNCHANGED <<calls, queue>> /\ rising' = TRUE /\ Head(queue) = "got ip"
           \/ HandlerReturns /\ (rising' => rising) /\ (Head(queue) = "got ip" => ~rising')
    BY <1>3, <1>t, WifiHandles
  <2>2. queue # <<>> /\ calls <= CallsFor(Head(queue)) /\ CallsFor(Head(queue)) \in Nat
    BY <1>q, <1>t, <2>1, OnTail, HandlersAre DEF LoopInv
  <2>3. queue' = queue => CallsFor(Head(queue))' = CallsFor(Head(queue))
    BY <2>1 DEF CallsFor
  <2>4. CASE UNCHANGED <<calls, queue>> /\ rising' = TRUE /\ Head(queue) = "got ip"
    BY <2>1, <2>2, <2>3, <2>4 DEF LoopInv
  <2>5. CASE HandlerReturns /\ (rising' => rising) /\ (Head(queue) = "got ip" => ~rising')
    <3>1. calls' = calls - 1 /\ (calls' > 0 => queue' = queue)
      BY <1>t, <2>1, <2>5, Returns
    <3>2. ~rising'
      BY <1>r, <2>5
    <3>3. calls' <= CallsFor(Head(queue))
      BY <1>q, <2>2, <3>1
    <3> QED
      BY <2>2, <2>3, <3>1, <3>2, <3>3 DEF LoopInv
  <2> QED
    BY <2>1, <2>4, <2>5
<1>4. CASE HotspotHandler /\ UNCHANGED wifiState
  <2>1. calls' = 0 /\ Head(queue) \in HotspotEvents /\ rising' = rising
    BY <1>4, <1>t, HotspotHandles, ManagersRest
  <2>2. ~rising'
    BY <1>r, <2>1, EventKinds
  <2>3. ~(calls' > 0)
    BY <2>1
  <2> QED
    BY <2>2, <2>3 DEF LoopInv
<1>5. CASE WifiCaller /\ UNCHANGED hotspotState
  <2>1. WifiCalls
    BY <1>5, <1>t, WifiCallsIt
  <2>2. queue # <<>> => queue' # <<>> /\ Head(queue') = Head(queue)
    BY <1>t, <1>m, <2>1, SwitchedQueue DEF WifiCalls, Quiet
  <2> QED
    BY <1>t, <2>1, <2>2, LoopRests DEF WifiCalls
<1>6. CASE HotspotCaller /\ UNCHANGED wifiState
  <2>1. HotspotCalls
    BY <1>6, <1>t, HotspotCallsIt
  <2>2. queue # <<>> => queue' # <<>> /\ Head(queue') = Head(queue)
    BY <1>t, <1>m, <2>1, SwitchedQueue DEF HotspotCalls, Quiet
  <2>3. UNCHANGED <<calls, rising>>
    BY <1>6, <2>1, ManagersRest DEF HotspotCalls
  <2> QED
    BY <1>t, <2>1, <2>2, <2>3, LoopRests DEF HotspotCalls
<1> QED
  BY <1>1, <1>2, <1>3, <1>4, <1>5, <1>6 DEF RadioNext, EventLoop

-----------------------------------------------------------------------------
(***************************************************************************)
(* Who is registered.                                                      *)
(***************************************************************************)

LEMMA RegKept ==
  ASSUME Types, Types', LoopInv, RegInv, RadioNext
  PROVE  RegInv'
<1>t. DriverTypes /\ WifiTypes /\ HotspotTypes /\ DriverTypes'
  BY DEF Types
<1>m. "off" \in Modes /\ "sta" \in Modes /\ "ap" \in Modes
  BY DEF Modes
<1>q. queue \in Seq(Events)
  BY <1>t DEF DriverTypes
<1>n. /\ handlers["wifi"] \in Nat /\ handlers["ip"] \in Nat /\ handlers["hotspot"] \in Nat
      /\ handlers'["wifi"] \in Nat /\ handlers'["ip"] \in Nat /\ handlers'["hotspot"] \in Nat
  BY <1>t DEF DriverTypes
<1>k. NoHotspot(queue) \in BOOLEAN /\ NoHotspot(queue') \in BOOLEAN
  BY DEF NoHotspot, None
<1>g. ASSUME Registers
      PROVE  /\ handlers'["ip"] <= handlers'["wifi"]
             /\ handlers'["hotspot"] = 0 \/ (handlers'["hotspot"] = 1 /\ loop')
             /\ handlers["ip"] > 0 => handlers'["ip"] > 0
             /\ handlers["hotspot"] = 1 => handlers'["hotspot"] = 1
  BY <1>g, <1>n DEF Registers, RegInv
<1>1. CASE AirNext /\ UNCHANGED <<wifiState, hotspotState>>
  <2>1. UNCHANGED <<mode, loop, handlers, hot>>
    BY <1>1, <1>t, AirGives, ManagersRest
  <2>2. (link' # "down" => link # "down" \/ mode = "sta") /\ (stations' # {} => mode = "ap")
    BY <1>1, <1>t, AirGives DEF Quiet, LinkStays, RegInv
  <2>3. ~NoHotspot(queue') => handlers["hotspot"] = 1
    <3>1. "got ip" \in Events /\ "lost" \in Events /\ "joined" \in Events /\ "left" \in Events
      BY EventKinds
    <3>2. "got ip" \notin HotspotEvents /\ "lost" \notin HotspotEvents
      BY DEF HotspotEvents
    <3>3. \/ NoHotspot(queue) => NoHotspot(queue')
          \/ mode = "ap"
      <4>1. CASE Quiet
        BY <4>1 DEF Quiet
      <4>2. CASE Post(<<"got ip">>)
        BY <1>q, <3>1, <3>2, <4>2, PostOne
      <4>3. CASE Post(<<"lost">>)
        BY <1>q, <3>1, <3>2, <4>3, PostOne
      <4>4. CASE mode = "ap" \/ stations # {}
        BY <4>4 DEF RegInv
      <4> QED
        BY <1>1, <1>t, <4>1, <4>2, <4>3, <4>4, AirGives
    <3> QED
      BY <3>3 DEF RegInv
  <2> QED
    BY <2>1, <2>2, <2>3 DEF RegInv
<1>2. CASE TakeEvent /\ UNCHANGED <<wifiState, hotspotState>>
  <2>1. /\ UNCHANGED <<mode, link, stations, loop, handlers, hot>> /\ queue # <<>>
        /\ queue' = queue \/ queue' = Tail(queue)
    BY <1>2, <1>t, Takes, ManagersRest
  <2>2. NoHotspot(queue) => NoHotspot(queue')
    BY <1>q, <2>1, Dropped
  <2> QED
    BY <2>1, <2>2 DEF RegInv
<1>3. CASE WifiHandler /\ UNCHANGED hotspotState
  <2>1. /\ UNCHANGED <<mode, stations, loop, handlers>> /\ LinkStays /\ calls > 0
        /\ UNCHANGED queue \/ HandlerReturns
    BY <1>3, <1>t, WifiHandles
  <2>2. queue # <<>> /\ (queue' = queue \/ queue' = Tail(queue))
    BY <1>t, <2>1, Returns DEF LoopInv
  <2>3. NoHotspot(queue) => NoHotspot(queue')
    BY <1>q, <2>2, Dropped
  <2>4. UNCHANGED hot
    BY <1>3, ManagersRest
  <2> QED
    BY <2>1, <2>3, <2>4 DEF RegInv, LinkStays
<1>4. CASE HotspotHandler /\ UNCHANGED wifiState
  <2>1. /\ UNCHANGED <<mode, link, stations, loop, handlers, hot>> /\ queue # <<>>
        /\ queue' = Tail(queue)
    BY <1>4, <1>t, HotspotHandles
  <2>2. NoHotspot(queue) => NoHotspot(queue')
    BY <1>q, <2>1, Dropped
  <2> QED
    BY <2>1, <2>2 DEF RegInv
<1>5. CASE WifiCaller /\ UNCHANGED hotspotState
  <2>1. WifiCalls /\ UNCHANGED hot
    BY <1>5, <1>t, WifiCallsIt, ManagersRest
  <2>2. /\ handlers'["ip"] <= handlers'["wifi"]
        /\ handlers'["hotspot"] = 0 \/ (handlers'["hotspot"] = 1 /\ loop')
        /\ handlers["ip"] > 0 => handlers'["ip"] > 0
        /\ handlers["hotspot"] = 1 => handlers'["hotspot"] = 1
    BY <1>g, <2>1 DEF WifiCalls
  <2>3. CASE Quiet
    BY <2>1, <2>2, <2>3 DEF RegInv, Quiet, LinkStays
  <2>4. ASSUME NEW to \in {"off", "sta"}, Switched(to), to = "sta" => handlers'["ip"] > 0
        PROVE  RegInv'
    <3>1. to \in Modes
      BY <1>m
    <3>2. mode # "ap" => (NoHotspot(queue) => NoHotspot(queue'))
      BY <1>t, <2>4, <3>1, SwitchedQueue
    <3>3. ~NoHotspot(queue') => handlers'["hotspot"] = 1
      BY <1>k, <2>2, <3>2 DEF RegInv
    <3>4. mode' = to /\ link' = "down" /\ stations' = {}
      BY <2>4 DEF Switched
    <3>5. hot' = "run" => handlers'["hotspot"] = 1
      BY <2>1, <2>2 DEF RegInv
    <3> QED
      BY <2>2, <2>4, <3>3, <3>4, <3>5 DEF RegInv
  <2> QED
    BY <2>1, <2>3, <2>4 DEF WifiCalls
<1>6. CASE HotspotCaller /\ UNCHANGED wifiState
  <2>1. HotspotCalls
    BY <1>6, <1>t, HotspotCallsIt
  <2>2. /\ handlers'["ip"] <= handlers'["wifi"]
        /\ handlers'["hotspot"] = 0 \/ (handlers'["hotspot"] = 1 /\ loop')
        /\ handlers["ip"] > 0 => handlers'["ip"] > 0
        /\ handlers["hotspot"] = 1 => handlers'["hotspot"] = 1
    BY <1>g, <2>1 DEF HotspotCalls
  <2>3. CASE /\ Quiet
             /\ hot' = "run" => handlers'["hotspot"] > 0
             /\ hot' \in {"stop", "restart"} => mode # "ap"
    <3>1. hot' = "run" => handlers'["hotspot"] = 1
      BY <1>n, <2>2, <2>3
    <3> QED
      BY <2>2, <2>3, <3>1 DEF RegInv, Quiet, LinkStays
  <2>4. CASE Switched("ap") /\ hot = "run" /\ hot' = "idle"
    <3>1. handlers'["hotspot"] = 1
      BY <2>2, <2>4 DEF RegInv
    <3> QED
      BY <2>2, <2>4, <3>1 DEF RegInv, Switched
  <2>5. CASE Switched("off") /\ hot' \in {"stop", "restart"}
    <3>1. mode # "ap" => (NoHotspot(queue) => NoHotspot(queue'))
      BY <1>t, <1>m, <2>5, SwitchedQueue
    <3>2. ~NoHotspot(queue') => handlers'["hotspot"] = 1
      BY <1>k, <2>2, <3>1 DEF RegInv
    <3>3. mode' = "off" /\ link' = "down" /\ stations' = {}
      BY <2>5 DEF Switched
    <3> QED
      BY <2>2, <2>5, <3>2, <3>3 DEF RegInv
  <2>6. CASE Quiet /\ hot' \in {"idle", "start"}
    BY <2>2, <2>6 DEF RegInv, Quiet, LinkStays
  <2> QED
    BY <2>1, <2>3, <2>4, <2>5, <2>6 DEF HotspotCalls
<1> QED
  BY <1>1, <1>2, <1>3, <1>4, <1>5, <1>6 DEF RadioNext, EventLoop

-----------------------------------------------------------------------------
(***************************************************************************)
(* The link.                                                               *)
(***************************************************************************)

LEMMA HeadLost ==
  ASSUME queue \in Seq(Events), queue # <<>>, Head(queue) = "lost"
  PROVE  LostIn(queue)
BY OnTail

LEMMA LinkByAir ==
  ASSUME DriverTypes, LoopInv, RegInv, LinkInv, AirNext,
         UNCHANGED <<wifiState, hotspotState>>
  PROVE  LinkInv'
<1>q. queue \in Seq(Events)
  BY DEF DriverTypes
<1>1. UNCHANGED <<mode, calls, loop, handlers, status, connectedBit, rising, byCaller>>
  BY AirGives, ManagersRest
<1>2. ASSUME NEW e \in Events, e # "sta start", Post(<<e>>)
      PROVE  /\ queue # <<>> => Head(queue') = Head(queue)
             /\ LostIn(queue) => LostIn(queue')
             /\ Fresh(queue) => Fresh(queue')
             /\ NoStart(queue) => NoStart(queue')
             /\ e = "lost" => LostIn(queue')
             /\ e = "got ip" => Fresh(queue')
  BY <1>q, <1>2, PostOne
<1>e. /\ "got ip" \in Events /\ "got ip" # "sta start"
      /\ "lost" \in Events /\ "lost" # "sta start"
      /\ "joined" \in Events /\ "joined" # "sta start"
      /\ "left" \in Events /\ "left" # "sta start"
  BY EventKinds
<1>c. calls > 0 => queue # <<>>
  BY DEF LoopInv
<1>3. CASE Quiet /\ UNCHANGED addr
  BY <1>1, <1>3 DEF LinkInv, Quiet, LinkStays
<1>4. CASE /\ link = "up" /\ ~LostIn(queue) /\ addr' = TRUE
           /\ UNCHANGED <<link, stations>> /\ Post(<<"got ip">>)
  <2>1. Fresh(queue') /\ (queue # <<>> => Head(queue') = Head(queue))
    BY <1>2, <1>4, <1>e
  <2>2. handlers["ip"] > 0
    BY <1>4 DEF RegInv
  <2>3. calls > 0 => Head(queue') # "lost"
    BY <1>c, <1>q, <1>4, <2>1, HeadLost
  <2> QED
    BY <1>1, <1>4, <2>1, <2>2, <2>3 DEF LinkInv
<1>5. CASE link' = "down" /\ Post(<<"lost">>) /\ UNCHANGED <<stations, addr>>
  <2>1. LostIn(queue') /\ (queue # <<>> => Head(queue') = Head(queue))
    BY <1>2, <1>5, <1>e
  <2> QED
    BY <1>1, <1>c, <1>5, <2>1 DEF LinkInv
<1>6. CASE (Post(<<"joined">>) \/ Post(<<"left">>)) /\ UNCHANGED <<link, addr>>
  <2>1. /\ queue # <<>> => Head(queue') = Head(queue)
        /\ LostIn(queue) => LostIn(queue')
        /\ Fresh(queue) => Fresh(queue')
        /\ NoStart(queue) => NoStart(queue')
    BY <1>2, <1>6, <1>e
  <2> QED
    BY <1>1, <1>c, <1>6, <2>1 DEF LinkInv
<1> QED
  BY <1>3, <1>4, <1>5, <1>6, AirGives

LEMMA LinkByTake ==
  ASSUME DriverTypes, LoopInv, LinkInv, TakeEvent, UNCHANGED <<wifiState, hotspotState>>
  PROVE  LinkInv'
<1>q. queue \in Seq(Events)
  BY DEF DriverTypes
<1>1. /\ queue # <<>> /\ calls' = CallsFor(Head(queue)) /\ calls' \in Nat
      /\ calls' > 0 => queue' = queue
      /\ calls' = 0 => queue' = Tail(queue)
      /\ addr' = (addr /\ Head(queue) # "lost")
      /\ UNCHANGED <<link, handlers>>
  BY Takes
<1>2. UNCHANGED <<status, connectedBit, rising, byCaller>>
  BY ManagersRest
<1>3. /\ Head(queue) = "lost" => calls' = handlers["wifi"]
      /\ Head(queue) = "got ip" => calls' = handlers["ip"]
  <2>1. "lost" \in WifiEvents
    BY DEF WifiEvents
  <2> QED
    BY <1>1, <2>1, HandlersAre
<1>4. queue' = queue \/ queue' = Tail(queue)
  BY <1>1
<1>5. /\ LostIn(queue) /\ Head(queue) # "lost" => LostIn(queue')
      /\ Fresh(queue) => Fresh(queue') \/ (Head(queue) = "got ip" /\ NoStart(queue'))
      /\ NoStart(queue) => NoStart(queue')
  BY <1>q, <1>1, <1>4, Dropped
<1>6. LostIn(queue) /\ handlers["wifi"] > 0 => LostIn(queue')
  BY <1>1, <1>3, <1>5
<1>7. Fresh(queue) /\ handlers["ip"] > 0 => Fresh(queue')
  BY <1>1, <1>3, <1>5
<1>8. addr' => addr /\ Head(queue) # "lost" /\ handlers["ip"] > 0
  BY <1>1 DEF LinkInv
<1>9. calls' > 0 /\ Head(queue') = "lost" => ~addr'
  BY <1>1
<1>10. addr' \/ connectedBit => link = "up" \/ LostIn(queue')
  BY <1>5, <1>6, <1>8 DEF LinkInv
<1>11. status = "Connected" /\ ~byCaller => link = "up" \/ LostIn(queue')
  BY <1>6 DEF LinkInv
<1>12. addr' => \/ LostIn(queue')
                \/ Fresh(queue')
                \/ NoStart(queue') /\ (byCaller \/ status = "Connected")
  BY <1>5, <1>7, <1>8 DEF LinkInv
<1> QED
  BY <1>1, <1>2, <1>8, <1>9, <1>10, <1>11, <1>12 DEF LinkInv

LEMMA LinkByWifiHandler ==
  ASSUME DriverTypes, WifiTypes, LoopInv, RegInv, LinkInv, WifiHandler
  PROVE  LinkInv'
<1>q. queue \in Seq(Events) /\ calls \in Nat
  BY DEF DriverTypes
<1>1. UNCHANGED <<addr, handlers>> /\ LinkStays /\ calls > 0
  BY WifiHandles
<1>2. queue # <<>> /\ calls <= CallsFor(Head(queue)) /\ Head(queue) \in Events
  BY <1>q, <1>1, OnTail DEF LoopInv
<1>3. handlers["wifi"] \in Nat /\ handlers["ip"] \in Nat /\ handlers["ip"] <= handlers["wifi"]
  BY HandlersAre DEF RegInv
<1>4. Head(queue) \in {"sta start", "lost", "got ip"} => handlers["wifi"] > 0
  <2>1. /\ CallsFor("got ip") = handlers["ip"]
        /\ Head(queue) \in WifiEvents => CallsFor(Head(queue)) = handlers["wifi"]
    BY HandlersAre
  <2>2. Head(queue) \in {"sta start", "lost"} => Head(queue) \in WifiEvents
    BY DEF WifiEvents
  <2>3. ASSUME NEW n \in Nat, calls <= n PROVE n > 0
    BY <1>q, <1>1, <2>3
  <2>4. Head(queue) \in {"sta start", "lost"} => handlers["wifi"] > 0
    BY <1>2, <1>3, <2>1, <2>2, <2>3
  <2>5. Head(queue) = "got ip" => handlers["ip"] > 0
    BY <1>2, <1>3, <2>1, <2>3
  <2>6. handlers["ip"] > 0 => handlers["wifi"] > 0
    BY <1>3
  <2> QED
    BY <2>4, <2>5, <2>6
<1>5. rising => Head(queue) = "got ip"
  BY DEF LoopInv
<1>6. ASSUME HandlerReturns
      PROVE  /\ calls' > 0 => queue' = queue
             /\ LostIn(queue) /\ Head(queue) # "lost" => LostIn(queue')
             /\ Fresh(queue) => Fresh(queue') \/ (Head(queue) = "got ip" /\ NoStart(queue'))
             /\ NoStart(queue) => NoStart(queue') /\ Head(queue) # "sta start"
  <2>1. /\ calls' > 0 => queue' = queue
        /\ queue' = queue \/ queue' = Tail(queue)
    BY <1>1, <1>6, Returns
  <2> QED
    BY <1>q, <1>2, <2>1, Dropped
<1>7. CASE HandleStaStart
  <2>1. /\ Head(queue) = "sta start" /\ HandlerReturns
        /\ status' = "Connecting" /\ UNCHANGED <<connectedBit, rising>>
    BY <1>7 DEF HandleStaStart, Handles, Write
  <2>2. ~rising
    BY <1>5, <2>1
  <2>3. calls' > 0 => Head(queue') # "lost"
    BY <1>6, <2>1
  <2>4. LostIn(queue) => LostIn(queue')
    BY <1>6, <2>1
  <2>5. addr => LostIn(queue') \/ Fresh(queue')
    BY <1>6, <2>1, <2>4 DEF LinkInv
  <2> QED
    BY <1>1, <1>4, <2>1, <2>2, <2>3, <2>4, <2>5 DEF LinkInv, LinkStays
<1>8. CASE HandleLost
  <2>1. /\ Head(queue) = "lost" /\ HandlerReturns
        /\ status' = "Failed" /\ connectedBit' = FALSE /\ UNCHANGED rising
    BY <1>8 DEF HandleLost, Handles, Write
  <2>2. ~rising
    BY <1>5, <2>1
  <2>3. ~addr
    BY <1>1, <2>1 DEF LinkInv
  <2> QED
    BY <1>1, <1>4, <2>1, <2>2, <2>3 DEF LinkInv
<1>9. CASE HandleGotIp
  <2>1. /\ Head(queue) = "got ip" /\ ~rising /\ UNCHANGED <<status, byCaller, link>>
        /\ addr => connectedBit' = TRUE /\ rising' = TRUE /\ UNCHANGED <<calls, queue>>
        /\ ~addr => HandlerReturns /\ UNCHANGED <<connectedBit, rising>>
    BY <1>9 DEF HandleGotIp, Handles, air
  <2>2. CASE addr
    BY <1>1, <1>4, <2>1, <2>2 DEF LinkInv
  <2>3. CASE ~addr
    <3>1. LostIn(queue) => LostIn(queue')
      BY <1>6, <2>1, <2>3
    <3>2. ~addr' /\ ~rising' /\ connectedBit' = connectedBit
      <4>1. ~addr' /\ UNCHANGED <<connectedBit, rising>>
        BY <1>1, <2>1, <2>3
      <4> QED
        BY <2>1, <4>1
    <3>3. ~byCaller' \/ connectedBit' => handlers'["wifi"] > 0
      BY <1>1, <2>1, <3>2 DEF LinkInv
    <3>4. connectedBit' => link' = "up" \/ LostIn(queue')
      BY <2>1, <3>1, <3>2 DEF LinkInv
    <3>5. status' = "Connected" /\ ~byCaller' => link' = "up" \/ LostIn(queue')
      BY <2>1, <3>1 DEF LinkInv
    <3> QED
      BY <3>2, <3>3, <3>4, <3>5 DEF LinkInv
  <2> QED
    BY <2>2, <2>3
<1>10. CASE EndGotIp
  <2>1. /\ rising /\ rising' = FALSE /\ HandlerReturns /\ status' = "Connected"
        /\ UNCHANGED <<link, connectedBit>>
    BY <1>10 DEF EndGotIp, Write, air
  <2>2. Head(queue) = "got ip" /\ connectedBit
    BY <1>5, <2>1 DEF LinkInv
  <2>3. LostIn(queue) => LostIn(queue')
    BY <1>6, <2>1, <2>2
  <2>4. calls' > 0 => Head(queue') # "lost"
    BY <1>6, <2>1, <2>2
  <2>5. addr => LostIn(queue') \/ Fresh(queue') \/ NoStart(queue')
    BY <1>6, <2>1, <2>3 DEF LinkInv
  <2>6. link = "up" \/ LostIn(queue')
    BY <2>2, <2>3 DEF LinkInv
  <2> QED
    BY <1>1, <1>4, <2>1, <2>2, <2>4, <2>5, <2>6 DEF LinkInv
<1> QED
  BY <1>7, <1>8, <1>9, <1>10 DEF WifiHandler

LEMMA LinkByHotspotHandler ==
  ASSUME DriverTypes, LoopInv, RegInv, LinkInv, HotspotHandler, UNCHANGED wifiState
  PROVE  LinkInv'
<1>1. /\ UNCHANGED <<link, addr, handlers>> /\ calls' = 0 /\ queue' = Tail(queue)
      /\ queue # <<>> /\ Head(queue) \in HotspotEvents /\ queue \in Seq(Events)
  BY HotspotHandles
<1>2. Head(queue) # "lost" /\ Head(queue) # "got ip"
  BY <1>1 DEF HotspotEvents
<1>3. /\ LostIn(queue) => LostIn(queue')
      /\ Fresh(queue) => Fresh(queue')
      /\ NoStart(queue) => NoStart(queue')
  BY <1>1, <1>2, Dropped
<1>4. UNCHANGED <<status, connectedBit, rising, byCaller>> /\ ~(calls' > 0)
  BY <1>1, ManagersRest
<1> QED
  BY <1>1, <1>3, <1>4 DEF LinkInv

\* Whoever calls, the address does not come, and what the queue says of the link
\* and of the address is still said.
LEMMA LinkByCallers ==
  ASSUME DriverTypes, DriverTypes', LoopInv, RegInv, LinkInv, Registers,
         UNCHANGED <<calls, connectedBit, rising>>, addr' \in {addr, FALSE},
         UNCHANGED <<status, byCaller>> \/ byCaller' = TRUE,
         Quiet \/ \E to \in Modes : Switched(to)
  PROVE  LinkInv'
<1>n. /\ handlers["wifi"] > 0 => handlers'["wifi"] > 0
      /\ handlers["ip"] > 0 => handlers'["ip"] > 0
  <2>1. /\ handlers["wifi"] \in Nat /\ handlers["ip"] \in Nat
        /\ handlers'["wifi"] \in Nat /\ handlers'["ip"] \in Nat
    BY DEF DriverTypes
  <2> QED
    BY <2>1 DEF Registers
<1>a. addr' => addr
  OBVIOUS
<1>1. /\ queue # <<>> => Head(queue') = Head(queue)
      /\ LostIn(queue) => LostIn(queue')
      /\ link = "up" => link' = "up" \/ LostIn(queue')
  BY SwitchedQueue DEF Quiet, LinkStays
<1>2. calls > 0 => queue # <<>>
  BY DEF LoopInv
<1>3. addr => \/ LostIn(queue')
              \/ Fresh(queue) /\ Fresh(queue')
              \/ NoStart(queue) /\ NoStart(queue') /\ (byCaller \/ status = "Connected")
  <2>1. CASE Quiet
    BY <2>1 DEF LinkInv, Quiet
  <2>2. ASSUME Switched("sta"), addr PROVE LostIn(queue')
    <3>1. mode # "sta"
      BY <2>2 DEF Switched
    <3>2. link # "up"
      BY <3>1 DEF RegInv
    <3>3. LostIn(queue)
      BY <2>2, <3>2 DEF LinkInv
    <3> QED
      BY <1>1, <3>3
  <2>3. ASSUME NEW to \in Modes, to # "sta", Switched(to)
        PROVE  /\ Fresh(queue) => Fresh(queue')
               /\ NoStart(queue) => NoStart(queue')
    BY <2>3, SwitchedQueue
  <2> QED
    BY <1>1, <2>1, <2>2, <2>3 DEF LinkInv
<1>4. ~byCaller' \/ connectedBit' => handlers'["wifi"] > 0
  BY <1>n DEF LinkInv
<1>5. calls' > 0 /\ Head(queue') = "lost" => ~addr'
  BY <1>a, <1>1, <1>2 DEF LinkInv
<1>6. addr' \/ connectedBit' => link' = "up" \/ LostIn(queue')
  BY <1>a, <1>1 DEF LinkInv
<1>7. status' = "Connected" /\ ~byCaller' => link' = "up" \/ LostIn(queue')
  BY <1>1 DEF LinkInv
<1>8. addr' => \/ LostIn(queue')
               \/ Fresh(queue')
               \/ NoStart(queue') /\ (byCaller' \/ status' = "Connected")
  BY <1>a, <1>3
<1>9. (addr' => handlers'["ip"] > 0) /\ (rising' => connectedBit')
  BY <1>a, <1>n DEF LinkInv
<1> QED
  BY <1>4, <1>5, <1>6, <1>7, <1>8, <1>9 DEF LinkInv

LEMMA LinkKept ==
  ASSUME Types, Types', LoopInv, RegInv, LinkInv, RadioNext
  PROVE  LinkInv'
<1>t. DriverTypes /\ WifiTypes /\ HotspotTypes /\ DriverTypes'
  BY DEF Types
<1>m. "off" \in Modes /\ "sta" \in Modes /\ "ap" \in Modes
  BY DEF Modes
<1>1. CASE AirNext /\ UNCHANGED <<wifiState, hotspotState>>
  BY <1>1, <1>t, LinkByAir
<1>2. CASE TakeEvent /\ UNCHANGED <<wifiState, hotspotState>>
  BY <1>2, <1>t, LinkByTake
<1>3. CASE WifiHandler /\ UNCHANGED hotspotState
  BY <1>3, <1>t, LinkByWifiHandler
<1>4. CASE HotspotHandler /\ UNCHANGED wifiState
  BY <1>4, <1>t, LinkByHotspotHandler
<1>5. CASE WifiCaller /\ UNCHANGED hotspotState
  <2>1. WifiCalls
    BY <1>5, <1>t, WifiCallsIt
  <2>2. Quiet \/ \E to \in Modes : Switched(to)
    BY <1>m, <2>1 DEF WifiCalls
  <2> QED
    BY <1>t, <2>1, <2>2, LinkByCallers DEF WifiCalls
<1>6. CASE HotspotCaller /\ UNCHANGED wifiState
  <2>1. HotspotCalls
    BY <1>6, <1>t, HotspotCallsIt
  <2>2. Quiet \/ \E to \in Modes : Switched(to)
    BY <1>m, <2>1 DEF HotspotCalls
  <2>3. UNCHANGED <<status, connectedBit, rising, byCaller>>
    BY <1>6, ManagersRest
  <2> QED
    BY <1>t, <2>1, <2>2, <2>3, LinkByCallers DEF HotspotCalls
<1> QED
  BY <1>1, <1>2, <1>3, <1>4, <1>5, <1>6 DEF RadioNext, EventLoop

-----------------------------------------------------------------------------
(***************************************************************************)
(* The access point.                                                       *)
(***************************************************************************)

\* An event that is neither start nor stop of the access point leaves ApInv.
LEMMA ApRests ==
  ASSUME ApInv, UNCHANGED <<mode, hot, active>>,
         ApOn(queue) => ApOn(queue'), ApOff(queue) => ApOff(queue'),
         NoAp(queue) => NoAp(queue')
  PROVE  ApInv'
BY DEF ApInv

LEMMA ApKept ==
  ASSUME Types, LoopInv, RegInv, ApInv, RadioNext
  PROVE  ApInv'
<1>t. DriverTypes /\ WifiTypes /\ HotspotTypes
  BY DEF Types
<1>m. "off" \in Modes /\ "sta" \in Modes /\ "ap" \in Modes
  BY DEF Modes
<1>q. queue \in Seq(Events)
  BY <1>t DEF DriverTypes
<1>e. \A e \in ApEvents : e \in HotspotEvents
  BY EventKinds
<1>ae. "ap start" \in ApEvents /\ "ap stop" \in ApEvents
  BY DEF ApEvents
<1>d. ASSUME queue # <<>>, Head(queue) \notin ApEvents, queue' = queue \/ queue' = Tail(queue)
      PROVE  /\ ApOn(queue) => ApOn(queue')
             /\ ApOff(queue) => ApOff(queue')
             /\ NoAp(queue) => NoAp(queue')
  <2>1. Head(queue) # "ap start" /\ Head(queue) # "ap stop"
    BY <1>d, <1>ae
  <2> QED
    BY <1>d, <1>q, <2>1, Dropped
<1>1. CASE AirNext /\ UNCHANGED <<wifiState, hotspotState>>
  <2>1. UNCHANGED <<mode, hot, active>>
    BY <1>1, <1>t, AirGives, ManagersRest
  <2>2. /\ "got ip" \in Events /\ "got ip" \notin ApEvents
        /\ "lost" \in Events /\ "lost" \notin ApEvents
        /\ "joined" \in Events /\ "joined" \notin ApEvents
        /\ "left" \in Events /\ "left" \notin ApEvents
    BY EventKinds DEF ApEvents
  <2>3. Quiet \/ \E e \in Events : e \notin ApEvents /\ Post(<<e>>)
    BY <1>1, <1>t, <2>2, AirGives
  <2>4. /\ ApOn(queue) => ApOn(queue')
        /\ ApOff(queue) => ApOff(queue')
        /\ NoAp(queue) => NoAp(queue')
    BY <1>q, <2>3, PostOne DEF Quiet
  <2> QED
    BY <2>1, <2>4, ApRests
<1>2. CASE TakeEvent /\ UNCHANGED <<wifiState, hotspotState>>
  <2>1. /\ UNCHANGED <<mode, hot, active, handlers>> /\ queue # <<>>
        /\ Head(queue) \in Events /\ calls' = CallsFor(Head(queue))
        /\ calls' > 0 => queue' = queue
        /\ calls' \in Nat
        /\ queue' = queue \/ queue' = Tail(queue)
    <3>1. UNCHANGED <<hot, active>>
      BY <1>2, ManagersRest
    <3>2. /\ UNCHANGED <<mode, handlers>> /\ queue # <<>>
          /\ Head(queue) \in Events /\ calls' = CallsFor(Head(queue))
          /\ calls' > 0 => queue' = queue
          /\ calls' = 0 => queue' = Tail(queue)
          /\ calls' \in Nat
      BY <1>2, <1>t, Takes
    <3> QED
      BY <3>1, <3>2
  <2>2. CASE Head(queue) \in ApEvents
    <3>1. ~NoHotspot(queue)
      BY <1>e, <1>q, <2>1, <2>2, OnTail
    <3>2. CallsFor(Head(queue)) = 1
      BY <1>e, <1>t, <2>2, <3>1, HandlersAre DEF RegInv
    <3>3. queue' = queue
      BY <2>1, <3>2
    <3> QED
      BY <2>1, <3>3, ApRests
  <2>3. CASE Head(queue) \notin ApEvents
    BY <1>d, <2>1, <2>3, ApRests
  <2> QED
    BY <2>2, <2>3
<1>3. CASE WifiHandler /\ UNCHANGED hotspotState
  <2>1. /\ UNCHANGED mode /\ calls > 0 /\ Head(queue) \notin HotspotEvents
        /\ UNCHANGED queue \/ HandlerReturns
    BY <1>3, <1>t, WifiHandles
  <2>2. queue # <<>> /\ (queue' = queue \/ queue' = Tail(queue))
    BY <1>t, <2>1, Returns DEF LoopInv
  <2>3. UNCHANGED <<hot, active>>
    BY <1>3, ManagersRest
  <2> QED
    BY <1>d, <1>e, <2>1, <2>2, <2>3, ApRests
<1>4. CASE HotspotHandler /\ UNCHANGED wifiState
  <2>1. /\ UNCHANGED <<mode, hot>> /\ queue # <<>> /\ queue' = Tail(queue)
    BY <1>4, <1>t, HotspotHandles
  <2>2. /\ ApOn(queue) => ApOn(queue') \/ (Head(queue) = "ap start" /\ NoAp(queue'))
        /\ ApOff(queue) => ApOff(queue') \/ (Head(queue) = "ap stop" /\ NoAp(queue'))
        /\ NoAp(queue) => Head(queue) \notin ApEvents
    BY <1>q, <2>1, OnTail
  <2>3. CASE HandleApStart
    <3>1. Head(queue) = "ap start" /\ active' = TRUE
      BY <2>3 DEF HandleApStart, Handles
    <3>2. ApOn(queue) => ApOn(queue') \/ NoAp(queue')
      BY <2>2
    <3>3. ApOff(queue) => ApOff(queue')
      BY <2>2, <3>1
    <3>4. ~NoAp(queue)
      BY <1>ae, <2>2, <3>1
    <3> QED
      BY <2>1, <3>1, <3>2, <3>3, <3>4 DEF ApInv
  <2>4. CASE HandleApStop
    <3>1. Head(queue) = "ap stop" /\ active' = FALSE
      BY <2>4 DEF HandleApStop, Handles
    <3>2. ApOff(queue) => ApOff(queue') \/ NoAp(queue')
      BY <2>2
    <3>3. ApOn(queue) => ApOn(queue')
      BY <2>2, <3>1
    <3>4. ~NoAp(queue)
      BY <1>ae, <2>2, <3>1
    <3> QED
      BY <2>1, <3>1, <3>2, <3>3, <3>4 DEF ApInv
  <2>5. CASE HandleStation
    <3>1. Head(queue) \notin ApEvents /\ UNCHANGED active
      BY <2>5 DEF HandleStation, Handles, ApEvents
    <3> QED
      BY <1>d, <2>1, <3>1, ApRests
  <2> QED
    BY <1>4, <2>3, <2>4, <2>5 DEF HotspotHandler
<1>5. CASE WifiCaller /\ UNCHANGED hotspotState
  <2>1. WifiCalls /\ UNCHANGED <<hot, active>>
    BY <1>5, <1>t, WifiCallsIt, ManagersRest
  <2>2. CASE Quiet
    BY <2>1, <2>2, ApRests DEF Quiet
  <2>3. ASSUME NEW to \in Modes, to # "ap", Switched(to) PROVE ApInv'
    <3>1. mode' # "ap"
      BY <2>3 DEF Switched
    <3>2. /\ mode = "ap" => ApOff(queue')
          /\ mode # "ap" => /\ NoAp(queue) => NoAp(queue')
                            /\ ApOff(queue) => ApOff(queue')
      BY <1>t, <2>3, SwitchedQueue
    <3> QED
      BY <2>1, <3>1, <3>2 DEF ApInv
  <2> QED
    BY <1>m, <2>1, <2>2, <2>3 DEF WifiCalls
<1>6. CASE HotspotCaller /\ UNCHANGED wifiState
  <2>1. HotspotCalls
    BY <1>6, <1>t, HotspotCallsIt
  <2>2. CASE Quiet /\ hot \notin {"stop", "restart"} /\ UNCHANGED active
    BY <2>2 DEF ApInv, Quiet
  <2>3. CASE Switched("ap")
    <3>1. mode' = "ap" /\ ApOn(queue')
      BY <1>t, <1>m, <2>3, SwitchedQueue DEF Switched
    <3> QED
      BY <3>1 DEF ApInv
  <2>4. CASE Switched("off") /\ hot' \in {"stop", "restart"}
    <3>1. mode' # "ap"
      BY <2>4 DEF Switched
    <3>2. /\ mode = "ap" => ApOff(queue')
          /\ mode # "ap" => /\ NoAp(queue) => NoAp(queue')
                            /\ ApOff(queue) => ApOff(queue')
      BY <1>t, <1>m, <2>4, SwitchedQueue
    <3> QED
      BY <2>4, <3>1, <3>2 DEF ApInv
  <2>5. CASE Quiet /\ hot \in {"stop", "restart"} /\ active' = FALSE
    <3>1. mode # "ap" /\ mode' = mode /\ queue' = queue
      BY <2>5 DEF RegInv, Quiet
    <3> QED
      BY <2>5, <3>1 DEF ApInv
  <2> QED
    BY <2>1, <2>2, <2>3, <2>4, <2>5 DEF HotspotCalls
<1> QED
  BY <1>1, <1>2, <1>3, <1>4, <1>5, <1>6 DEF RadioNext, EventLoop

-----------------------------------------------------------------------------
(***************************************************************************)
(* The stations.                                                           *)
(***************************************************************************)

LEMMA StationsFinite ==
  ASSUME DriverTypes
  PROVE  IsFiniteSet(stations) /\ Cardinality(stations) \in Nat
BY DriverAssumption, FS_Subset, FS_CardinalityType DEF DriverTypes

\* Who counts nothing down keeps the sum.
LEMMA CountRests ==
  ASSUME CountInv, UNCHANGED <<zeroedEarly, connectedClients, stations>>,
         Joined(queue') = Joined(queue), Left(queue') = Left(queue)
  PROVE  CountInv'
BY DEF CountInv

LEMMA CountBySwitch ==
  ASSUME DriverTypes, RegInv, CountInv, UNCHANGED <<zeroedEarly, connectedClients>>,
         NEW to \in Modes, Switched(to)
  PROVE  CountInv'
<1>1. stations' = {} /\ Cardinality(stations') = 0
  BY FS_EmptySet DEF Switched
<1>2. Joined(queue') = Joined(queue) /\ Left(queue') = Left(queue) + Cardinality(stations)
  BY SwitchedQueue
<1>3. Joined(queue) \in Nat /\ Left(queue) \in Nat /\ Cardinality(stations) \in Nat
  BY CountsAreNat, StationsFinite DEF DriverTypes
<1>4. Cardinality(stations') - Joined(queue') + Left(queue')
        = Cardinality(stations) - Joined(queue) + Left(queue)
  BY <1>1, <1>2, <1>3
<1> QED
  BY <1>4 DEF CountInv

LEMMA CountKept ==
  ASSUME Types, LoopInv, RegInv, CountInv, RadioNext
  PROVE  CountInv'
<1>t. DriverTypes /\ WifiTypes /\ HotspotTypes
  BY DEF Types
<1>m. "off" \in Modes /\ "sta" \in Modes /\ "ap" \in Modes
  BY DEF Modes
<1>q. queue \in Seq(Events)
  BY <1>t DEF DriverTypes
<1>n. /\ Joined(queue) \in Nat /\ Left(queue) \in Nat /\ Cardinality(stations) \in Nat
      /\ IsFiniteSet(stations) /\ connectedClients \in Int
  BY <1>t, <1>q, CountsAreNat, StationsFinite DEF HotspotTypes
<1>e. "joined" \in HotspotEvents /\ "left" \in HotspotEvents
  BY DEF HotspotEvents
<1>1. CASE AirNext /\ UNCHANGED <<wifiState, hotspotState>>
  <2>1. UNCHANGED <<zeroedEarly, connectedClients>>
    BY <1>1, ManagersRest
  <2>2. /\ "got ip" \in Events /\ "lost" \in Events /\ "joined" \in Events /\ "left" \in Events
    BY EventKinds
  <2>3. CASE Quiet
    BY <2>1, <2>3, CountRests DEF Quiet
  <2>4. CASE (Post(<<"got ip">>) \/ Post(<<"lost">>)) /\ UNCHANGED stations
    <3>1. Joined(queue') = Joined(queue) + 0 /\ Left(queue') = Left(queue) + 0
      BY <1>q, <2>2, <2>4, PostOne
    <3>2. Joined(queue') = Joined(queue) /\ Left(queue') = Left(queue)
      BY <1>n, <3>1
    <3> QED
      BY <2>1, <2>4, <3>2, CountRests
  <2>5. ASSUME NEW s \in Stations, s \notin stations, stations' = stations \cup {s},
               Post(<<"joined">>)
        PROVE  CountInv'
    <3>1. Joined(queue') = Joined(queue) + 1 /\ Left(queue') = Left(queue) + 0
      BY <1>q, <2>2, <2>5, PostOne
    <3>2. Cardinality(stations') = Cardinality(stations) + 1
      BY <1>n, <2>5, FS_AddElement
    <3>3. Cardinality(stations') - Joined(queue') + Left(queue')
            = Cardinality(stations) - Joined(queue) + Left(queue)
      BY <1>n, <3>1, <3>2
    <3> QED
      BY <2>1, <3>3 DEF CountInv
  <2>6. ASSUME NEW s \in stations, stations' = stations \ {s}, Post(<<"left">>)
        PROVE  CountInv'
    <3>1. Joined(queue') = Joined(queue) + 0 /\ Left(queue') = Left(queue) + 1
      BY <1>q, <2>2, <2>6, PostOne
    <3>2. Cardinality(stations') = Cardinality(stations) - 1
      BY <1>n, <2>6, FS_RemoveElement
    <3>3. Cardinality(stations') - Joined(queue') + Left(queue')
            = Cardinality(stations) - Joined(queue) + Left(queue)
      BY <1>n, <3>1, <3>2
    <3> QED
      BY <2>1, <3>3 DEF CountInv
  <2> QED
    BY <1>1, <1>t, <2>3, <2>4, <2>5, <2>6, AirGives
<1>2. CASE TakeEvent /\ UNCHANGED <<wifiState, hotspotState>>
  <2>1. /\ UNCHANGED <<stations, handlers>> /\ queue # <<>>
        /\ calls' = CallsFor(Head(queue))
        /\ calls' > 0 => queue' = queue
        /\ calls' = 0 => queue' = Tail(queue)
        /\ calls' \in Nat
    BY <1>2, <1>t, Takes
  <2>2. UNCHANGED <<zeroedEarly, connectedClients>>
    BY <1>2, ManagersRest
  <2>3. queue' = queue \/ queue' = Tail(queue)
    BY <2>1
  <2>4. CASE Head(queue) \in HotspotEvents
    <3>1. ~NoHotspot(queue)
      BY <1>q, <2>1, <2>4, OnTail
    <3>2. CallsFor(Head(queue)) = 1
      BY <1>t, <2>4, <3>1, HandlersAre DEF RegInv
    <3>3. queue' = queue
      BY <2>1, <3>2
    <3> QED
      BY <2>1, <2>2, <3>3, CountRests
  <2>5. CASE Head(queue) \notin HotspotEvents
    <3>1. Joined(queue') = Joined(queue) /\ Left(queue') = Left(queue)
      BY <1>e, <1>q, <2>1, <2>3, <2>5, Dropped
    <3> QED
      BY <2>1, <2>2, <3>1, CountRests
  <2> QED
    BY <2>4, <2>5
<1>3. CASE WifiHandler /\ UNCHANGED hotspotState
  <2>1. /\ UNCHANGED stations /\ calls > 0 /\ Head(queue) \notin HotspotEvents
        /\ UNCHANGED queue \/ HandlerReturns
    BY <1>3, <1>t, WifiHandles
  <2>2. queue # <<>> /\ (queue' = queue \/ queue' = Tail(queue))
    BY <1>t, <2>1, Returns DEF LoopInv
  <2>3. UNCHANGED <<zeroedEarly, connectedClients>>
    BY <1>3, ManagersRest
  <2>4. Joined(queue') = Joined(queue) /\ Left(queue') = Left(queue)
    BY <1>e, <1>q, <2>1, <2>2, Dropped
  <2> QED
    BY <2>1, <2>3, <2>4, CountRests
<1>4. CASE HotspotHandler /\ UNCHANGED wifiState
  <2>1. UNCHANGED <<stations, zeroedEarly>> /\ queue # <<>> /\ queue' = Tail(queue)
    BY <1>4, <1>t, HotspotHandles
  <2>2. /\ Joined(queue) = Joined(queue') + (IF Head(queue) = "joined" THEN 1 ELSE 0)
        /\ Left(queue) = Left(queue') + (IF Head(queue) = "left" THEN 1 ELSE 0)
        /\ queue' \in Seq(Events)
    BY <1>q, <2>1, OnTail
  <2>3. Joined(queue') \in Nat /\ Left(queue') \in Nat
    BY <2>2, CountsAreNat
  <2>4. CASE HandleApStart \/ HandleApStop
    <3>1. Head(queue) # "joined" /\ Head(queue) # "left" /\ UNCHANGED connectedClients
      BY <2>4 DEF HandleApStart, HandleApStop, Handles
    <3>2. Joined(queue') = Joined(queue) /\ Left(queue') = Left(queue)
      BY <1>q, <2>1, <3>1, Dropped
    <3> QED
      BY <2>1, <3>1, <3>2, CountRests
  <2>5. CASE Handles("joined") /\ connectedClients' = connectedClients + 1
    <3>1. Joined(queue) = Joined(queue') + 1 /\ Left(queue) = Left(queue') + 0
      BY <2>2, <2>5 DEF Handles
    <3>2. connectedClients = Cardinality(stations) - Joined(queue) + Left(queue)
            => connectedClients + 1 = Cardinality(stations) - Joined(queue') + Left(queue')
      BY <1>n, <2>3, <3>1
    <3> QED
      BY <2>1, <2>5, <3>2 DEF CountInv
  <2>6. CASE Handles("left") /\ connectedClients' = connectedClients - 1
    <3>1. Joined(queue) = Joined(queue') + 0 /\ Left(queue) = Left(queue') + 1
      BY <2>2, <2>6 DEF Handles
    <3>2. connectedClients = Cardinality(stations) - Joined(queue) + Left(queue)
            => connectedClients - 1 = Cardinality(stations) - Joined(queue') + Left(queue')
      BY <1>n, <2>3, <3>1
    <3> QED
      BY <2>1, <2>6, <3>2 DEF CountInv
  <2> QED
    BY <1>4, <2>4, <2>5, <2>6 DEF HotspotHandler, HandleStation
<1>5. CASE WifiCaller /\ UNCHANGED hotspotState
  <2>1. WifiCalls /\ UNCHANGED <<zeroedEarly, connectedClients>>
    BY <1>5, <1>t, WifiCallsIt, ManagersRest
  <2>2. Quiet \/ \E to \in Modes : Switched(to)
    BY <1>m, <2>1 DEF WifiCalls
  <2>3. Quiet => CountInv'
    BY <2>1, CountRests DEF Quiet
  <2> QED
    BY <1>t, <2>1, <2>2, <2>3, CountBySwitch
<1>6. CASE HotspotCaller /\ UNCHANGED wifiState
  <2>1. HotspotCalls
    BY <1>6, <1>t, HotspotCallsIt
  <2>2. CASE Quiet /\ UNCHANGED <<zeroedEarly, connectedClients>>
    BY <2>2, CountRests DEF Quiet
  <2>3. CASE (Switched("ap") \/ Switched("off")) /\ UNCHANGED <<zeroedEarly, connectedClients>>
    BY <1>t, <1>m, <2>3, CountBySwitch
  <2>4. CASE /\ Quiet /\ connectedClients' = 0
             /\ zeroedEarly' = (zeroedEarly \/ Expected # 0)
    <3>1. ~zeroedEarly' => Cardinality(stations) - Joined(queue) + Left(queue) = 0
      BY <2>4, ExpectedIs
    <3> QED
      BY <2>4, <3>1 DEF CountInv, Quiet
  <2> QED
    BY <2>1, <2>2, <2>3, <2>4 DEF HotspotCalls
<1> QED
  BY <1>1, <1>2, <1>3, <1>4, <1>5, <1>6 DEF RadioNext, EventLoop

-----------------------------------------------------------------------------
(***************************************************************************)
(* The theorems.                                                           *)
(***************************************************************************)

LEMMA InvAtFirst == RadioInit => Inv
<1> SUFFICES ASSUME RadioInit PROVE Inv
  OBVIOUS
<1> USE DEF RadioInit, DriverInit, WifiInit, HotspotInit
<1>1. DriverTypes
  <2>1. handlers \in [{"wifi", "ip", "hotspot"} -> Nat]
    OBVIOUS
  <2> QED
    BY <2>1, OnEmpty DEF DriverTypes, Modes
<1>2. WifiTypes /\ HotspotTypes
  <2>1. WifiTypes
    BY DEF WifiTypes, Statuses, Waits
  <2>2. HotspotTypes
    <3>1. hot \in {"idle", "start", "run", "stop", "restart"}
      OBVIOUS
    <3>2. connectedClients \in Int
      OBVIOUS
    <3>3. /\ active \in BOOLEAN /\ startedBit \in BOOLEAN
          /\ listening \in BOOLEAN /\ zeroedEarly \in BOOLEAN
      OBVIOUS
    <3> QED
      BY <3>1, <3>2, <3>3 DEF HotspotTypes
  <2> QED
    BY <2>1, <2>2
<1>3. LoopInv
  BY DEF LoopInv
<1>4. handlers["wifi"] = 0 /\ handlers["ip"] = 0 /\ handlers["hotspot"] = 0
  OBVIOUS
<1>5. RegInv
  BY <1>4, OnEmpty DEF RegInv
<1>6. LinkInv
  BY DEF LinkInv
<1>7. ApInv
  BY OnEmpty DEF ApInv
<1>8. CountInv
  <2>1. Cardinality(stations) = 0
    BY FS_EmptySet
  <2> QED
    BY <2>1, OnEmpty DEF CountInv
<1> QED
  BY <1>1, <1>2, <1>3, <1>5, <1>6, <1>7, <1>8 DEF Inv, Types

LEMMA InvKept == Inv /\ [RadioNext]_radio => Inv'
<1>1. ASSUME Inv, RadioNext PROVE Inv'
  <2>1. Types /\ LoopInv /\ RegInv /\ LinkInv /\ ApInv /\ CountInv
    BY <1>1 DEF Inv
  <2>2. Types'
    BY <1>1, <2>1, TypesKept
  <2>3. LoopInv' /\ RegInv' /\ LinkInv'
    BY <1>1, <2>1, <2>2, LoopKept, RegKept, LinkKept
  <2>4. ApInv' /\ CountInv'
    BY <1>1, <2>1, ApKept, CountKept
  <2> QED
    BY <2>2, <2>3, <2>4 DEF Inv
<1>2. ASSUME Inv, UNCHANGED radio PROVE Inv'
  <2>1. /\ UNCHANGED <<mode, link, stations, addr, queue, calls, loop, handlers>>
        /\ UNCHANGED <<status, connectedBit, wifi, rising, byCaller>>
        /\ UNCHANGED <<active, connectedClients, startedBit, listening, hot, zeroedEarly>>
    BY <1>2 DEF radio, driver, air, registry, wifiState, hotspotState
  <2>2. Types'
    BY <1>2, <2>1 DEF Inv, Types, DriverTypes, WifiTypes, HotspotTypes
  <2>3. LoopInv' /\ RegInv'
    BY <1>2, <2>1 DEF Inv, LoopInv, RegInv, CallsFor
  <2>4. LinkInv'
    BY <1>2, <2>1 DEF Inv, LinkInv
  <2>5. ApInv' /\ CountInv'
    BY <1>2, <2>1 DEF Inv, ApInv, CountInv
  <2> QED
    BY <2>2, <2>3, <2>4, <2>5 DEF Inv
<1> QED
  BY <1>1, <1>2

LEMMA InvHolds == RadioSpec => []Inv
BY InvAtFirst, InvKept, PTL DEF RadioSpec

\* Driver, event loop and both managers keep their types (EspidfWiFiManager,
\* EspidfHotspotManager).
THEOREM RadioTypeCorrect == RadioSpec => []RadioTypeOK
<1>1. Inv => RadioTypeOK
  <2> SUFFICES ASSUME Inv PROVE RadioTypeOK
    OBVIOUS
  <2>1. DriverTypes /\ WifiTypes /\ HotspotTypes
    BY DEF Inv, Types
  <2>2. Range(queue) \subseteq Events
    <3>1. queue \in Seq(Events)
      BY <2>1 DEF DriverTypes
    <3>2. \A i \in DOMAIN queue : queue[i] \in Events
      BY <3>1, LenProperties
    <3> QED
      BY <3>2 DEF Range
  <2>3. {addr, loop} \subseteq BOOLEAN
    <3>1. addr \in BOOLEAN /\ loop \in BOOLEAN
      BY <2>1 DEF DriverTypes
    <3> QED
      BY <3>1
  <2>4. DriverTypeOK
    BY <2>1, <2>2, <2>3 DEF DriverTypes, DriverTypeOK
  <2>5. WifiTypeOK
    <3>1. connectedBit \in BOOLEAN /\ rising \in BOOLEAN /\ byCaller \in BOOLEAN
      BY <2>1 DEF WifiTypes
    <3>2. {connectedBit, rising, byCaller} \subseteq BOOLEAN
      BY <3>1
    <3> QED
      BY <2>1, <3>2 DEF WifiTypes, WifiTypeOK, Statuses, Waits
  <2>6. HotspotTypeOK
    <3>1. /\ active \in BOOLEAN /\ startedBit \in BOOLEAN
          /\ listening \in BOOLEAN /\ zeroedEarly \in BOOLEAN
      BY <2>1 DEF HotspotTypes
    <3>2. {active, startedBit, listening, zeroedEarly} \subseteq BOOLEAN
      BY <3>1
    <3> QED
      BY <2>1, <3>2 DEF HotspotTypes, HotspotTypeOK
  <2> QED
    BY <2>4, <2>5, <2>6 DEF RadioTypeOK
<1> QED
  BY <1>1, InvHolds, PTL

\* The connected bit is set only while there is a link or a queued loss
\* (EventHandler(), WaitForConnection()).
THEOREM BitAlwaysMeansLink == RadioSpec => []BitMeansLink
<1>1. Inv => BitMeansLink
  BY LostIsRange DEF Inv, Types, DriverTypes, LinkInv, BitMeansLink
<1> QED
  BY <1>1, InvHolds, PTL

\* The status that EventHandler() wrote is that of the link when all is handled.
THEOREM StatusAlwaysFollowsLink == RadioSpec => []StatusFollowsLink
<1>1. Inv => StatusFollowsLink
  <2> SUFFICES ASSUME Inv, queue = <<>>, ~byCaller
               PROVE  /\ status = "Connected" => link = "up"
                      /\ addr => status = "Connected"
    BY DEF StatusFollowsLink
  <2>1. ~LostIn(queue) /\ ~Fresh(queue)
    BY OnEmpty
  <2> QED
    BY <2>1 DEF Inv, LinkInv
<1> QED
  BY <1>1, InvHolds, PTL

\* The hotspot is active if and only if the access point runs, whoever started or
\* stopped it, when all is handled.
THEOREM ActiveAlwaysMeansAp == RadioSpec => []ActiveMeansAp
<1>1. Inv => ActiveMeansAp
  <2> SUFFICES ASSUME Inv, queue = <<>>, hot = "idle" PROVE active <=> mode = "ap"
    BY DEF ActiveMeansAp
  <2>1. ~ApOn(queue) /\ ~ApOff(queue)
    BY OnEmpty
  <2> QED
    BY <2>1 DEF Inv, ApInv
<1> QED
  BY <1>1, InvHolds, PTL

\* The clients that are counted, and the arrivals and departures that are queued,
\* add up to the stations, until Stop() resets the count too early.
THEOREM ClientsAlwaysCounted == RadioSpec => []ClientsCounted
<1>1. Inv => ClientsCounted
  BY ExpectedIs DEF Inv, CountInv, ClientsCounted
<1> QED
  BY <1>1, InvHolds, PTL
==============================================================================

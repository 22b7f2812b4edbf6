----------------------------- MODULE CacheProofs -----------------------------
(***************************************************************************)
(* What Cache does for any keys, values and lifetimes, and any resolution  *)
(* of the clock: its types, and that its users cannot tell it from the map *)
(* of the entries that have not expired.                                   *)
(*                                                                         *)
(* The second holds as long as no expiry passes the end of the clock's     *)
(* range.  Beyond it a new entry's expiry lies in the past.                *)
(***************************************************************************)
EXTENDS Cache, FiniteSetTheorems, TLAPS

\* Every expiry the run of the clock can lead to is in the clock's range.
NoWrap == \A t \in Ttls : LastTick + t * TicksPerMs < ClockWrap

Finite == IsFiniteSet(DOMAIN cache_)

CacheInv == TypeOK /\ Finite

-----------------------------------------------------------------------------
(***************************************************************************)
(* What the operators of CacheOps return.                                  *)
(***************************************************************************)

LEMMA ExpiryInRange ==
  ASSUME NEW t \in Nat, NEW ttl \in Nat
  PROVE  /\ Expiry(t, ttl) \in 0 .. ClockWrap - 1
         /\ t + ttl * TicksPerMs < ClockWrap => Expiry(t, ttl) = t + ttl * TicksPerMs
<1>1. ClockWrap \in Nat \ {0} /\ TicksPerMs \in Nat \ {0}
  BY ClockAssumption
<1> DEFINE p == ttl * TicksPerMs
<1>2. p \in Nat
  BY <1>1
<1> HIDE DEF p
<1>3. p % ClockWrap \in 0 .. ClockWrap - 1
  BY <1>1, <1>2
<1>4. (t + (p % ClockWrap)) % ClockWrap \in 0 .. ClockWrap - 1
  BY <1>1, <1>3
<1>5. ASSUME t + p < ClockWrap PROVE (t + (p % ClockWrap)) % ClockWrap = t + p
  <2>1. p % ClockWrap = p
    BY <1>1, <1>2, <1>5
  <2>2. (t + p) % ClockWrap = t + p
    BY <1>1, <1>2, <1>5
  <2> QED
    BY <2>1, <2>2
<1> QED
  BY <1>4, <1>5 DEF Expiry, p

LEMMA KeepGives ==
  ASSUME NEW cache, NEW keys
  PROVE  /\ DOMAIN Keep(cache, keys) = keys
         /\ \A x \in keys : Keep(cache, keys)[x] = cache[x]
BY DEF Keep

\* After a lookup some entries are gone, and only expired ones.
LEMMA LookupKeeps ==
  ASSUME NEW cache, NEW k, NEW t
  PROVE  \E keys \in SUBSET DOMAIN cache :
           /\ \/ AfterLookup(cache, k, t) = cache
              \/ AfterLookup(cache, k, t) = Keep(cache, keys)
           /\ Live(cache, t) \subseteq keys
<1>1. CASE Found(cache, k, t)
  BY <1>1 DEF AfterLookup, Live
<1>2. CASE ~Found(cache, k, t)
  <2>1. AfterLookup(cache, k, t) = Keep(cache, DOMAIN cache \ {k})
    BY <1>2 DEF AfterLookup, Erase
  <2>2. Live(cache, t) \subseteq DOMAIN cache \ {k}
    BY <1>2 DEF Found, Live
  <2> QED
    BY <2>1, <2>2
<1> QED
  BY <1>1, <1>2

-----------------------------------------------------------------------------
(***************************************************************************)
(* Types.                                                                  *)
(***************************************************************************)

\* What a step leaves of the cache: part of it, or all of it and an entry.
Entries ==
  /\ DOMAIN cache_ \subseteq Keys
  /\ \A k \in DOMAIN cache_ : cache_[k].value \in Values
  /\ \A k \in DOMAIN cache_ : cache_[k].expiry \in 0 .. ClockWrap - 1
  /\ Finite

LEMMA CacheInvParts ==
  CacheInv <=> now \in 0 .. LastTick /\ defaultTtlMs_ \in Ttls /\ Entries
BY DEF CacheInv, TypeOK, Entries

LEMMA PartKeepsEntries ==
  ASSUME Entries, NEW keys \in SUBSET DOMAIN cache_,
         cache_' = cache_ \/ cache_' = Keep(cache_, keys)
  PROVE  Entries'
<1>1. CASE cache_' = cache_
  BY <1>1 DEF Entries, Finite
<1>2. CASE cache_' = Keep(cache_, keys)
  <2>1. DOMAIN cache_' = keys /\ \A x \in keys : cache_'[x] = cache_[x]
    BY <1>2, KeepGives
  <2>2. IsFiniteSet(keys)
    BY FS_Subset DEF Entries, Finite
  <2> QED
    BY <2>1, <2>2 DEF Entries, Finite
<1> QED
  BY <1>1, <1>2

LEMMA PutKeepsEntries ==
  ASSUME CacheInv, NEW k \in Keys, NEW v \in Values, NEW t \in Ttls, PutFor(k, v, t)
  PROVE  Entries'
<1>1. Entries /\ now \in Nat /\ t \in Nat
  BY CacheInvParts, TtlAssumption
<1>2. cache_' = Put(cache_, k, v, t, now)
  BY DEF PutFor
<1>3. /\ DOMAIN cache_' = DOMAIN cache_ \cup {k}
      /\ cache_'[k] = [value |-> v, expiry |-> Expiry(now, t)]
      /\ \A x \in DOMAIN cache_ : x # k => cache_'[x] = cache_[x]
  BY <1>2 DEF Put
<1>4. Expiry(now, t) \in 0 .. ClockWrap - 1
  BY <1>1, ExpiryInRange
<1>5. IsFiniteSet(DOMAIN cache_ \cup {k})
  BY <1>1, FS_AddElement DEF Entries, Finite
<1> QED
  BY <1>1, <1>3, <1>4, <1>5 DEF Entries, Finite

LEMMA InvStarts == ASSUME Init PROVE CacheInv
<1>1. DOMAIN cache_ = {}
  BY DEF Init, Empty
<1>2. now \in 0 .. LastTick /\ defaultTtlMs_ \in Ttls
  BY TtlAssumption DEF Init
<1>3. Entries
  BY <1>1, FS_EmptySet DEF Entries, Finite
<1> QED
  BY <1>2, <1>3, CacheInvParts

LEMMA InvSteps == ASSUME CacheInv, [Next]_vars PROVE CacheInv'
<1>a. now \in 0 .. LastTick /\ defaultTtlMs_ \in Ttls /\ Entries
  BY CacheInvParts
<1>b. ASSUME now' \in 0 .. LastTick, defaultTtlMs_' \in Ttls, Entries' PROVE CacheInv'
  BY <1>b DEF CacheInv, TypeOK, Entries
<1>c. ASSUME UNCHANGED cache_ PROVE Entries'
  BY <1>a, <1>c DEF Entries, Finite
<1>1. CASE UNCHANGED vars
  BY <1>1, <1>a, <1>b, <1>c DEF vars
<1>2. CASE Tick
  <2>1. now' \in 0 .. LastTick
    BY <1>2, <1>a, TtlAssumption DEF Tick
  <2> QED
    BY <1>2, <1>a, <1>b, <1>c, <2>1 DEF Tick
<1>3. ASSUME NEW k \in Keys, Get(k) \/ Contains(k) PROVE CacheInv'
  <2>1. cache_' = AfterLookup(cache_, k, now) /\ UNCHANGED <<now, defaultTtlMs_>>
    BY <1>3 DEF Get, Contains
  <2>2. Entries'
    BY <1>a, <2>1, LookupKeeps, PartKeepsEntries
  <2> QED
    BY <1>a, <1>b, <2>1, <2>2
<1>4. ASSUME NEW k \in Keys, Remove(k) PROVE CacheInv'
  <2>1. cache_' = Keep(cache_, DOMAIN cache_ \ {k}) /\ UNCHANGED <<now, defaultTtlMs_>>
    BY <1>4 DEF Remove, Erase
  <2>2. Entries'
    BY <1>a, <2>1, PartKeepsEntries
  <2> QED
    BY <1>a, <1>b, <2>1, <2>2
<1>5. ASSUME NEW k \in Keys, NEW v \in Values, NEW t \in Ttls, PutFor(k, v, t)
      PROVE  CacheInv'
  <2>1. UNCHANGED <<now, defaultTtlMs_>>
    BY <1>5 DEF PutFor
  <2> QED
    BY <1>5, <1>a, <1>b, <2>1, PutKeepsEntries
<1>6. ASSUME NEW k \in Keys, NEW v \in Values, PutDefault(k, v) PROVE CacheInv'
  BY <1>5, <1>6, <1>a DEF PutDefault
<1>7. CASE Clear
  <2>1. DOMAIN cache_' = {} /\ UNCHANGED <<now, defaultTtlMs_>>
    BY <1>7 DEF Clear, Empty
  <2>2. Entries'
    BY <2>1, FS_EmptySet DEF Entries, Finite
  <2> QED
    BY <1>a, <1>b, <2>1, <2>2
<1>8. CASE GetSize
  <2>1. PICK kept \in SUBSET Live(cache_, now) : cache_' = Keep(cache_, kept)
    BY <1>8 DEF GetSize
  <2>2. kept \in SUBSET DOMAIN cache_
    BY DEF Live
  <2>3. Entries'
    BY <1>a, <2>1, <2>2, PartKeepsEntries
  <2>4. now' \in now .. (now + 1) /\ now' <= LastTick /\ defaultTtlMs_' = defaultTtlMs_
    BY <1>8 DEF GetSize
  <2>5. now' \in 0 .. LastTick
    BY <1>a, <2>4, TtlAssumption
  <2> QED
    BY <1>a, <1>b, <2>3, <2>4, <2>5
<1>9. ASSUME NEW t \in Ttls, SetDefaultTtl(t) PROVE CacheInv'
  BY <1>9, <1>a, <1>b, <1>c DEF SetDefaultTtl
<1> QED
  BY <1>1, <1>2, <1>3, <1>4, <1>5, <1>6, <1>7, <1>8, <1>9 DEF Next

LEMMA InvAlways == Spec => []CacheInv
<1>1. Init => CacheInv
  BY InvStarts
<1>2. CacheInv /\ [Next]_vars => CacheInv'
  BY InvSteps
<1> QED
  BY <1>1, <1>2, PTL DEF Spec

\* Every entry of the cache is one that some Put() can have made; its expiry
\* is in the range of the clock even when the sum in Put() was not.
THEOREM TypeCorrect == Spec => []TypeOK
<1>1. CacheInv => TypeOK
  BY DEF CacheInv
<1> QED
  BY <1>1, InvAlways, PTL

-----------------------------------------------------------------------------
(***************************************************************************)
(* The map of the entries that have not expired.                           *)
(***************************************************************************)

Visible == Keep(cache_, Live(cache_, now))

LEMMA VisibleGives ==
  /\ DOMAIN Visible = Live(cache_, now)
  /\ \A k \in Live(cache_, now) : Visible[k] = cache_[k]
BY DEF Visible, Keep

\* Two caches with the same live entries are the same map.
LEMMA SameVisible ==
  ASSUME Live(cache_, now)' = Live(cache_, now),
         \A k \in Live(cache_, now) : cache_'[k] = cache_[k]
  PROVE  Visible' = Visible
BY DEF Visible, Keep

\* A step that takes no time and keeps part of the cache.
LEMMA PartKeepsVisible ==
  ASSUME Entries, now' = now, NEW keys \in SUBSET DOMAIN cache_,
         cache_' = cache_ \/ cache_' = Keep(cache_, keys),
         Live(cache_, now) \subseteq keys
  PROVE  Visible' = Visible
<1>1. CASE cache_' = cache_
  BY <1>1 DEF Visible
<1>2. CASE cache_' = Keep(cache_, keys)
  <2>1. DOMAIN cache_' = keys /\ \A x \in keys : cache_'[x] = cache_[x]
    BY <1>2, KeepGives
  <2>2. Live(cache_, now)' = Live(cache_, now)
    BY <2>1 DEF Live, Expired
  <2> QED
    BY <2>1, <2>2, SameVisible
<1> QED
  BY <1>1, <1>2

\* When time passes, what stays visible is what has not expired by then.
LEMMA TimeKeepsVisible ==
  ASSUME CacheInv, now' \in Nat, now' >= now,
         NEW keys \in SUBSET DOMAIN cache_,
         cache_' = cache_ \/ cache_' = Keep(cache_, keys),
         Live(cache_, now') \subseteq keys
  PROVE  /\ Visible' = Map!Unexpired(now')
         /\ DOMAIN Visible' = Live(cache_, now')
<1>a. Entries /\ now \in Nat
  BY CacheInvParts, TtlAssumption
<1>1. /\ DOMAIN cache_' \subseteq DOMAIN cache_
      /\ \A x \in DOMAIN cache_' : cache_'[x] = cache_[x]
  BY KeepGives
<1>2. Live(cache_, now') \subseteq DOMAIN cache_'
  BY KeepGives DEF Live
<1>3. Live(cache_, now)' = Live(cache_, now')
  BY <1>1, <1>2 DEF Live, Expired
<1>4. \A k \in DOMAIN cache_ : cache_[k].expiry \in Nat
  BY <1>a, ClockAssumption DEF Entries
<1>5. {x \in DOMAIN Visible : Visible[x].expiry >= now'} = Live(cache_, now')
  BY <1>a, <1>4, VisibleGives DEF Live, Expired
<1>6. Map!Unexpired(now') = [k \in Live(cache_, now') |-> Visible[k]]
  BY <1>5 DEF Map!Unexpired, Visible
<1>7. \A k \in Live(cache_, now') : k \in Live(cache_, now)
  BY <1>a, <1>4 DEF Live, Expired
<1>8. Visible' = [k \in Live(cache_, now') |-> cache_'[k]]
  BY <1>3 DEF Visible, Keep
<1>9. \A k \in Live(cache_, now') : cache_'[k] = Visible[k]
  BY <1>1, <1>2, <1>7, VisibleGives
<1> QED
  BY <1>3, <1>6, <1>8, <1>9

LEMMA InitMaps == ASSUME Init PROVE Map!Init
<1>1. /\ cache_ = Empty /\ DOMAIN Empty = {} /\ last = <<"pass">>
      /\ now = 0 /\ defaultTtlMs_ \in Ttls
  BY DEF Init, Empty
<1>2. Live(cache_, now) = {}
  BY <1>1 DEF Live
<1>3. Keep(cache_, Live(cache_, now)) = [k \in {} |-> k]
  BY <1>2 DEF Keep
<1> QED
  BY <1>1, <1>3 DEF Map!Init

LEMMA PassMaps == ASSUME CacheInv, Tick PROVE Map!Pass
<1>a. now \in Nat
  BY CacheInvParts
<1>1. /\ now' = now + 1 /\ cache_' = cache_ /\ last' = <<"pass">>
      /\ defaultTtlMs_' = defaultTtlMs_
  BY DEF Tick
<1>2. now' \in Nat /\ now' >= now /\ now' > now
  BY <1>a, <1>1
<1>3. Live(cache_, now') \subseteq DOMAIN cache_
  BY DEF Live
<1>4. Visible' = Map!Unexpired(now')
  BY <1>1, <1>2, <1>3, TimeKeepsVisible
<1> QED
  BY <1>1, <1>2, <1>4 DEF Map!Pass, Visible

LEMMA PutMaps ==
  ASSUME CacheInv, NoWrap, NEW k \in Keys, NEW v \in Values, NEW t \in Ttls, PutFor(k, v, t)
  PROVE  Map!Put(k, v, t)
<1>a. Entries /\ now \in 0 .. LastTick /\ LastTick \in Nat /\ t \in Nat
  BY CacheInvParts, TtlAssumption
<1>1. /\ cache_' = Put(cache_, k, v, t, now) /\ last' = <<"put", k, v, t>>
      /\ now' = now /\ defaultTtlMs_' = defaultTtlMs_
  BY DEF PutFor
<1>2. t * TicksPerMs \in Nat /\ ClockWrap \in Nat
  BY <1>a, ClockAssumption
<1>3. LastTick + t * TicksPerMs < ClockWrap
  BY DEF NoWrap
<1>4. now + t * TicksPerMs < ClockWrap
  BY <1>a, <1>2, <1>3
<1>5. Expiry(now, t) = now + t * TicksPerMs
  BY <1>a, <1>4, ExpiryInRange
<1> DEFINE new == [value |-> v, expiry |-> now + t * TicksPerMs]
<1>6. /\ DOMAIN cache_' = DOMAIN cache_ \cup {k} /\ cache_'[k] = new
      /\ \A x \in DOMAIN cache_ : x # k => cache_'[x] = cache_[x]
  BY <1>1, <1>5 DEF Put
<1>7. ~Expired(new, now)
  BY <1>a, <1>2 DEF Expired
<1> HIDE DEF new
<1>8. Live(cache_, now)' = Live(cache_, now) \cup {k}
  BY <1>1, <1>6, <1>7 DEF Live
<1>9. Visible' = [x \in Live(cache_, now) \cup {k} |-> cache_'[x]]
  BY <1>8 DEF Visible, Keep
<1>10. \A x \in Live(cache_, now) \cup {k} : cache_'[x] = IF x = k THEN new ELSE Visible[x]
  BY <1>6, VisibleGives DEF Live
<1>11. Visible' = [x \in DOMAIN Visible \cup {k} |-> IF x = k THEN new ELSE Visible[x]]
  BY <1>9, <1>10, VisibleGives
<1> QED
  BY <1>1, <1>11 DEF Map!Put, Visible, new

LEMMA LookupMaps ==
  ASSUME CacheInv, NEW k \in Keys, Get(k) \/ Contains(k)
  PROVE  Map!Get(k) \/ Map!Contains(k)
<1>1. cache_' = AfterLookup(cache_, k, now) /\ now' = now /\ defaultTtlMs_' = defaultTtlMs_
  BY DEF Get, Contains
<1>2. Visible' = Visible
  BY <1>1, LookupKeeps, PartKeepsVisible, CacheInvParts
<1>3. Found(cache_, k, now) <=> k \in DOMAIN Visible
  BY VisibleGives DEF Found
<1>4. (IF Found(cache_, k, now) THEN {cache_[k].value} ELSE {})
        = {Visible[x].value : x \in DOMAIN Visible \cap {k}}
  <2>1. CASE Found(cache_, k, now)
    <3>1. DOMAIN Visible \cap {k} = {k} /\ Visible[k] = cache_[k]
      BY <1>3, <2>1, VisibleGives
    <3> QED
      BY <2>1, <3>1
  <2>2. CASE ~Found(cache_, k, now)
    <3>1. DOMAIN Visible \cap {k} = {}
      BY <1>3, <2>2
    <3> QED
      BY <2>2, <3>1
  <2> QED
    BY <2>1, <2>2
<1>5. CASE Get(k)
  <2>1. last' = <<"get", k, {Visible[x].value : x \in DOMAIN Visible \cap {k}}>>
    BY <1>4, <1>5 DEF Get
  <2> QED
    BY <1>1, <1>2, <2>1 DEF Map!Get, Visible
<1>6. CASE Contains(k)
  <2>1. last' = <<"contains", k, Found(cache_, k, now)>>
    BY <1>6 DEF Contains
  <2>2. Found(cache_, k, now) = (k \in DOMAIN Visible)
    BY VisibleGives DEF Found
  <2>3. last' = <<"contains", k, k \in DOMAIN Visible>>
    BY <2>1, <2>2
  <2> QED
    BY <1>1, <1>2, <2>3 DEF Map!Contains, Visible
<1> QED
  BY <1>5, <1>6

LEMMA DropMaps ==
  ASSUME CacheInv, NEW keys, cache_' = Keep(cache_, DOMAIN cache_ \ keys),
         last' = <<"drop", keys>>, UNCHANGED <<now, defaultTtlMs_>>
  PROVE  Map!Drop(keys)
<1>1. /\ DOMAIN cache_' = DOMAIN cache_ \ keys
      /\ \A x \in DOMAIN cache_ \ keys : cache_'[x] = cache_[x]
  BY KeepGives
<1>2. Live(cache_, now)' = Live(cache_, now) \ keys
  BY <1>1 DEF Live
<1>3. Visible' = [x \in Live(cache_, now) \ keys |-> cache_'[x]]
  BY <1>2 DEF Visible, Keep
<1>4. \A x \in Live(cache_, now) \ keys : cache_'[x] = Visible[x]
  BY <1>1, VisibleGives DEF Live
<1>5. Visible' = [x \in DOMAIN Visible \ keys |-> Visible[x]]
  BY <1>3, <1>4, VisibleGives
<1> QED
  BY <1>5 DEF Map!Drop, Visible

\* The map counts by its own instance of the standard operator.
LEMMA SameCardinality == \A S : Map!Cardinality(S) = Cardinality(S)
BY DEF Map!Cardinality, Cardinality

LEMMA CountMaps == ASSUME CacheInv, GetSize PROVE Map!Count
<1>a. Entries /\ now \in Nat
  BY CacheInvParts
<1>1. now' \in now .. (now + 1) /\ defaultTtlMs_' = defaultTtlMs_
  BY DEF GetSize
<1>2. now' \in Nat /\ now' >= now
  BY <1>a, <1>1
<1>3. PICK kept \in SUBSET Live(cache_, now) :
        /\ Live(cache_, now') \subseteq kept
        /\ cache_' = Keep(cache_, kept)
        /\ last' = <<"size", Cardinality(kept)>>
  BY DEF GetSize
<1>4. Live(cache_, now) \subseteq DOMAIN cache_
  BY DEF Live
<1>5. Visible' = Map!Unexpired(now') /\ DOMAIN Visible' = Live(cache_, now')
  BY <1>2, <1>3, <1>4, TimeKeepsVisible
<1>6. IsFiniteSet(Live(cache_, now)) /\ IsFiniteSet(kept)
  BY <1>a, <1>4, FS_Subset DEF Entries, Finite
<1>7. /\ Cardinality(Live(cache_, now')) <= Cardinality(kept)
      /\ Cardinality(kept) <= Cardinality(Live(cache_, now))
      /\ IsFiniteSet(Live(cache_, now'))
  BY <1>3, <1>6, FS_Subset
<1>8. /\ Cardinality(Live(cache_, now')) \in Nat /\ Cardinality(kept) \in Nat
      /\ Cardinality(Live(cache_, now)) \in Nat
  BY <1>6, <1>7, FS_CardinalityType
<1>9. Cardinality(kept) \in Cardinality(DOMAIN Visible') .. Cardinality(DOMAIN Visible)
  BY <1>5, <1>7, <1>8, VisibleGives
<1>10. \E n \in Cardinality(DOMAIN Visible') .. Cardinality(DOMAIN Visible) :
         last' = <<"size", n>>
  BY <1>3, <1>9
<1> QED
  BY <1>1, <1>2, <1>5, <1>10, SameCardinality DEF Map!Count, Visible

LEMMA StepMaps ==
  ASSUME CacheInv, NoWrap, [Next]_vars
  PROVE  [Map!Next]_<<now, Visible, defaultTtlMs_, last>>
<1>a. defaultTtlMs_ \in Ttls
  BY CacheInvParts
<1>1. CASE UNCHANGED vars
  BY <1>1 DEF vars, Visible
<1>2. CASE Tick
  BY <1>2, PassMaps DEF Map!Next
<1>3. ASSUME NEW k \in Keys, Get(k) \/ Contains(k) PROVE Map!Next
  BY <1>3, LookupMaps DEF Map!Next
<1>4. ASSUME NEW k \in Keys, Remove(k) PROVE Map!Next
  <2>1. Map!Drop({k})
    BY <1>4, DropMaps DEF Remove, Erase
  <2> QED
    BY <2>1 DEF Map!Next
<1>5. ASSUME NEW k \in Keys, NEW v \in Values, NEW t \in Ttls, PutFor(k, v, t)
      PROVE  Map!Next
  BY <1>5, PutMaps DEF Map!Next
<1>6. ASSUME NEW k \in Keys, NEW v \in Values, PutDefault(k, v) PROVE Map!Next
  BY <1>5, <1>6, <1>a DEF PutDefault
<1>7. CASE Clear
  <2>1. DOMAIN cache_ \ Keys = {}
    BY CacheInvParts DEF Entries
  <2>2. Keep(cache_, {}) = Empty
    BY DEF Keep, Empty
  <2>3. Map!Drop(Keys)
    BY <1>7, <2>1, <2>2, DropMaps DEF Clear
  <2> QED
    BY <2>3 DEF Map!Next
<1>8. CASE GetSize
  BY <1>8, CountMaps DEF Map!Next
<1>9. ASSUME NEW t \in Ttls, SetDefaultTtl(t) PROVE Map!Next
  <2>1. Visible' = Visible
    BY <1>9 DEF SetDefaultTtl, Visible
  <2>2. Map!SetDefault
    BY <1>9, <2>1 DEF SetDefaultTtl, Map!SetDefault, Visible
  <2> QED
    BY <2>2 DEF Map!Next
<1> QED
  BY <1>1, <1>2, <1>3, <1>4, <1>5, <1>6, <1>7, <1>8, <1>9 DEF Next

\* Lazy eviction cannot be told from eager: whatever is put, looked up, removed
\* and counted, and whenever time passes, every answer of the cache is one of
\* the map whose entries vanish by themselves when their time is up.
THEOREM LazyActsAsEager == ASSUME NoWrap PROVE Spec => ActsAsTtlMap
<1>1. Init => Map!Init
  BY InitMaps
<1>2. CacheInv /\ [Next]_vars =>
        [Map!Next]_<<now, Keep(cache_, Live(cache_, now)), defaultTtlMs_, last>>
  BY StepMaps DEF Visible
<1> QED
  BY <1>1, <1>2, InvAlways, PTL DEF Spec, ActsAsTtlMap, Map!Spec
==============================================================================

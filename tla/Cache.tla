-------------------------------- MODULE Cache --------------------------------
(***************************************************************************)
(* Cache<K, V> as its users drive it: one caller at a time, a clock that   *)
(* runs on between and during calls, and entries evicted only when a call  *)
(* comes across them.                                                      *)
(***************************************************************************)
EXTENDS CacheOps, FiniteSets

CONSTANTS Keys, Values,
  Ttls,     \* times-to-live callers pass, in milliseconds
  LastTick  \* the run of the clock that is looked at

ASSUME TtlAssumption ==
  /\ Ttls \subseteq Nat
  /\ LastTick \in Nat

VARIABLES
  now,
  cache_,
  defaultTtlMs_,
  last  \* the last call, what it was given and what it answered

vars == <<now, cache_, defaultTtlMs_, last>>

Init ==
  /\ now = 0
  /\ cache_ = Empty
  /\ defaultTtlMs_ \in Ttls
  /\ last = <<"pass">>

-----------------------------------------------------------------------------
\* Faulty variants, each substituted for its original to show that a property
\* depends on it.

\* An expired entry is not erased and not recognised.
GetStale(k) ==
  /\ last' = <<"get", k, {cache_[x].value : x \in DOMAIN cache_ \cap {k}}>>
  /\ UNCHANGED <<now, cache_, defaultTtlMs_>>

\* Entries that expired before the count are not swept.
GetSizeUnswept ==
  /\ now' \in now .. (now + 1) /\ now' <= LastTick
  /\ last' = <<"size", Cardinality(DOMAIN cache_)>>
  /\ UNCHANGED <<cache_, defaultTtlMs_>>

\* The lifetime is added in milliseconds to a clock that counts ticks.
PutUnscaled(k, v, ttlMs) ==
  /\ cache_' = [x \in DOMAIN cache_ \cup {k} |->
       IF x = k THEN [value |-> v, expiry |-> now + ttlMs] ELSE cache_[x]]
  /\ last' = <<"put", k, v, ttlMs>>
  /\ UNCHANGED <<now, defaultTtlMs_>>

-----------------------------------------------------------------------------
Tick ==
  /\ now < LastTick
  /\ now' = now + 1
  /\ last' = <<"pass">>
  /\ UNCHANGED <<cache_, defaultTtlMs_>>

PutFor(k, v, ttlMs) ==
  /\ cache_' = Put(cache_, k, v, ttlMs, now)
  /\ last' = <<"put", k, v, ttlMs>>
  /\ UNCHANGED <<now, defaultTtlMs_>>

PutDefault(k, v) == PutFor(k, v, defaultTtlMs_)

Get(k) ==
  /\ last' = <<"get", k, IF Found(cache_, k, now) THEN {cache_[k].value} ELSE {}>>
  /\ cache_' = AfterLookup(cache_, k, now)
  /\ UNCHANGED <<now, defaultTtlMs_>>

Contains(k) ==
  /\ last' = <<"contains", k, Found(cache_, k, now)>>
  /\ cache_' = AfterLookup(cache_, k, now)
  /\ UNCHANGED <<now, defaultTtlMs_>>

Remove(k) ==
  /\ cache_' = Erase(cache_, {k})
  /\ last' = <<"drop", {k}>>
  /\ UNCHANGED <<now, defaultTtlMs_>>

Clear ==
  /\ cache_' = Empty
  /\ last' = <<"drop", Keys>>
  /\ UNCHANGED <<now, defaultTtlMs_>>

\* The sweep reads the clock anew for each entry, so an entry that expires
\* while it runs may be counted or not.
GetSize ==
  /\ now' \in now .. (now + 1) /\ now' <= LastTick
  /\ \E kept \in SUBSET Live(cache_, now) :
       /\ Live(cache_, now') \subseteq kept
       /\ cache_' = Keep(cache_, kept)
       /\ last' = <<"size", Cardinality(kept)>>
  /\ UNCHANGED defaultTtlMs_

SetDefaultTtl(ttlMs) ==
  /\ defaultTtlMs_' = ttlMs
  /\ last' = <<"default", ttlMs>>
  /\ UNCHANGED <<now, cache_>>

Next ==
  \/ Tick
  \/ \E k \in Keys : Get(k) \/ Contains(k) \/ Remove(k)
  \/ \E k \in Keys, v \in Values : PutDefault(k, v) \/ \E t \in Ttls : PutFor(k, v, t)
  \/ Clear \/ GetSize
  \/ \E t \in Ttls : SetDefaultTtl(t)

Spec == Init /\ [][Next]_vars

-----------------------------------------------------------------------------
\* Every entry is one that some Put() can have made.
TypeOK ==
  /\ now \in 0 .. LastTick
  /\ DOMAIN cache_ \subseteq Keys
  /\ \A k \in DOMAIN cache_ : /\ cache_[k].value \in Values
                             /\ cache_[k].expiry \in 0 .. (ClockWrap - 1)
  /\ defaultTtlMs_ \in Ttls

\* Lazy eviction cannot be told from eager: to its users the cache is the map of
\* the entries that have not expired.
Map == INSTANCE TtlMap WITH
  map <- Keep(cache_, Live(cache_, now)),
  ttl <- defaultTtlMs_

ActsAsTtlMap == Map!Spec
=============================================================================

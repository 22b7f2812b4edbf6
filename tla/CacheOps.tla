------------------------------ MODULE CacheOps ------------------------------
(***************************************************************************)
(* What the methods of Cache<K, V> compute.  A cache is a function from    *)
(* the keys it holds to entries; an entry whose expiry has passed stays in *)
(* the map until a method that looks at it erases it.                      *)
(***************************************************************************)
EXTENDS Integers

CONSTANTS
  TicksPerMs,  \* resolution of Now() relative to the unit of a time-to-live
  ClockWrap    \* Now() and expiry are unsigned and wrap around here

ASSUME ClockAssumption ==
  /\ TicksPerMs \in Nat \ {0}
  /\ ClockWrap \in Nat \ {0}

Empty == [k \in {} |-> k]

Expired(entry, t) == t > entry.expiry

Holds(cache, k) == k \in DOMAIN cache

Live(cache, t) == {k \in DOMAIN cache : ~Expired(cache[k], t)}

Keep(cache, keys) == [k \in keys |-> cache[k]]

Erase(cache, keys) == Keep(cache, DOMAIN cache \ keys)

\* The product wraps before the sum does.
Expiry(t, ttl) == (t + ((ttl * TicksPerMs) % ClockWrap)) % ClockWrap

\* An entry that is there is overwritten, expired or not.
Put(cache, k, v, ttl, t) ==
  [x \in DOMAIN cache \cup {k} |->
     IF x = k THEN [value |-> v, expiry |-> Expiry(t, ttl)] ELSE cache[x]]

\* Get() and Contains() find a live entry and erase an expired one.
Found(cache, k, t) == k \in Live(cache, t)

AfterLookup(cache, k, t) ==
  IF Found(cache, k, t) THEN cache ELSE Erase(cache, {k})
=============================================================================

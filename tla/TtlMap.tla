------------------------------- MODULE TtlMap -------------------------------
(***************************************************************************)
(* What a user of Cache<K, V> relies on: a map whose entries vanish by     *)
(* themselves when their time is up.  `last' is the last call with what it *)
(* was given and what it answered.                                         *)
(***************************************************************************)
EXTENDS Integers, FiniteSets

CONSTANTS Keys, Values, Ttls, TicksPerMs

VARIABLES
  now,
  map,   \* the entries that have not expired
  ttl,   \* default time-to-live
  last

Init ==
  /\ now \in Nat
  /\ map = [k \in {} |-> k]
  /\ ttl \in Ttls
  /\ last = <<"pass">>

Unexpired(t) == [k \in {x \in DOMAIN map : map[x].expiry >= t} |-> map[k]]

Pass ==
  /\ now' > now
  /\ map' = Unexpired(now')
  /\ last' = <<"pass">>
  /\ UNCHANGED ttl

Put(k, v, t) ==
  /\ map' = [x \in DOMAIN map \cup {k} |->
               IF x = k THEN [value |-> v, expiry |-> now + t * TicksPerMs] ELSE map[x]]
  /\ last' = <<"put", k, v, t>>
  /\ UNCHANGED <<now, ttl>>

Get(k) ==
  /\ last' = <<"get", k, {map[x].value : x \in DOMAIN map \cap {k}}>>
  /\ UNCHANGED <<now, map, ttl>>

Contains(k) ==
  /\ last' = <<"contains", k, k \in DOMAIN map>>
  /\ UNCHANGED <<now, map, ttl>>

\* Time may pass while entries are counted: those that expire meanwhile may or
\* may not be among the counted.
Count ==
  /\ now' >= now
  /\ map' = Unexpired(now')
  /\ \E n \in Cardinality(DOMAIN map') .. Cardinality(DOMAIN map) : last' = <<"size", n>>
  /\ UNCHANGED ttl

Drop(keys) ==
  /\ map' = [k \in DOMAIN map \ keys |-> map[k]]
  /\ last' = <<"drop", keys>>
  /\ UNCHANGED <<now, ttl>>

SetDefault ==
  /\ ttl' \in Ttls
  /\ last' = <<"default", ttl'>>
  /\ UNCHANGED <<now, map>>

Next ==
  \/ Pass
  \/ \E k \in Keys : Get(k) \/ Contains(k) \/ Drop({k})
  \/ \E k \in Keys, v \in Values, t \in Ttls : Put(k, v, t)
  \/ Count
  \/ Drop(Keys)
  \/ SetDefault

Spec == Init /\ [][Next]_<<now, map, ttl, last>>
=============================================================================

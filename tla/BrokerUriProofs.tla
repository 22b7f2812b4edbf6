--------------------------- MODULE BrokerUriProofs ---------------------------
(***************************************************************************)
(* What BrokerUri makes of an endpoint of any length.                      *)
(*                                                                         *)
(* A search returns the least position at which it finds its text; that    *)
(* there is one is because the natural numbers are well founded.  What     *)
(* NormalizeMqttUri() puts before or into an endpoint moves the positions  *)
(* that the later searches find by known amounts, which leaves the same    *)
(* host between them and the same port behind.                             *)
(***************************************************************************)
EXTENDS BrokerUri, SequenceTheorems, WellFoundedInduction, TLAPS

-----------------------------------------------------------------------------
(***************************************************************************)
(* Searches.                                                               *)
(***************************************************************************)

LEMMA LeastNat ==
  ASSUME NEW T, T \subseteq Nat, T # {}
  PROVE  \E n \in T : \A m \in T : n <= m
<1>1. PICK n \in T : \A m \in T : <<m, n>> \notin OpToRel(<, Nat)
  BY NatLessThanWellFounded, WFMin
<1>2. \A m \in T : ~(m < n)
  BY <1>1 DEF OpToRel
<1> QED
  BY <1>2

LEMMA FindGives ==
  ASSUME NEW S, NEW s \in Seq(S), NEW what, Len(what) \in Nat \ {0}, NEW from \in Nat \ {0}
  PROVE  LET r == Find(s, what, from)
             places == from .. Len(s) + 1 - Len(what)
         IN  /\ r \in 1 .. Len(s) + 1
             /\ r <= Len(s) => r \in places /\ SubSeq(s, r, r + Len(what) - 1) = what
             /\ \A i \in places : SubSeq(s, i, i + Len(what) - 1) = what => r <= i
<1> DEFINE r == Find(s, what, from)
           places == from .. Len(s) + 1 - Len(what)
           found == {i \in places : SubSeq(s, i, i + Len(what) - 1) = what}
           T == {Len(s) + 1} \cup found
<1>1. Len(s) \in Nat
  BY LenProperties
<1>2. places \subseteq 1 .. Len(s) + 1
  BY <1>1
<1>3. T \subseteq Nat /\ T # {} /\ Len(s) + 1 \in T /\ found \subseteq T
  BY <1>1, <1>2
<1>4. r = CHOOSE n \in T : \A m \in T : n <= m
  BY DEF Find, Min
<1> HIDE DEF r, T
<1>5. r \in T /\ \A m \in T : r <= m
  BY <1>3, <1>4, LeastNat
<1>6. r = Len(s) + 1 \/ r \in found
  BY <1>5 DEF T
<1>7. r \in 1 .. Len(s) + 1
  BY <1>1, <1>2, <1>6
<1>8. r <= Len(s) => r \in found
  BY <1>1, <1>6
<1>9. \A i \in places : SubSeq(s, i, i + Len(what) - 1) = what => r <= i
  BY <1>3, <1>5
<1> QED
  BY <1>7, <1>8, <1>9 DEF r

\* A search for one character.
LEMMA CharFound ==
  ASSUME NEW S, NEW s \in Seq(S), NEW x, NEW from \in Nat \ {0}
  PROVE  LET r == Find(s, <<x>>, from)
         IN  /\ r \in 1 .. Len(s) + 1
             /\ r <= Len(s) => from <= r /\ s[r] = x
             /\ \A i \in 1 .. Len(s) : from <= i /\ i < r => s[i] # x
<1> DEFINE r == Find(s, <<x>>, from)
<1>1. Len(s) \in Nat /\ Len(<<x>>) = 1 /\ \A i \in 1 .. Len(s) : s[i] \in S
  BY LenProperties, ElementOfSeq
<1>2. \A i \in 1 .. Len(s) : SubSeq(s, i, i) = <<x>> <=> s[i] = x
  <2> TAKE i \in 1 .. Len(s)
  <2>1. /\ SubSeq(s, i, i) \in Seq(S) /\ Len(SubSeq(s, i, i)) = 1
        /\ SubSeq(s, i, i)[1] = s[i]
    <3>1. i \in Int /\ i - i + 1 = 1 /\ i + 1 - 1 = i /\ \A j \in i .. i : s[j] \in S
      BY <1>1
    <3> QED
      BY <3>1, SubSeqProperties
  <2>2. SubSeq(s, i, i) = <<x>> => s[i] = x
    BY <2>1
  <2>3. ASSUME s[i] = x PROVE SubSeq(s, i, i) = <<x>>
    <3>1. x \in S /\ <<x>> \in Seq(S) /\ <<x>>[1] = x
      BY <1>1, <2>3
    <3>2. PICK t : t = SubSeq(s, i, i)
      OBVIOUS
    <3>3. t \in Seq(S) /\ Len(t) = Len(<<x>>) /\ \A j \in 1 .. Len(t) : t[j] = <<x>>[j]
      BY <1>1, <2>1, <2>3, <3>1, <3>2
    <3>4. t = <<x>>
      BY <3>1, <3>3, SeqEqual
    <3> QED
      BY <3>2, <3>4
  <2> QED
    BY <2>2, <2>3
<1>3. /\ r \in 1 .. Len(s) + 1
      /\ r <= Len(s) => r \in from .. Len(s) + 1 - 1 /\ SubSeq(s, r, r + 1 - 1) = <<x>>
      /\ \A i \in from .. Len(s) + 1 - 1 : SubSeq(s, i, i + 1 - 1) = <<x>> => r <= i
  <2>1. PICK w : w = <<x>> /\ Len(w) = 1
    BY <1>1
  <2>2. LET q == Find(s, w, from)
            places == from .. Len(s) + 1 - Len(w)
        IN  /\ q \in 1 .. Len(s) + 1
            /\ q <= Len(s) => q \in places /\ SubSeq(s, q, q + Len(w) - 1) = w
            /\ \A i \in places : SubSeq(s, i, i + Len(w) - 1) = w => q <= i
    <3>1. Len(w) \in Nat \ {0}
      BY <2>1
    <3> QED
      BY <3>1, FindGives
  <2> QED
    BY <2>1, <2>2
<1> HIDE DEF r
<1>4. r <= Len(s) => from <= r /\ s[r] = x
  <2> SUFFICES ASSUME r <= Len(s) PROVE from <= r /\ s[r] = x
    OBVIOUS
  <2>1. r \in 1 .. Len(s) /\ r + 1 - 1 = r /\ from <= r
    BY <1>1, <1>3
  <2> QED
    BY <1>2, <1>3, <2>1
<1>5. ASSUME NEW i \in 1 .. Len(s), from <= i, i < r PROVE s[i] # x
  <2>1. i \in from .. Len(s) + 1 - 1 /\ i + 1 - 1 = i /\ ~(r <= i)
    BY <1>1, <1>3, <1>5
  <2> QED
    BY <1>2, <1>3, <2>1
<1> QED
  BY <1>3, <1>4, <1>5 DEF r

\* There is only one such position.
LEMMA CharIs ==
  ASSUME NEW S, NEW s \in Seq(S), NEW x, NEW from \in Nat \ {0}, NEW r \in 1 .. Len(s) + 1,
         r <= Len(s) => from <= r /\ s[r] = x,
         \A i \in 1 .. Len(s) : from <= i /\ i < r => s[i] # x
  PROVE  Find(s, <<x>>, from) = r
<1>1. Len(s) \in Nat
  BY LenProperties
<1>2. PICK q : q = Find(s, <<x>>, from)
  OBVIOUS
<1>3. /\ q \in 1 .. Len(s) + 1
      /\ q <= Len(s) => from <= q /\ s[q] = x
      /\ \A i \in 1 .. Len(s) : from <= i /\ i < q => s[i] # x
  BY <1>2, CharFound
<1>4. ~(q < r)
  <2> SUFFICES ASSUME q < r PROVE FALSE
    OBVIOUS
  <2>1. q <= Len(s) /\ q \in 1 .. Len(s)
    BY <1>1, <1>3
  <2> QED
    BY <1>3, <2>1
<1>5. ~(r < q)
  <2> SUFFICES ASSUME r < q PROVE FALSE
    OBVIOUS
  <2>1. r <= Len(s) /\ r \in 1 .. Len(s)
    BY <1>1, <1>3
  <2> QED
    BY <1>3, <2>1
<1> QED
  BY <1>1, <1>2, <1>3, <1>4, <1>5

\* The search for "://".
Starts(s, i) == i + 2 <= Len(s) /\ s[i] = ":" /\ s[i + 1] = "/" /\ s[i + 2] = "/"

LEMMA StartsHere ==
  ASSUME NEW S, NEW s \in Seq(S), NEW i \in 1 .. Len(s) - 2
  PROVE  SubSeq(s, i, i + 2) = Scheme <=> Starts(s, i)
<1>1. Len(s) \in Nat /\ \A j \in 1 .. Len(s) : s[j] \in S
  BY LenProperties, ElementOfSeq
<1>2. PICK t : t = SubSeq(s, i, i + 2)
  OBVIOUS
<1>3. t \in Seq(S) /\ Len(t) = 3 /\ t[1] = s[i] /\ t[2] = s[i + 1] /\ t[3] = s[i + 2]
  <2>1. i \in Int /\ i + 2 \in Int /\ \A j \in i .. i + 2 : s[j] \in S
    BY <1>1
  <2>2. /\ t \in Seq(S) /\ Len(t) = IF i <= i + 2 THEN i + 2 - i + 1 ELSE 0
        /\ \A j \in 1 .. i + 2 - i + 1 : t[j] = s[i + j - 1]
    BY <1>2, <2>1, SubSeqProperties
  <2>3. i <= i + 2 /\ i + 2 - i + 1 = 3 /\ {1, 2, 3} \subseteq 1 .. 3
        /\ i + 1 - 1 = i /\ i + 2 - 1 = i + 1 /\ i + 3 - 1 = i + 2
    BY <1>1
  <2> QED
    BY <2>2, <2>3
<1>4. Len(Scheme) = 3 /\ Scheme[1] = ":" /\ Scheme[2] = "/" /\ Scheme[3] = "/"
  BY DEF Scheme
<1>5. t = Scheme => Starts(s, i)
  BY <1>1, <1>3, <1>4 DEF Starts
<1>6. ASSUME Starts(s, i) PROVE t = Scheme
  <2>1. ":" \in S /\ "/" \in S
    BY <1>1, <1>6 DEF Starts
  <2>2. Scheme \in Seq(S)
    BY <2>1 DEF Scheme
  <2>3. \A j \in 1 .. 3 : t[j] = Scheme[j]
    BY <1>3, <1>4, <1>6 DEF Starts
  <2> QED
    BY <1>3, <1>4, <2>2, <2>3, SeqEqual
<1> QED
  BY <1>2, <1>5, <1>6

LEMMA SchemeIs ==
  ASSUME NEW S, NEW s \in Seq(S), NEW r \in 1 .. Len(s) + 1,
         r <= Len(s) => Starts(s, r),
         \A i \in 1 .. Len(s) : Starts(s, i) => r <= i
  PROVE  Find(s, Scheme, 1) = r
<1>1. Len(s) \in Nat
  BY LenProperties
<1>2. PICK q : q = Find(s, Scheme, 1)
  OBVIOUS
<1>3. /\ q \in 1 .. Len(s) + 1
      /\ q <= Len(s) => Starts(s, q)
      /\ \A i \in 1 .. Len(s) : Starts(s, i) => q <= i
  <2>0. Len(Scheme) = 3
    BY DEF Scheme
  <2>1. PICK w : w = Scheme /\ Len(w) = 3
    BY <2>0
  <2>2. LET f == Find(s, w, 1)
            places == 1 .. Len(s) + 1 - Len(w)
        IN  /\ f \in 1 .. Len(s) + 1
            /\ f <= Len(s) => f \in places /\ SubSeq(s, f, f + Len(w) - 1) = w
            /\ \A i \in places : SubSeq(s, i, i + Len(w) - 1) = w => f <= i
    <3>1. Len(w) \in Nat \ {0} /\ 1 \in Nat \ {0}
      BY <2>1
    <3> QED
      BY <3>1, FindGives
  <2>3. /\ q \in 1 .. Len(s) + 1
        /\ q <= Len(s) => q \in 1 .. Len(s) + 1 - 3 /\ SubSeq(s, q, q + 3 - 1) = Scheme
        /\ \A i \in 1 .. Len(s) + 1 - 3 : SubSeq(s, i, i + 3 - 1) = Scheme => q <= i
    BY <1>2, <2>1, <2>2
  <2>4. /\ 1 .. Len(s) + 1 - 3 = 1 .. Len(s) - 2
        /\ \A i \in 1 .. Len(s) - 2 : i + 3 - 1 = i + 2
    BY <1>1
  <2>5. q <= Len(s) => Starts(s, q)
    BY <2>3, <2>4, StartsHere
  <2>6. ASSUME NEW i \in 1 .. Len(s), Starts(s, i) PROVE q <= i
    <3>1. i \in 1 .. Len(s) - 2
      BY <1>1, <2>6 DEF Starts
    <3> QED
      BY <2>3, <2>4, <2>6, <3>1, StartsHere
  <2> QED
    BY <2>3, <2>5, <2>6
<1>4. ~(q < r)
  <2> SUFFICES ASSUME q < r PROVE FALSE
    OBVIOUS
  <2>1. q <= Len(s) /\ q \in 1 .. Len(s) /\ ~(r <= q)
    BY <1>1, <1>3
  <2> QED
    BY <1>3, <2>1
<1>5. ~(r < q)
  <2> SUFFICES ASSUME r < q PROVE FALSE
    OBVIOUS
  <2>1. r <= Len(s) /\ r \in 1 .. Len(s) /\ ~(q <= r)
    BY <1>1, <1>3
  <2> QED
    BY <1>3, <2>1
<1> QED
  BY <1>1, <1>2, <1>3, <1>4, <1>5

\* There is a first "://", or none.
LEMMA SchemeFound ==
  ASSUME NEW S, NEW s \in Seq(S)
  PROVE  LET r == Find(s, Scheme, 1)
         IN  /\ r \in 1 .. Len(s) + 1
             /\ r <= Len(s) => Starts(s, r)
             /\ \A i \in 1 .. Len(s) : Starts(s, i) => r <= i
<1> DEFINE T == {Len(s) + 1} \cup {i \in 1 .. Len(s) : Starts(s, i)}
<1>1. Len(s) \in Nat
  BY LenProperties
<1>2. T \subseteq Nat /\ T # {}
  BY <1>1
<1>3. PICK r \in T : \A i \in T : r <= i
  BY <1>2, LeastNat
<1>4. /\ r \in 1 .. Len(s) + 1
      /\ r <= Len(s) => Starts(s, r)
      /\ \A i \in 1 .. Len(s) : Starts(s, i) => r <= i
  BY <1>1, <1>3
<1>5. Find(s, Scheme, 1) = r
  BY <1>4, SchemeIs
<1> QED
  BY <1>4, <1>5

-----------------------------------------------------------------------------
(***************************************************************************)
(* The parts of an endpoint, and of the URI made of it.                    *)
(***************************************************************************)

Pieces == {"name", "1883", ":", "/", "mqtts", "8883"}

LEMMA EndpointIs == ASSUME NEW e \in Endpoints PROVE e \in Seq(Pieces)
<1>1. PICK m \in 0 .. EndpointLength : e \in [1 .. m -> {"name", "1883", ":", "/"}]
  BY DEF Endpoints, BoundedSeq, SeqOf
<1>2. m \in Nat /\ e \in [1 .. m -> Pieces]
  BY <1>1, EndpointAssumption DEF Pieces
<1> QED
  BY <1>2, SeqDef

\* Where the host begins, and what bounds it.
LEMMA PartsFound ==
  ASSUME NEW s \in Seq(Pieces)
  PROVE  /\ Len(s) \in Nat /\ HostStart(s) \in 1 .. Len(s) + 1
         /\ ~HasScheme(s) => HostStart(s) = 1
         /\ HasScheme(s) => Starts(s, HostStart(s) - 3) /\ HostStart(s) > 3
         /\ Colon(s) \in HostStart(s) .. Len(s) + 1
         /\ Colon(s) <= Len(s) => s[Colon(s)] = ":"
         /\ \A i \in HostStart(s) .. Len(s) : i < Colon(s) => s[i] # ":"
         /\ Slash(s) \in HostStart(s) .. Len(s) + 1
         /\ Slash(s) <= Len(s) => s[Slash(s)] = "/"
         /\ \A i \in HostStart(s) .. Len(s) : i < Slash(s) => s[i] # "/"
<1>1. Len(s) \in Nat
  BY LenProperties
<1>2. PICK f : f = Find(s, Scheme, 1)
  OBVIOUS
<1>3. f \in 1 .. Len(s) + 1 /\ (f <= Len(s) => Starts(s, f))
  BY <1>2, SchemeFound
<1>4. (HasScheme(s) <=> f <= Len(s)) /\ HostStart(s) = IF HasScheme(s) THEN f + 3 ELSE 1
  BY <1>2 DEF HasScheme, HostStart
<1>5. /\ HostStart(s) \in 1 .. Len(s) + 1
      /\ ~HasScheme(s) => HostStart(s) = 1
      /\ HasScheme(s) => Starts(s, HostStart(s) - 3) /\ HostStart(s) > 3
  <2>1. CASE HasScheme(s)
    <3>1. f <= Len(s) /\ HostStart(s) = f + 3 /\ f + 2 <= Len(s)
      BY <1>3, <1>4, <2>1 DEF Starts
    <3>2. HostStart(s) \in 1 .. Len(s) + 1 /\ HostStart(s) > 3 /\ HostStart(s) - 3 = f
      BY <1>1, <1>3, <3>1
    <3> QED
      BY <1>3, <2>1, <3>1, <3>2
  <2>2. CASE ~HasScheme(s)
    BY <1>1, <1>4, <2>2
  <2> QED
    BY <2>1, <2>2
<1>6. PICK h \in Nat \ {0} : h = HostStart(s)
  BY <1>5
<1>7. ASSUME NEW x
      PROVE  /\ Find(s, <<x>>, h) \in h .. Len(s) + 1
             /\ Find(s, <<x>>, h) <= Len(s) => s[Find(s, <<x>>, h)] = x
             /\ \A i \in h .. Len(s) : i < Find(s, <<x>>, h) => s[i] # x
  <2>1. PICK r : r = Find(s, <<x>>, h)
    OBVIOUS
  <2>2. /\ r \in 1 .. Len(s) + 1
        /\ r <= Len(s) => h <= r /\ s[r] = x
        /\ \A i \in 1 .. Len(s) : h <= i /\ i < r => s[i] # x
    BY <2>1, CharFound
  <2>3. h <= Len(s) + 1
    BY <1>5, <1>6
  <2>4. r \in h .. Len(s) + 1 /\ \A i \in h .. Len(s) : i \in 1 .. Len(s) /\ h <= i
    BY <1>1, <2>2, <2>3
  <2> QED
    BY <2>1, <2>2, <2>4
<1>8. Colon(s) = Find(s, <<":">>, h) /\ Slash(s) = Find(s, <<"/">>, h)
  BY <1>6 DEF Colon, Slash
<1> QED
  BY <1>1, <1>5, <1>6, <1>7, <1>8

\* Where a URI's parts are, from what is at its positions.
LEMMA PartsAre ==
  ASSUME NEW s \in Seq(Pieces), NEW h \in Nat \ {0}, h = HostStart(s),
         NEW x \in {":", "/"}, NEW r \in h .. Len(s) + 1,
         r <= Len(s) => s[r] = x, \A i \in h .. Len(s) : i < r => s[i] # x
  PROVE  (x = ":" => Colon(s) = r) /\ (x = "/" => Slash(s) = r)
<1>1. Len(s) \in Nat
  BY LenProperties
<1>2. r \in 1 .. Len(s) + 1 /\ h <= r /\ \A i \in 1 .. Len(s) : h <= i => i \in h .. Len(s)
  BY <1>1
<1>3. Find(s, <<x>>, h) = r
  BY <1>2, CharIs
<1> QED
  BY <1>3 DEF Colon, Slash

\* What lies between two positions is the same where both strings have it.
LEMMA SamePart ==
  ASSUME NEW s \in Seq(Pieces), NEW t \in Seq(Pieces), NEW a \in Nat \ {0}, NEW b \in Nat,
         NEW n \in Nat, b <= Len(s), b + n <= Len(t),
         \A i \in a .. b : t[i + n] = s[i]
  PROVE  SubSeq(t, a + n, b + n) = SubSeq(s, a, b)
<1>1. /\ Len(s) \in Nat /\ Len(t) \in Nat
      /\ \A i \in 1 .. Len(s) : s[i] \in Pieces
      /\ \A i \in 1 .. Len(t) : t[i] \in Pieces
  BY LenProperties, ElementOfSeq
<1>2. PICK p : p = SubSeq(s, a, b)
  OBVIOUS
<1>3. PICK q : q = SubSeq(t, a + n, b + n)
  OBVIOUS
<1>4. /\ p \in Seq(Pieces) /\ Len(p) = IF a <= b THEN b - a + 1 ELSE 0
      /\ \A i \in 1 .. b - a + 1 : p[i] = s[a + i - 1]
  <2>1. a \in Int /\ b \in Int /\ \A i \in a .. b : s[i] \in Pieces
    BY <1>1
  <2> QED
    BY <1>2, <2>1, SubSeqProperties
<1>5. /\ q \in Seq(Pieces) /\ Len(q) = IF a + n <= b + n THEN b + n - (a + n) + 1 ELSE 0
      /\ \A i \in 1 .. b + n - (a + n) + 1 : q[i] = t[a + n + i - 1]
  <2>1. a + n \in Int /\ b + n \in Int /\ \A i \in a + n .. b + n : t[i] \in Pieces
    BY <1>1
  <2> QED
    BY <1>3, <2>1, SubSeqProperties
<1>6. Len(q) = Len(p) /\ \A i \in 1 .. Len(p) : /\ i \in 1 .. b - a + 1
                                             /\ i \in 1 .. b + n - (a + n) + 1
                                             /\ a + i - 1 \in a .. b
                                             /\ a + n + i - 1 = (a + i - 1) + n
  BY <1>4, <1>5
<1>7. \A i \in 1 .. Len(q) : q[i] = p[i]
  BY <1>4, <1>5, <1>6
<1> QED
  BY <1>2, <1>3, <1>4, <1>5, <1>6, <1>7, SeqEqual

\* The pieces that are put into an endpoint.
LEMMA PutIn ==
  /\ <<"mqtts">> \in Seq(Pieces) /\ Len(<<"mqtts">>) = 1 /\ <<"mqtts">>[1] = "mqtts"
  /\ Scheme \in Seq(Pieces) /\ Len(Scheme) = 3
  /\ Scheme[1] = ":" /\ Scheme[2] = "/" /\ Scheme[3] = "/"
  /\ DefaultPort \in Seq(Pieces) /\ Len(DefaultPort) = 2
  /\ DefaultPort[1] = ":" /\ DefaultPort[2] = "8883"
<1>1. "mqtts" \in Pieces /\ ":" \in Pieces /\ "/" \in Pieces /\ "8883" \in Pieces
  BY DEF Pieces
<1>2. <<"mqtts">> \in Seq(Pieces) /\ Len(<<"mqtts">>) = 1 /\ <<"mqtts">>[1] = "mqtts"
  BY <1>1
<1>3. Scheme \in Seq(Pieces)
  BY <1>1 DEF Scheme
<1>4. Len(Scheme) = 3 /\ Scheme[1] = ":" /\ Scheme[2] = "/" /\ Scheme[3] = "/"
  BY DEF Scheme
<1>5. DefaultPort \in Seq(Pieces)
  BY <1>1 DEF DefaultPort
<1>6. Len(DefaultPort) = 2 /\ DefaultPort[1] = ":" /\ DefaultPort[2] = "8883"
  BY DEF DefaultPort
<1> QED
  BY <1>2, <1>3, <1>4, <1>5, <1>6

\* What stands where when one string is put behind another.
LEMMA PutBehind ==
  ASSUME NEW s \in Seq(Pieces), NEW t \in Seq(Pieces)
  PROVE  /\ s \o t \in Seq(Pieces) /\ Len(s \o t) = Len(s) + Len(t)
         /\ \A i \in 1 .. Len(s) : (s \o t)[i] = s[i]
         /\ \A i \in 1 .. Len(t) : (s \o t)[i + Len(s)] = t[i]
<1>1. Len(s) \in Nat /\ Len(t) \in Nat
  BY LenProperties
<1>2. PICK c : c = s \o t
  OBVIOUS
<1>3. /\ c \in Seq(Pieces) /\ Len(c) = Len(s) + Len(t)
      /\ \A i \in 1 .. Len(s) + Len(t) : c[i] = IF i <= Len(s) THEN s[i] ELSE t[i - Len(s)]
  BY <1>2, ConcatProperties
<1>4. \A i \in 1 .. Len(s) : c[i] = s[i]
  BY <1>1, <1>3
<1>5. ASSUME NEW i \in 1 .. Len(t) PROVE c[i + Len(s)] = t[i]
  <2>1. i + Len(s) \in 1 .. Len(s) + Len(t) /\ ~(i + Len(s) <= Len(s)) /\ i + Len(s) - Len(s) = i
    BY <1>1
  <2> QED
    BY <1>3, <2>1
<1> QED
  BY <1>2, <1>3, <1>4, <1>5

\* An endpoint without a scheme moves behind one.
LEMMA SchemePut ==
  ASSUME NEW e \in Seq(Pieces)
  PROVE  LET u == <<"mqtts">> \o Scheme \o e \o DefaultPort
         IN  /\ u \in Seq(Pieces) /\ Len(u) = Len(e) + 6
             /\ u[1] = "mqtts" /\ u[2] = ":" /\ u[3] = "/" /\ u[4] = "/"
             /\ \A i \in 1 .. Len(e) : u[i + 4] = e[i]
             /\ u[Len(e) + 5] = ":" /\ u[Len(e) + 6] = "8883"
<1> DEFINE u == <<"mqtts">> \o Scheme \o e \o DefaultPort
<1> HIDE DEF u
<1>1. Len(e) \in Nat
  BY LenProperties
<1>2. PICK m, p, d : m = <<"mqtts">> /\ p = Scheme /\ d = DefaultPort
  OBVIOUS
<1>3. /\ m \in Seq(Pieces) /\ Len(m) = 1 /\ m[1] = "mqtts"
      /\ p \in Seq(Pieces) /\ Len(p) = 3 /\ p[1] = ":" /\ p[2] = "/" /\ p[3] = "/"
      /\ d \in Seq(Pieces) /\ Len(d) = 2 /\ d[1] = ":" /\ d[2] = "8883"
  BY <1>2, PutIn
<1>4. PICK a : a = m \o p
  OBVIOUS
<1>5. a \in Seq(Pieces) /\ Len(a) = 4 /\ a[1] = "mqtts" /\ a[2] = ":" /\ a[3] = "/" /\ a[4] = "/"
  <2>1. /\ a \in Seq(Pieces) /\ Len(a) = Len(m) + Len(p)
        /\ \A i \in 1 .. Len(m) : a[i] = m[i]
        /\ \A i \in 1 .. Len(p) : a[i + Len(m)] = p[i]
    <3>1. m \in Seq(Pieces) /\ p \in Seq(Pieces)
      BY <1>3
    <3> QED
      BY <1>4, <3>1, PutBehind
  <2>2. a[1] = m[1] /\ a[1 + 1] = p[1] /\ a[2 + 1] = p[2] /\ a[3 + 1] = p[3]
    BY <1>3, <2>1
  <2> QED
    BY <1>3, <2>1, <2>2
<1>6. PICK b : b = a \o e
  OBVIOUS
<1>7. /\ b \in Seq(Pieces) /\ Len(b) = 4 + Len(e)
      /\ \A i \in 1 .. 4 : b[i] = a[i]
      /\ \A i \in 1 .. Len(e) : b[i + 4] = e[i]
  <2>1. /\ b \in Seq(Pieces) /\ Len(b) = Len(a) + Len(e)
        /\ \A i \in 1 .. Len(a) : b[i] = a[i]
        /\ \A i \in 1 .. Len(e) : b[i + Len(a)] = e[i]
    <3>1. a \in Seq(Pieces)
      BY <1>5
    <3> QED
      BY <1>6, <3>1, PutBehind
  <2> QED
    BY <1>5, <2>1
<1>8. u = b \o d
  BY <1>2, <1>4, <1>6 DEF u
<1>9. /\ u \in Seq(Pieces) /\ Len(u) = Len(b) + Len(d)
      /\ \A i \in 1 .. Len(b) : u[i] = b[i]
      /\ \A i \in 1 .. Len(d) : u[i + Len(b)] = d[i]
  <2>1. b \in Seq(Pieces) /\ d \in Seq(Pieces)
    BY <1>3, <1>7
  <2> QED
    BY <1>8, <2>1, PutBehind
<1>10. u[1] = a[1] /\ u[2] = a[2] /\ u[3] = a[3] /\ u[4] = a[4]
  <2>1. \A i \in 1 .. 4 : i \in 1 .. Len(b)
    BY <1>1, <1>7
  <2>2. \A i \in 1 .. 4 : u[i] = a[i]
    BY <1>7, <1>9, <2>1
  <2>3. 1 \in 1 .. 4 /\ 2 \in 1 .. 4 /\ 3 \in 1 .. 4 /\ 4 \in 1 .. 4
    OBVIOUS
  <2> QED
    BY <2>2, <2>3
<1>11. \A i \in 1 .. Len(e) : u[i + 4] = e[i]
  <2>1. \A i \in 1 .. Len(e) : i + 4 \in 1 .. Len(b)
    BY <1>1, <1>7
  <2> QED
    BY <1>7, <1>9, <2>1
<1>12. u[1 + Len(b)] = ":" /\ u[2 + Len(b)] = "8883"
  <2>1. 1 \in 1 .. Len(d) /\ 2 \in 1 .. Len(d)
    BY <1>3
  <2> QED
    BY <1>3, <1>9, <2>1
<1>13. 1 + Len(b) = Len(e) + 5 /\ 2 + Len(b) = Len(e) + 6 /\ Len(u) = Len(e) + 6
  BY <1>1, <1>3, <1>7, <1>9
<1> QED
  BY <1>5, <1>9, <1>10, <1>11, <1>12, <1>13 DEF u

\* A port is put in at k.
PortAt(e, k) == SubSeq(e, 1, k - 1) \o DefaultPort \o SubSeq(e, k, Len(e))

LEMMA PortPut ==
  ASSUME NEW e \in Seq(Pieces), NEW k \in 1 .. Len(e) + 1
  PROVE  /\ PortAt(e, k) \in Seq(Pieces) /\ Len(PortAt(e, k)) = Len(e) + 2
         /\ \A i \in 1 .. k - 1 : PortAt(e, k)[i] = e[i]
         /\ PortAt(e, k)[k] = ":" /\ PortAt(e, k)[k + 1] = "8883"
         /\ \A i \in k .. Len(e) : PortAt(e, k)[i + 2] = e[i]
<1> DEFINE u == PortAt(e, k)
<1> HIDE DEF u
<1>1. Len(e) \in Nat /\ \A i \in 1 .. Len(e) : e[i] \in Pieces
  BY LenProperties, ElementOfSeq
<1>2. PICK a : a = SubSeq(e, 1, k - 1)
  OBVIOUS
<1>3. a \in Seq(Pieces) /\ Len(a) = k - 1 /\ \A i \in 1 .. k - 1 : a[i] = e[i]
  <2>1. 1 \in Int /\ k - 1 \in Int /\ \A i \in 1 .. k - 1 : e[i] \in Pieces
    BY <1>1
  <2>2. /\ a \in Seq(Pieces) /\ Len(a) = IF 1 <= k - 1 THEN k - 1 - 1 + 1 ELSE 0
        /\ \A i \in 1 .. k - 1 - 1 + 1 : a[i] = e[1 + i - 1]
    BY <1>2, <2>1, SubSeqProperties
  <2>3. k - 1 - 1 + 1 = k - 1 /\ (~(1 <= k - 1) => k - 1 = 0) /\ \A i \in 1 .. k - 1 : 1 + i - 1 = i
    BY <1>1
  <2> QED
    BY <2>2, <2>3
<1>4. PICK c : c = SubSeq(e, k, Len(e))
  OBVIOUS
<1>5. /\ c \in Seq(Pieces) /\ Len(c) = Len(e) - k + 1
      /\ \A i \in 1 .. Len(e) - k + 1 : c[i] = e[k + i - 1]
  <2>1. k \in Int /\ Len(e) \in Int /\ \A i \in k .. Len(e) : e[i] \in Pieces
    BY <1>1
  <2>2. /\ c \in Seq(Pieces) /\ Len(c) = IF k <= Len(e) THEN Len(e) - k + 1 ELSE 0
        /\ \A i \in 1 .. Len(e) - k + 1 : c[i] = e[k + i - 1]
    BY <1>4, <2>1, SubSeqProperties
  <2>3. ~(k <= Len(e)) => Len(e) - k + 1 = 0
    BY <1>1
  <2> QED
    BY <2>2, <2>3
<1>6. PICK d : d = DefaultPort
  OBVIOUS
<1>7. d \in Seq(Pieces) /\ Len(d) = 2 /\ d[1] = ":" /\ d[2] = "8883"
  BY <1>6, PutIn
<1>8. PICK b : b = a \o d
  OBVIOUS
<1>9. /\ b \in Seq(Pieces) /\ Len(b) = Len(a) + Len(d)
      /\ \A i \in 1 .. Len(a) : b[i] = a[i]
      /\ \A i \in 1 .. Len(d) : b[i + Len(a)] = d[i]
  <2>1. a \in Seq(Pieces) /\ d \in Seq(Pieces)
    BY <1>3, <1>7
  <2> QED
    BY <1>8, <2>1, PutBehind
<1>10. u = b \o c
  BY <1>2, <1>4, <1>6, <1>8 DEF u, PortAt
<1>11. /\ u \in Seq(Pieces) /\ Len(u) = Len(b) + Len(c)
       /\ \A i \in 1 .. Len(b) : u[i] = b[i]
       /\ \A i \in 1 .. Len(c) : u[i + Len(b)] = c[i]
  <2>1. b \in Seq(Pieces) /\ c \in Seq(Pieces)
    BY <1>5, <1>9
  <2> QED
    BY <1>10, <2>1, PutBehind
<1>12. Len(b) = k + 1 /\ Len(u) = Len(e) + 2
  BY <1>1, <1>3, <1>5, <1>7, <1>9, <1>11
<1>13. \A i \in 1 .. k - 1 : u[i] = e[i]
  <2>1. \A i \in 1 .. k - 1 : i \in 1 .. Len(b) /\ i \in 1 .. Len(a)
    BY <1>1, <1>3, <1>12
  <2> QED
    BY <1>3, <1>9, <1>11, <2>1
<1>14. u[k] = ":" /\ u[k + 1] = "8883"
  <2>1. /\ 1 + Len(a) = k /\ 2 + Len(a) = k + 1 /\ k \in 1 .. Len(b) /\ k + 1 \in 1 .. Len(b)
        /\ 1 \in 1 .. Len(d) /\ 2 \in 1 .. Len(d)
    BY <1>1, <1>3, <1>7, <1>12
  <2>2. b[1 + Len(a)] = d[1] /\ b[2 + Len(a)] = d[2]
    BY <1>9, <2>1
  <2> QED
    BY <1>7, <1>11, <2>1, <2>2
<1>15. ASSUME NEW i \in k .. Len(e) PROVE u[i + 2] = e[i]
  <2>1. PICK j \in 1 .. Len(c) : j = i - k + 1
    BY <1>1, <1>5
  <2>2. j + Len(b) = i + 2 /\ k + j - 1 = i
    BY <1>1, <1>12, <2>1
  <2>3. c[j] = e[k + j - 1]
    BY <1>5, <2>1
  <2>4. u[j + Len(b)] = c[j]
    BY <1>11, <2>1
  <2> QED
    BY <2>2, <2>3, <2>4
<1> QED
  BY <1>11, <1>12, <1>13, <1>14, <1>15 DEF u

-----------------------------------------------------------------------------
(***************************************************************************)
(* The two changes that NormalizeMqttUri() makes.                          *)
(***************************************************************************)

\* Behind a scheme, the host is four pieces further; without port or path, it
\* is bounded by the port that was added.
LEMMA SchemeAdded ==
  ASSUME NEW e \in Seq(Pieces), ~HasScheme(e), NEW u,
         u = <<"mqtts">> \o Scheme \o e \o DefaultPort
  PROVE  /\ u \in Seq(Pieces) /\ Len(u) = Len(e) + 6
         /\ \A i \in 1 .. Len(e) : u[i + 4] = e[i]
         /\ u[Len(e) + 5] = ":" /\ u[Len(e) + 6] = "8883"
         /\ HasScheme(u) /\ HostStart(u) = 5
         /\ Colon(u) = Colon(e) + 4
         /\ Slash(u) = IF Slash(e) <= Len(e) THEN Slash(e) + 4 ELSE Len(e) + 7
<1>1. /\ u \in Seq(Pieces) /\ Len(u) = Len(e) + 6
      /\ u[1] = "mqtts" /\ u[2] = ":" /\ u[3] = "/" /\ u[4] = "/"
      /\ \A i \in 1 .. Len(e) : u[i + 4] = e[i]
      /\ u[Len(e) + 5] = ":" /\ u[Len(e) + 6] = "8883"
  BY SchemePut
<1>2. PICK n \in Nat : n = Len(e)
  BY LenProperties
<1>3. PICK c, d : c = Colon(e) /\ d = Slash(e)
  OBVIOUS
<1>4. /\ c \in 1 .. n + 1 /\ (c <= n => e[c] = ":") /\ \A i \in 1 .. n : i < c => e[i] # ":"
      /\ d \in 1 .. n + 1 /\ (d <= n => e[d] = "/") /\ \A i \in 1 .. n : i < d => e[i] # "/"
  <2>1. HostStart(e) = 1
    BY PartsFound
  <2> QED
    BY <1>2, <1>3, <2>1, PartsFound
<1>5. Find(u, Scheme, 1) = 2
  <2>1. 2 \in 1 .. Len(u) + 1
    BY <1>1, <1>2
  <2>2. Starts(u, 2)
    <3>1. 2 + 2 <= Len(u) /\ 2 + 1 = 3 /\ 2 + 2 = 4
      <4>1. Len(u) = n + 6
        BY <1>1, <1>2
      <4> QED
        BY <4>1
    <3>2. u[2] = ":" /\ u[3] = "/" /\ u[4] = "/"
      BY <1>1
    <3> QED
      BY <3>1, <3>2 DEF Starts
  <2>3. ASSUME NEW i \in 1 .. Len(u), Starts(u, i) PROVE 2 <= i
    <3>1. i # 1
      BY <1>1, <2>3 DEF Starts
    <3> QED
      BY <1>1, <1>2, <3>1
  <2> QED
    BY <1>1, <2>1, <2>2, <2>3, SchemeIs
<1>6. HasScheme(u) /\ HostStart(u) = 5
  BY <1>1, <1>2, <1>5 DEF HasScheme, HostStart
<1>7. \A i \in 5 .. n + 4 : i - 4 \in 1 .. n /\ u[i] = e[i - 4]
  <2> TAKE i \in 5 .. n + 4
  <2>1. i - 4 \in 1 .. n /\ i - 4 + 4 = i
    BY <1>2
  <2> QED
    BY <1>1, <1>2, <2>1
<1>8. Colon(u) = c + 4
  <2>1. 5 \in Nat \ {0} /\ c + 4 \in 5 .. Len(u) + 1
    BY <1>1, <1>2, <1>4
  <2>2. u[c + 4] = ":"
    <3>1. (c \in 1 .. n /\ c <= n) \/ c + 4 = n + 5
      BY <1>4
    <3>2. CASE c \in 1 .. n /\ c <= n
      <4>1. u[c + 4] = e[c]
        BY <1>1, <1>2, <3>2
      <4> QED
        BY <1>4, <3>2, <4>1
    <3>3. CASE c + 4 = n + 5
      BY <1>1, <1>2, <3>3
    <3> QED
      BY <3>1, <3>2, <3>3
  <2>3. ASSUME NEW i \in 5 .. Len(u), i < c + 4 PROVE u[i] # ":"
    <3>1. i \in 5 .. n + 4 /\ i - 4 < c
      BY <1>1, <1>2, <1>4, <2>3
    <3> QED
      BY <1>4, <1>7, <3>1
  <2> QED
    BY <1>1, <1>6, <2>1, <2>2, <2>3, PartsAre
<1>9. Slash(u) = IF d <= n THEN d + 4 ELSE n + 7
  <2>1. PICK r : r = IF d <= n THEN d + 4 ELSE n + 7
    OBVIOUS
  <2>2. 5 \in Nat \ {0} /\ r \in 5 .. Len(u) + 1
    BY <1>1, <1>2, <1>4, <2>1
  <2>3. r <= Len(u) => u[r] = "/"
    <3> SUFFICES ASSUME r <= Len(u) PROVE u[r] = "/"
      OBVIOUS
    <3>1. d \in 1 .. n /\ d <= n /\ r = d + 4
      BY <1>1, <1>2, <1>4, <2>1
    <3> QED
      BY <1>1, <1>2, <1>4, <3>1
  <2>4. ASSUME NEW i \in 5 .. Len(u), i < r PROVE u[i] # "/"
    <3>1. \/ i \in 5 .. n + 4 /\ i - 4 < d
          \/ i = n + 5
          \/ i = n + 6
      <4>1. Len(u) = n + 6
        BY <1>1, <1>2
      <4>2. i \in 5 .. n + 6 /\ d \in 1 .. n + 1
        BY <1>4, <4>1
      <4> QED
        BY <1>2, <2>1, <2>4, <4>2
    <3> QED
      BY <1>1, <1>2, <1>4, <1>7, <3>1
  <2> QED
    BY <1>1, <1>6, <2>1, <2>2, <2>3, <2>4, PartsAre
<1> QED
  BY <1>1, <1>2, <1>3, <1>6, <1>8, <1>9

\* A port put in before the path bounds the host, where the path did.
LEMMA PortAdded ==
  ASSUME NEW e \in Seq(Pieces), HasScheme(e), ~HasPort(e), NEW u,
         u = PortAt(e, Slash(e))
  PROVE  /\ u \in Seq(Pieces) /\ Len(u) = Len(e) + 2
         /\ \A i \in 1 .. Slash(e) - 1 : u[i] = e[i]
         /\ u[Slash(e) + 1] = "8883"
         /\ HostStart(u) = HostStart(e)
         /\ Colon(u) = Slash(e)
         /\ Slash(u) = Slash(e) + 2
<1>1. PICK n \in Nat : n = Len(e)
  BY LenProperties
<1>2. PICK h, c, k, f : h = HostStart(e) /\ c = Colon(e) /\ k = Slash(e) /\ f = Find(e, Scheme, 1)
  OBVIOUS
<1>3. /\ h \in 1 .. n + 1 /\ h > 3
      /\ c \in h .. n + 1 /\ \A i \in h .. n : i < c => e[i] # ":"
      /\ k \in h .. n + 1 /\ (k <= n => e[k] = "/") /\ \A i \in h .. n : i < k => e[i] # "/"
  BY <1>1, <1>2, PartsFound
<1>4. k <= c
  BY <1>2, <1>3 DEF HasPort
<1>5. /\ f \in 1 .. n + 1 /\ f <= n /\ Starts(e, f) /\ \A i \in 1 .. n : Starts(e, i) => f <= i
      /\ h = f + 3
  BY <1>1, <1>2, SchemeFound DEF HasScheme, HostStart
<1>6. /\ u \in Seq(Pieces) /\ Len(u) = n + 2
      /\ \A i \in 1 .. k - 1 : u[i] = e[i]
      /\ u[k] = ":" /\ u[k + 1] = "8883"
      /\ \A i \in k .. n : u[i + 2] = e[i]
  <2>1. k \in 1 .. Len(e) + 1
    BY <1>1, <1>3
  <2>3. /\ u \in Seq(Pieces) /\ Len(u) = Len(e) + 2
        /\ \A i \in 1 .. k - 1 : u[i] = e[i]
        /\ u[k] = ":" /\ u[k + 1] = "8883"
        /\ \A i \in k .. Len(e) : u[i + 2] = e[i]
    BY <1>2, <2>1, PortPut
  <2> QED
    BY <1>1, <2>3
<1>7. Find(u, Scheme, 1) = f
  <2>1. f \in 1 .. Len(u) + 1 /\ f \in 1 .. k - 1 /\ f + 1 \in 1 .. k - 1 /\ f + 2 \in 1 .. k - 1
    BY <1>1, <1>3, <1>5, <1>6
  <2>2. Starts(u, f)
    <3>1. u[f] = e[f] /\ u[f + 1] = e[f + 1] /\ u[f + 2] = e[f + 2]
      BY <1>6, <2>1
    <3>2. f + 2 <= n + 2
      BY <1>5
    <3> QED
      BY <1>5, <1>6, <3>1, <3>2 DEF Starts
  <2>3. ASSUME NEW i \in 1 .. Len(u), Starts(u, i) PROVE f <= i
    <3> SUFFICES ASSUME i < f PROVE FALSE
      BY <1>5
    <3>1. /\ i \in 1 .. n /\ i + 2 <= n
          /\ i \in 1 .. k - 1 /\ i + 1 \in 1 .. k - 1 /\ i + 2 \in 1 .. k - 1
      BY <1>3, <1>5
    <3>2. Starts(e, i)
      BY <1>1, <1>6, <2>3, <3>1 DEF Starts
    <3> QED
      BY <1>5, <3>1, <3>2
  <2> QED
    BY <1>6, <2>1, <2>2, <2>3, SchemeIs
<1>8. HostStart(u) = h
  BY <1>1, <1>5, <1>6, <1>7 DEF HasScheme, HostStart
<1>9. Colon(u) = k
  <2>1. h \in Nat \ {0} /\ k \in h .. Len(u) + 1
    BY <1>3, <1>6
  <2>2. ASSUME NEW i \in h .. Len(u), i < k PROVE u[i] # ":"
    <3>1. i \in 1 .. k - 1 /\ i \in h .. n /\ i < c
      BY <1>3, <1>4, <1>6, <2>2
    <3> QED
      BY <1>3, <1>6, <3>1
  <2> QED
    BY <1>6, <1>8, <2>1, <2>2, PartsAre
<1>10. Slash(u) = k + 2
  <2>1. h \in Nat \ {0} /\ k + 2 \in h .. Len(u) + 1
    BY <1>3, <1>6
  <2>2. k + 2 <= Len(u) => u[k + 2] = "/"
    <3> SUFFICES ASSUME k + 2 <= Len(u) PROVE u[k + 2] = "/"
      OBVIOUS
    <3>1. k \in k .. n /\ k <= n
      BY <1>3, <1>6
    <3> QED
      BY <1>3, <1>6, <3>1
  <2>3. ASSUME NEW i \in h .. Len(u), i < k + 2 PROVE u[i] # "/"
    <3>1. (i \in 1 .. k - 1 /\ i \in h .. n /\ i < k) \/ i = k \/ i = k + 1
      BY <1>3, <1>6, <2>3
    <3> QED
      BY <1>3, <1>6, <3>1
  <2> QED
    BY <1>6, <1>8, <2>1, <2>2, <2>3, PartsAre
<1> QED
  BY <1>1, <1>2, <1>6, <1>8, <1>9, <1>10

-----------------------------------------------------------------------------
(***************************************************************************)
(* The host and the port of the URI.                                       *)
(***************************************************************************)

LEMMA NormalizeKeepsAddress ==
  ASSUME NEW e \in Seq(Pieces)
  PROVE  ParseBrokerHostPort(NormalizeMqttUri(e)) = ParseBrokerHostPort(e)
<1>1. PICK u : u = NormalizeMqttUri(e)
  OBVIOUS
<1>2. PICK n \in Nat : n = Len(e)
  BY LenProperties
<1>3. PICK h, c, k : h = HostStart(e) /\ c = Colon(e) /\ k = Slash(e)
  OBVIOUS
<1>4. /\ h \in 1 .. n + 1
      /\ c \in h .. n + 1 /\ (c <= n => e[c] = ":")
      /\ k \in h .. n + 1 /\ (k <= n => e[k] = "/")
  BY <1>2, <1>3, PartsFound
<1>5. HasPort(e) <=> c < k
  BY <1>3 DEF HasPort
<1>6. CASE ~HasScheme(e)
  <2>1. u = <<"mqtts">> \o Scheme \o e \o DefaultPort
    BY <1>1, <1>6 DEF NormalizeMqttUri
  <2>2. /\ u \in Seq(Pieces) /\ Len(u) = n + 6
        /\ \A i \in 1 .. n : u[i + 4] = e[i]
        /\ u[n + 5] = ":" /\ u[n + 6] = "8883"
        /\ HostStart(u) = 5 /\ Colon(u) = c + 4
        /\ Slash(u) = IF k <= n THEN k + 4 ELSE n + 7
    BY <1>2, <1>3, <1>6, <2>1, SchemeAdded
  <2>3. h = 1
    BY <1>3, <1>6, PartsFound
  <2>4. HasPort(u) <=> c + 4 < IF k <= n THEN k + 4 ELSE n + 7
    BY <2>2 DEF HasPort
  <2>5. ASSUME NEW b \in 0 .. n PROVE SubSeq(u, 5, b + 4) = SubSeq(e, 1, b)
    <3>1. /\ 1 \in Nat \ {0} /\ b \in Nat /\ 4 \in Nat /\ b <= Len(e) /\ b + 4 <= Len(u)
          /\ \A i \in 1 .. b : u[i + 4] = e[i]
      BY <1>2, <2>2
    <3>2. SubSeq(u, 1 + 4, b + 4) = SubSeq(e, 1, b)
      BY <2>2, <3>1, SamePart
    <3> QED
      BY <3>2
  <2>6. CASE c < k
    <3>1. /\ c \in 1 .. n /\ HasPort(u)
          /\ c - 1 \in 0 .. n /\ c - 1 + 4 = c + 4 - 1 /\ c + 4 + 1 = c + 5
      BY <1>4, <2>3, <2>4, <2>6
    <3>2. ParseBrokerHostPort(u) = [host |-> SubSeq(u, 5, c + 4 - 1), port |-> Atoi(u, c + 5)]
      BY <2>2, <3>1 DEF ParseBrokerHostPort
    <3>3. ParseBrokerHostPort(e) = [host |-> SubSeq(e, 1, c - 1), port |-> Atoi(e, c + 1)]
      BY <1>3, <1>5, <2>3, <2>6 DEF ParseBrokerHostPort
    <3>4. SubSeq(u, 5, c + 4 - 1) = SubSeq(e, 1, c - 1)
      BY <2>5, <3>1
    <3>5. Atoi(u, c + 5) = Atoi(e, c + 1)
      <4>1. CASE c = n
        <5>1. u[c + 5] = ":" /\ c + 5 <= Len(u) /\ ~(c + 1 <= Len(e))
          BY <1>2, <2>2, <4>1
        <5> QED
          BY <5>1 DEF Atoi, Numbers
      <4>2. CASE c < n
        <5>1. c + 1 \in 1 .. n /\ c + 1 + 4 = c + 5 /\ c + 5 <= n + 6 /\ c + 1 <= n
          BY <3>1, <4>2
        <5>2. u[c + 5] = e[c + 1]
          BY <2>2, <5>1
        <5> QED
          BY <1>2, <2>2, <5>1, <5>2 DEF Atoi
      <4> QED
        BY <3>1, <4>1, <4>2
    <3> QED
      BY <1>1, <3>2, <3>3, <3>4, <3>5
  <2>7. CASE ~(c < k)
    <3>1. ParseBrokerHostPort(e) = [host |-> SubSeq(e, 1, k - 1), port |-> "8883"]
      BY <1>3, <1>5, <2>3, <2>7 DEF ParseBrokerHostPort
    <3>2. k - 1 \in 0 .. n /\ k - 1 + 4 = k + 4 - 1
      BY <1>4, <2>3
    <3>3. SubSeq(u, 5, k + 4 - 1) = SubSeq(e, 1, k - 1)
      BY <2>5, <3>2
    <3>4. CASE k <= n
      <4>1. ~HasPort(u) /\ Slash(u) = k + 4 /\ HostStart(u) = 5
        BY <1>4, <2>2, <2>4, <2>7, <3>4
      <4>2. ParseBrokerHostPort(u) = [host |-> SubSeq(u, 5, k + 4 - 1), port |-> "8883"]
        <5>1. PICK q : q = k + 4
          OBVIOUS
        <5>2. ParseBrokerHostPort(u) = [host |-> SubSeq(u, 5, q - 1), port |-> "8883"]
          BY <4>1, <5>1 DEF ParseBrokerHostPort
        <5> QED
          BY <1>4, <5>1, <5>2
      <4> QED
        BY <1>1, <3>1, <3>3, <4>2
    <3>5. CASE ~(k <= n)
      <4>1. c = n + 1 /\ k = n + 1 /\ HasPort(u) /\ c + 4 = k + 4 /\ c + 4 + 1 = n + 6
        BY <1>4, <2>4, <2>7, <3>5
      <4>2. Atoi(u, n + 6) = "8883"
        BY <2>2 DEF Atoi, Numbers
      <4>3. ParseBrokerHostPort(u) = [host |-> SubSeq(u, 5, k + 4 - 1), port |-> "8883"]
        BY <2>2, <4>1, <4>2 DEF ParseBrokerHostPort
      <4> QED
        BY <1>1, <3>1, <3>3, <4>3
    <3> QED
      BY <3>4, <3>5
  <2> QED
    BY <2>6, <2>7
<1>7. CASE HasScheme(e) /\ HasPort(e)
  BY <1>7 DEF NormalizeMqttUri
<1>8. CASE HasScheme(e) /\ ~HasPort(e)
  <2>1. u = PortAt(e, Slash(e))
    BY <1>1, <1>8 DEF NormalizeMqttUri, PortAt
  <2>2. /\ u \in Seq(Pieces) /\ Len(u) = n + 2
        /\ \A i \in 1 .. k - 1 : u[i] = e[i]
        /\ u[k + 1] = "8883"
        /\ HostStart(u) = h /\ Colon(u) = k /\ Slash(u) = k + 2
    BY <1>2, <1>3, <1>8, <2>1, PortAdded
  <2>3. HasPort(u)
    BY <1>4, <2>2 DEF HasPort
  <2>4. Atoi(u, k + 1) = "8883"
    <3>1. k + 1 <= Len(u)
      BY <1>4, <2>2
    <3> QED
      BY <2>2, <3>1 DEF Atoi, Numbers
  <2>5. SubSeq(u, h, k - 1) = SubSeq(e, h, k - 1)
    <3>1. /\ h \in Nat \ {0} /\ k - 1 \in Nat /\ 0 \in Nat /\ k - 1 <= Len(e) /\ k - 1 + 0 <= Len(u)
      BY <1>2, <1>4, <2>2
    <3>2. \A i \in h .. k - 1 : u[i + 0] = e[i]
      BY <1>4, <2>2
    <3>3. SubSeq(u, h + 0, k - 1 + 0) = SubSeq(e, h, k - 1)
      <4>1. PICK b : b = k - 1
        OBVIOUS
      <4>2. u \in Seq(Pieces)
        BY <2>2
      <4>3. SubSeq(u, h + 0, b + 0) = SubSeq(e, h, b)
        BY <3>1, <3>2, <4>1, <4>2, SamePart
      <4> QED
        BY <4>1, <4>3
    <3>4. h + 0 = h /\ k - 1 + 0 = k - 1
      BY <1>4
    <3> QED
      BY <3>3, <3>4
  <2>6. ParseBrokerHostPort(u) = [host |-> SubSeq(u, h, k - 1), port |-> "8883"]
    BY <2>2, <2>3, <2>4 DEF ParseBrokerHostPort
  <2>7. ParseBrokerHostPort(e) = [host |-> SubSeq(e, h, k - 1), port |-> "8883"]
    BY <1>3, <1>8 DEF ParseBrokerHostPort
  <2> QED
    BY <1>1, <2>5, <2>6, <2>7
<1> QED
  BY <1>6, <1>7, <1>8

LEMMA NormalizeNamesPort ==
  ASSUME NEW e \in Seq(Pieces), HasScheme(e) \/ Range(e) \cap {":", "/"} = {}
  PROVE  /\ HasPort(NormalizeMqttUri(e))
         /\ HasScheme(e) /\ HasPort(e) => NormalizeMqttUri(e) = e
<1>1. PICK u : u = NormalizeMqttUri(e)
  OBVIOUS
<1>2. PICK n \in Nat : n = Len(e)
  BY LenProperties
<1>3. CASE HasScheme(e) /\ HasPort(e)
  BY <1>3 DEF NormalizeMqttUri
<1>4. CASE HasScheme(e) /\ ~HasPort(e)
  <2>1. u = PortAt(e, Slash(e))
    BY <1>1, <1>4 DEF NormalizeMqttUri, PortAt
  <2>2. Colon(u) = Slash(e) /\ Slash(u) = Slash(e) + 2 /\ Slash(e) \in Nat
    <3>1. Slash(e) \in HostStart(e) .. Len(e) + 1 /\ HostStart(e) \in 1 .. Len(e) + 1
      BY PartsFound
    <3>2. Slash(e) \in Nat
      BY <1>2, <3>1
    <3> QED
      BY <1>4, <2>1, <3>2, PortAdded
  <2>3. HasPort(u)
    BY <2>2 DEF HasPort
  <2> QED
    BY <1>1, <1>4, <2>3
<1>5. CASE ~HasScheme(e) /\ Range(e) \cap {":", "/"} = {}
  <2>1. \A i \in 1 .. n : e[i] # ":" /\ e[i] # "/"
    <3>1. DOMAIN e = 1 .. n
      BY <1>2, LenProperties
    <3> QED
      BY <1>5, <3>1 DEF Range
  <2>2. Colon(e) = n + 1 /\ Slash(e) = n + 1
    <3>1. HostStart(e) = 1
      BY <1>5, PartsFound
    <3>2. Colon(e) \in 1 .. n + 1 /\ (Colon(e) <= n => e[Colon(e)] = ":")
      BY <1>2, <3>1, PartsFound
    <3>3. Slash(e) \in 1 .. n + 1 /\ (Slash(e) <= n => e[Slash(e)] = "/")
      BY <1>2, <3>1, PartsFound
    <3> QED
      BY <2>1, <3>2, <3>3
  <2>3. u = <<"mqtts">> \o Scheme \o e \o DefaultPort
    BY <1>1, <1>5 DEF NormalizeMqttUri
  <2>4. /\ Colon(u) = Colon(e) + 4
        /\ Slash(u) = IF Slash(e) <= Len(e) THEN Slash(e) + 4 ELSE Len(e) + 7
    BY <1>5, <2>3, SchemeAdded
  <2>5. HasPort(u)
    BY <1>2, <2>2, <2>4 DEF HasPort
  <2> QED
    BY <1>1, <1>5, <2>5
<1> QED
  BY <1>3, <1>4, <1>5

-----------------------------------------------------------------------------
(***************************************************************************)
(* What the members hold.                                                  *)
(***************************************************************************)

\* Nothing, or an endpoint and what was made of it.
BrokerInv ==
  \/ broker = Cleared
  \/ \E e \in Endpoints : broker = [endpoint |-> e, uri |-> NormalizeMqttUri(e),
                                    broker |-> ParseBrokerHostPort(NormalizeMqttUri(e))]

LEMMA BrokerInvariant == BrokerSpec => []BrokerInv
<1>1. BrokerInit => BrokerInv
  BY DEF BrokerInit, BrokerInv
<1>2. BrokerInv /\ [BrokerNext]_broker => BrokerInv'
  <2> SUFFICES ASSUME BrokerInv, [BrokerNext]_broker PROVE BrokerInv'
    OBVIOUS
  <2>1. CASE SetBroker
    BY <2>1 DEF SetBroker, BrokerInv
  <2>2. CASE ClearBrokerConfigStrings
    BY <2>2 DEF ClearBrokerConfigStrings, BrokerInv, Cleared
  <2>3. CASE UNCHANGED broker
    BY <2>3 DEF BrokerInv, Cleared
  <2> QED
    BY <2>1, <2>2, <2>3 DEF BrokerNext
<1> QED
  BY <1>1, <1>2, PTL DEF BrokerSpec

\* The host and port that Connect() tries to reach are those the endpoint names,
\* whatever NormalizeMqttUri() made of it, for endpoints of any length.
THEOREM EndpointAlwaysKept == BrokerSpec => []EndpointKept
<1>1. BrokerInv => EndpointKept
  <2> SUFFICES ASSUME BrokerInv, broker # Cleared
               PROVE  broker.broker = ParseBrokerHostPort(broker.endpoint)
    BY DEF EndpointKept
  <2>1. PICK e \in Endpoints :
          broker = [endpoint |-> e, uri |-> NormalizeMqttUri(e),
                    broker |-> ParseBrokerHostPort(NormalizeMqttUri(e))]
    BY DEF BrokerInv
  <2>2. e \in Seq(Pieces)
    BY EndpointIs
  <2>3. broker.broker = ParseBrokerHostPort(NormalizeMqttUri(e)) /\ broker.endpoint = e
    BY <2>1
  <2> QED
    BY <2>2, <2>3, NormalizeKeepsAddress
<1> QED
  BY <1>1, BrokerInvariant, PTL

\* The URI that the library is given names a port, and the endpoint's own if it
\* names one behind a scheme, for endpoints of any length.
THEOREM PortAlwaysExplicit == BrokerSpec => []PortIsExplicit
<1>1. BrokerInv => PortIsExplicit
  <2> SUFFICES ASSUME BrokerInv, broker # Cleared,
                      HasScheme(broker.endpoint) \/ Range(broker.endpoint) \cap {":", "/"} = {}
               PROVE  /\ HasPort(broker.uri)
                      /\ HasScheme(broker.endpoint) /\ HasPort(broker.endpoint)
                           => broker.uri = broker.endpoint
    BY DEF PortIsExplicit
  <2>1. PICK e \in Endpoints :
          broker = [endpoint |-> e, uri |-> NormalizeMqttUri(e),
                    broker |-> ParseBrokerHostPort(NormalizeMqttUri(e))]
    BY DEF BrokerInv
  <2>2. e \in Seq(Pieces)
    BY EndpointIs
  <2>3. broker.uri = NormalizeMqttUri(e) /\ broker.endpoint = e
    BY <2>1
  <2> QED
    BY <2>2, <2>3, NormalizeNamesPort
<1> QED
  BY <1>1, BrokerInvariant, PTL
=============================================================================

--------------------------- MODULE LRUCache_proof ---------------------------
(***************************************************************************)
(* The list and the map of an LRUCache stay bound to each other, for any   *)
(* keys, values and sizes; and when every size has at least the tenth that *)
(* insert() evicts, the cache implements RecencyCache.                     *)
(***************************************************************************)
EXTENDS LRUCache, FiniteSetTheorems, SequenceTheorems, TLAPS

USE CacheAssumptions

Distinct(s) == \A i, j \in DOMAIN s : s[i] = s[j] => i = j

LEMMA SuffixOfDistinct ==
    ASSUME NEW s \in Seq(Keys), Distinct(s), NEW n \in 0 .. Len(s)
    PROVE  LET rest == SubSeq(s, n + 1, Len(s))
               gone == ToSet(SubSeq(s, 1, n))
           IN  /\ rest \in Seq(Keys)
               /\ Len(rest) = Len(s) - n
               /\ Distinct(rest)
               /\ ToSet(rest) = ToSet(s) \ gone
               /\ \A i \in DOMAIN rest : rest[i] = s[n + i]
<1> DEFINE rest == SubSeq(s, n + 1, Len(s))
           first == SubSeq(s, 1, n)
<1>1. /\ rest \in Seq(Keys)
      /\ Len(rest) = Len(s) - n
      /\ \A i \in 1 .. Len(s) - n : rest[i] = s[n + i]
  <2>1. n + 1 \in 1 .. Len(s) + 1 /\ Len(s) \in n .. Len(s)
    OBVIOUS
  <2> QED
    BY <2>1, SubSeqProperties
<1>2. Len(first) = n /\ \A i \in 1 .. n : first[i] = s[i]
  BY SubSeqProperties
<1>3. DOMAIN rest = 1 .. Len(s) - n /\ DOMAIN first = 1 .. n /\ DOMAIN s = 1 .. Len(s)
  BY <1>1, <1>2, SubSeqProperties
<1> HIDE DEF rest, first
<1>4. Distinct(rest)
  <2> SUFFICES ASSUME NEW i \in DOMAIN rest, NEW j \in DOMAIN rest, rest[i] = rest[j]
               PROVE  i = j
    BY DEF Distinct
  <2>1. n + i \in DOMAIN s /\ n + j \in DOMAIN s
    BY <1>3
  <2>2. s[n + i] = s[n + j]
    BY <1>1, <1>3
  <2>3. n + i = n + j
    BY <2>1, <2>2 DEF Distinct
  <2> QED
    BY <2>3, <1>3
<1>5. ToSet(rest) = ToSet(s) \ ToSet(first)
  <2>1. ASSUME NEW i \in DOMAIN rest PROVE rest[i] \in ToSet(s) \ ToSet(first)
    <3>1. n + i \in DOMAIN s /\ rest[i] = s[n + i]
      BY <1>1, <1>3
    <3>2. ASSUME NEW j \in DOMAIN first, first[j] = rest[i] PROVE FALSE
      <4>1. j \in DOMAIN s /\ s[j] = s[n + i]
        BY <3>1, <3>2, <1>2, <1>3
      <4>2. j = n + i
        BY <3>1, <4>1 DEF Distinct
      <4> QED
        BY <4>2, <1>3
    <3> QED
      BY <3>1, <3>2 DEF ToSet
  <2>2. ASSUME NEW i \in DOMAIN s, s[i] \notin ToSet(first) PROVE s[i] \in ToSet(rest)
    <3>1. i \notin 1 .. n
      BY <1>2, <1>3, <2>2 DEF ToSet
    <3>2. i - n \in 1 .. Len(s) - n /\ s[i] = rest[i - n]
      BY <3>1, <1>1, <1>3
    <3> QED
      BY <3>2, <1>3 DEF ToSet
  <2> QED
    BY <2>1, <2>2 DEF ToSet
<1> QED
  BY <1>1, <1>3, <1>4, <1>5 DEF rest, first

LEMMA RemoveFromDistinct ==
    ASSUME NEW s \in Seq(Keys), Distinct(s), NEW i \in DOMAIN s
    PROVE  LET t == RemoveAt(s, i)
           IN  /\ t \in Seq(Keys)
               /\ Len(t) = Len(s) - 1
               /\ Distinct(t)
               /\ ToSet(t) = ToSet(s) \ {s[i]}
               /\ \A j \in DOMAIN t : t[j] = s[IF j < i THEN j ELSE j + 1]
<1> DEFINE t == RemoveAt(s, i)
<1>0. i \in 1 .. Len(s) /\ DOMAIN s = 1 .. Len(s)
  OBVIOUS
<1>1. /\ SubSeq(s, 1, i - 1) \in Seq(Keys)
      /\ Len(SubSeq(s, 1, i - 1)) = i - 1
      /\ \A j \in 1 .. i - 1 : SubSeq(s, 1, i - 1)[j] = s[j]
  BY <1>0, SubSeqProperties
<1>2. /\ SubSeq(s, i + 1, Len(s)) \in Seq(Keys)
      /\ Len(SubSeq(s, i + 1, Len(s))) = Len(s) - i
      /\ \A j \in 1 .. Len(s) - i : SubSeq(s, i + 1, Len(s))[j] = s[i + j]
  <2>1. i + 1 \in 1 .. Len(s) + 1 /\ Len(s) \in i .. Len(s)
    BY <1>0
  <2> QED
    BY <2>1, SubSeqProperties
<1>3. /\ t \in Seq(Keys)
      /\ Len(t) = Len(s) - 1
      /\ \A j \in 1 .. Len(s) - 1 : t[j] = s[IF j < i THEN j ELSE j + 1]
  <2> DEFINE a == SubSeq(s, 1, i - 1)
             b == SubSeq(s, i + 1, Len(s))
  <2>1. /\ a \o b \in Seq(Keys)
        /\ Len(a \o b) = Len(a) + Len(b)
        /\ \A j \in 1 .. Len(a) + Len(b) :
              (a \o b)[j] = IF j <= Len(a) THEN a[j] ELSE b[j - Len(a)]
    BY <1>1, <1>2, ConcatProperties
  <2>2. t = a \o b
    BY DEF RemoveAt
  <2>3. Len(a) = i - 1 /\ Len(b) = Len(s) - i
    BY <1>1, <1>2
  <2>4. \A j \in 1 .. i - 1 : a[j] = s[j]
    BY <1>1
  <2>5. \A j \in 1 .. Len(s) - i : b[j] = s[i + j]
    BY <1>2
  <2> HIDE DEF a, b, t
  <2>6. ASSUME NEW j \in 1 .. Len(s) - 1 PROVE t[j] = s[IF j < i THEN j ELSE j + 1]
    <3>1. CASE j < i
      BY <3>1, <1>0, <2>1, <2>2, <2>3, <2>4
    <3>2. CASE j >= i
      <4>1. j - (i - 1) \in 1 .. Len(s) - i /\ i + (j - (i - 1)) = j + 1
        BY <3>2, <1>0
      <4>2. t[j] = b[j - (i - 1)]
        BY <3>2, <1>0, <2>1, <2>2, <2>3
      <4>3. b[j - (i - 1)] = s[i + (j - (i - 1))]
        BY <4>1, <2>5
      <4> QED
        BY <4>1, <4>2, <4>3, <3>2, <1>0
    <3> QED
      BY <3>1, <3>2, <1>0
  <2>7. t \in Seq(Keys)
    BY <2>1, <2>2
  <2>8. Len(t) = Len(s) - 1
    <3>1. Len(t) = (i - 1) + (Len(s) - i)
      BY <2>1, <2>2, <2>3
    <3>2. i \in Int /\ Len(s) \in Int
      BY <1>0
    <3> QED
      BY <3>1, <3>2
  <2> QED
    BY <2>6, <2>7, <2>8
<1>4. DOMAIN t = 1 .. Len(s) - 1
  BY <1>3
<1> HIDE DEF t
<1>5. Distinct(t)
  <2> SUFFICES ASSUME NEW j \in DOMAIN t, NEW m \in DOMAIN t, t[j] = t[m] PROVE j = m
    BY DEF Distinct
  <2> DEFINE at(x) == IF x < i THEN x ELSE x + 1
  <2>1. at(j) \in DOMAIN s /\ at(m) \in DOMAIN s /\ s[at(j)] = s[at(m)]
    BY <1>0, <1>3, <1>4
  <2>2. at(j) = at(m)
    BY <2>1 DEF Distinct
  <2> QED
    BY <2>2, <1>0, <1>4
<1>6. ToSet(t) = ToSet(s) \ {s[i]}
  <2>1. ASSUME NEW j \in DOMAIN t PROVE t[j] \in ToSet(s) \ {s[i]}
    <3> DEFINE at == IF j < i THEN j ELSE j + 1
    <3>1. at \in DOMAIN s /\ at # i /\ t[j] = s[at]
      BY <1>0, <1>3, <1>4
    <3>2. s[at] # s[i]
      BY <3>1 DEF Distinct
    <3> QED
      BY <3>1, <3>2 DEF ToSet
  <2>2. ASSUME NEW j \in DOMAIN s, s[j] # s[i] PROVE s[j] \in ToSet(t)
    <3>1. CASE j < i
      <4>1. j \in DOMAIN t /\ t[j] = s[j]
        BY <3>1, <1>0, <1>3, <1>4
      <4> QED
        BY <4>1 DEF ToSet
    <3>2. CASE j > i
      <4>1. j - 1 \in DOMAIN t /\ t[j - 1] = s[j]
        BY <3>2, <1>0, <1>3, <1>4
      <4> QED
        BY <4>1 DEF ToSet
    <3> QED
      BY <3>1, <3>2, <2>2, <1>0
  <2> QED
    BY <2>1, <2>2 DEF ToSet
<1> QED
  BY <1>3, <1>4, <1>5, <1>6 DEF t

LEMMA AppendToDistinct ==
    ASSUME NEW s \in Seq(Keys), Distinct(s), NEW k \in Keys, k \notin ToSet(s)
    PROVE  LET t == Append(s, k)
           IN  /\ t \in Seq(Keys)
               /\ Len(t) = Len(s) + 1
               /\ Distinct(t)
               /\ ToSet(t) = ToSet(s) \union {k}
               /\ t[Len(t)] = k
               /\ \A i \in 1 .. Len(s) : t[i] = s[i]
<1> DEFINE t == Append(s, k)
<1>1. /\ t \in Seq(Keys)
      /\ Len(t) = Len(s) + 1
      /\ \A i \in 1 .. Len(s) : t[i] = s[i]
      /\ t[Len(s) + 1] = k
      /\ DOMAIN t = 1 .. Len(s) + 1
      /\ DOMAIN s = 1 .. Len(s)
  BY AppendProperties
<1> HIDE DEF t
<1>2. Distinct(t)
  <2> SUFFICES ASSUME NEW i \in DOMAIN t, NEW j \in DOMAIN t, t[i] = t[j] PROVE i = j
    BY DEF Distinct
  <2>1. \A m \in DOMAIN s : t[m] = s[m] /\ s[m] # k
    BY <1>1 DEF ToSet
  <2>2. CASE i \in DOMAIN s /\ j \in DOMAIN s
    BY <2>1, <2>2 DEF Distinct
  <2>3. CASE i \notin DOMAIN s \/ j \notin DOMAIN s
    BY <2>1, <2>3, <1>1
  <2> QED
    BY <2>2, <2>3
<1>3. ToSet(t) = ToSet(s) \union {k}
  BY <1>1 DEF ToSet
<1> QED
  BY <1>1, <1>2, <1>3 DEF t

-----------------------------------------------------------------------------
(* The invariant                                                           *)

LEMMA BufIsSmall ==
    ASSUME NEW n \in Nat PROVE n \div Fraction \in 0 .. n
<1>1. Fraction \in Nat /\ Fraction >= 1
  OBVIOUS
<1>2. n \div Fraction \in Int /\ Fraction * (n \div Fraction) <= n
      /\ n < Fraction * (n \div Fraction) + Fraction
  BY <1>1, Z3
<1> QED
  BY <1>1, <1>2, Z3

LEMMA ErasedList ==
    ASSUME ListMatchesMap, NEW k \in Cached
    PROVE  /\ Erased(k) \in Seq(Keys)
           /\ Distinct(Erased(k))
           /\ ToSet(Erased(k)) = Cached \ {k}
           /\ Len(Erased(k)) = Len(lru) - 1
           /\ \E i \in DOMAIN lru : lru[i] = k /\ Erased(k) = RemoveAt(lru, i)
<1>1. lru \in Seq(Keys) /\ Distinct(lru) /\ ToSet(lru) = Cached
  BY DEF ListMatchesMap, Distinct
<1>2. \E i \in DOMAIN lru : lru[i] = k
  BY <1>1 DEF ToSet
<1>3. PICK i \in DOMAIN lru : lru[i] = k /\ Erased(k) = RemoveAt(lru, i)
  BY <1>2 DEF Erased
<1> QED
  BY <1>1, <1>3, RemoveFromDistinct

\* The list after a use of k.
LEMMA TouchedList ==
    ASSUME ListMatchesMap, NEW k \in Keys
    PROVE  /\ Touched(k) \in Seq(Keys)
           /\ Distinct(Touched(k))
           /\ ToSet(Touched(k)) = Cached \union {k}
           /\ Len(Touched(k)) \in Nat \ {0}
           /\ Len(Touched(k)) = IF k \in Cached THEN Len(lru) ELSE Len(lru) + 1
           /\ Touched(k)[Len(Touched(k))] = k
<1>1. lru \in Seq(Keys) /\ Distinct(lru) /\ ToSet(lru) = Cached /\ Len(lru) \in Nat
  BY DEF ListMatchesMap, Distinct
<1>2. CASE k \notin Cached
  BY <1>1, <1>2, AppendToDistinct DEF Touched
<1>3. CASE k \in Cached
  <2>1. /\ Erased(k) \in Seq(Keys)
        /\ Distinct(Erased(k))
        /\ ToSet(Erased(k)) = Cached \ {k}
        /\ Len(Erased(k)) = Len(lru) - 1
    BY <1>1, <1>3, ErasedList
  <2> QED
    BY <1>1, <1>3, <2>1, AppendToDistinct DEF Touched
<1> QED
  BY <1>2, <1>3

\* Cutting n keys off a list that goes with the entries leaves one that does.
LEMMA EvictKeepsMatch ==
    ASSUME NEW list \in Seq(Keys), Distinct(list),
           NEW entries \in [Keys -> Values \union {None}],
           ToSet(list) = {k \in Keys : entries[k] # None},
           NEW n \in 0 .. Len(list),
           Evict(n, list, entries),
           max' \in Sizes, buf' = max' \div Fraction
    PROVE  ListMatchesMap'
<1>1. /\ lru' \in Seq(Keys)
      /\ Distinct(lru')
      /\ ToSet(lru') = ToSet(list) \ ToSet(SubSeq(list, 1, n))
  BY SuffixOfDistinct DEF Evict
<1>2. /\ map' \in [Keys -> Values \union {None}]
      /\ \A k \in Keys : map'[k] # None
             <=> entries[k] # None /\ k \notin ToSet(SubSeq(list, 1, n))
  BY DEF Evict
<1>3. Cached' = ToSet(lru')
  BY <1>1, <1>2 DEF Cached
<1> QED
  BY <1>1, <1>2, <1>3 DEF ListMatchesMap, Distinct

LEMMA InsertKeepsMatch ==
    ASSUME ListMatchesMap, NEW k \in Keys, NEW v \in Values, Insert(k, v)
    PROVE  ListMatchesMap'
<1> DEFINE entries == [map EXCEPT ![k] = v]
           n == IF Len(Touched(k)) > max THEN buf ELSE 0
<1>1. entries \in [Keys -> Values \union {None}]
  BY DEF ListMatchesMap
<1>2. ToSet(Touched(k)) = {l \in Keys : entries[l] # None}
  BY TouchedList DEF ListMatchesMap, Cached
<1>3. max \in Nat /\ buf \in 0 .. max
  BY BufIsSmall DEF ListMatchesMap
<1>4. n \in 0 .. Len(Touched(k))
  BY <1>3, TouchedList
<1>5. Evict(n, Touched(k), entries) /\ max' \in Sizes /\ buf' = max' \div Fraction
  BY DEF Insert, ListMatchesMap
<1> HIDE DEF entries, n
<1> QED
  BY <1>1, <1>2, <1>4, <1>5, TouchedList, EvictKeepsMatch

\* The bond of list and map, for any keys, values and sizes.
THEOREM ListMatchesMapHolds == Spec => []ListMatchesMap
<1>1. Init => ListMatchesMap
  BY DEF Init, ListMatchesMap, Cached, ToSet
<1>2. ListMatchesMap /\ [Next]_vars => ListMatchesMap'
  <2> SUFFICES ASSUME ListMatchesMap, [Next]_vars PROVE ListMatchesMap'
    OBVIOUS
  <2>1. lru \in Seq(Keys) /\ Distinct(lru) /\ ToSet(lru) = Cached /\ Len(lru) \in Nat
    BY DEF ListMatchesMap, Distinct
  <2>2. ASSUME NEW k \in Keys, Get(k) PROVE ListMatchesMap'
    <3>1. Cached' = Cached
      BY <2>2 DEF Get, Cached
    <3>2. CASE k \in Cached
      <4>1. lru' = Touched(k) /\ UNCHANGED <<map, max, buf>>
        BY <2>2, <3>2 DEF Get
      <4>2. lru' \in Seq(Keys) /\ Distinct(lru') /\ Cached' = ToSet(lru')
        <5>1. Cached \union {k} = Cached
          BY <3>2
        <5> QED
          BY <3>1, <4>1, <5>1, TouchedList
      <4> QED
        BY <4>1, <4>2 DEF ListMatchesMap, Distinct
    <3>3. CASE k \notin Cached
      BY <2>2, <3>1, <3>3 DEF Get, ListMatchesMap
    <3> QED
      BY <3>2, <3>3
  <2>3. ASSUME NEW k \in Keys, Erase(k) PROVE ListMatchesMap'
    <3>1. map' \in [Keys -> Values \union {None}] /\ Cached' = Cached \ {k}
      BY <2>3 DEF Erase, Cached, ListMatchesMap
    <3>2. CASE k \in Cached
      BY <2>1, <2>3, <3>1, <3>2, ErasedList DEF Erase, ListMatchesMap, Distinct
    <3>3. CASE k \notin Cached
      BY <2>3, <3>1, <3>3 DEF Erase, ListMatchesMap
    <3> QED
      BY <3>2, <3>3
  <2>4. ASSUME NEW k \in Keys, NEW v \in Values, Insert(k, v) PROVE ListMatchesMap'
    BY <2>4, InsertKeepsMatch
  <2>5. CASE Clear
    BY <2>5 DEF Clear, ListMatchesMap, Cached, ToSet
  <2>6. ASSUME NEW m \in Sizes, SetMaxSize(m) PROVE ListMatchesMap'
    <3> DEFINE n == IF Len(lru) > m THEN Len(lru) - m ELSE 0
    <3>1. m \in Nat /\ map \in [Keys -> Values \union {None}]
      BY DEF ListMatchesMap
    <3>2. n \in 0 .. Len(lru)
      BY <2>1, <3>1
    <3>3. Evict(n, lru, map) /\ max' \in Sizes /\ buf' = max' \div Fraction
      BY <2>6 DEF SetMaxSize
    <3>4. ToSet(lru) = {k \in Keys : map[k] # None}
      BY <2>1 DEF Cached
    <3> HIDE DEF n
    <3> QED
      BY <2>1, <3>1, <3>2, <3>3, <3>4, EvictKeepsMatch
  <2>7. CASE UNCHANGED vars
    BY <2>7 DEF vars, ListMatchesMap, Cached
  <2> QED
    BY <2>2, <2>3, <2>4, <2>5, <2>6, <2>7 DEF Next
<1> QED
  BY <1>1, <1>2, PTL DEF Spec

-----------------------------------------------------------------------------
(* The refinement                                                          *)

LEMMA LengthCounts ==
    ASSUME NEW s \in Seq(Keys), Distinct(s)
    PROVE  IsFiniteSet(ToSet(s)) /\ Cardinality(ToSet(s)) = Len(s)
<1>1. Len(s) \in Nat /\ DOMAIN s = 1 .. Len(s)
  OBVIOUS
<1>2. s \in [1 .. Len(s) -> ToSet(s)] /\ \A k \in ToSet(s) : \E i \in 1 .. Len(s) : s[i] = k
  BY <1>1 DEF ToSet
<1>3. IsInjective(s)
  BY <1>1 DEF Distinct, IsInjective
<1>4. ExistsBijection(1 .. Len(s), ToSet(s))
  BY <1>2, <1>3 DEF ExistsBijection, Bijection, Injection, Surjection
<1> QED
  BY <1>1, <1>4, FS_CountingElements, FS_NatBijection

LEMMA BeforeRemoved ==
    ASSUME NEW s \in Seq(Keys), Distinct(s), NEW i \in DOMAIN s
    PROVE  Before(RemoveAt(s, i)) = {r \in Before(s) : s[i] \notin {r[1], r[2]}}
<1> DEFINE t == RemoveAt(s, i)
           at(x) == IF x < i THEN x ELSE x + 1
<1>1. /\ DOMAIN s = 1 .. Len(s)
      /\ DOMAIN t = 1 .. Len(s) - 1
      /\ i \in 1 .. Len(s)
      /\ Len(s) \in Nat
      /\ \A x \in DOMAIN s : s[x] \in Keys
  BY RemoveFromDistinct
<1>2. \A x \in DOMAIN t : at(x) \in DOMAIN s \ {i} /\ t[x] = s[at(x)]
  <2>1. \A x \in DOMAIN t : t[x] = s[IF x < i THEN x ELSE x + 1]
    BY RemoveFromDistinct
  <2> HIDE DEF t
  <2> QED
    BY <1>1, <2>1
<1>3. \A x, y \in DOMAIN t : x < y <=> at(x) < at(y)
  BY <1>1
<1>4. \A z \in DOMAIN s \ {i} : \E x \in DOMAIN t : at(x) = z
  <2> SUFFICES ASSUME NEW z \in DOMAIN s \ {i} PROVE \E x \in DOMAIN t : at(x) = z
    OBVIOUS
  <2>1. CASE z < i
    BY <2>1, <1>1
  <2>2. CASE z > i
    <3>1. z - 1 \in DOMAIN t /\ at(z - 1) = z
      BY <2>2, <1>1
    <3> QED
      BY <3>1
  <2> QED
    BY <2>1, <2>2, <1>1
<1> HIDE DEF t, at
<1>5. ASSUME NEW r \in Before(t) PROVE r \in Before(s) /\ s[i] \notin {r[1], r[2]}
  <2>1. PICK x \in DOMAIN t, y \in DOMAIN t : x < y /\ r = <<t[x], t[y]>>
    BY <1>5 DEF Before
  <2>2. at(x) < at(y) /\ r = <<s[at(x)], s[at(y)]>>
    BY <2>1, <1>2, <1>3
  <2>3. s[at(x)] # s[i] /\ s[at(y)] # s[i]
    BY <1>2 DEF Distinct
  <2> QED
    BY <2>2, <2>3, <1>1, <1>2 DEF Before
<1>6. ASSUME NEW r \in Before(s), s[i] \notin {r[1], r[2]} PROVE r \in Before(t)
  <2>1. PICK x \in DOMAIN s, y \in DOMAIN s : x < y /\ r = <<s[x], s[y]>>
    BY <1>6 DEF Before
  <2>2. x # i /\ y # i
    BY <2>1, <1>6
  <2>3. PICK v \in DOMAIN t : at(v) = x
    BY <2>2, <1>4
  <2>4. PICK w \in DOMAIN t : at(w) = y
    BY <2>2, <1>4
  <2>5. v < w /\ r = <<t[v], t[w]>>
    BY <2>1, <2>3, <2>4, <1>2, <1>3
  <2>6. r \in Keys \X Keys
    BY DEF Before
  <2> QED
    BY <2>5, <2>6 DEF Before
<1> QED
  BY <1>5, <1>6 DEF t

LEMMA BeforeAppended ==
    ASSUME NEW s \in Seq(Keys), Distinct(s), NEW k \in Keys, k \notin ToSet(s)
    PROVE  Before(Append(s, k)) = Before(s) \union (ToSet(s) \X {k})
<1> DEFINE t == Append(s, k)
<1>1. /\ DOMAIN s = 1 .. Len(s)
      /\ DOMAIN t = 1 .. Len(s) + 1
      /\ Len(s) \in Nat
      /\ \A x \in DOMAIN s : s[x] \in Keys /\ t[x] = s[x]
      /\ t[Len(s) + 1] = k
  BY AppendProperties
<1> HIDE DEF t
<1>2. ASSUME NEW r \in Before(t) PROVE r \in Before(s) \union (ToSet(s) \X {k})
  <2>1. PICK x \in DOMAIN t, y \in DOMAIN t : x < y /\ r = <<t[x], t[y]>>
    BY <1>2 DEF Before
  <2>2. x \in DOMAIN s
    BY <2>1, <1>1
  <2>3. CASE y \in DOMAIN s
    BY <2>1, <2>2, <2>3, <1>1 DEF Before
  <2>4. CASE y = Len(s) + 1
    BY <2>1, <2>2, <2>4, <1>1 DEF ToSet
  <2> QED
    BY <2>3, <2>4, <1>1
<1>3. ASSUME NEW r \in Before(s) PROVE r \in Before(t)
  <2>1. PICK x \in DOMAIN s, y \in DOMAIN s : x < y /\ r = <<s[x], s[y]>>
    BY <1>3 DEF Before
  <2>2. x \in DOMAIN t /\ y \in DOMAIN t /\ r = <<t[x], t[y]>>
    BY <2>1, <1>1
  <2>3. r \in Keys \X Keys
    BY DEF Before
  <2> QED
    BY <2>1, <2>2, <2>3 DEF Before
<1>4. ASSUME NEW x \in DOMAIN s PROVE <<s[x], k>> \in Before(t)
  BY <1>1 DEF Before
<1> QED
  BY <1>2, <1>3, <1>4 DEF t, ToSet

LEMMA BeforeSuffix ==
    ASSUME NEW s \in Seq(Keys), Distinct(s), NEW n \in 0 .. Len(s)
    PROVE  LET gone == ToSet(SubSeq(s, 1, n))
           IN  /\ Before(SubSeq(s, n + 1, Len(s)))
                     = {r \in Before(s) : r[1] \notin gone /\ r[2] \notin gone}
               /\ gone \subseteq ToSet(s)
               /\ \A k \in gone, l \in ToSet(s) \ gone : <<k, l>> \in Before(s)
               /\ n < Len(s) => s[Len(s)] \notin gone
               /\ Cardinality(ToSet(s) \ gone) = Len(s) - n
               /\ n = 0 => gone = {}
<1> DEFINE rest == SubSeq(s, n + 1, Len(s))
           first == SubSeq(s, 1, n)
<1>1. /\ rest \in Seq(Keys)
      /\ Len(rest) = Len(s) - n
      /\ Distinct(rest)
      /\ ToSet(rest) = ToSet(s) \ ToSet(first)
      /\ \A i \in DOMAIN rest : rest[i] = s[n + i]
  BY SuffixOfDistinct
<1>2. Len(first) = n /\ first \in Seq(Keys) /\ \A i \in 1 .. n : first[i] = s[i]
  BY SubSeqProperties
<1>3. /\ DOMAIN rest = 1 .. Len(s) - n
      /\ DOMAIN first = 1 .. n
      /\ DOMAIN s = 1 .. Len(s)
      /\ Len(s) \in Nat
      /\ \A x \in DOMAIN s : s[x] \in Keys
  BY <1>1, <1>2
<1> HIDE DEF rest, first
<1>4. \A x \in DOMAIN s : s[x] \in ToSet(first) <=> x <= n
  <2> SUFFICES ASSUME NEW x \in DOMAIN s PROVE s[x] \in ToSet(first) <=> x <= n
    OBVIOUS
  <2>1. CASE x <= n
    BY <2>1, <1>2, <1>3 DEF ToSet
  <2>2. ASSUME x > n, s[x] \in ToSet(first) PROVE FALSE
    <3>1. PICK y \in DOMAIN first : first[y] = s[x]
      BY <2>2 DEF ToSet
    <3>2. y \in DOMAIN s /\ s[y] = s[x]
      BY <3>1, <1>2, <1>3
    <3>3. y = x
      BY <3>2 DEF Distinct
    <3> QED
      BY <3>3, <2>2, <1>3
  <2> QED
    BY <2>1, <2>2, <1>3
<1>5. ASSUME NEW r \in Before(rest)
      PROVE  r \in Before(s) /\ r[1] \notin ToSet(first) /\ r[2] \notin ToSet(first)
  <2>1. PICK x \in DOMAIN rest, y \in DOMAIN rest : x < y /\ r = <<rest[x], rest[y]>>
    BY <1>5 DEF Before
  <2>2. /\ n + x \in DOMAIN s /\ n + y \in DOMAIN s
        /\ n + x < n + y /\ n + x > n /\ n + y > n
    BY <2>1, <1>3
  <2>3. r = <<s[n + x], s[n + y]>>
    BY <2>1, <1>1
  <2>4. s[n + x] \notin ToSet(first) /\ s[n + y] \notin ToSet(first)
    BY <2>2, <1>3, <1>4
  <2> QED
    BY <2>2, <2>3, <2>4, <1>3 DEF Before
<1>6. ASSUME NEW r \in Before(s), r[1] \notin ToSet(first), r[2] \notin ToSet(first)
      PROVE  r \in Before(rest)
  <2>1. PICK x \in DOMAIN s, y \in DOMAIN s : x < y /\ r = <<s[x], s[y]>>
    BY <1>6 DEF Before
  <2>2. x > n /\ y > n
    BY <2>1, <1>3, <1>4, <1>6
  <2>3. /\ x - n \in DOMAIN rest /\ y - n \in DOMAIN rest /\ x - n < y - n
        /\ n + (x - n) = x /\ n + (y - n) = y
    BY <2>1, <2>2, <1>3
  <2>4. r = <<rest[x - n], rest[y - n]>>
    BY <2>1, <2>3, <1>1
  <2>5. r \in Keys \X Keys
    BY DEF Before
  <2> QED
    BY <2>3, <2>4, <2>5 DEF Before
<1>7. ToSet(first) \subseteq ToSet(s)
  BY <1>2, <1>3 DEF ToSet
<1>8. ASSUME NEW k \in ToSet(first), NEW l \in ToSet(s) \ ToSet(first)
      PROVE  <<k, l>> \in Before(s)
  <2>1. PICK x \in DOMAIN s : s[x] = k
    BY <1>7 DEF ToSet
  <2>2. PICK y \in DOMAIN s : s[y] = l
    BY DEF ToSet
  <2>3. x <= n /\ y > n
    BY <2>1, <2>2, <1>3, <1>4
  <2> QED
    BY <2>1, <2>2, <2>3, <1>3 DEF Before
<1>9. n < Len(s) => s[Len(s)] \notin ToSet(first)
  BY <1>3, <1>4
<1>10. Cardinality(ToSet(s) \ ToSet(first)) = Len(s) - n
  BY <1>1, LengthCounts
<1>11. n = 0 => ToSet(first) = {}
  BY <1>3 DEF ToSet
<1> QED
  BY <1>5, <1>6, <1>7, <1>8, <1>9, <1>10, <1>11 DEF rest, first

\* The instance counts as this module does.
LEMMA SameCardinality ==
    ASSUME NEW S PROVE Recency!Cardinality(S) = Cardinality(S)
BY Zenon DEF Recency!Cardinality, Cardinality, Recency!IsFiniteSet, IsFiniteSet

\* No call leaves more in the cache than it may have.
WithinLimit == Len(lru) <= max

\* The order after a use of k.
LEMMA TouchedOrder ==
    ASSUME ListMatchesMap, NEW k \in Keys
    PROVE  Before(Touched(k)) = Recency!UsedNow(k)
<1>1. lru \in Seq(Keys) /\ Distinct(lru) /\ ToSet(lru) = Cached /\ Cached = Recency!Kept
  BY DEF ListMatchesMap, Distinct, Cached, Recency!Kept, Recency!KeptIn
<1>2. CASE k \notin Cached
  <2>1. Before(Touched(k)) = Before(lru) \union (Cached \X {k})
    BY <1>1, <1>2, BeforeAppended DEF Touched
  <2>2. \A r \in Before(lru) : k \notin {r[1], r[2]}
    <3> SUFFICES ASSUME NEW r \in Before(lru) PROVE k \notin {r[1], r[2]}
      OBVIOUS
    <3>1. PICK i \in DOMAIN lru, j \in DOMAIN lru : r = <<lru[i], lru[j]>>
      BY DEF Before
    <3>2. lru[i] \in Cached /\ lru[j] \in Cached
      BY <1>1 DEF ToSet
    <3> QED
      BY <3>1, <3>2, <1>2
  <2>3. Cached \ {k} = Cached
    BY <1>2
  <2> QED
    BY <1>1, <2>1, <2>2, <2>3 DEF Recency!UsedNow
<1>3. CASE k \in Cached
  <2>1. PICK i \in DOMAIN lru : lru[i] = k /\ Erased(k) = RemoveAt(lru, i)
    BY <1>3, ErasedList
  <2>2. Before(Erased(k)) = {r \in Before(lru) : k \notin {r[1], r[2]}}
    BY <1>1, <2>1, BeforeRemoved
  <2>3. Before(Touched(k)) = Before(Erased(k)) \union ((Cached \ {k}) \X {k})
    BY <1>3, ErasedList, BeforeAppended DEF Touched
  <2> QED
    BY <1>1, <2>2, <2>3 DEF Recency!UsedNow
<1> QED
  BY <1>2, <1>3

LEMMA GetRefines ==
    ASSUME ListMatchesMap, NEW k \in Keys, Get(k)
    PROVE  Recency!Get(k) /\ Len(lru') = Len(lru)
<1>1. Cached = Recency!Kept
  BY DEF Cached, Recency!Kept, Recency!KeptIn
<1>2. Before(lru') = Before(lru)'
  OBVIOUS
<1>3. CASE k \in Cached
  <2>1. lru' = Touched(k)
    BY <1>3 DEF Get
  <2>2. Before(lru)' = Recency!UsedNow(k)
    BY <2>1, TouchedOrder DEF Before
  <2>3. Len(lru') = Len(lru)
    BY <1>3, <2>1, TouchedList
  <2> QED
    BY <1>1, <1>3, <2>2, <2>3 DEF Get, Recency!Get
<1>4. CASE k \notin Cached
  <2>1. lru' = lru
    BY <1>4 DEF Get
  <2>2. Before(lru)' = Before(lru)
    BY <2>1 DEF Before
  <2> QED
    BY <1>1, <1>4, <2>1, <2>2 DEF Get, Recency!Get
<1> QED
  BY <1>3, <1>4

LEMMA EraseRefines ==
    ASSUME ListMatchesMap, NEW k \in Keys, Erase(k)
    PROVE  Recency!Erase(k) /\ Len(lru') <= Len(lru)
<1>1. lru \in Seq(Keys) /\ Distinct(lru) /\ ToSet(lru) = Cached /\ Len(lru) \in Nat
  BY DEF ListMatchesMap, Distinct
<1>2. Before(lru)' = {r \in Before(lru) : k \notin {r[1], r[2]}} /\ Len(lru') <= Len(lru)
  <2>1. CASE k \in Cached
    <3>1. PICK i \in DOMAIN lru : lru[i] = k /\ Erased(k) = RemoveAt(lru, i)
      BY <2>1, ErasedList
    <3>2. lru' = Erased(k)
      BY <2>1 DEF Erase
    <3>3. Before(Erased(k)) = {r \in Before(lru) : k \notin {r[1], r[2]}}
      BY <1>1, <3>1, BeforeRemoved
    <3>4. Before(lru)' = Before(Erased(k))
      BY <3>2 DEF Before
    <3> QED
      BY <1>1, <2>1, <3>2, <3>3, <3>4, ErasedList
  <2>2. CASE k \notin Cached
    <3>1. lru' = lru
      BY <2>2 DEF Erase
    <3>2. Before(lru)' = Before(lru)
      BY <3>1 DEF Before
    <3>3. \A r \in Before(lru) : k \notin {r[1], r[2]}
      <4> SUFFICES ASSUME NEW r \in Before(lru) PROVE k \notin {r[1], r[2]}
        OBVIOUS
      <4>1. PICK i \in DOMAIN lru, j \in DOMAIN lru : r = <<lru[i], lru[j]>>
        BY DEF Before
      <4>2. lru[i] \in Cached /\ lru[j] \in Cached
        BY <1>1 DEF ToSet
      <4> QED
        BY <4>1, <4>2, <2>2
    <3> QED
      BY <1>1, <3>1, <3>2, <3>3
  <2> QED
    BY <2>1, <2>2
<1>3. Before(lru)' = Recency!Without(Before(lru), {k})
  BY <1>2 DEF Recency!Without
<1> QED
  BY <1>2, <1>3 DEF Erase, Recency!Erase

LEMMA InsertRefines ==
    ASSUME \A n \in Sizes : n >= Fraction,
           ListMatchesMap, WithinLimit, NEW k \in Keys, NEW v \in Values, Insert(k, v)
    PROVE  Recency!Insert(k, v) /\ WithinLimit'
<1> DEFINE list == Touched(k)
           n == IF Len(list) > max THEN buf ELSE 0
           gone == ToSet(SubSeq(list, 1, n))
           kept == Recency!Kept \union {k}
<1>1. /\ list \in Seq(Keys)
      /\ Distinct(list)
      /\ ToSet(list) = kept
      /\ Len(list) \in Nat \ {0}
      /\ Len(list) <= Len(lru) + 1
      /\ list[Len(list)] = k
      /\ Before(list) = Recency!UsedNow(k)
  <2>1. Cached = Recency!Kept /\ Len(lru) \in Nat
    BY DEF Cached, Recency!Kept, Recency!KeptIn, ListMatchesMap
  <2> QED
    BY <2>1, TouchedList, TouchedOrder
<1>2. max \in Nat /\ buf \in 1 .. max
  <2>1. max \in Nat /\ max >= Fraction /\ buf = max \div Fraction /\ Fraction \in Nat \ {0}
    BY DEF ListMatchesMap
  <2>2. buf \in 0 .. max
    BY <2>1, BufIsSmall
  <2>3. buf # 0
    BY <2>1, Z3
  <2> QED
    BY <2>1, <2>2, <2>3
<1>3. Len(lru) \in Nat /\ Len(lru) <= max
  BY DEF WithinLimit, ListMatchesMap
<1>4. /\ n \in 0 .. Len(list) /\ n < Len(list) /\ Len(list) - n <= max
      /\ Len(list) <= max => n = 0
  BY <1>1, <1>2, <1>3
<1>5. /\ lru' = SubSeq(list, n + 1, Len(list))
      /\ map' = [l \in Keys |-> IF l \in gone THEN None ELSE [map EXCEPT ![k] = v][l]]
      /\ result' = None
      /\ UNCHANGED <<max, buf>>
  BY DEF Insert, Evict
<1>6. map \in [Keys -> Values \union {None}]
  BY DEF ListMatchesMap
<1> HIDE DEF list, n
<1>7. Len(lru') = Len(list) - n
  BY <1>1, <1>4, <1>5, SuffixOfDistinct
<1>8. /\ Before(SubSeq(list, n + 1, Len(list)))
             = {r \in Before(list) : r[1] \notin gone /\ r[2] \notin gone}
      /\ gone \subseteq ToSet(list)
      /\ \A x \in gone, y \in ToSet(list) \ gone : <<x, y>> \in Before(list)
      /\ list[Len(list)] \notin gone
      /\ Cardinality(ToSet(list) \ gone) = Len(list) - n
      /\ n = 0 => gone = {}
  <2>1. list \in Seq(Keys) /\ Distinct(list) /\ n \in 0 .. Len(list) /\ n < Len(list)
    BY <1>1, <1>4
  <2> QED
    BY <2>1, BeforeSuffix
<1>9. Cardinality(kept) = Len(list)
  BY <1>1, LengthCounts
<1> HIDE DEF gone
<1>10. /\ gone \in SUBSET (kept \ {k})
       /\ Recency!Oldest(gone, kept, Recency!UsedNow(k))
       /\ Cardinality(kept) <= max => gone = {}
       /\ Cardinality(kept \ gone) <= max
  <2>1. gone \in SUBSET (kept \ {k})
    BY <1>1, <1>8
  <2>2. Recency!Oldest(gone, kept, Recency!UsedNow(k))
    BY <1>1, <1>8 DEF Recency!Oldest
  <2>3. Cardinality(kept) <= max => gone = {}
    BY <1>4, <1>8, <1>9
  <2>4. Cardinality(kept \ gone) <= max
    BY <1>1, <1>4, <1>8
  <2> QED
    BY <2>1, <2>2, <2>3, <2>4
<1>11. Before(lru)' = Recency!Without(Recency!UsedNow(k), gone)
  <2>1. Before(lru)' = Before(SubSeq(list, n + 1, Len(list)))
    BY <1>5 DEF Before
  <2> QED
    BY <1>1, <1>8, <2>1 DEF Recency!Without
<1>12. map' = [l \in Keys |-> IF l \in gone THEN None ELSE IF l = k THEN v ELSE map[l]]
  BY <1>5, <1>6
<1>13. WithinLimit'
  BY <1>4, <1>5, <1>7 DEF WithinLimit
<1>14. /\ Recency!Cardinality(kept) <= max => gone = {}
       /\ Recency!Cardinality(kept \ gone) <= max
  BY <1>10, SameCardinality
<1>15. Recency!Insert(k, v)
  BY <1>5, <1>10, <1>11, <1>12, <1>14 DEF Recency!Insert
<1> QED
  BY <1>13, <1>15

LEMMA SetMaxSizeRefines ==
    ASSUME ListMatchesMap, NEW m \in Sizes, SetMaxSize(m)
    PROVE  Recency!SetLimit(m) /\ WithinLimit'
<1> DEFINE n == IF Len(lru) > m THEN Len(lru) - m ELSE 0
           gone == ToSet(SubSeq(lru, 1, n))
<1>1. /\ lru \in Seq(Keys)
      /\ Distinct(lru)
      /\ ToSet(lru) = Recency!Kept
      /\ Len(lru) \in Nat
      /\ m \in Nat
  BY DEF ListMatchesMap, Distinct, Cached, Recency!Kept, Recency!KeptIn
<1>2. /\ n \in 0 .. Len(lru)
      /\ IF Len(lru) <= m THEN n = 0 ELSE Len(lru) - n = m
  BY <1>1
<1>3. /\ lru' = SubSeq(lru, n + 1, Len(lru))
      /\ map' = [l \in Keys |-> IF l \in gone THEN None ELSE map[l]]
      /\ result' = None
      /\ max' = m
  BY DEF SetMaxSize, Evict
<1> HIDE DEF n
<1>4. Len(lru') = Len(lru) - n
  BY <1>1, <1>2, <1>3, SuffixOfDistinct
<1>5. /\ Before(SubSeq(lru, n + 1, Len(lru)))
             = {r \in Before(lru) : r[1] \notin gone /\ r[2] \notin gone}
      /\ gone \subseteq ToSet(lru)
      /\ \A x \in gone, y \in ToSet(lru) \ gone : <<x, y>> \in Before(lru)
      /\ Cardinality(ToSet(lru) \ gone) = Len(lru) - n
      /\ n = 0 => gone = {}
  BY <1>1, <1>2, BeforeSuffix
<1>6. Cardinality(Recency!Kept) = Len(lru)
  BY <1>1, LengthCounts
<1> HIDE DEF gone
<1>7. gone \in SUBSET Recency!Kept /\ Recency!Oldest(gone, Recency!Kept, Before(lru))
  BY <1>1, <1>5 DEF Recency!Oldest
<1>8. IF Cardinality(Recency!Kept) <= m THEN gone = {}
      ELSE Cardinality(Recency!Kept \ gone) = m
  BY <1>1, <1>2, <1>5, <1>6
<1>9. Before(lru)' = Recency!Without(Before(lru), gone)
  <2>1. Before(lru)' = Before(SubSeq(lru, n + 1, Len(lru)))
    BY <1>3 DEF Before
  <2> QED
    BY <1>5, <2>1 DEF Recency!Without
<1>10. WithinLimit'
  BY <1>1, <1>2, <1>3, <1>4 DEF WithinLimit
<1>11. Recency!SetLimit(m)
  BY <1>3, <1>7, <1>8, <1>9, SameCardinality DEF Recency!SetLimit
<1> QED
  BY <1>10, <1>11

\* A cache whose sizes have the part that insert() evicts keeps its limit, and
\* what it evicts is what was least recently used.
THEOREM CacheImplementsRecency ==
    ASSUME \A n \in Sizes : n >= Fraction
    PROVE  Spec => ImplementsRecency
<1>1. Init => Recency!Init /\ WithinLimit
  BY DEF Init, Recency!Init, Before, WithinLimit
<1>2. ListMatchesMap /\ WithinLimit /\ [Next]_vars
        => WithinLimit' /\ [Recency!Next]_Recency!cacheVars
  <2> SUFFICES ASSUME ListMatchesMap, WithinLimit, [Next]_vars
               PROVE  WithinLimit' /\ [Recency!Next]_Recency!cacheVars
    OBVIOUS
  <2>0. Len(lru) \in Nat /\ max \in Nat /\ Len(lru) <= max
    BY DEF ListMatchesMap, WithinLimit
  <2>1. ASSUME NEW k \in Keys, Get(k)
        PROVE  WithinLimit' /\ Recency!Get(k)
    BY <2>0, <2>1, GetRefines DEF WithinLimit, Get
  <2>2. ASSUME NEW k \in Keys, Erase(k)
        PROVE  WithinLimit' /\ Recency!Erase(k)
    <3>1. Recency!Erase(k) /\ Len(lru') <= Len(lru) /\ max' = max
      BY <2>2, EraseRefines DEF Erase
    <3>2. CASE k \in Cached
      <4>1. lru' = Erased(k)
        BY <2>2, <3>2 DEF Erase
      <4> QED
        BY <2>0, <3>1, <3>2, <4>1, ErasedList DEF WithinLimit
    <3>3. CASE k \notin Cached
      BY <2>0, <2>2, <3>1, <3>3 DEF WithinLimit, Erase
    <3> QED
      BY <3>1, <3>2, <3>3
  <2>3. ASSUME NEW k \in Keys, NEW v \in Values, Insert(k, v)
        PROVE  WithinLimit' /\ Recency!Insert(k, v)
    BY <2>3, InsertRefines
  <2>4. CASE Clear
    <3>1. Before(lru)' = {}
      BY <2>4 DEF Clear, Before
    <3>2. Recency!Clear
      BY <2>4, <3>1 DEF Clear, Recency!Clear
    <3>3. WithinLimit'
      BY <2>0, <2>4 DEF Clear, WithinLimit
    <3> QED
      BY <3>2, <3>3 DEF Recency!Next
  <2>5. ASSUME NEW m \in Sizes, SetMaxSize(m)
        PROVE  WithinLimit' /\ Recency!SetLimit(m)
    BY <2>5, SetMaxSizeRefines
  <2>6. CASE UNCHANGED vars
    BY <2>6 DEF vars, WithinLimit, Recency!cacheVars, Before
  <2> QED
    BY <2>1, <2>2, <2>3, <2>4, <2>5, <2>6 DEF Next, Recency!Next
<1>3. Spec => []ListMatchesMap
  BY ListMatchesMapHolds
<1> QED
  BY <1>1, <1>2, <1>3, PTL DEF Spec, ImplementsRecency, Recency!Spec
=============================================================================

------------------------------ MODULE LRUCache ------------------------------
(***************************************************************************)
(* osgEarth's LRUCache, behind the memory cache, the height-field cache    *)
(* and the elevation query: a map from keys to values and a list of the    *)
(* keys, the least recently used first.  Each entry of the map also has    *)
(* its key's place in the list.                                            *)
(*                                                                         *)
(* A cache that several threads use has a mutex, held for the whole of     *)
(* each call; a call is one step.  When the list is longer than _max,      *)
(* insert() evicts _buf keys, a tenth of _max rounded down: the tenth is   *)
(* Fraction here, so that a small cache can have it.  The counters for     *)
(* statistics are left out.                                                *)
(***************************************************************************)
EXTENDS Naturals, SequencesExt

CONSTANTS
    Keys, Values,
    None,           \* no value
    Fraction,       \* 10 in the code
    Sizes           \* the maximal sizes it may be given

ASSUME CacheAssumptions ==
    /\ Fraction \in Nat \ {0}
    /\ Sizes \subseteq Nat
    /\ None \notin Values

VARIABLES
    map,        \* _map: the value of each key, or None
    lru,        \* _lru
    max, buf,   \* _max, _buf
    result      \* what the last get() gave, or None

vars == <<map, lru, max, buf, result>>

Cached == {k \in Keys : map[k] # None}

Init ==
    /\ map = [k \in Keys |-> None]
    /\ lru = <<>>
    /\ max \in Sizes
    /\ buf = max \div Fraction
    /\ result = None

\* The list without k, taken out at the place its entry holds.
Erased(k) == RemoveAt(lru, CHOOSE i \in DOMAIN lru : lru[i] = k)

\* The list with k at its end, once.
Touched(k) == Append(IF k \in Cached THEN Erased(k) ELSE lru, k)

\* The n keys at the front of list go, and their entries with them.
Evict(n, list, entries) ==
    /\ lru' = SubSeq(list, n + 1, Len(list))
    /\ map' = [k \in Keys |-> IF k \in ToSet(SubSeq(list, 1, n)) THEN None ELSE entries[k]]

\* Mutant: the keys go from the list and their entries stay.
InsertKeepingEntries(k, v) ==
    /\ lru' = SubSeq(Touched(k), (IF Len(Touched(k)) > max THEN buf ELSE 0) + 1,
                     Len(Touched(k)))
    /\ map' = [map EXCEPT ![k] = v]
    /\ result' = None
    /\ UNCHANGED <<max, buf>>

Insert(k, v) ==
    /\ Evict(IF Len(Touched(k)) > max THEN buf ELSE 0, Touched(k), [map EXCEPT ![k] = v])
    /\ result' = None
    /\ UNCHANGED <<max, buf>>

\* Mutant: a hit does not count as a use.
GetUntouched(k) ==
    /\ result' = map[k]
    /\ UNCHANGED <<map, lru, max, buf>>

\* A hit moves the key to the end; a miss changes nothing.
Get(k) ==
    /\ lru' = IF k \in Cached THEN Touched(k) ELSE lru
    /\ result' = map[k]
    /\ UNCHANGED <<map, max, buf>>

Erase(k) ==
    /\ lru' = IF k \in Cached THEN Erased(k) ELSE lru
    /\ map' = [map EXCEPT ![k] = None]
    /\ result' = None
    /\ UNCHANGED <<max, buf>>

Clear ==
    /\ map' = [k \in Keys |-> None]
    /\ lru' = <<>>
    /\ result' = None
    /\ UNCHANGED <<max, buf>>

SetMaxSize(n) ==
    /\ max' = n
    /\ buf' = n \div Fraction
    /\ Evict(IF Len(lru) > n THEN Len(lru) - n ELSE 0, lru, map)
    /\ result' = None

Next ==
    \/ \E k \in Keys : Get(k) \/ Erase(k) \/ \E v \in Values : Insert(k, v)
    \/ Clear
    \/ \E n \in Sizes : SetMaxSize(n)

Spec == Init /\ [][Next]_vars

-----------------------------------------------------------------------------
(* Properties                                                              *)

\* Type invariant and the bond of list and map: the list has each key of the
\* map, each once, and no other, so that the place an entry holds is in it.
ListMatchesMap ==
    /\ map \in [Keys -> Values \union {None}]
    /\ lru \in Seq(Keys)
    /\ Cached = ToSet(lru)
    /\ \A i, j \in DOMAIN lru : lru[i] = lru[j] => i = j
    /\ max \in Sizes
    /\ buf = max \div Fraction

\* "Each bin also maintains an LRU list for maintaining the size cap."
\* (MemCache:28): a cache never holds more than its maximum, whatever that is.
SizeCapKept == Len(lru) <= max

\* The pairs of keys of which the first comes before the second in list.
Before(list) ==
    {p \in Keys \X Keys : \E i, j \in DOMAIN list : i < j /\ p = <<list[i], list[j]>>}

\* What users rely on, for sizes that have a tenth: the limit is kept and what
\* goes is what was least recently used.
Recency == INSTANCE RecencyCache WITH
    content <- map,
    before <- Before(lru),
    limit <- max,
    answer <- result,
    Limits <- Sizes

ImplementsRecency == Recency!Spec
=============================================================================

---------------------------- MODULE RecencyCache ----------------------------
(***************************************************************************)
(* What a least-recently-used cache promises: a value stays until it is    *)
(* replaced, erased or evicted; what is evicted was used before all that   *)
(* stays, and only when there is more than the limit allows; and when a    *)
(* call returns there is never more than that.                             *)
(*                                                                         *)
(* LRUCache implements this specification.                                 *)
(***************************************************************************)
EXTENDS Naturals, FiniteSets

CONSTANTS Keys, Values, Limits, None

VARIABLES
    content,    \* the value kept under each key, or None
    before,     \* pairs of keys kept, the first used before the second
    limit,      \* how many may be kept
    answer      \* what the last call returned

cacheVars == <<content, before, limit, answer>>

KeptIn(c) == {k \in Keys : c[k] # None}
Kept == KeptIn(content)

\* The order when k has been used last.
UsedNow(k) ==
    {r \in before : k \notin {r[1], r[2]}} \union ((Kept \ {k}) \X {k})

Without(order, gone) == {r \in order : r[1] \notin gone /\ r[2] \notin gone}

Init ==
    /\ content = [k \in Keys |-> None]
    /\ before = {}
    /\ limit \in Limits
    /\ answer = None

\* gone is evicted: the least recently used of what is kept.
Oldest(gone, kept, order) ==
    /\ gone \subseteq kept
    /\ \A k \in gone, l \in kept \ gone : <<k, l>> \in order

Insert(k, v) ==
    LET kept == Kept \union {k}
    IN  \E gone \in SUBSET (kept \ {k}) :
          /\ Oldest(gone, kept, UsedNow(k))
          /\ Cardinality(kept) <= limit => gone = {}
          /\ Cardinality(kept \ gone) <= limit
          /\ content' = [l \in Keys |-> IF l \in gone THEN None
                                        ELSE IF l = k THEN v ELSE content[l]]
          /\ before' = Without(UsedNow(k), gone)
          /\ answer' = None
          /\ UNCHANGED limit

Get(k) ==
    /\ answer' = content[k]
    /\ before' = IF k \in Kept THEN UsedNow(k) ELSE before
    /\ UNCHANGED <<content, limit>>

Erase(k) ==
    /\ content' = [content EXCEPT ![k] = None]
    /\ before' = Without(before, {k})
    /\ answer' = None
    /\ UNCHANGED limit

Clear ==
    /\ content' = [k \in Keys |-> None]
    /\ before' = {}
    /\ answer' = None
    /\ UNCHANGED limit

\* No more goes than must.
SetLimit(n) ==
    \E gone \in SUBSET Kept :
        /\ Oldest(gone, Kept, before)
        /\ IF Cardinality(Kept) <= n THEN gone = {}
                                     ELSE Cardinality(Kept \ gone) = n
        /\ content' = [k \in Keys |-> IF k \in gone THEN None ELSE content[k]]
        /\ before' = Without(before, gone)
        /\ limit' = n
        /\ answer' = None

Next ==
    \/ \E k \in Keys : Get(k) \/ Erase(k) \/ \E v \in Values : Insert(k, v)
    \/ Clear
    \/ \E n \in Limits : SetLimit(n)

Spec == Init /\ [][Next]_cacheVars
=============================================================================

---------------------- MODULE TaskServiceManager_proof ----------------------
(***************************************************************************)
(* Proofs about TaskServiceManager, for any ids, callers, weights and      *)
(* targets.  No service is under two ids, and a service keeps its id to    *)
(* itself until it is removed.  The pool is always shared out by the       *)
(* weights that are, so that the count is exact, no more than the target   *)
(* but for the one thread every service is guaranteed, and never turns the *)
(* weights around.  The first part is about sums over finite sets.         *)
(***************************************************************************)
EXTENDS TaskServiceManager, FiniteSetTheorems, TLAPS

(* Sums                                                                    *)

\* The element of a set that a sum takes first.
First(s) == CHOOSE x \in s : TRUE

\* The subsets of S that the sum over S goes through are its own subsets, one
\* element fewer each time: what holds of {} and of s when it holds of s
\* without its first element holds of every subset of a finite set.
LEMMA SubsetInduction ==
    ASSUME NEW S, IsFiniteSet(S), NEW P, P \subseteq SUBSET S, {} \in P,
           \A s \in SUBSET S : s # {} /\ s \ {First(s)} \in P => s \in P
    PROVE  P = SUBSET S
<1> DEFINE T == (SUBSET S) \ P
           R == StrictSubsetOrdering(S)
<1>1. IsWellFoundedOn(R, SUBSET S)
  BY FS_StrictSubsetOrderingWellFounded, FS_FiniteSubsetsOfFinite
<1>2. SUFFICES ASSUME T # {}
               PROVE  FALSE
  OBVIOUS
<1> HIDE DEF R
<1>3. PICK s \in T : \A t \in T : ~ (<<t, s>> \in R)
  <2>1. T \subseteq SUBSET S
    OBVIOUS
  <2> HIDE DEF T
  <2> QED
    BY <1>1, <1>2, <2>1, WFMin
<1>4. s # {} /\ First(s) \in s
  BY <1>3 DEF First
<1>5. s \ {First(s)} \in SUBSET S /\ s \ {First(s)} # s
  BY <1>3, <1>4
<1>6. <<s \ {First(s)}, s>> \in R
  BY <1>3, <1>5 DEF R, StrictSubsetOrdering
<1> QED
  BY <1>3, <1>4, <1>5, <1>6

\* Induction over the natural numbers, for a set in place of a predicate.
LEMMA NatInductionOnSet ==
    ASSUME NEW P, P \subseteq Nat, 0 \in P, \A n \in P : n + 1 \in P
    PROVE  P = Nat
<1> DEFINE T == Nat \ P
           R == OpToRel(<, Nat)
<1>1. SUFFICES ASSUME T # {}
               PROVE  FALSE
  OBVIOUS
<1>2. \A m, n \in Nat : m < n => <<m, n>> \in R
  BY DEF OpToRel
<1>3. IsWellFoundedOn(R, Nat)
  BY NatLessThanWellFounded
<1> HIDE DEF R
<1>4. PICK n \in T : \A m \in T : ~ (<<m, n>> \in R)
  <2>1. T \subseteq Nat
    OBVIOUS
  <2> HIDE DEF T
  <2> QED
    BY <1>1, <1>3, <2>1, WFMin
<1>5. n # 0 /\ n - 1 \in Nat /\ n - 1 < n /\ (n - 1) + 1 = n
  BY <1>4
<1> QED
  BY <1>2, <1>4, <1>5

\* What a sum over a subset is, in terms of the sums over smaller ones.
SumOf(f, s, g) ==
    IF s = {} THEN 0 ELSE f[First(s)] + g[s \ {First(s)}]

\* There are such sums, for numbers that are not negative.
LEMMA SumsExist ==
    ASSUME NEW S, IsFiniteSet(S), NEW f, \A x \in S : f[x] \in Nat
    PROVE  \E g \in [SUBSET S -> Nat] : \A s \in SUBSET S : g[s] = SumOf(f, s, g)
<1> DEFINE Small(n) == {s \in SUBSET S : Cardinality(s) <= n}
           P == {n \in Nat : \E g \in [Small(n) -> Nat] :
                                \A s \in Small(n) : g[s] = SumOf(f, s, g)}
<1>0. \A s \in SUBSET S : /\ IsFiniteSet(s)
                          /\ Cardinality(s) \in Nat
                          /\ Cardinality(s) <= Cardinality(S)
  BY FS_Subset, FS_CardinalityType
<1>1. \A s \in SUBSET S : s # {} =>
         /\ First(s) \in S
         /\ s \ {First(s)} \in SUBSET S
         /\ Cardinality(s \ {First(s)}) = Cardinality(s) - 1
  BY <1>0, FS_RemoveElement DEF First
<1>2. 0 \in P
  <2>1. \A s \in Small(0) : s = {}
    BY <1>0, FS_EmptySet
  <2>2. [s \in Small(0) |-> 0] \in [Small(0) -> Nat]
    OBVIOUS
  <2> QED
    BY <2>1, <2>2 DEF SumOf
<1>3. ASSUME NEW n \in P
      PROVE  n + 1 \in P
  <2>1. PICK g \in [Small(n) -> Nat] : \A s \in Small(n) : g[s] = SumOf(f, s, g)
    OBVIOUS
  <2> DEFINE h == [s \in Small(n + 1) |-> SumOf(f, s, g)]
  <2>2. \A s \in Small(n + 1) : s # {} => s \ {First(s)} \in Small(n)
    BY <1>0, <1>1
  <2>3. \A s \in Small(n + 1) : SumOf(f, s, g) \in Nat
    BY <1>1, <2>1, <2>2 DEF SumOf
  <2>4. \A s \in Small(n) : s \in Small(n + 1) /\ h[s] = g[s]
    BY <1>0, <2>1
  <2>5. \A s \in Small(n + 1) : h[s] = SumOf(f, s, h)
    <3> SUFFICES ASSUME NEW s \in Small(n + 1)
                 PROVE  SumOf(f, s, g) = SumOf(f, s, h)
      OBVIOUS
    <3> QED
      BY <2>2, <2>4 DEF SumOf
  <2>6. h \in [Small(n + 1) -> Nat]
    BY <2>3
  <2>7. \E q \in [Small(n + 1) -> Nat] : \A s \in Small(n + 1) : q[s] = SumOf(f, s, q)
    <3> HIDE DEF h, Small
    <3> QED
      BY <2>5, <2>6
  <2>8. n + 1 \in Nat
    OBVIOUS
  <2> HIDE DEF Small
  <2> QED
    BY <2>7, <2>8
<1>4. P = Nat
  <2> HIDE DEF P
  <2>1. P \subseteq Nat
    BY DEF P
  <2> QED
    BY <1>2, <1>3, <2>1, NatInductionOnSet
<1>5. Cardinality(S) \in P /\ Small(Cardinality(S)) = SUBSET S
  BY <1>0, <1>4
<1> QED
  BY <1>5

\* SumFunctionOnSet is what it says it is.
LEMMA SumUnfolds ==
    ASSUME NEW S, IsFiniteSet(S), NEW f, \A x \in S : f[x] \in Nat
    PROVE  \E g \in [SUBSET S -> Nat] :
              /\ \A s \in SUBSET S : g[s] = SumOf(f, s, g)
              /\ SumFunctionOnSet(f, S) = g[S]
<1> DEFINE Step(g) == [s \in SUBSET S |-> SumOf(f, s, g)]
<1>1. PICK k \in [SUBSET S -> Nat] : \A s \in SUBSET S : k[s] = SumOf(f, s, k)
  BY SumsExist
<1>2. k = Step(k)
  BY <1>1
<1>3. PICK g : g = Step(g) /\ SumFunctionOnSet(f, S) = g[S]
  BY <1>2 DEF SumFunctionOnSet, FoldFunctionOnSet, MapThenFoldSet, SumOf, First
<1>4. \A s \in SUBSET S : g[s] = SumOf(f, s, g)
  BY <1>3
<1>5. {s \in SUBSET S : g[s] = k[s]} = SUBSET S
  <2> DEFINE P == {s \in SUBSET S : g[s] = k[s]}
  <2>1. {} \in P
    BY <1>1, <1>4 DEF SumOf
  <2>2. ASSUME NEW s \in SUBSET S, s # {}, s \ {First(s)} \in P
        PROVE  s \in P
    BY <1>1, <1>4, <2>2 DEF SumOf
  <2>3. P \subseteq SUBSET S
    OBVIOUS
  <2> HIDE DEF P
  <2>4. P = SUBSET S
    BY <2>1, <2>2, <2>3, SubsetInduction
  <2> QED
    BY <2>4 DEF P
<1>6. DOMAIN g = SUBSET S
  BY <1>3
<1>7. SumFunctionOnSet(f, S) = k[S]
  BY <1>3, <1>5
<1> QED
  BY <1>1, <1>7

\* A sum of natural numbers is one, it is no less than any of its terms, and
\* that of nothing is zero.
LEMMA SumBounds ==
    ASSUME NEW S, IsFiniteSet(S), NEW f, \A x \in S : f[x] \in Nat
    PROVE  /\ SumFunctionOnSet(f, S) \in Nat
           /\ \A x \in S : f[x] <= SumFunctionOnSet(f, S)
<1>1. PICK g \in [SUBSET S -> Nat] : /\ \A s \in SUBSET S : g[s] = SumOf(f, s, g)
                                     /\ SumFunctionOnSet(f, S) = g[S]
  BY SumUnfolds
<1> DEFINE P == {s \in SUBSET S : \A x \in s : f[x] <= g[s]}
<1>2. ASSUME NEW s \in SUBSET S, s # {}, s \ {First(s)} \in P
      PROVE  s \in P
  <2>1. First(s) \in s /\ g[s] = f[First(s)] + g[s \ {First(s)}]
    BY <1>1, <1>2 DEF SumOf, First
  <2>2. f[First(s)] \in Nat /\ g[s \ {First(s)}] \in Nat
    BY <1>1, <2>1
  <2>3. ASSUME NEW x \in s
        PROVE  f[x] <= g[s]
    <3>1. CASE x = First(s)
      BY <2>1, <2>2, <3>1
    <3>2. CASE x # First(s)
      <4>1. f[x] <= g[s \ {First(s)}] /\ f[x] \in Nat
        BY <1>2, <3>2
      <4> QED
        BY <2>1, <2>2, <4>1
    <3> QED
      BY <3>1, <3>2
  <2> QED
    BY <2>3
<1>3. {} \in P /\ P \subseteq SUBSET S
  OBVIOUS
<1>4. P = SUBSET S
  <2> HIDE DEF P
  <2> QED
    BY <1>2, <1>3, SubsetInduction
<1> QED
  BY <1>1, <1>4

-----------------------------------------------------------------------------
(* Shares                                                                  *)

LEMMA MaxOfTwo ==
    ASSUME NEW a \in Int, NEW b \in Int
    PROVE  Max({a, b}) = IF a >= b THEN a ELSE b
<1> DEFINE m == IF a >= b THEN a ELSE b
<1>1. m \in {a, b} /\ \A y \in {a, b} : m >= y
  OBVIOUS
<1>2. \A x \in {a, b} : (\A y \in {a, b} : x >= y) => x = m
  OBVIOUS
<1> QED
  BY <1>1, <1>2 DEF Max

LEMMA QuotientBound ==
    ASSUME NEW a \in Nat, NEW b \in Nat, b > 0
    PROVE  /\ a \div b \in Nat
           /\ b * (a \div b) <= a
           /\ a < b * (a \div b) + b
OBVIOUS

\* The share of one service in a total, as Share computes it.
Part(target, w, total) == Max({1, (target * w) \div total})

LEMMA PartIs ==
    ASSUME NEW target \in Nat, NEW w \in Nat, NEW total \in Nat, total > 0
    PROVE  /\ Part(target, w, total) \in Nat
           /\ Part(target, w, total) >= 1
           /\ Part(target, w, total) # 1 => total * Part(target, w, total) <= target * w
<1> DEFINE a == target * w
           q == a \div total
<1>1. a \in Nat
  OBVIOUS
<1> HIDE DEF a
<1>2. q \in Nat /\ total * q <= a
  BY <1>1, QuotientBound
<1> HIDE DEF q
<1>3. Max({1, q}) = IF 1 >= q THEN 1 ELSE q
  BY <1>2, MaxOfTwo
<1> QED
  BY <1>2, <1>3 DEF Part, a, q

\* More weight, no smaller a share.
LEMMA PartGrows ==
    ASSUME NEW target \in Nat, NEW v \in Nat, NEW w \in Nat, v <= w,
           NEW total \in Nat, total > 0
    PROVE  Part(target, v, total) <= Part(target, w, total)
<1> DEFINE a == target * v
           b == target * w
           p == a \div total
           q == b \div total
<1>1. a \in Nat /\ b \in Nat /\ a <= b
  <2>1. w - v \in Nat /\ target * (w - v) \in Nat
    OBVIOUS
  <2>2. target * w = target * v + target * (w - v)
    OBVIOUS
  <2> QED
    BY <2>1, <2>2
<1> HIDE DEF a, b
<1>2. /\ p \in Nat /\ total * p <= a
      /\ q \in Nat /\ b < total * q + total
  BY <1>1, QuotientBound
<1> HIDE DEF p, q
<1>3. p <= q
  <2>1. SUFFICES ASSUME q + 1 <= p
                 PROVE  FALSE
    BY <1>2
  <2>2. total * (q + 1) <= total * p
    <3>1. p - (q + 1) \in Nat /\ total * (p - (q + 1)) \in Nat
      BY <1>2, <2>1
    <3>2. total * p = total * (q + 1) + total * (p - (q + 1))
      BY <1>2
    <3> QED
      BY <1>2, <3>1, <3>2
  <2>3. total * (q + 1) = total * q + total
    BY <1>2
  <2>4. total * q \in Nat /\ total * p \in Nat
    BY <1>2
  <2> QED
    BY <1>1, <1>2, <2>2, <2>3, <2>4
<1>4. /\ Max({1, p}) = IF 1 >= p THEN 1 ELSE p
      /\ Max({1, q}) = IF 1 >= q THEN 1 ELSE q
  BY <1>2, MaxOfTwo
<1>5. /\ Part(target, v, total) = Max({1, p})
      /\ Part(target, w, total) = Max({1, q})
  BY DEF Part, a, b, p, q
<1> QED
  BY <1>2, <1>3, <1>4, <1>5

\* The parts of a target, rounded down, are no more than the target together,
\* but for those that would be nothing and are one: every one of these adds
\* one at most.
LEMMA PartsWithinTarget ==
    ASSUME NEW S, IsFiniteSet(S), NEW target \in Nat,
           NEW wt, \A u \in S : wt[u] \in Nat /\ wt[u] >= 1,
           NEW sh, \A u \in S : sh[u] = Part(target, wt[u], SumFunctionOnSet(wt, S))
    PROVE  SumFunctionOnSet(sh, S) <= target + Cardinality({u \in S : sh[u] = 1})
<1> DEFINE total == SumFunctionOnSet(wt, S)
           Lifted(s) == {u \in s : sh[u] = 1}
<1>0. total \in Nat /\ (S # {} => total > 0)
  BY SumBounds
<1> HIDE DEF total
<1>1. \A u \in S : /\ sh[u] \in Nat
                   /\ sh[u] # 1 => total * sh[u] <= target * wt[u]
  BY <1>0, PartIs DEF total
<1>2. PICK g \in [SUBSET S -> Nat] : /\ \A s \in SUBSET S : g[s] = SumOf(wt, s, g)
                                     /\ total = g[S]
  BY SumUnfolds DEF total
<1>3. PICK h \in [SUBSET S -> Nat] : /\ \A s \in SUBSET S : h[s] = SumOf(sh, s, h)
                                     /\ SumFunctionOnSet(sh, S) = h[S]
  BY <1>1, SumUnfolds
<1>4. \A s \in SUBSET S : IsFiniteSet(Lifted(s)) /\ Cardinality(Lifted(s)) \in Nat
  BY FS_Subset, FS_CardinalityType
<1> DEFINE P == {s \in SUBSET S : total * h[s] <= target * g[s] + total * Cardinality(Lifted(s))}
<1>5. {} \in P
  <2>1. g[{}] = 0 /\ h[{}] = 0 /\ Cardinality(Lifted({})) \in Nat
    BY <1>2, <1>3, <1>4 DEF SumOf
  <2>2. total * Cardinality(Lifted({})) \in Nat /\ total * 0 = 0 /\ target * 0 = 0
    BY <1>0, <2>1
  <2> QED
    BY <2>1, <2>2
<1>6. ASSUME NEW s \in SUBSET S, s # {}, s \ {First(s)} \in P
      PROVE  s \in P
  <2> DEFINE x == First(s)
             r == s \ {First(s)}
             gr == g[r]
             hr == h[r]
             l == Cardinality(Lifted(r))
             m == Cardinality(Lifted(s))
             w == wt[x]
             p == sh[x]
  <2>1. x \in s /\ x \in S /\ r \in SUBSET S
    BY <1>6 DEF First
  <2>2. g[s] = w + gr /\ h[s] = p + hr
    BY <1>2, <1>3, <1>6 DEF SumOf
  <2>3. /\ w \in Nat /\ p \in Nat /\ gr \in Nat /\ hr \in Nat
        /\ l \in Nat /\ m \in Nat
    BY <1>1, <1>2, <1>3, <1>4, <2>1
  <2>4. m = IF p = 1 THEN l + 1 ELSE l
    <3>1. CASE p = 1
      <4>1. Lifted(s) = Lifted(r) \union {x} /\ x \notin Lifted(r)
        BY <2>1, <3>1
      <4> QED
        BY <1>4, <2>1, <3>1, <4>1, FS_AddElement
    <3>2. CASE p # 1
      <4>1. Lifted(s) = Lifted(r)
        BY <2>1, <3>2
      <4> QED
        BY <3>2, <4>1
    <3> QED
      BY <3>1, <3>2
  <2>5. total * hr <= target * gr + total * l
    BY <1>6
  <2>6. p # 1 => total * p <= target * w
    BY <1>1, <2>1
  <2> HIDE DEF x, r, gr, hr, l, m, w, p
  <2>7. /\ total * (p + hr) = total * p + total * hr
        /\ target * (w + gr) = target * w + target * gr
        /\ total * (l + 1) = total * l + total
        /\ target * w \in Nat /\ target * gr \in Nat
        /\ total * p \in Nat /\ total * hr \in Nat /\ total * l \in Nat
    BY <1>0, <2>3
  <2>8. total * (p + hr) <= target * (w + gr) + total * m
    <3>1. CASE p = 1
      <4>1. total * p = total
        BY <1>0, <3>1
      <4> QED
        BY <1>0, <2>4, <2>5, <2>7, <3>1, <4>1
    <3>2. CASE p # 1
      BY <1>0, <2>4, <2>5, <2>6, <2>7, <3>2
    <3> QED
      BY <3>1, <3>2
  <2> QED
    BY <2>2, <2>8 DEF m
<1>7. P = SUBSET S
  <2>1. P \subseteq SUBSET S
    OBVIOUS
  <2> HIDE DEF P
  <2> QED
    BY <1>5, <1>6, <2>1, SubsetInduction
<1>8. total * h[S] <= target * total + total * Cardinality(Lifted(S))
  BY <1>2, <1>7
<1>9. h[S] <= target + Cardinality(Lifted(S))
  <2> DEFINE a == h[S]
             b == target + Cardinality(Lifted(S))
  <2>0. Cardinality(Lifted(S)) \in Nat /\ h[S] \in Nat
    BY <1>3, <1>4
  <2>1. a \in Nat /\ b \in Nat
    BY <2>0
  <2>2. total * a <= total * b
    <3>1. total * b = total * target + total * Cardinality(Lifted(S))
      BY <1>0, <2>0
    <3>2. total * target = target * total
      BY <1>0
    <3> QED
      BY <1>0, <1>8, <2>0, <3>1, <3>2
  <2> HIDE DEF a, b
  <2>3. CASE total > 0
    <3>1. SUFFICES ASSUME b + 1 <= a
                   PROVE  FALSE
      BY <2>1 DEF a, b
    <3>2. a - (b + 1) \in Nat /\ total * (a - (b + 1)) \in Nat
      BY <1>0, <2>1, <3>1
    <3>3. total * a = total * (b + 1) + total * (a - (b + 1))
      BY <1>0, <2>1
    <3>4. total * (b + 1) = total * b + total /\ total * b \in Nat
      BY <1>0, <2>1
    <3> QED
      BY <1>0, <2>2, <2>3, <3>2, <3>3, <3>4
  <2>4. CASE S = {}
    <3>1. h[{}] = 0
      BY <1>3 DEF SumOf
    <3> QED
      BY <2>1, <2>4, <3>1 DEF a, b
  <2> QED
    BY <1>0, <2>3, <2>4 DEF a, b
<1> QED
  BY <1>3, <1>9

-----------------------------------------------------------------------------
(* Which service is under which id                                         *)

USE ManagerAssumptions

\* The part of the manager's state that says which service is under which id,
\* with what getOrAdd has in hand between its two steps.
Registered ==
    /\ services \in [Uids -> Services \union {None}]
    /\ made \in 0 .. MaxServices
    /\ \A c \in Callers : pc[c] = "add" => arg[c] \in Uids
    /\ pc \in [Callers -> {"idle", "add"}]
    /\ DOMAIN arg = Callers

\* No service is under two ids, and every one under an id was made.
NoServiceTwice ==
    /\ \A u \in Managed(services) : services[u] <= made
    /\ \A u, v \in Managed(services) : services[u] = services[v] => u = v

\* What a step may do to the services: nothing,
KeepsServices == UNCHANGED <<services, made>>

\* make a new one for an id that has none,
MakesService(u) ==
    /\ services[u] = None
    /\ made < MaxServices
    /\ made' = made + 1
    /\ services' = [services EXCEPT ![u] = made + 1]

\* or take one away.
DropsService(u) ==
    /\ services' = [services EXCEPT ![u] = None]
    /\ UNCHANGED made

LEMMA AddKeepsOrMakes ==
    ASSUME NEW u, NEW w, Add(u, w)
    PROVE  KeepsServices \/ MakesService(u)
BY DEF Add, Reallocate, KeepsServices, MakesService

LEMMA RemoveDrops ==
    ASSUME NEW u, Remove(u)
    PROVE  DropsService(u)
BY DEF Remove, RemoveUid, Reallocate, DropsService

\* Every step is one of the three, for an id that there is, and getOrAdd holds
\* on to its id.
LEMMA StepOnServices ==
    ASSUME Registered, [Next]_vars
    PROVE  /\ \/ KeepsServices
              \/ \E u \in Uids : MakesService(u) \/ DropsService(u)
           /\ \A c \in Callers : pc'[c] = "add" => arg'[c] \in Uids
           /\ pc' \in [Callers -> {"idle", "add"}]
           /\ DOMAIN arg' = Callers
<1> USE DEF Registered
<1>1. ASSUME NEW c \in Callers, NEW u \in Uids, GetOrAddGet(c, u)
      PROVE  /\ KeepsServices
             /\ \A d \in Callers : pc'[d] = "add" => arg'[d] \in Uids
             /\ pc' \in [Callers -> {"idle", "add"}]
             /\ DOMAIN arg' = Callers
  BY <1>1 DEF GetOrAddGet, registry, KeepsServices
<1>2. ASSUME NEW c \in Callers, NEW w \in Weights, GetOrAddAdd(c, w)
      PROVE  /\ KeepsServices \/ \E u \in Uids : MakesService(u)
             /\ \A d \in Callers : pc'[d] = "add" => arg'[d] \in Uids
             /\ pc' \in [Callers -> {"idle", "add"}]
             /\ DOMAIN arg' = Callers
  <2>1. arg[c] \in Uids /\ Add(arg[c], w)
    BY <1>2 DEF GetOrAddAdd
  <2>2. KeepsServices \/ MakesService(arg[c])
    BY <2>1, AddKeepsOrMakes
  <2>3. /\ pc' = [pc EXCEPT ![c] = "idle"]
        /\ arg' = [arg EXCEPT ![c] = None]
    BY <1>2 DEF GetOrAddAdd
  <2> QED
    BY <2>1, <2>2, <2>3
<1>3. ASSUME NEW u \in Uids, NEW w \in Weights, AddDirectly(u, w)
      PROVE  (KeepsServices \/ MakesService(u)) /\ UNCHANGED callers
  BY <1>3, AddKeepsOrMakes DEF AddDirectly
<1>4. ASSUME NEW u \in Uids, Remove(u)
      PROVE  DropsService(u) /\ UNCHANGED callers
  BY <1>4, RemoveDrops DEF Remove, callers
<1>5. ASSUME NEW s \in Services, RemoveService(s)
      PROVE  (\E u \in Uids : DropsService(u)) /\ UNCHANGED callers
  BY <1>4, <1>5 DEF RemoveService, Managed
<1>6. ASSUME NEW s \in Services, NEW w \in Weights, SetWeight(s, w)
      PROVE  KeepsServices /\ UNCHANGED callers
  BY <1>6 DEF SetWeight, Reallocate, KeepsServices, callers
<1>7. ASSUME SetNumThreads
      PROVE  KeepsServices /\ UNCHANGED callers
  BY <1>7 DEF SetNumThreads, Reallocate, KeepsServices, callers
<1>8. ASSUME UNCHANGED vars
      PROVE  KeepsServices /\ UNCHANGED callers
  BY <1>8 DEF vars, registry, KeepsServices
<1>9. UNCHANGED callers =>
        /\ \A d \in Callers : pc'[d] = "add" => arg'[d] \in Uids
        /\ pc' \in [Callers -> {"idle", "add"}]
        /\ DOMAIN arg' = Callers
  BY DEF callers
<1> QED
  BY <1>1, <1>2, <1>3, <1>4, <1>5, <1>6, <1>7, <1>8, <1>9 DEF Next

\* The services stay registered, and no service gets a second id.
THEOREM ServicesAreDistinct == Spec => [](Registered /\ NoServiceTwice)
<1>1. Init => Registered /\ NoServiceTwice
  BY DEF Init, Registered, NoServiceTwice, Managed, Services
<1>2. Registered /\ NoServiceTwice /\ [Next]_vars => (Registered /\ NoServiceTwice)'
  <2> SUFFICES ASSUME Registered, NoServiceTwice, [Next]_vars
               PROVE  (Registered /\ NoServiceTwice)'
    OBVIOUS
  <2>1. /\ \/ KeepsServices
           \/ \E u \in Uids : MakesService(u) \/ DropsService(u)
        /\ \A c \in Callers : pc'[c] = "add" => arg'[c] \in Uids
        /\ pc' \in [Callers -> {"idle", "add"}]
        /\ DOMAIN arg' = Callers
    BY StepOnServices
  <2>2. CASE KeepsServices
    BY <2>1, <2>2 DEF Registered, NoServiceTwice, Managed, KeepsServices
  <2>3. CASE \E u \in Uids : MakesService(u)
    <3>1. PICK u \in Uids : MakesService(u)
      BY <2>3
    <3>2. made + 1 \in Services /\ made' \in 0 .. MaxServices
      BY <3>1 DEF MakesService, Registered, Services
    <3>3. \A v \in Managed(services) : services[v] \in Services /\ services[v] <= made
      BY DEF Registered, NoServiceTwice, Managed
    <3>4. Managed(services') = Managed(services) \union {u}
      BY <3>1, <3>2 DEF MakesService, Managed, Registered, Services
    <3> QED
      BY <2>1, <3>1, <3>2, <3>3, <3>4 DEF MakesService, Registered, NoServiceTwice, Managed, Services
  <2>4. CASE \E u \in Uids : DropsService(u)
    BY <2>1, <2>4 DEF DropsService, Registered, NoServiceTwice, Managed
  <2> QED
    BY <2>1, <2>2, <2>3, <2>4
<1> QED
  BY <1>1, <1>2, PTL DEF Spec

\* Callers of getOrAdd that ask for one id share its service: nobody puts
\* another in its place while it is managed, whatever comes between get() and
\* add().
THEOREM ServicesAreSharedHolds == Spec => ServicesAreShared
<1>1. Registered /\ [Next]_vars =>
        [\A u \in Uids : services[u] # None => services'[u] \in {services[u], None}]_vars
  <2> SUFFICES ASSUME Registered, [Next]_vars
               PROVE  \A u \in Uids : services[u] # None => services'[u] \in {services[u], None}
    OBVIOUS
  <2>1. KeepsServices \/ \E u \in Uids : MakesService(u) \/ DropsService(u)
    BY StepOnServices
  <2> QED
    BY <2>1 DEF KeepsServices, MakesService, DropsService, Registered
<1> QED
  BY <1>1, ServicesAreDistinct, PTL DEF Spec, ServicesAreShared

-----------------------------------------------------------------------------
(* The manager                                                             *)

\* What is under management can be counted: every id has a service of its own,
\* and no more than MaxServices are made.
LEMMA ManagedFinite ==
    ASSUME NEW sv \in [Uids -> Services \union {None}],
           \A u, v \in Managed(sv) : sv[u] = sv[v] => u = v
    PROVE  IsFiniteSet(Managed(sv))
<1> DEFINE S == Managed(sv)
           f == [u \in S |-> sv[u]]
<1>1. f \in [S -> Services] /\ \A u, v \in S : f[u] = f[v] => u = v
  BY DEF Managed, Services
<1> HIDE DEF f
<1>2. f \in Injection(S, Services)
  BY <1>1 DEF Injection, IsInjective
<1>3. IsFiniteSet(Services)
  BY FS_Interval DEF Services
<1> HIDE DEF S
<1>4. IsFiniteSet(S)
  BY <1>2, <1>3, FS_Injection
<1> QED
  BY <1>4 DEF S

\* Every service under an id has a weight.
WeightsGiven ==
    /\ weight \in [Uids -> Nat]
    /\ \A u \in Managed(services) : weight[u] >= 1

\* The pool is shared out by the weights that are: what no operation may leave
\* undone, since every share depends on all the weights.
SharedOut ==
    /\ threads \in [Services -> Nat]
    /\ targetThreads \in Nat
    /\ \A u \in Managed(services) : threads[services[u]] = Share(services, weight, u)
    /\ numThreads = SumFunction([u \in Managed(services) |-> Share(services, weight, u)])

\* What getOrAdd's results may be.
Answers ==
    /\ arg \in [Callers -> Uids \union {None}]
    /\ ret \in [Callers -> Services \union {None}]

ManagerInv == Registered /\ NoServiceTwice /\ WeightsGiven /\ SharedOut /\ Answers

\* Services of some weight have a total that is not zero, and a part of it each.
LEMMA WeighedParts ==
    ASSUME NEW sv \in [Uids -> Services \union {None}],
           \A u, v \in Managed(sv) : sv[u] = sv[v] => u = v,
           NEW wt \in [Uids -> Nat], \A u \in Managed(sv) : wt[u] >= 1,
           NEW target \in Nat
    PROVE  /\ IsFiniteSet(Managed(sv))
           /\ \A u \in Managed(sv) :
                 /\ wt[u] \in Nat
                 /\ TotalWeight(sv, wt) \in Nat
                 /\ TotalWeight(sv, wt) > 0
                 /\ Part(target, wt[u], TotalWeight(sv, wt)) \in Nat
                 /\ Part(target, wt[u], TotalWeight(sv, wt)) >= 1
<1>1. IsFiniteSet(Managed(sv))
  BY ManagedFinite
<1>2. \A u \in Managed(sv) : wt[u] \in Nat /\ wt[u] >= 1
  BY DEF Managed
<1> DEFINE total == TotalWeight(sv, wt)
<1>3. total \in Nat /\ \A u \in Managed(sv) : wt[u] <= total
  BY <1>1, <1>2, SumBounds DEF TotalWeight
<1> HIDE DEF total
<1>4. \A u \in Managed(sv) : total > 0
  BY <1>2, <1>3
<1>5. \A u \in Managed(sv) : Part(target, wt[u], total) \in Nat /\ Part(target, wt[u], total) >= 1
  BY <1>2, <1>3, <1>4, PartIs
<1> QED
  BY <1>1, <1>2, <1>3, <1>4, <1>5 DEF total

\* Share is Part of the total weight.
LEMMA ShareIsPart ==
    ASSUME Registered, NoServiceTwice, WeightsGiven, targetThreads \in Nat
    PROVE  /\ IsFiniteSet(Managed(services))
           /\ \A u \in Managed(services) :
                 /\ weight[u] \in Nat /\ weight[u] >= 1
                 /\ TotalWeight(services, weight) \in Nat
                 /\ TotalWeight(services, weight) > 0
                 /\ Share(services, weight, u)
                      = Part(targetThreads, weight[u], TotalWeight(services, weight))
                 /\ Share(services, weight, u) \in Nat
                 /\ Share(services, weight, u) >= 1
BY WeighedParts DEF Share, Part, Registered, NoServiceTwice, WeightsGiven

\* A weight that is given is at least the least there is.
LEMMA ClampIs ==
    ASSUME NEW w \in Weights
    PROVE  Clamp(w) \in Nat /\ Clamp(w) >= 1
BY DEF Clamp

\* What a step does to weights, threads and count: nothing at all,
KeepsShares == UNCHANGED <<services, weight, threads, numThreads, targetThreads>>

\* or it shares out anew, by the weights it leaves.
SharesAnew ==
    /\ Reallocate(services', weight')
    /\ weight' \in [Uids -> Nat]
    /\ \A u \in Managed(services') : weight'[u] >= 1

LEMMA WeightSet ==
    ASSUME WeightsGiven, NEW u \in Uids, NEW w \in Weights,
           weight' = [weight EXCEPT ![u] = Clamp(w)],
           \A v \in Managed(services') : v = u \/ v \in Managed(services)
    PROVE  /\ weight' \in [Uids -> Nat]
           /\ \A v \in Managed(services') : weight'[v] >= 1
<1>1. Clamp(w) \in Nat /\ Clamp(w) >= 1
  BY ClampIs
<1> QED
  BY <1>1 DEF WeightsGiven, Managed

LEMMA AddSharesAnew ==
    ASSUME Registered, WeightsGiven, NEW u \in Uids, NEW w \in Weights, Add(u, w)
    PROVE  SharesAnew
<1>1. /\ Reallocate(services', weight')
      /\ weight' = [weight EXCEPT ![u] = Clamp(w)]
      /\ services' = services \/ services' = [services EXCEPT ![u] = made + 1]
  <2>1. PICK sv :
           /\ Reallocate(sv, [weight EXCEPT ![u] = Clamp(w)])
           /\ sv = services \/ sv = [services EXCEPT ![u] = made + 1]
    BY DEF Add
  <2>2. services' = sv /\ weight' = [weight EXCEPT ![u] = Clamp(w)]
    BY <2>1 DEF Reallocate
  <2> QED
    BY <2>1, <2>2
<1>2. \A v \in Managed(services') : v = u \/ v \in Managed(services)
  BY <1>1 DEF Managed, Registered
<1> QED
  BY <1>1, <1>2, WeightSet DEF SharesAnew

LEMMA RemoveSharesAnew ==
    ASSUME Registered, WeightsGiven, NEW u \in Uids, Remove(u)
    PROVE  SharesAnew
<1>1. Reallocate([services EXCEPT ![u] = None], [weight EXCEPT ![u] = 0])
  BY DEF Remove, RemoveUid
<1>2. /\ services' = [services EXCEPT ![u] = None]
      /\ weight' = [weight EXCEPT ![u] = 0]
  BY <1>1 DEF Reallocate
<1>3. Reallocate(services', weight')
  BY <1>1, <1>2
<1>4. \A v \in Managed(services') : v # u /\ v \in Managed(services)
  BY <1>2 DEF Managed, Registered
<1> QED
  BY <1>2, <1>3, <1>4 DEF SharesAnew, WeightsGiven, Managed

\* Every step keeps the shares or shares out anew, and leaves ids and
\* results in their places.
LEMMA StepOnShares ==
    ASSUME ManagerInv, Registered', [Next]_vars
    PROVE  (KeepsShares \/ SharesAnew) /\ Answers'
<1> USE DEF ManagerInv
<1>1. ASSUME NEW c \in Callers, NEW u \in Uids, GetOrAddGet(c, u)
      PROVE  KeepsShares /\ Answers'
  BY <1>1 DEF GetOrAddGet, registry, KeepsShares, Answers, Registered
<1>2. ASSUME NEW c \in Callers, NEW w \in Weights, GetOrAddAdd(c, w)
      PROVE  SharesAnew /\ Answers'
  <2>1. arg[c] \in Uids /\ Add(arg[c], w)
    BY <1>2 DEF GetOrAddAdd, Registered
  <2>2. SharesAnew
    BY <2>1, AddSharesAnew
  <2>3. services'[arg[c]] \in Services \union {None}
    BY <2>1 DEF Registered
  <2>4. Answers'
    BY <1>2, <2>3 DEF GetOrAddAdd, Answers
  <2> QED
    BY <2>2, <2>4
<1>3. ASSUME NEW u \in Uids, NEW w \in Weights, AddDirectly(u, w)
      PROVE  SharesAnew /\ Answers'
  BY <1>3, AddSharesAnew DEF AddDirectly, Answers, callers
<1>4. ASSUME NEW u \in Uids, Remove(u)
      PROVE  SharesAnew /\ Answers'
  <2>1. Answers'
    BY <1>4 DEF Remove, Answers, callers
  <2> QED
    BY <1>4, <2>1, RemoveSharesAnew
<1>5. ASSUME NEW s \in Services, RemoveService(s)
      PROVE  SharesAnew /\ Answers'
  BY <1>4, <1>5 DEF RemoveService, Managed
<1>6. ASSUME NEW s \in Services, NEW w \in Weights, SetWeight(s, w)
      PROVE  SharesAnew /\ Answers'
  <2>1. PICK u \in Managed(services) :
           Reallocate(services, [weight EXCEPT ![u] = Clamp(w)])
    BY <1>6 DEF SetWeight
  <2>2. /\ u \in Uids
        /\ Reallocate(services', weight')
        /\ weight' = [weight EXCEPT ![u] = Clamp(w)]
        /\ services' = services
    BY <2>1 DEF Reallocate, Managed
  <2>3. SharesAnew
    BY <2>2, WeightSet DEF SharesAnew
  <2> QED
    BY <1>6, <2>3 DEF SetWeight, Answers, callers
<1>7. ASSUME SetNumThreads
      PROVE  SharesAnew /\ Answers'
  <2>1. /\ Reallocate(services', weight')
        /\ weight' = weight
        /\ services' = services
    BY <1>7 DEF SetNumThreads, Reallocate
  <2>2. SharesAnew
    BY <2>1 DEF SharesAnew, WeightsGiven
  <2> QED
    BY <1>7, <2>2 DEF SetNumThreads, Answers, callers
<1>8. ASSUME UNCHANGED vars
      PROVE  KeepsShares /\ Answers'
  BY <1>8 DEF vars, registry, callers, KeepsShares, Answers
<1> QED
  BY <1>1, <1>2, <1>3, <1>4, <1>5, <1>6, <1>7, <1>8 DEF Next

\* Sharing out gives every managed service its share, also the one that is
\* found first under an id, since no service is under two.
LEMMA SharesAnewSharesOut ==
    ASSUME ManagerInv, Registered', NoServiceTwice', SharesAnew
    PROVE  WeightsGiven' /\ SharedOut'
<1>1. WeightsGiven'
  BY DEF SharesAnew, WeightsGiven
<1>2. targetThreads' = targetThreads /\ targetThreads \in Nat
  BY DEF SharesAnew, Reallocate, ManagerInv, SharedOut
<1>3. \A u \in Managed(services') : Share(services', weight', u) \in Nat
  <2>1. /\ services' \in [Uids -> Services \union {None}]
        /\ \A u, v \in Managed(services') : services'[u] = services'[v] => u = v
    BY DEF Registered, NoServiceTwice, Managed
  <2>2. /\ weight' \in [Uids -> Nat]
        /\ \A u \in Managed(services') : weight'[u] >= 1
    BY DEF SharesAnew
  <2>3. \A u \in Managed(services') :
           Part(targetThreads, weight'[u], TotalWeight(services', weight')) \in Nat
    BY <1>2, <2>1, <2>2, WeighedParts
  <2> QED
    BY <2>3 DEF Share, Part
<1>4. threads' = [s \in Services |->
                     IF \E u \in Managed(services') : services'[u] = s
                     THEN Share(services', weight', CHOOSE u \in Managed(services') : services'[u] = s)
                     ELSE threads[s]]
  BY DEF SharesAnew, Reallocate
<1>5. ASSUME NEW u \in Managed(services')
      PROVE  /\ services'[u] \in Services
             /\ (CHOOSE v \in Managed(services') : services'[v] = services'[u]) = u
  BY <1>5 DEF Managed, Registered, NoServiceTwice
<1>6. \A u \in Managed(services') : threads'[services'[u]] = Share(services', weight', u)
  BY <1>4, <1>5
<1>7. threads' \in [Services -> Nat]
  BY <1>3, <1>4 DEF ManagerInv, SharedOut
<1>8. numThreads' = SumFunction([u \in Managed(services') |-> Share(services', weight', u)])
  BY DEF SharesAnew, Reallocate
<1>9. \A u : Share(services', weight', u) = Share(services, weight, u)'
  BY <1>2 DEF Share
<1> QED
  BY <1>1, <1>2, <1>6, <1>7, <1>8, <1>9 DEF SharedOut

\* The manager's invariant: who is under which id, by what weight, and with
\* how many threads.
THEOREM ManagerInvHolds == Spec => []ManagerInv
<1>1. Init => ManagerInv
  <2> SUFFICES ASSUME Init
               PROVE  ManagerInv
    OBVIOUS
  <2>1. Registered /\ NoServiceTwice /\ Managed(services) = {}
    BY DEF Init, Registered, NoServiceTwice, Managed, Services
  <2>2. WeightsGiven /\ Answers
    BY <2>1 DEF Init, WeightsGiven, Answers
  <2>3. SumFunction([u \in {} |-> Share(services, weight, u)]) = 0
    <3> DEFINE f == [u \in {} |-> Share(services, weight, u)]
    <3>1. DOMAIN f = {} /\ IsFiniteSet({}) /\ \A x \in {} : f[x] \in Nat
      BY FS_EmptySet
    <3> HIDE DEF f
    <3>2. SumFunctionOnSet(f, {}) = 0
      BY <3>1, SumUnfolds DEF SumOf
    <3>3. SumFunction(f) = 0
      BY <3>1, <3>2 DEF SumFunction
    <3> QED
      BY <3>3 DEF f
  <2>4. SharedOut
    BY <2>1, <2>3 DEF Init, SharedOut
  <2> QED
    BY <2>1, <2>2, <2>4 DEF ManagerInv
<1>2. ManagerInv /\ (Registered /\ NoServiceTwice)' /\ [Next]_vars => ManagerInv'
  <2> SUFFICES ASSUME ManagerInv, Registered', NoServiceTwice', [Next]_vars
               PROVE  ManagerInv'
    OBVIOUS
  <2>1. (KeepsShares \/ SharesAnew) /\ Answers'
    BY StepOnShares
  <2>2. CASE KeepsShares
    BY <2>1, <2>2 DEF KeepsShares, ManagerInv, WeightsGiven, SharedOut, Share
  <2>3. CASE SharesAnew
    BY <2>1, <2>3, SharesAnewSharesOut DEF ManagerInv
  <2> QED
    BY <2>1, <2>2, <2>3
<1> QED
  BY <1>1, <1>2, ServicesAreDistinct, PTL DEF Spec

\* Type correctness of the manager.
THEOREM TypeOKHolds == Spec => []TypeOK
<1>1. ManagerInv => TypeOK
  <2> SUFFICES ASSUME ManagerInv
               PROVE  TypeOK
    OBVIOUS
  <2> USE DEF ManagerInv
  <2> DEFINE f == [u \in Managed(services) |-> Share(services, weight, u)]
  <2>1. /\ IsFiniteSet(Managed(services))
        /\ \A u \in Managed(services) : f[u] \in Nat
        /\ DOMAIN f = Managed(services)
    BY ShareIsPart DEF SharedOut
  <2>2. numThreads = SumFunctionOnSet(f, Managed(services))
    BY DEF SharedOut, SumFunction
  <2> HIDE DEF f
  <2>3. numThreads \in Nat
    BY <2>1, <2>2, SumBounds
  <2> QED
    BY <2>3 DEF TypeOK, Registered, WeightsGiven, SharedOut, Answers
<1> QED
  BY <1>1, ManagerInvHolds, PTL

\* The number of threads the manager tells is what the services under
\* management have, each at least one.
THEOREM CountIsExactHolds == Spec => []CountIsExact
<1>1. ManagerInv => CountIsExact
  <2> SUFFICES ASSUME ManagerInv
               PROVE  CountIsExact
    OBVIOUS
  <2> USE DEF ManagerInv
  <2>1. \A u \in Managed(services) : /\ threads[services[u]] = Share(services, weight, u)
                                     /\ Share(services, weight, u) >= 1
    BY ShareIsPart DEF SharedOut
  <2>2. [u \in Managed(services) |-> Share(services, weight, u)]
          = [u \in Managed(services) |-> threads[services[u]]]
    BY <2>1
  <2> QED
    BY <2>1, <2>2 DEF SharedOut, CountIsExact
<1> QED
  BY <1>1, ManagerInvHolds, PTL

\* A service of more weight never has fewer threads.
THEOREM WeightsAreRespectedHolds == Spec => []WeightsAreRespected
<1>1. ManagerInv => WeightsAreRespected
  <2> SUFFICES ASSUME ManagerInv,
                      NEW u \in Managed(services), NEW v \in Managed(services),
                      weight[u] >= weight[v]
               PROVE  threads[services[u]] >= threads[services[v]]
    BY DEF WeightsAreRespected
  <2> USE DEF ManagerInv
  <2> DEFINE total == TotalWeight(services, weight)
  <2>1. /\ weight[u] \in Nat /\ weight[v] \in Nat
        /\ total \in Nat /\ total > 0 /\ targetThreads \in Nat
        /\ threads[services[u]] = Part(targetThreads, weight[u], total)
        /\ threads[services[v]] = Part(targetThreads, weight[v], total)
    BY ShareIsPart DEF SharedOut
  <2> HIDE DEF total
  <2>2. /\ Part(targetThreads, weight[v], total) <= Part(targetThreads, weight[u], total)
        /\ Part(targetThreads, weight[v], total) \in Nat
        /\ Part(targetThreads, weight[u], total) \in Nat
    BY <2>1, PartGrows, PartIs
  <2> QED
    BY <2>1, <2>2
<1> QED
  BY <1>1, ManagerInvHolds, PTL

\* The services together have no more threads than the target, but for one for
\* each service that is guaranteed one.
THEOREM CountWithinTargetHolds == Spec => []CountWithinTarget
<1>1. ManagerInv => CountWithinTarget
  <2> SUFFICES ASSUME ManagerInv
               PROVE  CountWithinTarget
    OBVIOUS
  <2> USE DEF ManagerInv
  <2> DEFINE S == Managed(services)
             total == SumFunctionOnSet(weight, S)
             sh == [u \in S |-> Share(services, weight, u)]
  <2>1. /\ IsFiniteSet(S)
        /\ targetThreads \in Nat
        /\ \A u \in S : weight[u] \in Nat /\ weight[u] >= 1
        /\ \A u \in S : sh[u] = Part(targetThreads, weight[u], total)
    BY ShareIsPart DEF SharedOut, TotalWeight
  <2>2. numThreads = SumFunctionOnSet(sh, S)
    BY DEF SharedOut, SumFunction
  <2>3. \A u \in S : sh[u] = threads[services[u]]
    BY DEF SharedOut
  <2> HIDE DEF S, sh
  <2>4. SumFunctionOnSet(sh, S) <= targetThreads + Cardinality({u \in S : sh[u] = 1})
    BY <2>1, PartsWithinTarget
  <2>5. {u \in S : sh[u] = 1} = {u \in S : threads[services[u]] = 1}
    BY <2>3
  <2> QED
    BY <2>2, <2>4, <2>5 DEF CountWithinTarget, S
<1> QED
  BY <1>1, ManagerInvHolds, PTL
=============================================================================

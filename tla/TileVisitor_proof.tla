-------------------------- MODULE TileVisitor_proof --------------------------
(***************************************************************************)
(* Proofs about a visitor that works in parallel, for every profile, every *)
(* set of keys with data, every size of the batches and of the pool, and   *)
(* canceled or not.                                                        *)
(*                                                                         *)
(* The first parts are about the quad-tree: what a key leads to, and that  *)
(* looking at one key loses and doubles nothing of it.  The invariant then *)
(* says where every wanted key is (ahead, in the batch, or with one task)  *)
(* and where every task is; that the service does its part of that is      *)
(* ServiceInv of TaskClients_proof, which holds whoever the clients are.   *)
(* (The constants of TaskClients come with it and are not used.)           *)
(***************************************************************************)
EXTENDS TileVisitor, TaskClients_proof

-----------------------------------------------------------------------------
(* The tree                                                                *)

\* The paths of the quad-tree below the root keys, down to the last level.
IsPath(k) ==
    /\ k \in Seq(Nat)
    /\ Len(k) \in 1 .. MaxLevel + 1
    /\ \E i \in 1 .. Len(RootKeys) : RootKeys[i] = <<k[1]>>
    /\ \A n \in 2 .. Len(k) : k[n] \in 0 .. 3

\* What the traversal comes to look at: a path all the way to which was
\* worthwhile.
Visitable(k) ==
    /\ IsPath(k)
    /\ \A n \in 1 .. Len(k) - 1 : Worthwhile(SubSeq(k, 1, n))

LEMMA MaxLevelIsNat == MaxLevel \in Nat
BY VisitorAssumptions

LEMMA PathsAre ==
    ASSUME NEW k
    PROVE  k \in {r \o p : r \in ToSet(RootKeys), p \in SeqOf(0 .. 3, MaxLevel)} <=> IsPath(k)
<1>0. /\ MaxLevel \in Nat
      /\ RootKeys \in Seq(Seq(Nat))
      /\ \A i \in 1 .. Len(RootKeys) : RootKeys[i] \in Seq(Nat) /\ Len(RootKeys[i]) = 1
  BY VisitorAssumptions
<1>1. ASSUME NEW r \in ToSet(RootKeys), NEW p \in SeqOf(0 .. 3, MaxLevel), k = r \o p
      PROVE  IsPath(k)
  <2>1. PICK i \in 1 .. Len(RootKeys) : r = RootKeys[i]
    BY <1>0, <1>1 DEF ToSet
  <2>2. PICK m \in 0 .. MaxLevel : p \in [1 .. m -> 0 .. 3]
    BY <1>1 DEF SeqOf
  <2>3. p \in Seq(Nat) /\ Len(p) = m /\ \A n \in 1 .. m : p[n] \in 0 .. 3
    BY <1>0, <2>2
  <2>4. r \in Seq(Nat) /\ Len(r) = 1
    BY <1>0, <2>1
  <2>5. /\ r \o p \in Seq(Nat)
        /\ Len(r \o p) = Len(r) + Len(p)
        /\ \A n \in 1 .. Len(r) + Len(p) :
              (r \o p)[n] = IF n <= Len(r) THEN r[n] ELSE p[n - Len(r)]
    BY <2>3, <2>4, ConcatProperties
  <2>6. k[1] = r[1] /\ \A n \in 2 .. Len(k) : k[n] \in 0 .. 3
    <3>1. /\ Len(k) = 1 + m
          /\ \A n \in 1 .. 1 + m : k[n] = IF n <= 1 THEN r[n] ELSE p[n - 1]
      BY <1>1, <2>3, <2>4, <2>5
    <3>2. 1 \in 1 .. 1 + m
      BY <1>0, <2>2
    <3>3. \A n \in 2 .. 1 + m : n \in 1 .. 1 + m /\ ~(n <= 1) /\ n - 1 \in 1 .. m
      BY <1>0, <2>2
    <3> QED
      BY <2>3, <3>1, <3>2, <3>3
  <2>7. r = <<k[1]>>
    BY <2>4, <2>6
  <2>8. k \in Seq(Nat) /\ Len(k) \in 1 .. MaxLevel + 1
    BY <1>0, <1>1, <2>2, <2>3, <2>4, <2>5
  <2> QED
    BY <2>1, <2>6, <2>7, <2>8 DEF IsPath
<1>2. ASSUME IsPath(k)
      PROVE  \E r \in ToSet(RootKeys), p \in SeqOf(0 .. 3, MaxLevel) : k = r \o p
  <2>0. \E i \in 1 .. Len(RootKeys) : RootKeys[i] = <<k[1]>>
    BY <1>2 DEF IsPath
  <2>1. /\ k \in Seq(Nat) /\ Len(k) \in 1 .. MaxLevel + 1
        /\ \A n \in 2 .. Len(k) : k[n] \in 0 .. 3
    BY <1>2 DEF IsPath
  <2>2. PICK m \in 0 .. MaxLevel : m = Len(k) - 1
    <3>1. Len(k) - 1 \in 0 .. MaxLevel
      BY MaxLevelIsNat, <2>1
    <3> QED
      BY <3>1
  <2>3. PICK p \in [1 .. m -> 0 .. 3] : \A n \in 1 .. m : p[n] = k[n + 1]
    <3> DEFINE f == [n \in 1 .. m |-> k[n + 1]]
    <3>1. \A n \in 1 .. m : n + 1 \in 2 .. Len(k)
      BY <1>0, <2>1, <2>2
    <3>2. f \in [1 .. m -> 0 .. 3]
      BY <2>1, <3>1
    <3> QED
      BY <3>2
  <2>4. p \in SeqOf(0 .. 3, MaxLevel)
    BY <2>3 DEF SeqOf
  <2>5. PICK r \in ToSet(RootKeys) : r = <<k[1]>>
    BY <1>0, <2>0 DEF ToSet
  <2>6. /\ p \in Seq(Nat) /\ Len(p) = m
        /\ \A n \in 1 .. m : p[n] = k[n + 1]
    <3>1. m \in Nat /\ p \in [1 .. m -> Nat]
      BY MaxLevelIsNat, <2>2, <2>3
    <3> QED
      BY <2>3, <3>1
  <2>7. r \in Seq(Nat) /\ Len(r) = 1 /\ r[1] = k[1]
    <3>1. 1 \in 1 .. Len(k)
      BY <1>0, <2>1
    <3>2. k[1] \in Nat
      BY <2>1, <3>1
    <3> QED
      BY <2>5, <3>2
  <2>8. /\ r \o p \in Seq(Nat)
        /\ Len(r \o p) = Len(r) + Len(p)
        /\ \A n \in 1 .. Len(r) + Len(p) :
              (r \o p)[n] = IF n <= Len(r) THEN r[n] ELSE p[n - Len(r)]
    <3>1. r \in Seq(Nat) /\ p \in Seq(Nat)
      BY <2>6, <2>7
    <3> QED
      BY <3>1, ConcatProperties
  <2>9. \A n \in 1 .. Len(k) : (r \o p)[n] = k[n]
    <3> SUFFICES ASSUME NEW n \in 1 .. Len(k)
                 PROVE  (r \o p)[n] = k[n]
      OBVIOUS
    <3>0. /\ Len(k) = Len(r) + Len(p)
          /\ (r \o p)[n] = IF n <= 1 THEN r[n] ELSE p[n - 1]
      BY <2>2, <2>6, <2>7, <2>8
    <3>1. CASE n = 1
      BY <2>7, <3>0, <3>1
    <3>2. CASE n # 1
      <4>1. n - 1 \in 1 .. m /\ (n - 1) + 1 = n
        BY <2>2, <3>2
      <4> QED
        BY <2>6, <3>0, <3>2, <4>1
    <3> QED
      BY <3>1, <3>2
  <2>10. r \o p = k
    <3>1. Len(r \o p) = Len(k)
      BY <2>1, <2>2, <2>6, <2>7, <2>8
    <3>2. \A n \in 1 .. Len(r \o p) : (r \o p)[n] = k[n]
      BY <2>9, <3>1
    <3> QED
      BY <2>1, <2>8, <3>1, <3>2, SeqEqual
  <2> QED
    BY <2>4, <2>5, <2>10
<1> QED
  BY <1>1, <1>2

LEMMA WantedIs ==
    ASSUME NEW k
    PROVE  k \in Wanted <=> /\ IsPath(k)
                            /\ Lod(k) >= MinLevel
                            /\ \A n \in 1 .. Len(k) : Worthwhile(SubSeq(k, 1, n))
<1>1. IsPath(k) => Lod(k) \in Nat /\ Lod(k) <= MaxLevel
  BY VisitorAssumptions DEF IsPath, Lod
<1>2. MinLevel \in Nat /\ MaxLevel \in Nat
  BY VisitorAssumptions
<1> QED
  BY <1>1, <1>2, PathsAre DEF Wanted, Worthwhile

\* The wanted keys at and below a key.
Reached(k) == {x \in Wanted : Len(k) <= Len(x) /\ \A i \in 1 .. Len(k) : x[i] = k[i]}

LEMMA PrefixOfPath ==
    ASSUME NEW x \in Seq(Nat), NEW n \in 0 .. Len(x)
    PROVE  /\ SubSeq(x, 1, n) \in Seq(Nat)
           /\ Len(SubSeq(x, 1, n)) = n
           /\ \A i \in 1 .. n : SubSeq(x, 1, n)[i] = x[i]
BY SubSeqProperties

LEMMA SamePrefix ==
    ASSUME NEW x \in Seq(Nat), NEW y \in Seq(Nat),
           NEW n \in Nat, n <= Len(x), n <= Len(y),
           \A i \in 1 .. n : x[i] = y[i]
    PROVE  SubSeq(x, 1, n) = SubSeq(y, 1, n)
<1>1. n \in 0 .. Len(x) /\ n \in 0 .. Len(y)
  OBVIOUS
<1> QED
  BY <1>1, PrefixOfPath, SeqEqual

LEMMA WholePrefix ==
    ASSUME NEW x \in Seq(Nat)
    PROVE  SubSeq(x, 1, Len(x)) = x
<1>1. Len(x) \in 0 .. Len(x)
  OBVIOUS
<1> QED
  BY <1>1, PrefixOfPath, SeqEqual

\* What is reached from a key was worthwhile there.
LEMMA ReachedIsWorthwhile ==
    ASSUME NEW k, IsPath(k), NEW x \in Reached(k)
    PROVE  Worthwhile(k)
<1>1. /\ x \in Seq(Nat) /\ k \in Seq(Nat) /\ Len(k) \in Nat \ {0} /\ Len(k) <= Len(x)
      /\ Len(x) \in Nat
      /\ \A i \in 1 .. Len(k) : x[i] = k[i]
      /\ \A n \in 1 .. Len(x) : Worthwhile(SubSeq(x, 1, n))
  BY WantedIs, VisitorAssumptions DEF Reached, IsPath
<1>2. PICK n \in 1 .. Len(x) : n = Len(k)
  BY <1>1
<1>3. SubSeq(x, 1, n) = SubSeq(k, 1, n)
  BY <1>1, <1>2, SamePrefix
<1>4. SubSeq(k, 1, n) = k
  BY <1>1, <1>2, WholePrefix
<1> QED
  BY <1>1, <1>2, <1>3, <1>4

LEMMA ChildIs ==
    ASSUME NEW k, IsPath(k), NEW c \in 1 .. 4
    PROVE  /\ Children(k)[c] \in Seq(Nat)
           /\ Len(Children(k)[c]) = Len(k) + 1
           /\ \A i \in 1 .. Len(k) : Children(k)[c][i] = k[i]
           /\ Children(k)[c][Len(k) + 1] = c - 1
<1>1. k \in Seq(Nat) /\ c - 1 \in Nat
  BY DEF IsPath
<1>2. Children(k)[c] = Append(k, c - 1)
  BY DEF Children
<1> QED
  BY <1>1, <1>2, AppendProperties

\* The children of a visitable key that is worthwhile and not on the last
\* level are visitable.
LEMMA ChildVisitable ==
    ASSUME NEW k, Visitable(k), Worthwhile(k), Lod(k) < MaxLevel, NEW c \in 1 .. 4
    PROVE  Visitable(Children(k)[c])
<1> DEFINE x == Children(k)[c]
<1>0. /\ IsPath(k) /\ k \in Seq(Nat) /\ Len(k) \in Nat \ {0} /\ Len(k) <= MaxLevel
      /\ MaxLevel \in Nat
  BY VisitorAssumptions DEF Visitable, IsPath, Lod
<1>1. /\ x \in Seq(Nat)
      /\ Len(x) = Len(k) + 1
      /\ \A i \in 1 .. Len(k) : x[i] = k[i]
      /\ x[Len(k) + 1] = c - 1
  BY <1>0, ChildIs
<1> HIDE DEF x
<1>2. IsPath(x)
  <2>1. x[1] = k[1]
    BY <1>0, <1>1
  <2>2. \A n \in 2 .. Len(k) : k[n] \in 0 .. 3
    BY <1>0 DEF IsPath
  <2>3. ASSUME NEW n \in 2 .. Len(x) PROVE x[n] \in 0 .. 3
    <3>1. CASE n = Len(k) + 1
      BY <1>1, <3>1
    <3>2. CASE n # Len(k) + 1
      <4>1. n \in 2 .. Len(k) /\ n \in 1 .. Len(k)
        BY <1>0, <1>1, <3>2
      <4> QED
        BY <1>1, <2>2, <4>1
    <3> QED
      BY <3>1, <3>2
  <2>4. \E i \in 1 .. Len(RootKeys) : RootKeys[i] = <<x[1]>>
    BY <1>0, <2>1 DEF IsPath
  <2>5. Len(x) \in 1 .. MaxLevel + 1
    BY <1>0, <1>1
  <2> QED
    BY <1>1, <2>3, <2>4, <2>5 DEF IsPath
<1>3. ASSUME NEW n \in 1 .. Len(x) - 1 PROVE Worthwhile(SubSeq(x, 1, n))
  <2>1. n \in Nat /\ n <= Len(k) /\ n <= Len(x) /\ \A i \in 1 .. n : x[i] = k[i]
    BY <1>0, <1>1
  <2>2. SubSeq(x, 1, n) = SubSeq(k, 1, n)
    BY <1>0, <1>1, <2>1, SamePrefix
  <2>3. CASE n = Len(k)
    BY <1>0, <2>2, <2>3, WholePrefix
  <2>4. CASE n # Len(k)
    <3>1. n \in 1 .. Len(k) - 1
      BY <1>0, <2>1, <2>4
    <3> QED
      BY <2>2, <3>1 DEF Visitable
  <2> QED
    BY <2>3, <2>4
<1>4. Visitable(x)
  BY <1>2, <1>3 DEF Visitable
<1> QED
  BY <1>4 DEF x

\* A visitable key is wanted if it is handled, and reaches itself.
LEMMA HandledIsWanted ==
    ASSUME NEW k, Visitable(k)
    PROVE  k \in Reached(k) <=> Handled(k)
<1>1. /\ IsPath(k) /\ k \in Seq(Nat) /\ Len(k) \in Nat \ {0}
      /\ \A n \in 1 .. Len(k) - 1 : Worthwhile(SubSeq(k, 1, n))
  BY VisitorAssumptions DEF Visitable, IsPath
<1>2. SubSeq(k, 1, Len(k)) = k
  BY <1>1, WholePrefix
<1>3. (\A n \in 1 .. Len(k) : Worthwhile(SubSeq(k, 1, n))) <=> Worthwhile(k)
  <2>1. Len(k) \in 1 .. Len(k)
    BY <1>1
  <2>2. \A n \in 1 .. Len(k) : n \in 1 .. Len(k) - 1 \/ n = Len(k)
    BY <1>1
  <2> QED
    BY <1>1, <1>2, <2>1, <2>2
<1>4. k \in Wanted <=> Handled(k)
  BY <1>1, <1>3, WantedIs DEF Handled
<1> QED
  BY <1>1, <1>4 DEF Reached

LEMMA WantedIsHandled ==
    ASSUME NEW k, Visitable(k)
    PROVE  k \in Wanted <=> Handled(k)
<1>1. k \in Reached(k) => k \in Wanted
  BY DEF Reached
<1>2. k \in Wanted => k \in Reached(k)
  BY DEF Reached, Visitable, IsPath
<1> QED
  BY <1>1, <1>2, HandledIsWanted

\* What is reached from a key is the key itself or reached from one child, and
\* from one only.
LEMMA ReachedSplits ==
    ASSUME NEW k, Visitable(k)
    PROVE  /\ \A x \in Reached(k) : x # k =>
                 /\ Worthwhile(k) /\ Lod(k) < MaxLevel
                 /\ \E c \in 1 .. 4 : x \in Reached(Children(k)[c])
           /\ \A c \in 1 .. 4 : Reached(Children(k)[c]) \subseteq Reached(k) \ {k}
           /\ \A c, d \in 1 .. 4 : \A x :
                 x \in Reached(Children(k)[c]) /\ x \in Reached(Children(k)[d]) => c = d
<1>0. /\ IsPath(k) /\ k \in Seq(Nat) /\ Len(k) \in Nat \ {0} /\ MaxLevel \in Nat
  BY VisitorAssumptions DEF Visitable, IsPath
<1>1. \A c \in 1 .. 4 : /\ Len(Children(k)[c]) = Len(k) + 1
                        /\ \A i \in 1 .. Len(k) : Children(k)[c][i] = k[i]
                        /\ Children(k)[c][Len(k) + 1] = c - 1
  BY <1>0, ChildIs
<1>2. ASSUME NEW x \in Reached(k), x # k
      PROVE  /\ Worthwhile(k) /\ Lod(k) < MaxLevel
             /\ \E c \in 1 .. 4 : x \in Reached(Children(k)[c])
  <2>1. /\ x \in Wanted /\ IsPath(x) /\ x \in Seq(Nat)
        /\ Len(x) \in 1 .. MaxLevel + 1 /\ Len(k) <= Len(x)
        /\ \A i \in 1 .. Len(k) : x[i] = k[i]
        /\ \A n \in 2 .. Len(x) : x[n] \in 0 .. 3
    BY <1>2, WantedIs DEF Reached, IsPath
  <2>2. Len(x) # Len(k)
    BY <1>0, <1>2, <2>1, SeqEqual
  <2>3. Len(k) + 1 <= Len(x) /\ Len(k) + 1 \in 2 .. Len(x) /\ Len(k) <= MaxLevel
    BY <1>0, <2>1, <2>2
  <2>4. x[Len(k) + 1] \in 0 .. 3
    BY <2>1, <2>3
  <2> DEFINE c == x[Len(k) + 1] + 1
  <2>5. c \in 1 .. 4 /\ c - 1 = x[Len(k) + 1]
    BY <2>4
  <2> HIDE DEF c
  <2>6. ASSUME NEW i \in 1 .. Len(k) + 1 PROVE x[i] = Children(k)[c][i]
    <3>1. CASE i = Len(k) + 1
      BY <1>1, <2>5, <3>1
    <3>2. CASE i # Len(k) + 1
      <4>1. i \in 1 .. Len(k)
        BY <1>0, <3>2
      <4> QED
        BY <1>1, <2>1, <2>5, <4>1
    <3> QED
      BY <3>1, <3>2
  <2>7. x \in Reached(Children(k)[c])
    BY <1>1, <2>1, <2>3, <2>5, <2>6 DEF Reached
  <2>8. Worthwhile(k)
    BY <1>0, <1>2, ReachedIsWorthwhile
  <2> QED
    BY <1>0, <2>3, <2>5, <2>7, <2>8 DEF Lod
<1>3. ASSUME NEW c \in 1 .. 4, NEW x \in Reached(Children(k)[c])
      PROVE  x \in Reached(k) /\ x # k /\ x[Len(k) + 1] = c - 1
  <2>1. /\ x \in Wanted /\ Len(x) \in Nat /\ Len(k) + 1 <= Len(x)
        /\ \A i \in 1 .. Len(k) + 1 : x[i] = Children(k)[c][i]
    BY <1>1, WantedIs DEF Reached, IsPath
  <2>2. ASSUME NEW i \in 1 .. Len(k) PROVE x[i] = k[i]
    <3>1. i \in 1 .. Len(k) + 1
      BY <1>0
    <3> QED
      BY <1>1, <2>1, <3>1
  <2>3. x[Len(k) + 1] = c - 1
    <3>1. Len(k) + 1 \in 1 .. Len(k) + 1
      BY <1>0
    <3> QED
      BY <1>1, <2>1, <3>1
  <2>4. x # k /\ Len(k) <= Len(x)
    BY <1>0, <2>1
  <2> QED
    BY <2>1, <2>2, <2>3, <2>4 DEF Reached
<1>4. ASSUME NEW c \in 1 .. 4, NEW d \in 1 .. 4, NEW x,
             x \in Reached(Children(k)[c]), x \in Reached(Children(k)[d])
      PROVE  c = d
  <2>1. x[Len(k) + 1] = c - 1 /\ x[Len(k) + 1] = d - 1
    BY <1>3, <1>4
  <2> QED
    BY <2>1
<1> QED
  BY <1>2, <1>3, <1>4

-----------------------------------------------------------------------------
(* Lists of keys                                                           *)

LEMMA ListSet ==
    ASSUME NEW s \in Seq(Seq(Nat))
    PROVE  /\ IsFiniteSet(ToSet(s))
           /\ IsInjective(s) => Cardinality(ToSet(s)) = Len(s)
           /\ \A x : x \in ToSet(s) <=> \E i \in 1 .. Len(s) : x = s[i]
           /\ ToSet(s) \subseteq Seq(Nat)
<1>1. Len(s) \in Nat /\ DOMAIN s = 1 .. Len(s) /\ s \in [1 .. Len(s) -> Seq(Nat)]
  BY LenProperties
<1>2. s \in Surjection(1 .. Len(s), ToSet(s))
  BY <1>1 DEF ToSet, Surjection
<1>3. ExistsSurjection(1 .. Len(s), ToSet(s))
  BY <1>2 DEF ExistsSurjection
<1>4. IsFiniteSet(ToSet(s))
  BY <1>1, <1>3, FS_NatSurjection
<1>5. ASSUME IsInjective(s)
      PROVE  Cardinality(ToSet(s)) = Len(s)
  <2>1. s \in Bijection(1 .. Len(s), ToSet(s))
    BY <1>1, <1>2, <1>5 DEF Bijection, Injection, IsInjective, ToSet
  <2>2. ExistsBijection(1 .. Len(s), ToSet(s))
    BY <2>1 DEF ExistsBijection
  <2> QED
    BY <1>1, <2>2, FS_CountingElements
<1>6. /\ \A x : x \in ToSet(s) <=> \E i \in 1 .. Len(s) : x = s[i]
      /\ ToSet(s) \subseteq Seq(Nat)
  BY <1>1 DEF ToSet
<1> QED
  BY <1>4, <1>5, <1>6

\* A key put behind a list that does not have it.
LEMMA OneMore ==
    ASSUME NEW s \in Seq(Seq(Nat)), IsInjective(s), NEW k \in Seq(Nat), k \notin ToSet(s)
    PROVE  /\ Append(s, k) \in Seq(Seq(Nat))
           /\ Len(Append(s, k)) = Len(s) + 1
           /\ IsInjective(Append(s, k))
           /\ ToSet(Append(s, k)) = ToSet(s) \union {k}
<1>1. /\ Len(s) \in Nat /\ DOMAIN s = 1 .. Len(s)
      /\ Append(s, k) \in Seq(Seq(Nat))
      /\ Len(Append(s, k)) = Len(s) + 1
      /\ \A i \in 1 .. Len(s) : Append(s, k)[i] = s[i]
      /\ Append(s, k)[Len(s) + 1] = k
  BY AppendProperties
<1>2. DOMAIN Append(s, k) = 1 .. Len(s) + 1
  BY <1>1
<1> DEFINE t == Append(s, k)
<1> HIDE DEF t
<1>3. /\ DOMAIN t = 1 .. Len(s) + 1
      /\ \A i \in 1 .. Len(s) : t[i] = s[i]
      /\ t[Len(s) + 1] = k
  BY <1>1, <1>2 DEF t
<1>4. \A i \in 1 .. Len(s) + 1 : i \in 1 .. Len(s) \/ i = Len(s) + 1
  BY <1>1
<1>5. ToSet(t) = ToSet(s) \union {k}
  <2>1. \A i \in 1 .. Len(s) : i \in 1 .. Len(s) + 1
    BY <1>1
  <2>2. Len(s) + 1 \in 1 .. Len(s) + 1
    BY <1>1
  <2> QED
    BY <1>1, <1>3, <1>4, <2>1, <2>2 DEF ToSet
<1>6. IsInjective(t)
  <2> SUFFICES ASSUME NEW i \in 1 .. Len(s) + 1, NEW j \in 1 .. Len(s) + 1, t[i] = t[j]
               PROVE  i = j
    BY <1>3 DEF IsInjective
  <2>1. \A n \in 1 .. Len(s) : s[n] # k
    BY <1>1 DEF ToSet
  <2>2. CASE i \in 1 .. Len(s) /\ j \in 1 .. Len(s)
    BY <1>1, <1>3, <2>2 DEF IsInjective
  <2>3. CASE i = Len(s) + 1 \/ j = Len(s) + 1
    BY <1>3, <1>4, <2>1, <2>3
  <2> QED
    BY <1>4, <2>2, <2>3
<1> QED
  BY <1>1, <1>5, <1>6 DEF t

-----------------------------------------------------------------------------
(* The traversal                                                           *)

\* The wanted keys that a list of keys leads to.
AheadOf(list) == UNION {Reached(list[i]) : i \in 1 .. Len(list)}

\* A list of visitable keys that lead to different ones.
Apart(list) ==
    /\ list \in Seq(Seq(Nat))
    /\ \A i \in 1 .. Len(list) : Visitable(list[i])
    /\ \A i, j \in 1 .. Len(list) :
          i # j => Reached(list[i]) \intersect Reached(list[j]) = {}

\* What processKey goes down to.
LEMMA BelowIs ==
    ASSUME NEW k, Visitable(k)
    PROVE  /\ Apart(Below(k))
           /\ AheadOf(Below(k)) = Reached(k) \ {k}
<1>1. CASE Worthwhile(k) /\ Lod(k) < MaxLevel
  <2>1. Below(k) = Children(k)
    BY <1>1 DEF Below
  <2>2. \A c \in 1 .. 4 : Visitable(Children(k)[c])
    BY <1>1, ChildVisitable
  <2>3. Children(k) \in Seq(Seq(Nat)) /\ Len(Children(k)) = 4
    <3>1. \A c \in 1 .. 4 : Append(k, c - 1) \in Seq(Nat)
      BY AppendProperties DEF Visitable, IsPath
    <3> QED
      BY <3>1 DEF Children
  <2>4. Apart(Children(k))
    <3>1. \A c, d \in 1 .. 4 : c # d =>
             Reached(Children(k)[c]) \intersect Reached(Children(k)[d]) = {}
      BY ReachedSplits
    <3> QED
      BY <2>2, <2>3, <3>1 DEF Apart
  <2>5. AheadOf(Children(k)) = Reached(k) \ {k}
    <3>1. \A c \in 1 .. 4 : Reached(Children(k)[c]) \subseteq Reached(k) \ {k}
      BY ReachedSplits
    <3>2. \A x \in Reached(k) : x # k => \E c \in 1 .. 4 : x \in Reached(Children(k)[c])
      BY ReachedSplits
    <3> QED
      BY <2>3, <3>1, <3>2 DEF AheadOf
  <2> QED
    BY <2>1, <2>4, <2>5
<1>2. CASE ~(Worthwhile(k) /\ Lod(k) < MaxLevel)
  <2>1. Below(k) = <<>> /\ Len(<<>>) = 0 /\ <<>> \in Seq(Seq(Nat))
    BY <1>2 DEF Below
  <2>2. Apart(<<>>) /\ AheadOf(<<>>) = {}
    BY <2>1 DEF Apart, AheadOf
  <2>3. Reached(k) \ {k} = {}
    BY <1>2, ReachedSplits
  <2> QED
    BY <2>1, <2>2, <2>3
<1> QED
  BY <1>1, <1>2

\* One key looked at: it is ahead no more, and nothing else is lost or gained.
LEMMA OneKeyOn ==
    ASSUME NEW list, Apart(list), list # <<>>
    PROVE  /\ Apart(Below(Head(list)) \o Tail(list))
           /\ AheadOf(Below(Head(list)) \o Tail(list)) = AheadOf(list) \ {Head(list)}
           /\ Visitable(Head(list))
           /\ Head(list) \in Seq(Nat)
           /\ Handled(Head(list)) <=> Head(list) \in AheadOf(list)
<1>1. /\ list \in Seq(Seq(Nat))
      /\ Len(list) \in Nat \ {0}
      /\ \A i \in 1 .. Len(list) : Visitable(list[i])
      /\ \A i, j \in 1 .. Len(list) :
            i # j => Reached(list[i]) \intersect Reached(list[j]) = {}
  <2>1. list \in Seq(Seq(Nat))
    BY DEF Apart
  <2>2. Len(list) \in Nat \ {0}
    BY <2>1
  <2> QED
    BY <2>1, <2>2 DEF Apart
<1>2. PICK k : k = Head(list) /\ k = list[1] /\ 1 \in 1 .. Len(list)
  BY <1>1
<1>3. Visitable(k) /\ k \in Seq(Nat)
  BY <1>1, <1>2
<1>4. PICK b : b = Below(k)
  OBVIOUS
<1>5. Apart(b) /\ AheadOf(b) = Reached(k) \ {k}
  BY <1>3, <1>4, BelowIs
<1>6. PICK m \in Nat : m = Len(b)
  BY <1>5 DEF Apart
<1>7. PICK n \in Nat : n = Len(list) - 1
  <2>1. Len(list) \in Nat \ {0}
    BY <1>1
  <2> QED
    BY <2>1
<1>8. PICK t : t = Tail(list)
  OBVIOUS
<1>9. /\ t \in Seq(Seq(Nat)) /\ Len(t) = n
      /\ \A i \in 1 .. n : t[i] = list[i + 1]
  BY <1>1, <1>7, <1>8, HeadTailProperties
<1>10. PICK s : s = b \o t
  OBVIOUS
<1>11. /\ s \in Seq(Seq(Nat)) /\ Len(s) = m + n
       /\ \A i \in 1 .. m + n : s[i] = IF i <= m THEN b[i] ELSE t[i - m]
  <2>1. b \in Seq(Seq(Nat))
    BY <1>5 DEF Apart
  <2>2. /\ b \o t \in Seq(Seq(Nat)) /\ Len(b \o t) = Len(b) + Len(t)
        /\ \A i \in 1 .. Len(b) + Len(t) :
              (b \o t)[i] = IF i <= Len(b) THEN b[i] ELSE t[i - Len(b)]
    BY <1>9, <2>1, ConcatProperties
  <2> QED
    BY <1>6, <1>9, <1>10, <2>2
<1>12. \A i \in 1 .. m : i \in 1 .. m + n /\ s[i] = b[i]
  BY <1>11
<1>13. \A i \in 1 .. m + n : i \notin 1 .. m =>
          /\ (i - m) + 1 \in 1 .. Len(list) /\ (i - m) + 1 # 1
          /\ s[i] = list[(i - m) + 1]
  <2> SUFFICES ASSUME NEW i \in 1 .. m + n, i \notin 1 .. m
               PROVE  /\ (i - m) + 1 \in 1 .. Len(list) /\ (i - m) + 1 # 1
                      /\ s[i] = list[(i - m) + 1]
    OBVIOUS
  <2>1. i - m \in 1 .. n /\ ~(i <= m)
    OBVIOUS
  <2>2. s[i] = t[i - m]
    BY <1>11, <2>1
  <2>3. t[i - m] = list[(i - m) + 1]
    BY <1>9, <2>1
  <2> QED
    BY <1>7, <2>1, <2>2, <2>3
<1>14. \A j \in 2 .. Len(list) : (j - 1) + m \in 1 .. m + n /\ s[(j - 1) + m] = list[j]
  <2> SUFFICES ASSUME NEW j \in 2 .. Len(list)
               PROVE  (j - 1) + m \in 1 .. m + n /\ s[(j - 1) + m] = list[j]
    OBVIOUS
  <2>1. (j - 1) + m \in 1 .. m + n /\ (j - 1) + m \notin 1 .. m
        /\ (((j - 1) + m) - m) + 1 = j
    BY <1>7
  <2> QED
    BY <1>13, <2>1
<1>15. \A i \in 1 .. m : Visitable(b[i]) /\ Reached(b[i]) \subseteq Reached(k) \ {k}
  BY <1>5, <1>6 DEF Apart, AheadOf
<1>16. Apart(s)
  <2>1. \A i \in 1 .. m + n : Visitable(s[i])
    BY <1>1, <1>12, <1>13, <1>15
  <2>2. ASSUME NEW i \in 1 .. m + n, NEW j \in 1 .. m + n, i # j
        PROVE  Reached(s[i]) \intersect Reached(s[j]) = {}
    <3>1. CASE i \in 1 .. m /\ j \in 1 .. m
      BY <1>5, <1>6, <1>12, <2>2, <3>1 DEF Apart
    <3>2. CASE i \in 1 .. m /\ j \notin 1 .. m
      BY <1>1, <1>2, <1>12, <1>13, <1>15, <3>2
    <3>3. CASE i \notin 1 .. m /\ j \in 1 .. m
      BY <1>1, <1>2, <1>12, <1>13, <1>15, <3>3
    <3>4. CASE i \notin 1 .. m /\ j \notin 1 .. m
      <4>1. (i - m) + 1 # (j - m) + 1
        BY <2>2
      <4> QED
        BY <1>1, <1>13, <3>4, <4>1
    <3> QED
      BY <3>1, <3>2, <3>3, <3>4
  <2> QED
    BY <1>11, <2>1, <2>2 DEF Apart
<1>17. ASSUME NEW x \in AheadOf(s) PROVE x \in AheadOf(list) /\ x # k
  <2>1. PICK i \in 1 .. m + n : x \in Reached(s[i])
    BY <1>11, <1>17 DEF AheadOf
  <2>2. CASE i \in 1 .. m
    BY <1>2, <1>12, <1>15, <2>1, <2>2 DEF AheadOf
  <2>3. CASE i \notin 1 .. m
    <3>1. PICK j \in 1 .. Len(list) : j # 1 /\ x \in Reached(list[j])
      BY <1>13, <2>1, <2>3
    <3>2. x = k => k \notin Reached(k)
      BY <1>1, <1>2, <3>1
    <3>3. x # k
      <4>1. Reached(list[j]) \subseteq Wanted
        BY DEF Reached
      <4>2. k \in Wanted => k \in Reached(k)
        BY <1>3, HandledIsWanted, WantedIsHandled
      <4> QED
        BY <3>1, <3>2, <4>1, <4>2
    <3> QED
      BY <3>1, <3>3 DEF AheadOf
  <2> QED
    BY <2>2, <2>3
<1>18. ASSUME NEW x \in AheadOf(list), x # k PROVE x \in AheadOf(s)
  <2>1. PICK j \in 1 .. Len(list) : x \in Reached(list[j])
    BY <1>18 DEF AheadOf
  <2>2. CASE j = 1
    <3>1. x \in AheadOf(b)
      BY <1>2, <1>5, <1>18, <2>1, <2>2
    <3>2. PICK i \in 1 .. m : x \in Reached(b[i])
      BY <1>6, <3>1 DEF AheadOf
    <3> QED
      BY <1>11, <1>12, <3>2 DEF AheadOf
  <2>3. CASE j # 1
    <3>1. j \in 2 .. Len(list)
      BY <1>1, <2>3
    <3> QED
      BY <1>11, <1>14, <2>1, <3>1 DEF AheadOf
  <2> QED
    BY <2>2, <2>3
<1>19. AheadOf(s) = AheadOf(list) \ {k}
  BY <1>17, <1>18
<1>20. Handled(k) <=> k \in AheadOf(list)
  <2>1. Handled(k) => k \in AheadOf(list)
    BY <1>2, <1>3, HandledIsWanted DEF AheadOf
  <2>2. k \in AheadOf(list) => k \in Wanted
    BY DEF AheadOf, Reached
  <2> QED
    BY <1>3, <2>1, <2>2, WantedIsHandled
<1> QED
  BY <1>2, <1>3, <1>4, <1>8, <1>10, <1>16, <1>19, <1>20

\* The profile's root keys lead to all that is wanted.
LEMMA RootsLeadToAll ==
    /\ Apart(RootKeys)
    /\ AheadOf(RootKeys) = Wanted
<1>1. /\ RootKeys \in Seq(Seq(Nat)) /\ Len(RootKeys) \in Nat
      /\ DOMAIN RootKeys = 1 .. Len(RootKeys)
      /\ IsInjective(RootKeys)
      /\ MaxLevel \in Nat
      /\ \A i \in 1 .. Len(RootKeys) : RootKeys[i] \in Seq(Nat) /\ Len(RootKeys[i]) = 1
  BY VisitorAssumptions
<1>2. ASSUME NEW i \in 1 .. Len(RootKeys)
      PROVE  Visitable(RootKeys[i]) /\ RootKeys[i] = <<RootKeys[i][1]>>
  <2>1. PICK k : k = RootKeys[i]
    OBVIOUS
  <2>2. k \in Seq(Nat) /\ Len(k) = 1
    BY <1>1, <2>1
  <2>3. k = <<k[1]>>
    BY <2>2
  <2>4. RootKeys[i] = <<k[1]>>
    BY <2>1, <2>3
  <2>5. IsPath(k)
    <3>1. \E j \in 1 .. Len(RootKeys) : RootKeys[j] = <<k[1]>>
      BY <2>4
    <3>2. Len(k) \in 1 .. MaxLevel + 1
      BY <1>1, <2>2
    <3>3. \A n \in 2 .. Len(k) : k[n] \in 0 .. 3
      BY <2>2
    <3> QED
      BY <2>2, <3>1, <3>2, <3>3 DEF IsPath
  <2>6. \A n \in 1 .. Len(k) - 1 : Worthwhile(SubSeq(k, 1, n))
    BY <2>2
  <2> QED
    BY <2>1, <2>3, <2>5, <2>6 DEF Visitable
<1>3. ASSUME NEW i \in 1 .. Len(RootKeys), NEW x \in Reached(RootKeys[i])
      PROVE  RootKeys[i] = <<x[1]>>
  <2>1. PICK k : k = RootKeys[i]
    OBVIOUS
  <2>2. Len(k) = 1 /\ k = <<k[1]>>
    BY <1>1, <1>2, <2>1
  <2>3. x[1] = k[1]
    <3>1. \A n \in 1 .. Len(k) : x[n] = k[n]
      BY <1>3, <2>1 DEF Reached
    <3> QED
      BY <2>2, <3>1
  <2> QED
    BY <2>1, <2>2, <2>3
<1>4. Apart(RootKeys)
  <2>1. \A i, j \in 1 .. Len(RootKeys) :
           i # j => Reached(RootKeys[i]) \intersect Reached(RootKeys[j]) = {}
    <3> SUFFICES ASSUME NEW i \in 1 .. Len(RootKeys), NEW j \in 1 .. Len(RootKeys),
                        NEW x, x \in Reached(RootKeys[i]), x \in Reached(RootKeys[j])
                 PROVE  i = j
      OBVIOUS
    <3>1. RootKeys[i] = RootKeys[j]
      BY <1>3
    <3> QED
      BY <1>1, <3>1 DEF IsInjective
  <2> QED
    BY <1>1, <1>2, <2>1 DEF Apart
<1>5. ASSUME NEW x \in Wanted PROVE x \in AheadOf(RootKeys)
  <2>1. IsPath(x)
    BY WantedIs
  <2>2. PICK i \in 1 .. Len(RootKeys) : RootKeys[i] = <<x[1]>>
    BY <2>1 DEF IsPath
  <2>3. PICK k : k = RootKeys[i]
    OBVIOUS
  <2>4. Len(k) = 1 /\ k[1] = x[1]
    BY <2>2, <2>3
  <2>5. Len(k) <= Len(x) /\ \A n \in 1 .. Len(k) : x[n] = k[n]
    BY <1>1, <2>1, <2>4 DEF IsPath
  <2>6. x \in Reached(RootKeys[i])
    BY <2>3, <2>5 DEF Reached
  <2> QED
    BY <2>6 DEF AheadOf
<1> QED
  BY <1>4, <1>5 DEF AheadOf, Reached

\* The wanted keys that the traversal has still to come to.
Ahead == AheadOf(pending)

\* Every wanted key is ahead, or in the batch, or given to one task; and in
\* one of these only.
Traversal ==
    /\ Apart(pending)
    /\ GivenOnce
    /\ IsInjective(batch)
    /\ ToSet(batch) \intersect Given = {}
    /\ (Given \union ToSet(batch)) \intersect Ahead = {}
    /\ (Given \union ToSet(batch)) \union Ahead = Wanted
    /\ IsFiniteSet(Given)

VisitorTyped ==
    /\ kind \in Visitors
    /\ vpc \in {"produce", "pill", "wait", "finished"}
    /\ batchSize \in BatchSizes \union {1}
    /\ kind = "multithreaded" => batchSize = 1
    /\ batch \in Seq(Seq(Nat))
    /\ Len(batch) < batchSize
    /\ made \in 0 .. Len(TaskOrder)
    /\ keysOf \in [Requests -> Seq(Seq(Nat))]
    /\ progressCanceled \in BOOLEAN
    /\ vpc # "produce" => batch = <<>> /\ TraversalOver

LEMMA TasksAre ==
    /\ TaskOrder \in Seq(Jobs) /\ Len(TaskOrder) \in Nat
    /\ \A i \in 1 .. Len(TaskOrder) : TaskOrder[i] \in Jobs /\ TaskOrder[i] \in Requests
    /\ \A i, j \in 1 .. Len(TaskOrder) : TaskOrder[i] = TaskOrder[j] => i = j
<1>1. TaskOrder \in Seq(Jobs) /\ IsInjective(TaskOrder)
  BY VisitorAssumptions DEF Jobs
<1>2. Len(TaskOrder) \in Nat /\ DOMAIN TaskOrder = 1 .. Len(TaskOrder)
  BY <1>1
<1> QED
  BY <1>1, <1>2 DEF IsInjective, Jobs

\* A new task has the keys it is made with, and what was given before stays.
LEMMA GivenMore ==
    ASSUME VisitorTyped, NEW ks \in Seq(Seq(Nat)), AddTask(ks)
    PROVE  \E t \in Jobs \ MadeTasks :
              /\ t = TaskOrder[made + 1]
              /\ AddBegin(visitor, t)
              /\ MadeTasks' = MadeTasks \union {t}
              /\ made' \in 0 .. Len(TaskOrder)
              /\ keysOf' = [keysOf EXCEPT ![t] = ks]
              /\ keysOf' \in [Requests -> Seq(Seq(Nat))]
              /\ keysOf'[t] = ks
              /\ \A r \in MadeTasks : keysOf'[r] = keysOf[r]
              /\ Given' = Given \union ToSet(ks)
              /\ GivenOnce /\ IsInjective(ks) /\ ToSet(ks) \intersect Given = {} => GivenOnce'
              /\ IsFiniteSet(Given) => IsFiniteSet(Given')
<1>1. PICK t : t = TaskOrder[made + 1]
  OBVIOUS
<1>2. /\ made < Len(TaskOrder)
      /\ AddBegin(visitor, t)
      /\ made' = made + 1
      /\ keysOf' = [keysOf EXCEPT ![t] = ks]
  BY <1>1 DEF AddTask
<1>3. made \in Nat /\ made <= Len(TaskOrder) /\ keysOf \in [Requests -> Seq(Seq(Nat))]
  BY TasksAre DEF VisitorTyped
<1>4. made + 1 \in 1 .. Len(TaskOrder) /\ \A i \in 1 .. made : i \in 1 .. Len(TaskOrder) /\ i # made + 1
  BY <1>2, <1>3, TasksAre
<1>5. t \in Jobs /\ t \in Requests /\ t \notin MadeTasks
  BY <1>1, <1>4, TasksAre DEF MadeTasks
<1>6. MadeTasks \subseteq Requests
  BY <1>4, TasksAre DEF MadeTasks
<1>7. MadeTasks' = MadeTasks \union {t}
  <2>1. MadeTasks' = {TaskOrder[i] : i \in 1 .. made + 1}
    BY <1>2 DEF MadeTasks
  <2>2. \A i : i \in 1 .. made + 1 <=> i \in 1 .. made \/ i = made + 1
    BY <1>3
  <2> QED
    BY <1>1, <2>1, <2>2 DEF MadeTasks
<1>8. /\ keysOf' \in [Requests -> Seq(Seq(Nat))]
      /\ keysOf'[t] = ks
      /\ \A r \in MadeTasks : keysOf'[r] = keysOf[r]
  BY <1>2, <1>3, <1>5, <1>6
<1>9. made' \in 0 .. Len(TaskOrder)
  BY <1>2, <1>3, <1>4
<1>10. Given' = Given \union ToSet(ks)
  <2>1. Given' = UNION {ToSet(keysOf'[r]) : r \in MadeTasks \union {t}}
    BY <1>7 DEF Given
  <2> QED
    BY <1>8, <2>1 DEF Given
<1>11. ASSUME GivenOnce, IsInjective(ks), ToSet(ks) \intersect Given = {}
       PROVE  GivenOnce'
  <2> SUFFICES ASSUME NEW r \in MadeTasks \union {t}, NEW s \in MadeTasks \union {t},
                      NEW m \in DOMAIN keysOf'[r], NEW n \in DOMAIN keysOf'[s],
                      keysOf'[r][m] = keysOf'[s][n]
               PROVE  r = s /\ m = n
    BY <1>7 DEF GivenOnce
  <2>1. \A x \in MadeTasks : \A i \in DOMAIN keysOf[x] : keysOf[x][i] \in Given
    BY DEF Given, ToSet
  <2>2. \A i \in DOMAIN ks : ks[i] \notin Given
    BY <1>11 DEF ToSet
  <2>3. CASE r \in MadeTasks /\ s \in MadeTasks
    <3>1. keysOf'[r] = keysOf[r] /\ keysOf'[s] = keysOf[s]
      BY <1>8, <2>3
    <3>2. m \in DOMAIN keysOf[r] /\ n \in DOMAIN keysOf[s] /\ keysOf[r][m] = keysOf[s][n]
      BY <3>1
    <3>3. GivenOnce
      BY <1>11
    <3> QED
      BY <2>3, <3>2, <3>3 DEF GivenOnce
  <2>4. CASE r = t /\ s = t
    BY <1>8, <1>11, <2>4 DEF IsInjective
  <2>5. CASE r = t /\ s \in MadeTasks
    BY <1>8, <2>1, <2>2, <2>5
  <2>6. CASE r \in MadeTasks /\ s = t
    BY <1>8, <2>1, <2>2, <2>6
  <2> QED
    BY <2>3, <2>4, <2>5, <2>6
<1>12. IsFiniteSet(Given) => IsFiniteSet(Given')
  BY <1>10, ListSet, FS_Union
<1> QED
  BY <1>1, <1>2, <1>5, <1>7, <1>8, <1>9, <1>10, <1>11, <1>12

LEMMA LookedAt ==
    ASSUME Traversal, ~TraversalOver, NextKey
    PROVE  /\ Apart(pending')
           /\ Ahead' = Ahead \ {Head(pending)}
           /\ Head(pending) \in Seq(Nat)
           /\ Handled(Head(pending)) <=> Head(pending) \in Ahead
<1>1. PICK list : list = pending
  OBVIOUS
<1>2. Apart(list) /\ list # <<>>
  BY <1>1 DEF Traversal, TraversalOver
<1>3. pending' = Below(Head(list)) \o Tail(list)
  BY <1>1 DEF NextKey
<1>4. Ahead' = AheadOf(pending')
  BY DEF Ahead
<1> QED
  BY <1>1, <1>2, <1>3, <1>4, OneKeyOn DEF Ahead

LEMMA GivenSame ==
    ASSUME UNCHANGED <<made, keysOf>>
    PROVE  MadeTasks' = MadeTasks /\ Given' = Given /\ (GivenOnce' <=> GivenOnce)
  BY DEF Given, GivenOnce, MadeTasks

LEMMA NoKeys ==
    /\ <<>> \in Seq(Seq(Nat)) /\ Len(<<>>) = 0 /\ IsInjective(<<>>) /\ ToSet(<<>>) = {}
  BY DEF IsInjective, ToSet

LEMMA TraversalKept ==
    ASSUME Traversal, VisitorTyped,
           \/ PassKey \/ HandleTile \/ CollectTile \/ AddLastBatch
    PROVE  Traversal' /\ VisitorTyped'
<1> DEFINE k == Head(pending)
<1>1. CASE PassKey
  <2>1. ~TraversalOver /\ ~Handled(k) /\ NextKey
    BY <1>1 DEF PassKey
  <2>2. Apart(pending') /\ Ahead' = Ahead
    BY <2>1, LookedAt
  <2>3. UNCHANGED <<kind, batchSize, vpc, batch, made, keysOf, progressCanceled>> /\ vpc = "produce"
    BY <1>1 DEF PassKey, kindVars, Producing
  <2>4. MadeTasks' = MadeTasks /\ Given' = Given /\ (GivenOnce' <=> GivenOnce)
    BY <2>3, GivenSame
  <2>5. ToSet(batch)' = ToSet(batch)
    BY <2>3
  <2>6. Traversal'
    BY <2>2, <2>3, <2>4, <2>5 DEF Traversal
  <2> QED
    BY <2>3, <2>6 DEF VisitorTyped
<1>2. ASSUME ~TraversalOver, Handled(k), NextKey, AddTask(Append(batch, k)), batch' = <<>>,
             UNCHANGED <<kind, batchSize, vpc, progressCanceled>>, vpc = "produce"
      PROVE  Traversal' /\ VisitorTyped'
  <2>1. Apart(pending') /\ Ahead' = Ahead \ {k} /\ k \in Seq(Nat) /\ k \in Ahead
    BY <1>2, LookedAt
  <2>2. batch \in Seq(Seq(Nat)) /\ IsInjective(batch) /\ k \notin ToSet(batch) /\ k \notin Given
    BY <2>1 DEF Traversal, VisitorTyped
  <2>3. PICK ks : ks = Append(batch, k)
    OBVIOUS
  <2>4. ks \in Seq(Seq(Nat)) /\ IsInjective(ks) /\ ToSet(ks) = ToSet(batch) \union {k}
    BY <2>1, <2>2, <2>3, OneMore
  <2>5. /\ made' \in 0 .. Len(TaskOrder)
        /\ keysOf' \in [Requests -> Seq(Seq(Nat))]
        /\ Given' = Given \union ToSet(ks)
        /\ GivenOnce /\ IsInjective(ks) /\ ToSet(ks) \intersect Given = {} => GivenOnce'
        /\ IsFiniteSet(Given) => IsFiniteSet(Given')
    BY <1>2, <2>3, <2>4, GivenMore
  <2>6. ToSet(ks) \intersect Given = {}
    BY <2>2, <2>4 DEF Traversal
  <2>7. ToSet(batch)' = {}
    BY <1>2, NoKeys
  <2>8. IsInjective(batch)'
    BY <1>2, NoKeys
  <2>9. Traversal'
    BY <2>1, <2>4, <2>5, <2>6, <2>7, <2>8 DEF Traversal
  <2>10. batch' \in Seq(Seq(Nat)) /\ Len(batch') < batchSize
    BY <1>2, NoKeys, VisitorAssumptions DEF VisitorTyped
  <2> QED
    BY <1>2, <2>5, <2>9, <2>10 DEF VisitorTyped
<1>3. CASE HandleTile
  <2>1. /\ ~TraversalOver /\ Handled(k) /\ NextKey /\ AddTask(<<k>>)
        /\ UNCHANGED <<kind, batchSize, vpc, batch, progressCanceled>> /\ vpc = "produce"
        /\ kind = "multithreaded"
    BY <1>3 DEF HandleTile, kindVars, Producing
  <2>2. batch = <<>>
    BY <2>1 DEF VisitorTyped
  <2>3. Append(batch, k) = <<k>>
    BY <2>2
  <2> QED
    BY <1>2, <2>1, <2>2, <2>3
<1>4. CASE CollectTile
  <2>1. /\ ~TraversalOver /\ Handled(k) /\ NextKey
        /\ UNCHANGED <<kind, batchSize, vpc, progressCanceled>> /\ vpc = "produce"
    BY <1>4 DEF CollectTile, kindVars, Producing
  <2>2. PICK b : b = Append(batch, k)
    OBVIOUS
  <2>3. IF Len(b) = batchSize
        THEN AddTask(b) /\ batch' = <<>>
        ELSE batch' = b /\ UNCHANGED <<requestVars, addVars, made, keysOf>>
    BY <1>4, <2>2 DEF CollectTile
  <2>4. CASE Len(b) = batchSize
    BY <1>2, <2>1, <2>2, <2>3, <2>4
  <2>5. CASE Len(b) # batchSize
    <3>1. Apart(pending') /\ Ahead' = Ahead \ {k} /\ k \in Seq(Nat) /\ k \in Ahead
      BY <2>1, LookedAt
    <3>2. batch \in Seq(Seq(Nat)) /\ IsInjective(batch) /\ k \notin ToSet(batch) /\ k \notin Given
      BY <3>1 DEF Traversal, VisitorTyped
    <3>3. /\ b \in Seq(Seq(Nat)) /\ IsInjective(b) /\ ToSet(b) = ToSet(batch) \union {k}
          /\ Len(b) = Len(batch) + 1
      BY <2>2, <3>1, <3>2, OneMore
    <3>4. batch' = b /\ UNCHANGED <<made, keysOf>>
      BY <2>3, <2>5
    <3>5. MadeTasks' = MadeTasks /\ Given' = Given /\ (GivenOnce' <=> GivenOnce)
      BY <3>4, GivenSame
    <3>6. ToSet(batch)' = ToSet(batch) \union {k} /\ IsInjective(batch)'
      BY <3>3, <3>4
    <3>7. Traversal'
      BY <3>1, <3>2, <3>5, <3>6 DEF Traversal
    <3>8. Len(batch') < batchSize
      <4>1. batchSize \in Nat /\ Len(batch) \in Nat /\ Len(batch) < batchSize
        BY <3>2, VisitorAssumptions DEF VisitorTyped
      <4> QED
        BY <2>5, <3>3, <3>4, <4>1
    <3> QED
      BY <2>1, <3>3, <3>4, <3>7, <3>8 DEF VisitorTyped
  <2> QED
    BY <2>4, <2>5
<1>5. CASE AddLastBatch
  <2>1. /\ TraversalOver /\ AddTask(batch) /\ batch' = <<>>
        /\ UNCHANGED <<kind, batchSize, pending, progressCanceled>> /\ vpc' = "pill"
    BY <1>5 DEF AddLastBatch, kindVars
  <2>2. PICK ks : ks = batch
    OBVIOUS
  <2>3. ks \in Seq(Seq(Nat)) /\ IsInjective(ks) /\ ToSet(ks) \intersect Given = {}
    BY <2>2 DEF Traversal, VisitorTyped
  <2>4. /\ made' \in 0 .. Len(TaskOrder)
        /\ keysOf' \in [Requests -> Seq(Seq(Nat))]
        /\ Given' = Given \union ToSet(ks)
        /\ GivenOnce /\ IsInjective(ks) /\ ToSet(ks) \intersect Given = {} => GivenOnce'
        /\ IsFiniteSet(Given) => IsFiniteSet(Given')
    BY <2>1, <2>2, <2>3, GivenMore
  <2>5. ToSet(batch)' = {} /\ IsInjective(batch)'
    BY <2>1, NoKeys
  <2>6. Apart(pending') /\ Ahead' = Ahead
    BY <2>1 DEF Traversal, Ahead
  <2>7. Traversal'
    BY <2>2, <2>3, <2>4, <2>5, <2>6 DEF Traversal
  <2>8. batch' \in Seq(Seq(Nat)) /\ Len(batch') < batchSize
    BY <2>1, NoKeys, VisitorAssumptions DEF VisitorTyped
  <2>9. TraversalOver'
    BY <2>1 DEF TraversalOver
  <2> QED
    BY <2>1, <2>4, <2>7, <2>8, <2>9 DEF VisitorTyped
<1> QED
  BY <1>1, <1>3, <1>4, <1>5

-----------------------------------------------------------------------------
(* The rest of the inductive invariant                                     *)

\* A task is made once, runs once before it is complete, and is never
\* canceled itself: the service is not destroyed while run() goes on.
TasksKnown ==
    /\ life = "live"
    /\ \A r \in Requests : ~canceled[r]
    /\ \A r \in MadeTasks : state[r] # "IDLE" /\ adds[r] = 1
    /\ \A r \in Jobs \ MadeTasks : state[r] = "IDLE" /\ adds[r] = 0
    /\ \A r \in Jobs : state[r] = "COMPLETED" => runs[r] = 1
    /\ \A w \in Workers : tpc[w] = "complete" => runs[held[w]] = 1

\* The keys of the tasks that were run.
RunTasks == {r \in MadeTasks : runs[r] > 0}
Done == UNION {ToSet(keysOf[r]) : r \in RunTasks}

\* They are what is counted, and the last count is reported or about to be.
Counted ==
    /\ processed = Cardinality(Done)
    /\ reports \subseteq 0 .. processed
    /\ \/ processed = 0
       \/ processed \in reports
       \/ \E w \in Workers : tpc[w] = "complete"

\* The pill is the last that is added, and stays behind the tasks.
PillsBehind ==
    \A i, j \in 1 .. Len(queue) : queue[i] \in Pills /\ queue[j] \notin Pills => j < i

OnlyPillsQueued == \A i \in 1 .. Len(queue) : queue[i] \in Pills

PillLast ==
    /\ vpc \in {"produce", "pill"} =>
          /\ \A a \in Adders : addArg[a] \notin Pills
          /\ \A i \in 1 .. Len(queue) : queue[i] \notin Pills
          /\ \A w \in Workers : held[w] \notin Pills
    /\ vpc \in {"wait", "finished"} => \A a \in Adders : addArg[a] \in Pills \union {None}
    /\ PillsBehind
    /\ (\E w \in Workers : held[w] \in Pills) => OnlyPillsQueued

\* Until somebody cancels, no thread is told to stop.
Uncanceled ==
    ~progressCanceled =>
        /\ adjust = 0
        /\ threads = 1 .. FirstThreads
        /\ \A w \in Workers : ~stop[w]
        /\ \A w \in Workers : w \notin threads => tpc[w] = "unborn"
        /\ vpc = "finished" => \A w \in Workers : ~Running(w)

VisitorInv ==
    /\ ServiceInv
    /\ Traversal
    /\ VisitorTyped
    /\ TasksKnown
    /\ Counted
    /\ PillLast
    /\ Uncanceled

-----------------------------------------------------------------------------
(* What leaves a part of the invariant as it is                            *)

TraversalRests ==
    /\ UNCHANGED traversalVars
    /\ progressCanceled' \in {progressCanceled, TRUE}
    /\ \/ vpc' = vpc
       \/ vpc = "wait" /\ vpc' = "finished"

LEMMA TraversalAtRest ==
    ASSUME Traversal, VisitorTyped, TraversalRests
    PROVE  Traversal' /\ VisitorTyped'
<1>1. /\ UNCHANGED <<kind, batchSize, pending, batch, made, keysOf>>
      /\ progressCanceled' \in {progressCanceled, TRUE}
      /\ \/ vpc' = vpc
         \/ vpc = "wait" /\ vpc' = "finished"
  BY DEF TraversalRests, traversalVars, kindVars
<1>2. MadeTasks' = MadeTasks /\ Given' = Given /\ (GivenOnce' <=> GivenOnce)
  BY <1>1, GivenSame
<1>3. Ahead' = Ahead /\ ToSet(batch)' = ToSet(batch) /\ (IsInjective(batch)' <=> IsInjective(batch))
  BY <1>1 DEF Ahead
<1>4. Traversal'
  BY <1>1, <1>2, <1>3 DEF Traversal
<1>5. TraversalOver => TraversalOver'
  BY <1>1 DEF TraversalOver
<1>6. VisitorTyped'
  BY <1>1, <1>5 DEF VisitorTyped
<1> QED
  BY <1>4, <1>6

RequestsRest ==
    /\ UNCHANGED <<requestVars, life, made, keysOf, processed, reports>>
    /\ \A w \in Workers : tpc'[w] = "complete" <=> tpc[w] = "complete"
    /\ \A w \in Workers : tpc[w] = "complete" => held'[w] = held[w]

LEMMA RequestsAtRest ==
    ASSUME TasksKnown, Counted, RequestsRest
    PROVE  TasksKnown' /\ Counted'
<1>1. /\ UNCHANGED <<state, canceled, adds, runs, life, made, keysOf, processed, reports>>
      /\ \A w \in Workers : tpc'[w] = "complete" <=> tpc[w] = "complete"
      /\ \A w \in Workers : tpc[w] = "complete" => held'[w] = held[w]
  BY DEF RequestsRest, requestVars
<1>2. MadeTasks' = MadeTasks
  BY <1>1 DEF MadeTasks
<1>3. TasksKnown'
  BY <1>1, <1>2 DEF TasksKnown
<1>4. Done' = Done
  BY <1>1, <1>2 DEF Done, RunTasks
<1>5. Counted'
  BY <1>1, <1>4 DEF Counted
<1> QED
  BY <1>3, <1>5

PillsRest ==
    /\ UNCHANGED <<queue, addArg>>
    /\ \A w \in Workers : held'[w] \in {held[w], None}
    /\ \/ vpc' = vpc
       \/ vpc = "wait" /\ vpc' = "finished"

LEMMA PillsAtRest ==
    ASSUME PillLast, PillsRest
    PROVE  PillLast'
<1>1. None \notin Pills
  BY Names
<1>2. /\ queue' = queue /\ addArg' = addArg
      /\ \A w \in Workers : held'[w] \in {held[w], None}
      /\ \/ vpc' = vpc
         \/ vpc = "wait" /\ vpc' = "finished"
  BY DEF PillsRest
<1>3. (PillsBehind' <=> PillsBehind) /\ (OnlyPillsQueued' <=> OnlyPillsQueued)
  BY <1>2 DEF PillsBehind, OnlyPillsQueued
<1> QED
  BY <1>1, <1>2, <1>3 DEF PillLast

ThreadsRest ==
    /\ UNCHANGED <<adjust, threads, stop>>
    /\ progressCanceled' \in {progressCanceled, TRUE}
    /\ vpc' = "finished" => vpc = "finished"
    /\ \A w \in Workers : tpc[w] \in {"unborn", "exited"} => tpc'[w] = tpc[w]

LEMMA ThreadsAtRest ==
    ASSUME Uncanceled, ThreadsRest
    PROVE  Uncanceled'
<1> SUFFICES ASSUME ~progressCanceled'
             PROVE  /\ adjust' = 0
                    /\ threads' = 1 .. FirstThreads
                    /\ \A w \in Workers : ~stop'[w]
                    /\ \A w \in Workers : w \notin threads' => tpc'[w] = "unborn"
                    /\ vpc' = "finished" => \A w \in Workers : ~Running(w)'
  BY DEF Uncanceled
<1>1. /\ adjust' = adjust /\ threads' = threads /\ stop' = stop
      /\ vpc' = "finished" => vpc = "finished"
      /\ \A w \in Workers : tpc[w] \in {"unborn", "exited"} => tpc'[w] = tpc[w]
  BY DEF ThreadsRest
<1>2. ~progressCanceled
  BY DEF ThreadsRest
<1>3. /\ adjust = 0
      /\ threads = 1 .. FirstThreads
      /\ \A w \in Workers : ~stop[w]
      /\ \A w \in Workers : w \notin threads => tpc[w] = "unborn"
      /\ vpc = "finished" => \A w \in Workers : ~Running(w)
  BY <1>2 DEF Uncanceled
<1>4. ASSUME vpc' = "finished", NEW w \in Workers PROVE ~Running(w)'
  <2>1. tpc[w] \in {"unborn", "exited"}
    BY <1>1, <1>3, <1>4 DEF Running
  <2> QED
    BY <1>1, <2>1 DEF Running
<1> QED
  BY <1>1, <1>3, <1>4

-----------------------------------------------------------------------------
(* The queue of requests of one priority                                   *)

LEMMA InsertedLast ==
    ASSUME NEW q \in Seq(Requests), NEW r \in Requests
    PROVE  InsertByPriority(q, r) = Append(q, r)
<1>1. Len(q) \in Nat /\ \A i \in 1 .. Len(q) : q[i] \in Requests
  OBVIOUS
<1>2. \A x \in Requests : Priority[x] \in Int /\ Priority[x] = Priority[r]
  BY TaskAssumptions, VisitorAssumptions
<1>3. {i \in 1 .. Len(q) : Priority[q[i]] <= Priority[r]} = 1 .. Len(q)
  BY <1>1, <1>2
<1>4. Cardinality(1 .. Len(q)) = Len(q)
  <2>1. PICK n \in Nat : n = Len(q)
    OBVIOUS
  <2>2. Cardinality(1 .. n) = IF 1 > n THEN 0 ELSE n - 1 + 1
    BY FS_Interval
  <2>3. 1 > n => n = 0
    OBVIOUS
  <2> QED
    BY <2>1, <2>2, <2>3
<1>5. InsertByPriority(q, r) = InsertAt(q, Len(q) + 1, r)
  BY <1>3, <1>4 DEF InsertByPriority
<1>6. InsertAt(q, Len(q) + 1, r) = SubSeq(q, 1, (Len(q) + 1) - 1) \o <<r>> \o SubSeq(q, Len(q) + 1, Len(q))
  BY DEF InsertAt
<1>7. (Len(q) + 1) - 1 = Len(q)
  BY <1>1
<1>8. SubSeq(q, 1, Len(q)) = q
  <2>1. Len(q) \in 0 .. Len(q)
    BY <1>1
  <2>2. /\ SubSeq(q, 1, Len(q)) \in Seq(Requests)
        /\ Len(SubSeq(q, 1, Len(q))) = Len(q)
        /\ \A i \in 1 .. Len(q) : SubSeq(q, 1, Len(q))[i] = q[i]
    BY <1>1, <2>1, SubSeqProperties
  <2> QED
    BY <2>2, SeqEqual
<1>9. SubSeq(q, Len(q) + 1, Len(q)) = <<>>
  BY <1>1
<1>10. q \o <<r>> \o <<>> = Append(q, r)
  BY <1>1
<1> QED
  BY <1>5, <1>6, <1>7, <1>8, <1>9, <1>10

LEMMA QueueGrows ==
    ASSUME queue \in Seq(Requests), NEW r \in Requests, queue' = InsertByPriority(queue, r)
    PROVE  /\ Len(queue') = Len(queue) + 1
           /\ \A i \in 1 .. Len(queue) : queue'[i] = queue[i]
           /\ queue'[Len(queue) + 1] = r
<1>1. queue' = Append(queue, r)
  BY InsertedLast
<1> QED
  BY <1>1, AppendProperties

\* A pill goes behind what is queued, a task into a queue without pills.
LEMMA PillStaysBehind ==
    ASSUME queue \in Seq(Requests), NEW r \in Requests, queue' = InsertByPriority(queue, r),
           PillsBehind, r \in Pills \/ \A i \in 1 .. Len(queue) : queue[i] \notin Pills
    PROVE  /\ PillsBehind'
           /\ r \in Pills /\ OnlyPillsQueued => OnlyPillsQueued'
           /\ (\A i \in 1 .. Len(queue) : queue[i] \notin Pills) /\ r \notin Pills =>
                 \A i \in 1 .. Len(queue') : queue'[i] \notin Pills
<1>1. /\ Len(queue') = Len(queue) + 1
      /\ \A i \in 1 .. Len(queue) : queue'[i] = queue[i]
      /\ queue'[Len(queue) + 1] = r
  BY QueueGrows
<1>2. Len(queue) \in Nat /\ \A i \in 1 .. Len(queue') : i \in 1 .. Len(queue) \/ i = Len(queue) + 1
  BY <1>1
<1>3. PillsBehind'
  <2> SUFFICES ASSUME NEW i \in 1 .. Len(queue'), NEW j \in 1 .. Len(queue'),
                      queue'[i] \in Pills, queue'[j] \notin Pills
               PROVE  j < i
    BY DEF PillsBehind
  <2>1. CASE i \in 1 .. Len(queue) /\ j \in 1 .. Len(queue)
    BY <1>1, <2>1 DEF PillsBehind
  <2>2. CASE i = Len(queue) + 1 /\ j \in 1 .. Len(queue)
    BY <1>2, <2>2
  <2>3. CASE j = Len(queue) + 1
    BY <1>1, <1>2, <2>3
  <2> QED
    BY <1>2, <2>1, <2>2, <2>3
<1> QED
  BY <1>1, <1>2, <1>3 DEF OnlyPillsQueued

LEMMA PillIsLeftBehind ==
    ASSUME queue \in Seq(Requests), queue # <<>>, queue' = Tail(queue), PillsBehind
    PROVE  /\ PillsBehind'
           /\ OnlyPillsQueued => OnlyPillsQueued'
           /\ Head(queue) \in Pills => OnlyPillsQueued'
           /\ (\A i \in 1 .. Len(queue) : queue[i] \notin Pills) =>
                 /\ Head(queue) \notin Pills
                 /\ \A i \in 1 .. Len(queue') : queue'[i] \notin Pills
<1>1. /\ Len(queue) \in Nat \ {0}
      /\ Head(queue) = queue[1]
      /\ Len(queue') = Len(queue) - 1
      /\ \A i \in 1 .. Len(queue) - 1 : queue'[i] = queue[i + 1]
  BY HeadTailProperties
<1>2. \A i \in 1 .. Len(queue') : i + 1 \in 1 .. Len(queue) /\ queue'[i] = queue[i + 1]
  BY <1>1
<1>3. 1 \in 1 .. Len(queue)
  BY <1>1
<1>4. PillsBehind'
  <2> SUFFICES ASSUME NEW i \in 1 .. Len(queue'), NEW j \in 1 .. Len(queue'),
                      queue'[i] \in Pills, queue'[j] \notin Pills
               PROVE  j < i
    BY DEF PillsBehind
  <2>1. j + 1 < i + 1
    BY <1>2 DEF PillsBehind
  <2> QED
    BY <2>1
<1>5. Head(queue) \in Pills => OnlyPillsQueued'
  <2> SUFFICES ASSUME Head(queue) \in Pills, NEW i \in 1 .. Len(queue'), queue'[i] \notin Pills
               PROVE  FALSE
    BY DEF OnlyPillsQueued
  <2>1. i + 1 < 1
    BY <1>1, <1>2, <1>3 DEF PillsBehind
  <2> QED
    BY <2>1
<1> QED
  BY <1>1, <1>2, <1>3, <1>4, <1>5 DEF OnlyPillsQueued

-----------------------------------------------------------------------------
(* The steps of run()                                                      *)

LEMMA VisitorIsClient ==
    /\ visitor \in Clients /\ visitor \in Adders /\ visitor \notin Workers
    /\ \A a \in Adders : a = visitor \/ a \in Workers
    /\ Pill \in Pills /\ Pill \in Requests /\ \A p \in Pills : p = Pill
<1>1. /\ visitor \in Clients /\ visitor \in Adders /\ visitor \notin Workers
      /\ \A a \in Adders : a = visitor \/ a \in Workers
  BY Names, VisitorAssumptions DEF Adders
<1>2. PICK q \in Requests : Pills = {q}
  BY VisitorAssumptions
<1>3. Pill \in Pills
  BY <1>2 DEF Pill
<1> QED
  BY <1>1, <1>2, <1>3

LEMMA JobsAreRequests == \A r \in Jobs : r \in Requests /\ r \notin Pills
BY DEF Jobs

LEMMA MadeAreJobs ==
    ASSUME VisitorTyped
    PROVE  \A r \in MadeTasks : r \in Jobs
<1>1. \A i \in 1 .. made : i \in 1 .. Len(TaskOrder)
  BY TasksAre DEF VisitorTyped
<1> QED
  BY <1>1, TasksAre DEF MadeTasks

LEMMA TaskAdded ==
    ASSUME VisitorInv, NEW ks \in Seq(Seq(Nat)), AddTask(ks),
           UNCHANGED <<queue, queueDone, threadVars, serviceVars>>,
           UNCHANGED <<progressCanceled, processed, reports>>,
           vpc = "produce", vpc' \in {"produce", "pill"}
    PROVE  ServiceInv' /\ TasksKnown' /\ Counted' /\ PillLast' /\ Uncanceled'
<1>1. /\ ServiceInv /\ Traversal /\ VisitorTyped /\ TasksKnown
      /\ Counted /\ PillLast /\ Uncanceled
  BY DEF VisitorInv
<1>2. PICK t \in Jobs \ MadeTasks :
          /\ AddBegin(visitor, t)
          /\ MadeTasks' = MadeTasks \union {t}
          /\ keysOf'[t] = ks
          /\ \A r \in MadeTasks : keysOf'[r] = keysOf[r]
  BY <1>1, GivenMore
<1>3. /\ t \in Jobs /\ t \notin MadeTasks /\ t \in Requests /\ t \notin Pills
      /\ state[t] = "IDLE" /\ adds[t] = 0
  BY <1>1, <1>2, JobsAreRequests DEF TasksKnown
<1>4. /\ addArg' = [addArg EXCEPT ![visitor] = t]
      /\ state' = [state EXCEPT ![t] = "PENDING"]
      /\ adds' = [adds EXCEPT ![t] = @ + 1]
      /\ UNCHANGED <<canceled, runs>>
  BY <1>2 DEF AddBegin
<1>5. /\ UNCHANGED <<queue, tpc, held, stop, threads, adjust, life>>
      /\ UNCHANGED <<progressCanceled, processed, reports>>
  BY DEF threadVars, serviceVars
<1>6. ServiceInv'
  <2>1. state[t] \notin {"PENDING", "IN_PROGRESS"}
    BY <1>3
  <2> QED
    BY <1>1, <1>2, <1>3, <2>1, VisitorIsClient, AddBeginKeeps
<1>7. /\ state \in [Requests -> States] /\ adds \in [Requests -> Nat]
      /\ runs \in [Requests -> Nat]
      /\ addArg \in [Adders -> Requests \union {None}]
      /\ \A r \in Requests : runs[r] <= adds[r]
  BY <1>1 DEF ServiceInv, Typed, ServiceTypeOK, NoExtraRuns
<1>8. /\ state'[t] = "PENDING" /\ adds'[t] = 1
      /\ \A r \in Requests : r # t => state'[r] = state[r] /\ adds'[r] = adds[r]
  BY <1>3, <1>4, <1>7
<1>9. MadeTasks \subseteq Jobs /\ MadeTasks \subseteq Requests
  BY <1>1, MadeAreJobs, JobsAreRequests
<1>10. TasksKnown'
  <2>1. life' = "live" /\ \A r \in Requests : ~canceled'[r]
    BY <1>1, <1>4, <1>5 DEF TasksKnown
  <2>2. \A r \in MadeTasks' : state'[r] # "IDLE" /\ adds'[r] = 1
    BY <1>1, <1>2, <1>8, <1>9 DEF TasksKnown
  <2>3. \A r \in Jobs \ MadeTasks' : state'[r] = "IDLE" /\ adds'[r] = 0
    BY <1>1, <1>2, <1>8, JobsAreRequests DEF TasksKnown
  <2>4. \A r \in Jobs : state'[r] = "COMPLETED" => runs'[r] = 1
    BY <1>1, <1>4, <1>8, JobsAreRequests DEF TasksKnown
  <2>5. \A w \in Workers : tpc'[w] = "complete" => runs'[held'[w]] = 1
    BY <1>1, <1>4, <1>5 DEF TasksKnown
  <2> QED
    BY <2>1, <2>2, <2>3, <2>4, <2>5 DEF TasksKnown
<1>11. Counted'
  <2>1. runs[t] = 0
    BY <1>3, <1>7
  <2>2. RunTasks' = RunTasks
    BY <1>2, <1>4, <2>1 DEF RunTasks
  <2>3. \A r \in RunTasks : keysOf'[r] = keysOf[r]
    BY <1>2 DEF RunTasks
  <2>4. Done' = Done
    BY <2>2, <2>3 DEF Done
  <2> QED
    BY <1>1, <1>5, <2>4 DEF Counted
<1>12. PillLast'
  <2>1. \A a \in Adders : addArg'[a] = addArg[a] \/ addArg'[a] = t
    BY <1>4, <1>7
  <2>2. (PillsBehind' <=> PillsBehind) /\ (OnlyPillsQueued' <=> OnlyPillsQueued)
    BY <1>5 DEF PillsBehind, OnlyPillsQueued
  <2> QED
    BY <1>1, <1>3, <1>5, <2>1, <2>2 DEF PillLast
<1>13. Uncanceled'
  <2>1. ThreadsRest
    BY <1>5 DEF ThreadsRest
  <2> QED
    BY <1>1, <2>1, ThreadsAtRest
<1> QED
  BY <1>6, <1>10, <1>11, <1>12, <1>13

\* The service is left alone.
LEMMA ServiceAtRest ==
    ASSUME VisitorInv, UNCHANGED taskVars, UNCHANGED <<made, keysOf, processed, reports>>,
           progressCanceled' \in {progressCanceled, TRUE}, vpc' = vpc
    PROVE  ServiceInv' /\ TasksKnown' /\ Counted' /\ PillLast' /\ Uncanceled'
<1>1. /\ ServiceInv /\ TasksKnown /\ Counted /\ PillLast /\ Uncanceled
  BY DEF VisitorInv
<1>2. /\ UNCHANGED <<requestVars, queue, addArg, tpc, held, stop, threads, adjust, life>>
      /\ UNCHANGED <<made, keysOf, processed, reports>>
  BY DEF taskVars, addVars, threadVars, serviceVars
<1>3. ServiceInv'
  BY <1>1, StutterKeeps
<1>4. TasksKnown' /\ Counted'
  <2>1. RequestsRest
    BY <1>2 DEF RequestsRest
  <2> QED
    BY <1>1, <2>1, RequestsAtRest
<1>5. PillLast'
  <2>1. PillsRest
    BY <1>2 DEF PillsRest
  <2> QED
    BY <1>1, <2>1, PillsAtRest
<1>6. Uncanceled'
  <2>1. ThreadsRest
    BY <1>2 DEF ThreadsRest
  <2> QED
    BY <1>1, <2>1, ThreadsAtRest
<1> QED
  BY <1>3, <1>4, <1>5, <1>6

LEMMA ProductionKeeps ==
    ASSUME VisitorInv, PassKey \/ HandleTile \/ CollectTile \/ AddLastBatch
    PROVE  VisitorInv'
<1>1. Traversal /\ VisitorTyped
  BY DEF VisitorInv
<1>2. Traversal' /\ VisitorTyped'
  BY <1>1, TraversalKept
<1>3. CASE PassKey
  <2>1. /\ UNCHANGED taskVars /\ UNCHANGED <<made, keysOf, processed, reports>>
        /\ progressCanceled' \in {progressCanceled, TRUE} /\ vpc' = vpc
    BY <1>3 DEF PassKey
  <2> QED
    BY <1>2, <2>1, ServiceAtRest DEF VisitorInv
<1>4. ASSUME NEW ks, ks \in Seq(Seq(Nat)), AddTask(ks),
             UNCHANGED <<queue, queueDone, threadVars, serviceVars>>,
             UNCHANGED <<progressCanceled, processed, reports>>,
             vpc = "produce", vpc' \in {"produce", "pill"}
      PROVE  VisitorInv'
  BY <1>2, <1>4, TaskAdded DEF VisitorInv
<1>5. ASSUME ~TraversalOver
      PROVE  Head(pending) \in Seq(Nat)
  <2>1. Apart(pending) /\ pending # <<>>
    BY <1>1, <1>5 DEF Traversal, TraversalOver
  <2> QED
    BY <2>1, OneKeyOn
<1>6. CASE HandleTile
  <2>1. /\ ~TraversalOver
        /\ AddTask(<<Head(pending)>>)
        /\ UNCHANGED <<queue, queueDone, threadVars, serviceVars>>
        /\ UNCHANGED <<progressCanceled, processed, reports>>
        /\ vpc = "produce" /\ vpc' \in {"produce", "pill"}
    BY <1>6 DEF HandleTile, Producing
  <2>2. <<Head(pending)>> \in Seq(Seq(Nat))
    BY <1>5, <2>1
  <2> QED
    BY <1>4, <2>1, <2>2
<1>7. CASE CollectTile
  <2>1. /\ ~TraversalOver
        /\ UNCHANGED <<queue, queueDone, threadVars, serviceVars>>
        /\ UNCHANGED <<progressCanceled, processed, reports>>
        /\ vpc = "produce" /\ vpc' = vpc
    BY <1>7 DEF CollectTile, Producing
  <2>2. PICK b : b = Append(batch, Head(pending))
    OBVIOUS
  <2>3. b \in Seq(Seq(Nat))
    BY <1>1, <1>5, <2>1, <2>2, AppendProperties DEF VisitorTyped
  <2>4. \/ AddTask(b)
        \/ UNCHANGED <<requestVars, addVars, made, keysOf>>
    BY <1>7, <2>2 DEF CollectTile
  <2>5. CASE AddTask(b)
    BY <1>4, <2>1, <2>3, <2>5
  <2>6. CASE UNCHANGED <<requestVars, addVars, made, keysOf>>
    <3>1. /\ UNCHANGED taskVars /\ UNCHANGED <<made, keysOf, processed, reports>>
          /\ progressCanceled' \in {progressCanceled, TRUE}
      BY <2>1, <2>6 DEF taskVars
    <3> QED
      BY <1>2, <2>1, <3>1, ServiceAtRest DEF VisitorInv
  <2> QED
    BY <2>4, <2>5, <2>6
<1>8. CASE AddLastBatch
  <2>1. /\ AddTask(batch)
        /\ UNCHANGED <<queue, queueDone, threadVars, serviceVars>>
        /\ UNCHANGED <<progressCanceled, processed, reports>>
        /\ vpc = "produce" /\ vpc' \in {"produce", "pill"}
    BY <1>8 DEF AddLastBatch, Producing
  <2>2. batch \in Seq(Seq(Nat))
    BY <1>1 DEF VisitorTyped
  <2> QED
    BY <1>4, <2>1, <2>2
<1> QED
  BY <1>3, <1>6, <1>7, <1>8

LEMMA AddPillKeeps ==
    ASSUME VisitorInv, AddPill
    PROVE  VisitorInv'
<1>1. /\ ServiceInv /\ Traversal /\ VisitorTyped /\ TasksKnown
      /\ Counted /\ PillLast /\ Uncanceled
  BY DEF VisitorInv
<1>2. /\ \/ kind = "multithreaded" /\ vpc = "produce" /\ TraversalOver
         \/ vpc = "pill"
      /\ AddBegin(visitor, Pill)
      /\ vpc' = "wait"
      /\ UNCHANGED <<queue, queueDone, threadVars, serviceVars, traversalVars>>
      /\ UNCHANGED <<progressCanceled, processed, reports>>
  BY DEF AddPill
<1>3. /\ UNCHANGED <<kind, batchSize, pending, batch, made, keysOf>>
      /\ UNCHANGED <<queue, tpc, held, stop, threads, adjust, life>>
  BY <1>2 DEF traversalVars, kindVars, threadVars, serviceVars
<1>4. /\ addArg' = [addArg EXCEPT ![visitor] = Pill]
      /\ state' = [state EXCEPT ![Pill] = "PENDING"]
      /\ adds' = [adds EXCEPT ![Pill] = @ + 1]
      /\ UNCHANGED <<canceled, runs>>
  BY <1>2 DEF AddBegin
<1>5. ServiceInv'
  BY <1>1, <1>2, VisitorIsClient, AddBeginKeeps
<1>6. batch = <<>> /\ TraversalOver
  <2>1. CASE vpc = "produce"
    <3>1. batchSize = 1 /\ batch \in Seq(Seq(Nat)) /\ Len(batch) < batchSize
      BY <1>1, <1>2, <2>1 DEF VisitorTyped
    <3>2. TraversalOver
      BY <1>2, <2>1
    <3> QED
      BY <3>1, <3>2
  <2>2. CASE vpc = "pill"
    BY <1>1, <2>2 DEF VisitorTyped
  <2> QED
    BY <1>2, <2>1, <2>2
<1>7. MadeTasks' = MadeTasks /\ Given' = Given /\ (GivenOnce' <=> GivenOnce)
  BY <1>3, GivenSame
<1>8. Traversal'
  <2>1. Ahead' = Ahead /\ ToSet(batch)' = ToSet(batch) /\ (IsInjective(batch)' <=> IsInjective(batch))
    BY <1>3 DEF Ahead
  <2> QED
    BY <1>1, <1>3, <1>7, <2>1 DEF Traversal
<1>9. VisitorTyped'
  <2>1. TraversalOver'
    BY <1>2, <1>3, <1>6 DEF TraversalOver
  <2> QED
    BY <1>1, <1>2, <1>3, <1>6, <2>1 DEF VisitorTyped
<1>10. \A r \in Jobs : r # Pill /\ r \in Requests
  BY VisitorIsClient, JobsAreRequests
<1>11. \A r \in Jobs : state'[r] = state[r] /\ adds'[r] = adds[r]
  <2>1. state \in [Requests -> States] /\ adds \in [Requests -> Nat]
    BY <1>1 DEF ServiceInv, Typed, ServiceTypeOK
  <2> QED
    BY <1>4, <1>10, <2>1
<1>12. TasksKnown'
  <2>1. \A r \in MadeTasks : r \in Jobs
    BY <1>1, MadeAreJobs
  <2> QED
    BY <1>1, <1>3, <1>4, <1>7, <1>11, <2>1 DEF TasksKnown
<1>13. Counted'
  <2>1. Done' = Done
    BY <1>3, <1>4, <1>7 DEF Done, RunTasks
  <2> QED
    BY <1>1, <1>2, <1>3, <2>1 DEF Counted
<1>14. PillLast'
  <2>1. vpc \in {"produce", "pill"}
    BY <1>2
  <2>2. \A w \in Workers : addArg[w] \in Pills \union {None}
    BY <1>1, Names DEF ServiceInv, AddersKnown
  <2>3. \A a \in Adders : addArg'[a] \in Pills \union {None}
    <3>1. addArg \in [Adders -> Requests \union {None}]
      BY <1>1 DEF ServiceInv, Typed, ServiceTypeOK
    <3> QED
      BY <1>4, <2>2, <3>1, VisitorIsClient
  <2>4. (PillsBehind' <=> PillsBehind) /\ (OnlyPillsQueued' <=> OnlyPillsQueued)
    BY <1>3 DEF PillsBehind, OnlyPillsQueued
  <2> QED
    BY <1>1, <1>2, <1>3, <2>1, <2>3, <2>4 DEF PillLast
<1>15. Uncanceled'
  <2>1. ThreadsRest
    BY <1>2, <1>3 DEF ThreadsRest
  <2> QED
    BY <1>1, <2>1, ThreadsAtRest
<1> QED
  BY <1>5, <1>8, <1>9, <1>12, <1>13, <1>14, <1>15 DEF VisitorInv

\* The parts of a step that moves neither requests nor pills.
LEMMA QuietStep ==
    ASSUME VisitorInv, ServiceInv', TraversalRests, RequestsRest, PillsRest, ThreadsRest
    PROVE  VisitorInv'
BY TraversalAtRest, RequestsAtRest, PillsAtRest, ThreadsAtRest DEF VisitorInv

LEMMA CancelKeeps ==
    ASSUME VisitorInv, Cancel
    PROVE  VisitorInv'
<1>1. /\ UNCHANGED taskVars /\ UNCHANGED <<made, keysOf, processed, reports>>
      /\ progressCanceled' \in {progressCanceled, TRUE} /\ vpc' = vpc
      /\ UNCHANGED traversalVars
  BY DEF Cancel, traversalVars
<1>2. TraversalRests
  BY <1>1 DEF TraversalRests
<1> QED
  BY <1>1, <1>2, ServiceAtRest, TraversalAtRest DEF VisitorInv

LEMMA StopWaitingKeeps ==
    ASSUME VisitorInv, StopWaiting
    PROVE  VisitorInv'
<1>1. /\ ServiceInv /\ Traversal /\ VisitorTyped /\ TasksKnown
      /\ Counted /\ PillLast /\ Uncanceled
  BY DEF VisitorInv
<1>2. /\ vpc = "wait" /\ vpc' = "finished"
      /\ \A w \in threads : ~Running(w)
      /\ UNCHANGED <<taskVars, traversalVars>>
      /\ UNCHANGED <<progressCanceled, processed, reports>>
  BY DEF StopWaiting, Waits
<1>3. /\ UNCHANGED <<requestVars, queue, addArg, tpc, held, stop, threads, adjust, life>>
      /\ UNCHANGED <<made, keysOf>>
  BY <1>2 DEF taskVars, addVars, threadVars, serviceVars, traversalVars
<1>4. ServiceInv'
  BY <1>1, <1>2, StutterKeeps
<1>5. TraversalRests /\ RequestsRest /\ PillsRest
  BY <1>2, <1>3 DEF TraversalRests, RequestsRest, PillsRest
<1>6. Uncanceled'
  <2> SUFFICES ASSUME ~progressCanceled
               PROVE  Uncanceled'
    BY <1>2 DEF Uncanceled
  <2>1. /\ adjust = 0
        /\ threads = 1 .. FirstThreads
        /\ \A w \in Workers : ~stop[w]
        /\ \A w \in Workers : w \notin threads => tpc[w] = "unborn"
    BY <1>1 DEF Uncanceled
  <2>2. \A w \in Workers : ~Running(w)
    BY <1>2, <2>1 DEF Running
  <2>3. \A w \in Workers : ~Running(w)'
    BY <1>3, <2>2 DEF Running
  <2> QED
    BY <1>3, <2>1, <2>3 DEF Uncanceled
<1> QED
  BY <1>1, <1>4, <1>5, <1>6, TraversalAtRest, RequestsAtRest, PillsAtRest DEF VisitorInv

\* cancelAll and the calls it goes on with.
LEMMA CancelServiceKeeps ==
    ASSUME VisitorInv, CancelService \/ (OwnerStep /\ UNCHANGED visitorVars)
    PROVE  VisitorInv'
<1>1. /\ ServiceInv /\ Traversal /\ VisitorTyped /\ TasksKnown
      /\ Counted /\ PillLast /\ Uncanceled
  BY DEF VisitorInv
<1>2. UNCHANGED traversalVars /\ UNCHANGED <<vpc, progressCanceled, processed, reports>>
      /\ UNCHANGED <<made, keysOf>>
  BY DEF CancelService, visitorVars, traversalVars
<1>3. ServiceInv'
  BY <1>1, OwnerCallKeeps, OwnerStepKeeps DEF CancelService
<1>4. life = "live"
  BY <1>1 DEF TasksKnown
<1>5. CancelService \/ StopThread \/ \E w \in Workers : AddThread(w)
  BY <1>4 DEF OwnerStep, DestroyFlags, DestroyCancel, DestroyJoin, DestroyEnd
<1>6. /\ UNCHANGED <<requestVars, queue, addArg, held, life>>
      /\ \A w \in Workers : \/ tpc'[w] = tpc[w]
                            \/ tpc[w] = "unborn" /\ tpc'[w] = "loop"
  <2>1. tpc \in [Workers -> ThreadPcs]
    BY <1>1 DEF ServiceInv, Typed, ServiceTypeOK
  <2>2. CASE CancelService
    <3>1. tpc' = tpc /\ UNCHANGED <<requestVars, queue, addArg, held, life>>
      BY <2>2 DEF CancelService, CancelAll, OwnerUnchanged, addVars
    <3> QED
      BY <3>1
  <2>3. CASE StopThread
    <3>1. tpc' = tpc /\ UNCHANGED <<requestVars, queue, addArg, held, life>>
      BY <2>3 DEF StopThread, OwnerUnchanged, addVars
    <3> QED
      BY <3>1
  <2>4. CASE \E w \in Workers : AddThread(w)
    <3>1. PICK v \in Workers : AddThread(v)
      BY <2>4
    <3>2. /\ tpc[v] = "unborn" /\ tpc' = [tpc EXCEPT ![v] = "loop"]
          /\ UNCHANGED <<requestVars, queue, addArg, held, life>>
      BY <3>1 DEF AddThread, OwnerUnchanged, addVars
    <3> QED
      BY <2>1, <3>2
  <2> QED
    BY <1>5, <2>2, <2>3, <2>4
<1>7. TraversalRests /\ RequestsRest /\ PillsRest
  BY <1>2, <1>6 DEF TraversalRests, RequestsRest, PillsRest
<1>8. progressCanceled'
  <2>1. CASE CancelService
    BY <1>2, <2>1 DEF CancelService
  <2>2. CASE StopThread \/ \E w \in Workers : AddThread(w)
    <3>1. adjust # 0
      <4>1. CASE StopThread
        BY <4>1 DEF StopThread
      <4>2. CASE \E w \in Workers : AddThread(w)
        BY <4>2 DEF AddThread
      <4> QED
        BY <2>2, <4>1, <4>2
    <3> QED
      BY <1>1, <1>2, <3>1 DEF Uncanceled, VisitorTyped
  <2> QED
    BY <1>5, <2>1, <2>2
<1>9. Uncanceled'
  BY <1>8 DEF Uncanceled
<1> QED
  BY <1>1, <1>3, <1>7, <1>9, TraversalAtRest, RequestsAtRest, PillsAtRest DEF VisitorInv

-----------------------------------------------------------------------------
(* The steps of the queue and its threads                                  *)

LEMMA VisitorRests ==
    ASSUME UNCHANGED visitorVars
    PROVE  /\ UNCHANGED <<traversalVars, vpc, progressCanceled, processed, reports>>
           /\ UNCHANGED <<kind, batchSize, pending, batch, made, keysOf>>
           /\ TraversalRests
BY DEF visitorVars, traversalVars, kindVars, TraversalRests

LEMMA AdderKeeps ==
    ASSUME VisitorInv, NEW a \in Adders, AdderStep(a)
    PROVE  VisitorInv'
<1>1. /\ ServiceInv /\ Traversal /\ VisitorTyped /\ TasksKnown
      /\ Counted /\ PillLast /\ Uncanceled
  BY DEF VisitorInv
<1>2. AddStep(a) /\ UNCHANGED visitorVars
  BY DEF AdderStep
<1>3. ServiceInv'
  BY <1>1, <1>2, AddStepKeeps
<1>4. /\ UNCHANGED <<traversalVars, vpc, progressCanceled, processed, reports>>
      /\ UNCHANGED <<made, keysOf>>
      /\ TraversalRests
  BY <1>2, VisitorRests
<1>5. CASE AddLock(a) \/ AddWait(a) \/ AddWakeUp(a)
  <2>1. UNCHANGED <<requestVars, queue, addArg, tpc, held, stop, threads, adjust, life>>
    BY <1>5 DEF AddLock, AddWait, AddWakeUp, threadVars, serviceVars
  <2>2. RequestsRest /\ PillsRest /\ ThreadsRest
    BY <1>4, <2>1 DEF RequestsRest, PillsRest, ThreadsRest
  <2> QED
    BY <1>3, <1>4, <2>2, QuietStep
<1>6. CASE AddInsert(a)
  <2>1. PICK r : r = addArg[a]
    OBVIOUS
  <2>2. /\ addPc[a] = "insert"
        /\ queue' = InsertByPriority(queue, r)
        /\ addArg' = [addArg EXCEPT ![a] = None]
        /\ SignalThread(IF a \in Workers THEN [tpc EXCEPT ![a] = "exited"] ELSE tpc)
        /\ UNCHANGED <<requestVars, held, stop, threads, adjust, life>>
    BY <1>6, <2>1 DEF AddInsert, serviceVars
  <2>3. /\ tpc \in [Workers -> ThreadPcs]
        /\ addArg \in [Adders -> Requests \union {None}]
        /\ queue \in Seq(Requests)
        /\ r \in Requests
        /\ a \in Workers => tpc[a] = "pill"
    BY <1>1, <2>1, <2>2 DEF ServiceInv, Typed, ServiceTypeOK, AddersKnown
  <2>4. PICK pcs : pcs = IF a \in Workers THEN [tpc EXCEPT ![a] = "exited"] ELSE tpc
    OBVIOUS
  <2>5. /\ pcs \in [Workers -> ThreadPcs]
        /\ \A w \in Workers : \/ pcs[w] = tpc[w]
                              \/ tpc[w] = "pill" /\ pcs[w] = "exited"
    BY <2>3, <2>4 DEF ThreadPcs
  <2>6. /\ SignalThread(pcs)
        /\ \A w \in Waiting : pcs[w] = "wait"
    BY <2>2, <2>4, <2>5 DEF Waiting
  <2>7. \A w \in Workers : \/ tpc'[w] = pcs[w]
                           \/ pcs[w] = "wait" /\ tpc'[w] = "get"
    BY <2>5, <2>6, ThreadSignalled
  <2>8. \A w \in Workers : \/ tpc'[w] = tpc[w]
                           \/ tpc[w] = "pill" /\ tpc'[w] = "exited"
                           \/ tpc[w] = "wait" /\ tpc'[w] = "get"
    BY <2>5, <2>7
  <2>9. RequestsRest /\ ThreadsRest
    BY <1>4, <2>2, <2>8 DEF RequestsRest, ThreadsRest
  <2>10. \A b \in Adders : addArg'[b] = addArg[b] \/ addArg'[b] = None
    BY <2>2, <2>3
  <2>11. None \notin Pills /\ r # None
    BY <2>3, Names
  <2>12. PillLast'
    <3>1. CASE vpc \in {"produce", "pill"}
      <4>1. /\ \A b \in Adders : addArg[b] \notin Pills
            /\ \A i \in 1 .. Len(queue) : queue[i] \notin Pills
            /\ \A w \in Workers : held[w] \notin Pills
            /\ PillsBehind
        BY <1>1, <3>1 DEF PillLast
      <4>2. r \notin Pills
        BY <2>1, <4>1
      <4>3. PillsBehind' /\ \A i \in 1 .. Len(queue') : queue'[i] \notin Pills
        BY <2>2, <2>3, <4>1, <4>2, PillStaysBehind
      <4> QED
        BY <1>4, <2>2, <2>10, <2>11, <3>1, <4>1, <4>3 DEF PillLast
    <3>2. CASE vpc \in {"wait", "finished"}
      <4>1. /\ \A b \in Adders : addArg[b] \in Pills \union {None}
            /\ PillsBehind
            /\ (\E w \in Workers : held[w] \in Pills) => OnlyPillsQueued
        BY <1>1, <3>2 DEF PillLast
      <4>2. r \in Pills
        BY <2>1, <2>11, <4>1
      <4>3. PillsBehind' /\ (OnlyPillsQueued => OnlyPillsQueued')
        BY <2>2, <2>3, <4>1, <4>2, PillStaysBehind
      <4> QED
        BY <1>4, <2>2, <2>10, <3>2, <4>1, <4>3 DEF PillLast
    <3> QED
      BY <1>1, <3>1, <3>2 DEF VisitorTyped
  <2> QED
    BY <1>1, <1>3, <1>4, <2>9, <2>12, TraversalAtRest, RequestsAtRest, ThreadsAtRest
    DEF VisitorInv
<1> QED
  BY <1>2, <1>5, <1>6 DEF AddStep

LEMMA LoopAndGotKeep ==
    ASSUME VisitorInv, NEW w \in Workers, Loop(w) \/ Got(w), UNCHANGED visitorVars
    PROVE  VisitorInv'
<1>1. ServiceInv /\ tpc \in [Workers -> ThreadPcs] /\ held \in [Workers -> Requests \union {None}]
  BY DEF VisitorInv, ServiceInv, Typed, ServiceTypeOK
<1>2. ServiceInv'
  BY <1>1, LoopKeeps, GotKeeps
<1>3. /\ UNCHANGED <<traversalVars, vpc, progressCanceled, processed, reports>>
      /\ UNCHANGED <<made, keysOf>>
      /\ TraversalRests
  BY VisitorRests
<1>4. /\ UNCHANGED <<requestVars, queue, addArg, stop, threads, adjust, life>>
      /\ tpc[w] \in {"loop", "got"}
  BY DEF Loop, Got, WorkerUnchanged, addVars, serviceVars
<1>5. \E pc \in {"exited", "get", "loop", "handle"} : tpc' = [tpc EXCEPT ![w] = pc]
  BY DEF Loop, Got
<1>6. held' = [held EXCEPT ![w] = None] \/ held' = held
  BY DEF Loop, Got
<1>7. \A v \in Workers : v # w => tpc'[v] = tpc[v] /\ held'[v] = held[v]
  BY <1>1, <1>5, <1>6
<1>8. tpc'[w] \in {"exited", "get", "loop", "handle"} /\ held'[w] \in {held[w], None}
  BY <1>1, <1>5, <1>6
<1>9. RequestsRest /\ PillsRest /\ ThreadsRest
  <2>1. RequestsRest
    BY <1>3, <1>4, <1>7, <1>8 DEF RequestsRest
  <2>2. PillsRest
    BY <1>3, <1>4, <1>7, <1>8 DEF PillsRest
  <2>3. ThreadsRest
    BY <1>3, <1>4, <1>7, <1>8 DEF ThreadsRest
  <2> QED
    BY <2>1, <2>2, <2>3
<1> QED
  BY <1>2, <1>3, <1>9, QuietStep

LEMMA TakeKeeps ==
    ASSUME VisitorInv, NEW w \in Workers, Get(w), UNCHANGED visitorVars
    PROVE  VisitorInv'
<1>1. /\ ServiceInv /\ Traversal /\ VisitorTyped /\ TasksKnown
      /\ Counted /\ PillLast /\ Uncanceled
  BY DEF VisitorInv
<1>2. /\ tpc \in [Workers -> ThreadPcs] /\ held \in [Workers -> Requests \union {None}]
      /\ queue \in Seq(Requests)
  BY <1>1 DEF ServiceInv, Typed, ServiceTypeOK
<1>3. ServiceInv'
  BY <1>1, GetKeeps
<1>4. /\ UNCHANGED <<traversalVars, vpc, progressCanceled, processed, reports>>
      /\ UNCHANGED <<made, keysOf>>
      /\ TraversalRests
  BY VisitorRests
<1>5. /\ tpc[w] = "get"
      /\ UNCHANGED <<requestVars, addArg, stop, threads, adjust, life>>
  BY DEF Get, serviceVars
<1>6. \/ /\ tpc' = [tpc EXCEPT ![w] = "got"]
         /\ held' = [held EXCEPT ![w] = None]
         /\ queue' = queue
      \/ /\ tpc' = [tpc EXCEPT ![w] = "wait"]
         /\ held' = held
         /\ queue' = queue
      \/ /\ queue # <<>>
         /\ held' = [held EXCEPT ![w] = Head(queue)]
         /\ queue' = Tail(queue)
         /\ SignalThread([tpc EXCEPT ![w] = "got"])
  BY DEF Get
<1>7. ASSUME tpc'[w] \in {"got", "wait"},
             \A v \in Workers : v # w => \/ tpc'[v] = tpc[v]
                                         \/ tpc[v] = "wait" /\ tpc'[v] = "get",
             \A v \in Workers : v # w => held'[v] = held[v]
      PROVE  RequestsRest /\ ThreadsRest
  BY <1>4, <1>5, <1>7 DEF RequestsRest, ThreadsRest
<1>8. CASE held' \in {held, [held EXCEPT ![w] = None]} /\ queue' = queue
           /\ \E pc \in {"got", "wait"} : tpc' = [tpc EXCEPT ![w] = pc]
  <2>1. /\ tpc'[w] \in {"got", "wait"}
        /\ \A v \in Workers : v # w => tpc'[v] = tpc[v] /\ held'[v] = held[v]
        /\ held'[w] \in {held[w], None}
    BY <1>2, <1>8
  <2>2. RequestsRest /\ ThreadsRest
    BY <1>7, <2>1
  <2>3. PillsRest
    BY <1>4, <1>5, <1>8, <2>1 DEF PillsRest
  <2> QED
    BY <1>3, <1>4, <2>2, <2>3, QuietStep
<1>9. CASE queue # <<>> /\ held' = [held EXCEPT ![w] = Head(queue)] /\ queue' = Tail(queue)
           /\ SignalThread([tpc EXCEPT ![w] = "got"])
  <2>1. PICK pcs : pcs = [tpc EXCEPT ![w] = "got"]
    OBVIOUS
  <2>2. /\ pcs \in [Workers -> ThreadPcs]
        /\ pcs[w] = "got"
        /\ \A v \in Workers : v # w => pcs[v] = tpc[v]
    BY <1>2, <2>1 DEF ThreadPcs
  <2>3. SignalThread(pcs) /\ \A v \in Waiting : pcs[v] = "wait"
    BY <1>5, <1>9, <2>1, <2>2 DEF Waiting
  <2>4. \A v \in Workers : \/ tpc'[v] = pcs[v]
                           \/ pcs[v] = "wait" /\ tpc'[v] = "get"
    BY <2>2, <2>3, ThreadSignalled
  <2>5. /\ tpc'[w] = "got"
        /\ \A v \in Workers : v # w => \/ tpc'[v] = tpc[v]
                                       \/ tpc[v] = "wait" /\ tpc'[v] = "get"
    BY <2>2, <2>4
  <2>6. held'[w] = Head(queue) /\ \A v \in Workers : v # w => held'[v] = held[v]
    BY <1>2, <1>9
  <2>7. RequestsRest /\ ThreadsRest
    BY <1>7, <2>5, <2>6
  <2>8. PillLast'
    <3>1. PillsBehind
      BY <1>1 DEF PillLast
    <3>2. /\ PillsBehind'
          /\ OnlyPillsQueued => OnlyPillsQueued'
          /\ Head(queue) \in Pills => OnlyPillsQueued'
          /\ (\A i \in 1 .. Len(queue) : queue[i] \notin Pills) =>
                /\ Head(queue) \notin Pills
                /\ \A i \in 1 .. Len(queue') : queue'[i] \notin Pills
      BY <1>2, <1>9, <3>1, PillIsLeftBehind
    <3>3. (\E v \in Workers : held'[v] \in Pills) => OnlyPillsQueued'
      BY <1>1, <2>6, <3>2 DEF PillLast
    <3>4. vpc' = vpc /\ addArg' = addArg
      BY <1>4, <1>5
    <3>5. vpc \in {"produce", "pill"} =>
             /\ \A a \in Adders : addArg[a] \notin Pills
             /\ \A i \in 1 .. Len(queue') : queue'[i] \notin Pills
             /\ \A v \in Workers : held'[v] \notin Pills
      BY <1>1, <2>6, <3>2 DEF PillLast
    <3>6. vpc \in {"wait", "finished"} => \A a \in Adders : addArg[a] \in Pills \union {None}
      BY <1>1 DEF PillLast
    <3> QED
      BY <3>2, <3>3, <3>4, <3>5, <3>6 DEF PillLast
  <2> QED
    BY <1>1, <1>3, <1>4, <2>7, <2>8, TraversalAtRest, RequestsAtRest, ThreadsAtRest
    DEF VisitorInv
<1> QED
  BY <1>6, <1>8, <1>9

\* A thread with a pill puts it back.
LEMMA PillPassedOn ==
    ASSUME VisitorInv, NEW w \in Workers, PassPillOn(w)
    PROVE  VisitorInv'
<1>1. /\ ServiceInv /\ Traversal /\ VisitorTyped /\ TasksKnown
      /\ Counted /\ PillLast /\ Uncanceled
  BY DEF VisitorInv
<1>2. HandlePill(w) /\ UNCHANGED visitorVars
  BY DEF PassPillOn
<1>3. PICK p : p = held[w]
  OBVIOUS
<1>4. /\ tpc[w] = "handle" /\ p \in Pills
      /\ tpc' = [tpc EXCEPT ![w] = "pill"]
      /\ addArg' = [addArg EXCEPT ![w] = p]
      /\ state' = [state EXCEPT ![p] = "PENDING"]
      /\ adds' = [adds EXCEPT ![p] = @ + 1]
      /\ UNCHANGED <<canceled, runs, queue, held, stop, threads, adjust, life>>
  BY <1>2, <1>3 DEF HandlePill, AddBegin, serviceVars
<1>5. ServiceInv'
  BY <1>1, <1>2, HandlePillKeeps
<1>6. /\ UNCHANGED <<traversalVars, vpc, progressCanceled, processed, reports>>
      /\ UNCHANGED <<made, keysOf>>
      /\ TraversalRests
  BY <1>2, VisitorRests
<1>7. /\ tpc \in [Workers -> ThreadPcs] /\ addArg \in [Adders -> Requests \union {None}]
      /\ state \in [Requests -> States] /\ adds \in [Requests -> Nat]
  BY <1>1 DEF ServiceInv, Typed, ServiceTypeOK
<1>8. \A r \in Jobs : r \in Requests /\ state'[r] = state[r] /\ adds'[r] = adds[r]
  BY <1>4, <1>7, JobsAreRequests
<1>9. \A v \in Workers : \/ tpc'[v] = tpc[v]
                         \/ tpc[v] = "handle" /\ tpc'[v] = "pill"
  BY <1>4, <1>7
<1>10. MadeTasks' = MadeTasks /\ \A r \in MadeTasks : r \in Jobs
  BY <1>1, <1>6, GivenSame, MadeAreJobs
<1>11. TasksKnown'
  <2>1. life' = "live" /\ \A r \in Requests : ~canceled'[r]
    BY <1>1, <1>4 DEF TasksKnown
  <2>2. \A r \in MadeTasks' : state'[r] # "IDLE" /\ adds'[r] = 1
    BY <1>1, <1>8, <1>10 DEF TasksKnown
  <2>3. \A r \in Jobs \ MadeTasks' : state'[r] = "IDLE" /\ adds'[r] = 0
    BY <1>1, <1>8, <1>10 DEF TasksKnown
  <2>4. \A r \in Jobs : state'[r] = "COMPLETED" => runs'[r] = 1
    BY <1>1, <1>4, <1>8 DEF TasksKnown
  <2>5. \A v \in Workers : tpc'[v] = "complete" => runs'[held'[v]] = 1
    BY <1>1, <1>4, <1>9 DEF TasksKnown
  <2> QED
    BY <2>1, <2>2, <2>3, <2>4, <2>5 DEF TasksKnown
<1>12. Counted'
  <2>1. Done' = Done
    BY <1>4, <1>6, <1>10 DEF Done, RunTasks
  <2>2. \A v \in Workers : tpc[v] = "complete" => tpc'[v] = "complete"
    BY <1>9
  <2> QED
    BY <1>1, <1>6, <2>1, <2>2 DEF Counted
<1>13. PillLast'
  <2>1. vpc \in {"wait", "finished"}
    BY <1>1, <1>3, <1>4 DEF PillLast, VisitorTyped
  <2>2. \A a \in Adders : addArg'[a] = addArg[a] \/ addArg'[a] = p
    BY <1>4, <1>7
  <2>3. (PillsBehind' <=> PillsBehind) /\ (OnlyPillsQueued' <=> OnlyPillsQueued)
    BY <1>4 DEF PillsBehind, OnlyPillsQueued
  <2> QED
    BY <1>1, <1>4, <1>6, <2>1, <2>2, <2>3 DEF PillLast
<1>14. Uncanceled'
  <2>1. ThreadsRest
    BY <1>4, <1>6, <1>9 DEF ThreadsRest
  <2> QED
    BY <1>1, <2>1, ThreadsAtRest
<1> QED
  BY <1>1, <1>5, <1>6, <1>11, <1>12, <1>13, <1>14, TraversalAtRest DEF VisitorInv

\* What a thread has to handle is a task, pending and not canceled.
LEMMA TaskInHand ==
    ASSUME VisitorInv, NEW w \in Workers,
           \/ tpc[w] \in {"run", "complete"}
           \/ tpc[w] = "handle" /\ held[w] \notin Pills
    PROVE  /\ held[w] \in MadeTasks /\ held[w] \in Jobs /\ held[w] \in Requests
           /\ ~canceled[held[w]]
           /\ adds[held[w]] = 1
           /\ \A v \in Workers : v # w /\ tpc[v] \in {"run", "complete"} => held[v] # held[w]
           /\ tpc[w] = "handle" => state[held[w]] = "PENDING"
           /\ tpc[w] = "run" => state[held[w]] = "IN_PROGRESS" /\ runs[held[w]] = 0
           /\ tpc[w] = "complete" => runs[held[w]] = 1
<1>1. ServiceInv /\ TasksKnown
  BY DEF VisitorInv
<1>2. PICK r : r = held[w]
  OBVIOUS
<1>3. r \in Jobs /\ r \in Requests /\ Known(r) /\ Holds(w, r)
  BY <1>1, <1>2, HeldIsJob
<1>4. /\ tpc[w] = "handle" => state[r] = "PENDING"
      /\ tpc[w] = "run" => state[r] = "IN_PROGRESS" /\ runs[r] < adds[r]
      /\ tpc[w] = "complete" => state[r] \in {"PENDING", "IN_PROGRESS"}
  BY <1>3 DEF Known, StateKnown, RunsKnown
<1>5. state[r] # "IDLE"
  BY <1>4
<1>6. r \in MadeTasks /\ ~canceled[r] /\ adds[r] = 1
  BY <1>1, <1>3, <1>5 DEF TasksKnown
<1>7. runs[r] \in Nat
  BY <1>1, <1>3 DEF ServiceInv, Typed
<1>8. \A v \in Workers : v # w /\ tpc[v] \in {"run", "complete"} => held[v] # r
  <2> SUFFICES ASSUME NEW v \in Workers, tpc[v] \in {"run", "complete"}, held[v] = r
               PROVE  v = w
    OBVIOUS
  <2>1. Holds(v, r)
    BY DEF Holds, TakenBy
  <2> QED
    BY <1>3, <2>1 DEF Known, OnePlace
<1>9. tpc[w] = "complete" => runs[r] = 1
  BY <1>1, <1>2 DEF TasksKnown
<1> QED
  BY <1>2, <1>3, <1>4, <1>6, <1>7, <1>8, <1>9

LEMMA HandleKeeps ==
    ASSUME VisitorInv, NEW w \in Workers, HandleRequest(w), UNCHANGED visitorVars
    PROVE  VisitorInv'
<1>1. /\ ServiceInv /\ Traversal /\ VisitorTyped /\ TasksKnown
      /\ Counted /\ PillLast /\ Uncanceled
  BY DEF VisitorInv
<1>2. PICK r : r = held[w]
  OBVIOUS
<1>3. /\ tpc[w] = "handle" /\ r \notin Pills
      /\ UNCHANGED <<adds, runs, queue, addArg, held, stop, threads, adjust, life>>
  BY <1>2 DEF HandleRequest, WorkerUnchanged, addVars, serviceVars
<1>4. r \in MadeTasks /\ r \in Jobs /\ r \in Requests /\ ~canceled[r] /\ state[r] = "PENDING"
  BY <1>2, <1>3, TaskInHand
<1>5. /\ state' = [state EXCEPT ![r] = "IN_PROGRESS"]
      /\ tpc' = [tpc EXCEPT ![w] = "run"]
      /\ canceled' = canceled
  BY <1>2, <1>4 DEF HandleRequest
<1>6. ServiceInv'
  BY <1>1, HandleRequestKeeps
<1>7. /\ UNCHANGED <<traversalVars, vpc, progressCanceled, processed, reports>>
      /\ UNCHANGED <<made, keysOf>>
      /\ TraversalRests
  BY VisitorRests
<1>8. /\ tpc \in [Workers -> ThreadPcs] /\ state \in [Requests -> States]
  BY <1>1 DEF ServiceInv, Typed, ServiceTypeOK
<1>9. /\ tpc'[w] = "run" /\ \A v \in Workers : v # w => tpc'[v] = tpc[v]
      /\ state'[r] = "IN_PROGRESS" /\ \A x \in Requests : x # r => state'[x] = state[x]
  BY <1>4, <1>5, <1>8
<1>10. MadeTasks' = MadeTasks
  BY <1>7, GivenSame
<1>11. TasksKnown'
  <2>1. life' = "live" /\ \A x \in Requests : ~canceled'[x]
    BY <1>1, <1>3, <1>5 DEF TasksKnown
  <2>2. \A x \in MadeTasks' : state'[x] # "IDLE" /\ adds'[x] = 1
    BY <1>1, <1>3, <1>9, <1>10, MadeAreJobs, JobsAreRequests DEF TasksKnown
  <2>3. \A x \in Jobs \ MadeTasks' : state'[x] = "IDLE" /\ adds'[x] = 0
    BY <1>1, <1>3, <1>4, <1>9, <1>10, JobsAreRequests DEF TasksKnown
  <2>4. \A x \in Jobs : state'[x] = "COMPLETED" => runs'[x] = 1
    BY <1>1, <1>3, <1>9, JobsAreRequests DEF TasksKnown
  <2>5. \A v \in Workers : tpc'[v] = "complete" => runs'[held'[v]] = 1
    BY <1>1, <1>3, <1>9 DEF TasksKnown
  <2> QED
    BY <2>1, <2>2, <2>3, <2>4, <2>5 DEF TasksKnown
<1>12. Counted'
  <2>1. Done' = Done
    BY <1>3, <1>7, <1>10 DEF Done, RunTasks
  <2>2. \A v \in Workers : tpc[v] = "complete" => tpc'[v] = "complete"
    BY <1>3, <1>9
  <2> QED
    BY <1>1, <1>7, <2>1, <2>2 DEF Counted
<1>13. PillLast'
  <2>1. PillsRest
    BY <1>3, <1>7 DEF PillsRest
  <2> QED
    BY <1>1, <2>1, PillsAtRest
<1>14. Uncanceled'
  <2>1. ThreadsRest
    BY <1>3, <1>7, <1>9 DEF ThreadsRest
  <2> QED
    BY <1>1, <2>1, ThreadsAtRest
<1> QED
  BY <1>1, <1>6, <1>7, <1>11, <1>12, <1>13, <1>14, TraversalAtRest DEF VisitorInv

\* A task that runs has keys that were not counted yet, each of them once.
LEMMA RunTileKeeps ==
    ASSUME VisitorInv, NEW w \in Workers, RunTile(w)
    PROVE  VisitorInv'
<1>1. /\ ServiceInv /\ Traversal /\ VisitorTyped /\ TasksKnown
      /\ Counted /\ PillLast /\ Uncanceled
  BY DEF VisitorInv
<1>2. PICK r : r = held[w]
  OBVIOUS
<1>3. /\ Run(w)
      /\ processed' = processed + Len(keysOf[r])
      /\ UNCHANGED <<traversalVars, vpc, progressCanceled, reports>>
      /\ UNCHANGED <<made, keysOf>>
  BY <1>2 DEF RunTile, traversalVars
<1>4. /\ tpc[w] = "run"
      /\ tpc' = [tpc EXCEPT ![w] = "complete"]
      /\ UNCHANGED <<state, adds, held, queue, addArg, stop, threads, adjust, life>>
  BY <1>3 DEF Run, WorkerUnchanged, addVars, serviceVars
<1>5. /\ r \in MadeTasks /\ r \in Jobs /\ r \in Requests
      /\ state[r] = "IN_PROGRESS" /\ runs[r] = 0
      /\ \A v \in Workers : v # w /\ tpc[v] \in {"run", "complete"} => held[v] # r
  BY <1>2, <1>4, TaskInHand
<1>6. runs' = [runs EXCEPT ![r] = @ + 1] /\ canceled' = canceled
  BY <1>2, <1>3, <1>5 DEF Run
<1>7. ServiceInv'
  BY <1>1, <1>3, RunKeeps
<1>8. /\ tpc \in [Workers -> ThreadPcs] /\ runs \in [Requests -> Nat]
      /\ held \in [Workers -> Requests \union {None}]
  BY <1>1 DEF ServiceInv, Typed, ServiceTypeOK
<1>9. /\ tpc'[w] = "complete" /\ \A v \in Workers : v # w => tpc'[v] = tpc[v]
      /\ runs'[r] = 1 /\ \A x \in Requests : x # r => runs'[x] = runs[x]
  BY <1>4, <1>5, <1>6, <1>8
<1>10. MadeTasks' = MadeTasks /\ \A x \in MadeTasks : x \in Jobs /\ x \in Requests
  BY <1>1, <1>3, GivenSame, MadeAreJobs, JobsAreRequests
<1>11. TasksKnown'
  <2>1. life' = "live" /\ \A x \in Requests : ~canceled'[x]
    BY <1>1, <1>4, <1>6 DEF TasksKnown
  <2>2. \A x \in MadeTasks' : state'[x] # "IDLE" /\ adds'[x] = 1
    BY <1>1, <1>4, <1>10 DEF TasksKnown
  <2>3. \A x \in Jobs \ MadeTasks' : state'[x] = "IDLE" /\ adds'[x] = 0
    BY <1>1, <1>4, <1>10 DEF TasksKnown
  <2>4. \A x \in Jobs : state'[x] = "COMPLETED" => runs'[x] = 1
    BY <1>1, <1>4, <1>9, JobsAreRequests DEF TasksKnown
  <2>5. ASSUME NEW v \in Workers, tpc'[v] = "complete"
        PROVE  runs'[held'[v]] = 1
    <3>1. CASE v = w
      BY <1>2, <1>4, <1>9, <3>1
    <3>2. CASE v # w
      <4>1. tpc[v] = "complete"
        BY <1>9, <2>5, <3>2
      <4>2. held[v] # r
        BY <1>5, <3>2, <4>1
      <4>3. held[v] \in Requests
        BY <4>1, TaskInHand
      <4>4. runs[held[v]] = 1
        BY <1>1, <4>1 DEF TasksKnown
      <4> QED
        BY <1>4, <1>9, <4>2, <4>3, <4>4
    <3> QED
      BY <3>1, <3>2
  <2> QED
    BY <2>1, <2>2, <2>3, <2>4, <2>5 DEF TasksKnown
<1>12. PICK ks : ks = keysOf[r]
  OBVIOUS
<1>13. ks \in Seq(Seq(Nat))
  BY <1>1, <1>5, <1>12 DEF VisitorTyped
<1>14. IsFiniteSet(ToSet(ks)) /\ Cardinality(ToSet(ks)) = Len(ks)
  <2>1. IsInjective(ks)
    BY <1>1, <1>5, <1>12 DEF Traversal, GivenOnce, IsInjective
  <2> QED
    BY <1>13, <2>1, ListSet
<1>15. RunTasks' = RunTasks \union {r} /\ r \notin RunTasks
  BY <1>5, <1>9, <1>10 DEF RunTasks
<1>16. Done' = Done \union ToSet(ks)
  <2>1. keysOf' = keysOf
    BY <1>3
  <2> QED
    BY <1>12, <1>15, <2>1 DEF Done
<1>17. Done \intersect ToSet(ks) = {}
  <2> SUFFICES ASSUME NEW x \in RunTasks, NEW m \in DOMAIN keysOf[x], NEW n \in DOMAIN keysOf[r],
                      keysOf[x][m] = keysOf[r][n]
               PROVE  FALSE
    BY <1>12 DEF Done, ToSet
  <2>1. x \in MadeTasks /\ x # r
    BY <1>15 DEF RunTasks
  <2>2. x = r
    BY <1>1, <1>5, <2>1 DEF Traversal, GivenOnce
  <2> QED
    BY <2>1, <2>2
<1>18. IsFiniteSet(Done)
  <2>1. Done \subseteq Given
    BY DEF Done, RunTasks, Given
  <2>2. IsFiniteSet(Given)
    BY <1>1 DEF Traversal
  <2> QED
    BY <2>1, <2>2, FS_Subset
<1>19. Cardinality(Done') = Cardinality(Done) + Len(ks)
  <2>1. Cardinality(Done \union ToSet(ks))
          = Cardinality(Done) + Cardinality(ToSet(ks)) - Cardinality(Done \intersect ToSet(ks))
    BY <1>14, <1>18, FS_Union
  <2>2. Cardinality(Done \intersect ToSet(ks)) = 0
    BY <1>17, FS_EmptySet
  <2>3. Cardinality(Done) \in Nat /\ Len(ks) \in Nat
    BY <1>13, <1>18, FS_CardinalityType
  <2> QED
    BY <1>14, <1>16, <2>1, <2>2, <2>3
<1>20. Counted'
  <2>1. processed' = Cardinality(Done')
    BY <1>1, <1>3, <1>12, <1>19 DEF Counted
  <2>2. processed \in Nat /\ Len(ks) \in Nat
    BY <1>1, <1>13, <1>18, FS_CardinalityType DEF Counted
  <2>3. reports \subseteq 0 .. processed /\ reports' = reports
    BY <1>1, <1>3 DEF Counted
  <2>4. reports' \subseteq 0 .. processed'
    BY <1>3, <1>12, <2>2, <2>3
  <2> QED
    BY <1>9, <2>1, <2>4 DEF Counted
<1>21. PillLast'
  <2>1. PillsRest
    BY <1>3, <1>4 DEF PillsRest
  <2> QED
    BY <1>1, <2>1, PillsAtRest
<1>22. Uncanceled'
  <2>1. ThreadsRest
    BY <1>3, <1>4, <1>9 DEF ThreadsRest
  <2> QED
    BY <1>1, <2>1, ThreadsAtRest
<1>23. Traversal' /\ VisitorTyped'
  <2>1. TraversalRests
    BY <1>3 DEF TraversalRests
  <2> QED
    BY <1>1, <2>1, TraversalAtRest
<1> QED
  BY <1>7, <1>11, <1>20, <1>21, <1>22, <1>23 DEF VisitorInv

LEMMA ReportTileKeeps ==
    ASSUME VisitorInv, NEW w \in Workers, ReportTile(w)
    PROVE  VisitorInv'
<1>1. /\ ServiceInv /\ Traversal /\ VisitorTyped /\ TasksKnown
      /\ Counted /\ PillLast /\ Uncanceled
  BY DEF VisitorInv
<1>2. PICK r : r = held[w]
  OBVIOUS
<1>3. /\ Complete(w)
      /\ reports' = reports \union {processed}
      /\ progressCanceled' \in {progressCanceled, TRUE}
      /\ UNCHANGED <<traversalVars, vpc, processed>>
      /\ UNCHANGED <<made, keysOf>>
  BY DEF ReportTile, traversalVars
<1>4. /\ tpc[w] = "complete"
      /\ state' = [state EXCEPT ![r] = "COMPLETED"]
      /\ tpc' = [tpc EXCEPT ![w] = "loop"]
      /\ UNCHANGED <<canceled, adds, runs, held, queue, addArg, stop, threads, adjust, life>>
  BY <1>2, <1>3 DEF Complete, WorkerUnchanged, addVars, serviceVars
<1>5. r \in MadeTasks /\ r \in Jobs /\ r \in Requests /\ runs[r] = 1
  BY <1>2, <1>4, TaskInHand
<1>6. ServiceInv'
  BY <1>1, <1>3, CompleteKeeps
<1>7. /\ tpc \in [Workers -> ThreadPcs] /\ state \in [Requests -> States]
  BY <1>1 DEF ServiceInv, Typed, ServiceTypeOK
<1>8. /\ tpc'[w] = "loop" /\ \A v \in Workers : v # w => tpc'[v] = tpc[v]
      /\ state'[r] = "COMPLETED" /\ \A x \in Requests : x # r => state'[x] = state[x]
  BY <1>4, <1>5, <1>7
<1>9. MadeTasks' = MadeTasks /\ \A x \in MadeTasks : x \in Jobs /\ x \in Requests
  BY <1>1, <1>3, GivenSame, MadeAreJobs, JobsAreRequests
<1>10. TasksKnown'
  <2>1. life' = "live" /\ \A x \in Requests : ~canceled'[x]
    BY <1>1, <1>4 DEF TasksKnown
  <2>2. \A x \in MadeTasks' : state'[x] # "IDLE" /\ adds'[x] = 1
    BY <1>1, <1>4, <1>8, <1>9 DEF TasksKnown
  <2>3. \A x \in Jobs \ MadeTasks' : state'[x] = "IDLE" /\ adds'[x] = 0
    BY <1>1, <1>4, <1>5, <1>8, <1>9, JobsAreRequests DEF TasksKnown
  <2>4. \A x \in Jobs : state'[x] = "COMPLETED" => runs'[x] = 1
    BY <1>1, <1>4, <1>5, <1>8, JobsAreRequests DEF TasksKnown
  <2>5. \A v \in Workers : tpc'[v] = "complete" => runs'[held'[v]] = 1
    BY <1>1, <1>4, <1>8 DEF TasksKnown
  <2> QED
    BY <2>1, <2>2, <2>3, <2>4, <2>5 DEF TasksKnown
<1>11. Counted'
  <2>1. Done' = Done
    BY <1>3, <1>4, <1>9 DEF Done, RunTasks
  <2>2. processed \in Nat
    <3>1. Done \subseteq Given
      BY DEF Done, RunTasks, Given
    <3>2. IsFiniteSet(Given)
      BY <1>1 DEF Traversal
    <3> QED
      BY <1>1, <3>1, <3>2, FS_Subset, FS_CardinalityType DEF Counted
  <2>3. processed' = processed /\ processed = Cardinality(Done) /\ reports \subseteq 0 .. processed
    BY <1>1, <1>3 DEF Counted
  <2>4. reports' \subseteq 0 .. processed' /\ processed' \in reports'
    <3>1. reports' = reports \union {processed}
      BY <1>3
    <3>2. processed \in 0 .. processed
      BY <2>2
    <3> QED
      BY <2>3, <3>1, <3>2
  <2> QED
    BY <2>1, <2>3, <2>4 DEF Counted
<1>12. PillLast'
  <2>1. PillsRest
    BY <1>3, <1>4 DEF PillsRest
  <2> QED
    BY <1>1, <2>1, PillsAtRest
<1>13. Uncanceled'
  <2>1. ThreadsRest
    BY <1>3, <1>4, <1>8 DEF ThreadsRest
  <2> QED
    BY <1>1, <2>1, ThreadsAtRest
<1>14. Traversal' /\ VisitorTyped'
  <2>1. TraversalRests
    BY <1>3 DEF TraversalRests
  <2> QED
    BY <1>1, <2>1, TraversalAtRest
<1> QED
  BY <1>6, <1>10, <1>11, <1>12, <1>13, <1>14 DEF VisitorInv

-----------------------------------------------------------------------------
(* The invariant, and what it says of a run                                *)

LEMMA VisitorStarts == Init => VisitorInv
<1> SUFFICES ASSUME Init PROVE VisitorInv
  OBVIOUS
<1>1. /\ ServiceInit
      /\ kind \in Visitors
      /\ batchSize \in IF kind = "multiprocess" THEN BatchSizes ELSE {1}
      /\ vpc = "produce" /\ pending = RootKeys /\ batch = <<>> /\ made = 0
      /\ keysOf = [r \in Requests |-> <<>>]
      /\ progressCanceled = FALSE /\ processed = 0 /\ reports = {}
  BY DEF Init
<1>2. ServiceInv
  BY <1>1, ServiceStarts
<1>3. MadeTasks = {} /\ Given = {} /\ Done = {}
  BY <1>1 DEF MadeTasks, Given, Done, RunTasks
<1>4. Traversal
  <2>1. Apart(pending) /\ Ahead = Wanted
    BY <1>1, RootsLeadToAll DEF Ahead
  <2>2. IsInjective(batch) /\ ToSet(batch) = {}
    BY <1>1, NoKeys
  <2>3. GivenOnce
    BY <1>3 DEF GivenOnce
  <2>4. IsFiniteSet(Given)
    BY <1>3, FS_EmptySet
  <2> QED
    BY <1>3, <2>1, <2>2, <2>3, <2>4 DEF Traversal
<1>5. VisitorTyped
  <2>1. /\ batchSize \in BatchSizes \union {1}
        /\ kind = "multithreaded" => batchSize = 1
    BY <1>1
  <2>2. batch \in Seq(Seq(Nat)) /\ Len(batch) < batchSize
    BY <1>1, <2>1, NoKeys, VisitorAssumptions
  <2>3. made \in 0 .. Len(TaskOrder)
    BY <1>1, TasksAre
  <2>4. keysOf \in [Requests -> Seq(Seq(Nat))]
    BY <1>1
  <2> QED
    BY <1>1, <2>1, <2>2, <2>3, <2>4 DEF VisitorTyped
<1>6. TasksKnown
  <2>1. /\ life = "live"
        /\ \A r \in Requests : ~canceled[r] /\ state[r] = "IDLE" /\ adds[r] = 0
        /\ \A w \in Workers : tpc[w] # "complete"
    BY <1>1 DEF ServiceInit
  <2> QED
    BY <1>3, <2>1, JobsAreRequests DEF TasksKnown
<1>7. Counted
  BY <1>1, <1>3, FS_EmptySet DEF Counted
<1>8. PillLast
  <2>1. /\ \A a \in Adders : addArg[a] = None
        /\ \A w \in Workers : held[w] = None
        /\ queue = <<>> /\ Len(queue) = 0
    BY <1>1 DEF ServiceInit
  <2>2. None \notin Pills
    BY Names
  <2> QED
    BY <1>1, <2>1, <2>2 DEF PillLast, PillsBehind, OnlyPillsQueued
<1>9. Uncanceled
  <2>1. FirstThreads \in Nat /\ MaxThreads \in Nat /\ FirstThreads <= MaxThreads
    BY TaskAssumptions
  <2>2. /\ adjust = 0 /\ threads = 1 .. FirstThreads
        /\ \A w \in Workers : ~stop[w]
        /\ \A w \in Workers : tpc[w] = IF w <= FirstThreads THEN "loop" ELSE "unborn"
    BY <1>1 DEF ServiceInit
  <2>3. \A w \in Workers : w \notin threads => tpc[w] = "unborn"
    BY <2>1, <2>2 DEF Workers
  <2> QED
    BY <1>1, <2>2, <2>3 DEF Uncanceled
<1> QED
  BY <1>2, <1>4, <1>5, <1>6, <1>7, <1>8, <1>9 DEF VisitorInv

LEMMA VisitorSteps == VisitorInv /\ [Next]_vars => VisitorInv'
<1> SUFFICES ASSUME VisitorInv, [Next]_vars PROVE VisitorInv'
  OBVIOUS
<1>1. CASE RunStep
  BY <1>1, ProductionKeeps, AddPillKeeps, StopWaitingKeeps, CancelServiceKeeps DEF RunStep
<1>2. CASE Cancel
  BY <1>2, CancelKeeps
<1>3. CASE \E a \in Adders : AdderStep(a)
  BY <1>3, AdderKeeps
<1>4. ASSUME NEW w \in Workers, TaskThreadStep(w) PROVE VisitorInv'
  BY <1>4, RunTileKeeps, ReportTileKeeps, PillPassedOn, LoopAndGotKeep, TakeKeeps, HandleKeeps
  DEF TaskThreadStep
<1>5. CASE UNCHANGED vars
  <2>1. UNCHANGED taskVars /\ UNCHANGED visitorVars
    BY <1>5 DEF vars
  <2>2. /\ UNCHANGED <<made, keysOf, processed, reports>>
        /\ progressCanceled' \in {progressCanceled, TRUE} /\ vpc' = vpc
        /\ TraversalRests
    BY <2>1, VisitorRests
  <2> QED
    BY <2>1, <2>2, ServiceAtRest, TraversalAtRest DEF VisitorInv
<1> QED
  BY <1>1, <1>2, <1>3, <1>4, <1>5 DEF Next

\* The tree, the tasks, the queue and the threads agree throughout a run.
THEOREM VisitorInvHolds == Spec => []VisitorInv
  BY VisitorStarts, VisitorSteps, PTL DEF Spec

LEMMA DoneIsGiven ==
    ASSUME VisitorInv
    PROVE  /\ IsFiniteSet(Given) /\ Done \subseteq Given
           /\ processed = Cardinality(Done)
           /\ processed \in 0 .. Cardinality(Given)
           /\ reports \subseteq 0 .. processed
<1>1. IsFiniteSet(Given) /\ Done \subseteq Given
  BY DEF VisitorInv, Traversal, Done, RunTasks, Given
<1>2. processed = Cardinality(Done) /\ reports \subseteq 0 .. processed
  BY DEF VisitorInv, Counted
<1>3. IsFiniteSet(Done) /\ Cardinality(Done) <= Cardinality(Given)
  BY <1>1, FS_Subset
<1>4. Cardinality(Done) \in Nat /\ Cardinality(Given) \in Nat
  BY <1>1, <1>3, FS_CardinalityType
<1> QED
  BY <1>1, <1>2, <1>3, <1>4

\* Every variable of a run keeps its type; no more is counted than was given,
\* and no more reported than counted.
THEOREM TypeOKHolds == Spec => []TypeOK
<1>1. VisitorInv => TypeOK
  <2> SUFFICES ASSUME VisitorInv PROVE TypeOK
    OBVIOUS
  <2>1. ServiceTypeOK
    BY DEF VisitorInv, ServiceInv, Typed
  <2> QED
    BY <2>1, DoneIsGiven DEF VisitorInv, VisitorTyped, TypeOK
<1> QED
  BY <1>1, VisitorInvHolds, PTL

\* No thread gets the pill before every task has been taken: whatever the
\* profile, the data, the batches and the number of threads.
THEOREM PillComesLastHolds == Spec => []PillComesLast
<1>1. VisitorInv => PillComesLast
  <2> SUFFICES ASSUME VisitorInv, NEW w \in Workers, held[w] = Pill, NEW r \in MadeTasks
               PROVE  ~InQueue(r) /\ ~InAdd(r)
    BY DEF PillComesLast
  <2>1. PillLast /\ VisitorTyped
    BY DEF VisitorInv
  <2>2. held[w] \in Pills /\ r \notin Pills /\ r # None
    BY <2>1, VisitorIsClient, MadeAreJobs, JobsAreRequests, Names
  <2>3. vpc \in {"wait", "finished"}
    BY <2>1, <2>2 DEF PillLast, VisitorTyped
  <2>4. \A a \in Adders : addArg[a] # r
    BY <2>1, <2>2, <2>3 DEF PillLast
  <2>5. \A i \in 1 .. Len(queue) : queue[i] # r
    BY <2>1, <2>2 DEF PillLast, OnlyPillsQueued
  <2> QED
    BY <2>4, <2>5 DEF InQueue, InAdd
<1> QED
  BY <1>1, VisitorInvHolds, PTL

\* When run() is through and nobody canceled, every task was run.
LEMMA NothingLeft ==
    ASSUME VisitorInv, vpc = "finished", ~progressCanceled, NEW r \in MadeTasks
    PROVE  runs[r] = 1 /\ state[r] = "COMPLETED"
<1>1. ServiceInv /\ VisitorTyped /\ TasksKnown /\ PillLast /\ Uncanceled
  BY DEF VisitorInv
<1>2. r \in Jobs /\ r \in Requests /\ r \notin Pills /\ r # None
  BY <1>1, MadeAreJobs, JobsAreRequests, Names
<1>3. /\ threads = 1 .. FirstThreads
      /\ \A w \in Workers : ~stop[w]
      /\ \A w \in Workers : ~Running(w)
  BY <1>1 DEF Uncanceled
<1>4. 1 \in Workers /\ 1 \in threads
  <2>1. FirstThreads \in 1 .. MaxThreads /\ MaxThreads \in Nat
    BY TaskAssumptions
  <2> QED
    BY <1>3, <2>1 DEF Workers
<1>5. tpc[1] = "exited" /\ ~stop[1]
  BY <1>1, <1>3, <1>4 DEF Running, ServiceInv, ThreadsKnown
<1>6. held[1] \in Pills
  BY <1>1, <1>4, <1>5 DEF ServiceInv, ThreadsKnown
<1>7. ~InQueue(r)
  BY <1>1, <1>2, <1>4, <1>6 DEF PillLast, OnlyPillsQueued, InQueue
<1>8. \A a \in Adders : addArg[a] # r
  BY <1>1, <1>2 DEF PillLast
<1>9. \A w \in Workers : ~Holds(w, r)
  BY <1>3 DEF Holds, TakenBy, DroppedBy, Running
<1>10. state[r] \notin {"PENDING", "IN_PROGRESS"}
  BY <1>1, <1>2, <1>7, <1>8, <1>9 DEF ServiceInv, Known, StateKnown
<1>11. state[r] \in States /\ state[r] # "IDLE"
  BY <1>1, <1>2 DEF ServiceInv, Typed, ServiceTypeOK, TasksKnown
<1>12. state[r] = "COMPLETED"
  BY <1>10, <1>11 DEF States
<1> QED
  BY <1>1, <1>2, <1>12 DEF TasksKnown

\* A run that returns uncanceled has handled and counted each tile it was to
\* visit, once: none is lost with a batch, a task or a thread that goes down.
THEOREM FinishedMeansHandledHolds == Spec => []FinishedMeansHandled
<1>1. VisitorInv => FinishedMeansHandled
  <2> SUFFICES ASSUME VisitorInv, vpc = "finished", ~progressCanceled
               PROVE  /\ GivenOnce /\ Given = Wanted
                      /\ \A r \in MadeTasks : runs[r] = 1 /\ state[r] = "COMPLETED"
                      /\ processed = Cardinality(Wanted)
                      /\ Wanted # {} => Cardinality(Wanted) \in reports
    BY DEF FinishedMeansHandled
  <2>1. Traversal /\ VisitorTyped /\ Counted /\ Uncanceled
    BY DEF VisitorInv
  <2>2. batch = <<>> /\ pending = <<>>
    BY <2>1 DEF VisitorTyped, TraversalOver
  <2>3. ToSet(batch) = {} /\ Ahead = {}
    <3>1. AheadOf(<<>>) = {}
      BY NoKeys DEF AheadOf
    <3> QED
      BY <2>2, <3>1, NoKeys DEF Ahead
  <2>4. GivenOnce /\ Given = Wanted
    BY <2>1, <2>3 DEF Traversal
  <2>5. \A r \in MadeTasks : runs[r] = 1 /\ state[r] = "COMPLETED"
    BY NothingLeft
  <2>6. RunTasks = MadeTasks
    BY <2>5 DEF RunTasks
  <2>7. Done = Given
    BY <2>6 DEF Done, Given
  <2>8. processed = Cardinality(Wanted)
    BY <2>1, <2>4, <2>7 DEF Counted
  <2>9. ASSUME Wanted # {} PROVE Cardinality(Wanted) \in reports
    <3>1. Cardinality(Wanted) # 0
      BY <2>4, <2>9, DoneIsGiven, FS_EmptySet
    <3>2. \A w \in Workers : tpc[w] # "complete"
      BY <2>1 DEF Uncanceled, Running
    <3> QED
      BY <2>1, <2>8, <3>1, <3>2 DEF Counted
  <2> QED
    BY <2>4, <2>5, <2>8, <2>9
<1> QED
  BY <1>1, VisitorInvHolds, PTL
=============================================================================

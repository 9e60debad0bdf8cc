--------------------- MODULE EntityReconciliationProofs ---------------------
(***************************************************************************)
(* Proofs about EntityReconciliation, for every index, constraint, limit   *)
(* and answer of the provider.                                             *)
(*                                                                         *)
(* Planning and finalization are algorithms over data, so most of this is  *)
(* about the operators: a fold of the community modules is a function      *)
(* chosen because it satisfies its own equation, shown to exist here, and  *)
(* followed along the sequence; a canonical order is a bijection, because  *)
(* ranks in a finite total order are; entities partition the candidates,   *)
(* because doubt spreads over whole components; and numbers follow the     *)
(* text, because they count nested sets.                                   *)
(*                                                                         *)
(* Induction is over a set: what is to hold of every number is collected   *)
(* in a set that has 0 and the successor of each of its elements.          *)
(***************************************************************************)
EXTENDS EntityReconciliation, FiniteSetTheorems, WellFoundedInduction, TLAPS

-----------------------------------------------------------------------------
(* Numbers, induction and folds.                                           *)

\* A set of numbers has a least one.
LEMMA LeastExists ==
    ASSUME NEW T, T \subseteq Nat, T # {}
    PROVE  \E x \in T : \A y \in T : x \leq y
PROOF
<1> DEFINE R == OpToRel(<, Nat)
<1>1. IsWellFoundedOn(R, Nat)
    BY NatLessThanWellFounded
<1>2. PICK x \in T : \A y \in T : ~(<<y, x>> \in R)
  <2> HIDE DEF R
  <2> QED
    BY <1>1, WFMin
<1>3. \A y \in T : y < x => <<y, x>> \in R
    BY DEF OpToRel
<1> HIDE DEF R
<1>4. \A y \in T : ~(y < x)
    BY <1>2, <1>3
<1> QED
    BY <1>4

\* What holds of 0, and of a number's successor if of the number, holds of all.
LEMMA SetInduction ==
    ASSUME NEW S, 0 \in S, \A n \in Nat : n \in S => n + 1 \in S
    PROVE  Nat \subseteq S
PROOF
<1> SUFFICES ASSUME Nat \ S # {} PROVE FALSE
    OBVIOUS
<1>1. PICK x \in Nat \ S : \A y \in Nat \ S : x \leq y
    BY LeastExists
<1>2. x - 1 \in Nat /\ x - 1 + 1 = x
    BY <1>1
<1> QED
    BY <1>1, <1>2

\* A bounded set of numbers has a greatest one, which is its Max.
LEMMA MaxProperties ==
    ASSUME NEW n \in Nat, NEW T, T \subseteq 1..n, T # {}
    PROVE  Max(T) \in T /\ \A y \in T : y \leq Max(T)
PROOF
<1> DEFINE U == {k \in Nat : k \leq n /\ n - k \in T}
<1>1. PICK k \in U : \A m \in U : k \leq m
  <2>1. PICK t \in T : t \in 1..n
    OBVIOUS
  <2>2. n - t \in U
    BY <2>1
  <2>3. U \subseteq Nat
    OBVIOUS
  <2> HIDE DEF U
  <2> QED
    BY <2>2, <2>3, LeastExists
<1>2. ASSUME NEW y \in T PROVE y \leq n - k
  <2>1. n - y \in Nat /\ n - y \leq n /\ n - (n - y) = y
    OBVIOUS
  <2>2. n - y \in U /\ y \in Nat /\ k \in Nat
    BY <1>1, <2>1
  <2>3. k \leq n - y
    BY <1>1, <2>2
  <2> HIDE DEF U
  <2> QED
    BY <2>2, <2>3
<1>3. \E x \in T : \A y \in T : x >= y
    BY <1>1, <1>2
<1> QED
    BY <1>3 DEF Max

\* The max of an interval.
LEMMA MaxOfInterval ==
    ASSUME NEW n \in Nat, NEW T, T \subseteq 1..(n + 1), n + 1 \in T
    PROVE  Max(T) = n + 1
PROOF
<1> DEFINE m == n + 1
<1>1. m \in Nat /\ T \subseteq 1..m /\ m \in T /\ T # {}
    OBVIOUS
<1> HIDE DEF m
<1>2. Max(T) \in T /\ m \leq Max(T)
    BY <1>1, MaxProperties
<1>3. Max(T) \in 1..m
    BY <1>1, <1>2
<1>4. \A x \in 1..m : m \leq x => x = m
    BY <1>1
<1> QED
    BY <1>2, <1>3, <1>4 DEF m

\* The functions that fold the sequence s with G, for each set of its indexes.
FoldsOf(V, G, base, s) ==
    {g \in [SUBSET (1..Len(s)) -> V] : \A t \in SUBSET (1..Len(s)) :
         g[t] = IF t = {} THEN base ELSE G[<<g[t \ {Max(t)}], s[Max(t)]>>]}

\* A fold over a sequence, as the community modules define it, exists.
LEMMA FoldExists ==
    ASSUME NEW V, NEW T, NEW G \in [V \X T -> V], NEW base \in V, NEW s \in Seq(T)
    PROVE  FoldsOf(V, G, base, s) # {}
PROOF
<1> DEFINE Folds(n) == {g \in [SUBSET (1..n) -> V] : \A t \in SUBSET (1..n) :
               g[t] = IF t = {} THEN base ELSE G[<<g[t \ {Max(t)}], s[Max(t)]>>]}
           E == {n \in Nat : n \leq Len(s) => Folds(n) # {}}
<1>0. Len(s) \in Nat /\ \A k \in 1..Len(s) : s[k] \in T
    OBVIOUS
<1>1. 0 \in E
  <2> DEFINE g == [t \in SUBSET (1..0) |-> base]
  <2>1. \A t \in SUBSET (1..0) : t = {}
    OBVIOUS
  <2>2. g \in Folds(0)
    BY <2>1
  <2> HIDE DEF Folds, g
  <2> QED
    BY <2>2
<1>2. ASSUME NEW n \in Nat, n \in E PROVE n + 1 \in E
  <2>1. CASE ~(n + 1 \leq Len(s))
    <3> HIDE DEF Folds
    <3> QED
      BY <2>1
  <2>2. CASE n + 1 \leq Len(s)
    <3>1. n \leq Len(s) /\ n + 1 \in 1..Len(s)
      BY <1>0, <2>2
    <3>2. PICK g : g \in Folds(n)
      <4> HIDE DEF Folds
      <4> QED
        BY <3>1, <1>2
    <3> DEFINE h == [t \in SUBSET (1..(n + 1)) |->
                        IF n + 1 \in t THEN G[<<g[t \ {n + 1}], s[n + 1]>>] ELSE g[t]]
    <3>3. \A t \in SUBSET (1..(n + 1)) : t \ {n + 1} \in SUBSET (1..n)
      OBVIOUS
    <3>4. \A t \in SUBSET (1..(n + 1)) : n + 1 \notin t => t \in SUBSET (1..n)
      OBVIOUS
    <3>5. s[n + 1] \in T
      BY <1>0, <3>1
    <3>6. h \in [SUBSET (1..(n + 1)) -> V]
      BY <3>2, <3>3, <3>4, <3>5
    <3>7. ASSUME NEW t \in SUBSET (1..(n + 1))
          PROVE  h[t] = IF t = {} THEN base ELSE G[<<h[t \ {Max(t)}], s[Max(t)]>>]
      <4>1. CASE n + 1 \in t
        <5>1. Max(t) = n + 1
          BY <4>1, MaxOfInterval
        <5>2. t \ {n + 1} \in SUBSET (1..(n + 1)) /\ n + 1 \notin t \ {n + 1}
          OBVIOUS
        <5>3. h[t \ {n + 1}] = g[t \ {n + 1}]
          BY <5>2
        <5>4. h[t] = G[<<g[t \ {n + 1}], s[n + 1]>>]
          BY <4>1
        <5> HIDE DEF h
        <5> QED
          BY <4>1, <5>1, <5>3, <5>4
      <4>2. CASE n + 1 \notin t
        <5>1. t \in SUBSET (1..n) /\ t \ {Max(t)} \in SUBSET (1..n)
          BY <3>4, <4>2
        <5>2. \A u \in SUBSET (1..n) : u \in SUBSET (1..(n + 1)) /\ n + 1 \notin u
          OBVIOUS
        <5>3. h[t] = g[t] /\ h[t \ {Max(t)}] = g[t \ {Max(t)}]
          BY <5>1, <5>2
        <5>4. g[t] = IF t = {} THEN base ELSE G[<<g[t \ {Max(t)}], s[Max(t)]>>]
          BY <3>2, <5>1
        <5> HIDE DEF h
        <5> QED
          BY <5>3, <5>4
      <4> QED
        BY <4>1, <4>2
    <3>8. h \in Folds(n + 1)
      <4> HIDE DEF h
      <4> QED
        BY <3>6, <3>7
    <3> HIDE DEF h, Folds
    <3> QED
      BY <3>8
  <2> QED
    BY <2>1, <2>2
<1>3. Nat \subseteq E
  <2> HIDE DEF E
  <2> QED
    BY <1>1, <1>2, SetInduction
<1>4. PICK g : g \in Folds(Len(s))
  <2> HIDE DEF Folds
  <2>1. Len(s) \in E
    BY <1>0, <1>3
  <2> QED
    BY <1>0, <2>1
<1> QED
    BY <1>4 DEF FoldsOf

-----------------------------------------------------------------------------
(* Ranks: the position of an element of a finite set in a total order.     *)

\* How many elements of S come before x.
Rank(S, R) == [x \in S |-> Cardinality({y \in S : <<y, x>> \in R})]

\* In a finite total order every element has a rank of its own, and every rank
\* its element.
LEMMA RankIsABijection ==
    ASSUME NEW S, IsFiniteSet(S), NEW R,
           \A x \in S : <<x, x>> \notin R,
           \A x, y, z \in S : <<x, y>> \in R /\ <<y, z>> \in R => <<x, z>> \in R,
           \A x, y \in S : x = y \/ <<x, y>> \in R \/ <<y, x>> \in R,
           NEW rank, rank = Rank(S, R)
    PROVE  /\ Cardinality(S) \in Nat
           /\ \A x \in S : rank[x] \in 0..(Cardinality(S) - 1)
           /\ \A x, y \in S : rank[x] = rank[y] => x = y
           /\ \A k \in 1..Cardinality(S) : \E x \in S : rank[x] = k - 1
PROOF
<1> DEFINE Below(x) == {y \in S : <<y, x>> \in R}
           n == Cardinality(S)
<1>0. rank = [x \in S |-> Cardinality(Below(x))]
    BY DEF Rank
<1>1. n \in Nat
    BY FS_CardinalityType
<1>2. ASSUME NEW x \in S
      PROVE  IsFiniteSet(Below(x)) /\ Cardinality(Below(x)) \in 0..(n - 1)
  <2>1. Below(x) \in SUBSET (S \ {x})
    OBVIOUS
  <2>2. IsFiniteSet(S \ {x}) /\ Cardinality(S \ {x}) = n - 1
    BY FS_RemoveElement
  <2> HIDE DEF Below, n
  <2>3. IsFiniteSet(Below(x)) /\ Cardinality(Below(x)) \leq n - 1
    BY <2>1, <2>2, FS_Subset
  <2>4. Cardinality(Below(x)) \in Nat
    BY <2>3, FS_CardinalityType
  <2> QED
    BY <1>1, <2>3, <2>4
<1>3. ASSUME NEW x \in S, NEW y \in S, <<x, y>> \in R
      PROVE  Cardinality(Below(x)) < Cardinality(Below(y))
  <2>1. Below(x) \in SUBSET (Below(y) \ {x}) /\ x \in Below(y)
    BY <1>3
  <2> HIDE DEF Below, n
  <2>2. /\ IsFiniteSet(Below(y) \ {x})
        /\ Cardinality(Below(y) \ {x}) = Cardinality(Below(y)) - 1
    BY <1>2, <2>1, FS_RemoveElement
  <2>3. Cardinality(Below(x)) \leq Cardinality(Below(y)) - 1
    BY <2>1, <2>2, FS_Subset
  <2>4. Cardinality(Below(x)) \in Nat /\ Cardinality(Below(y)) \in Nat
    BY <1>1, <1>2
  <2> QED
    BY <2>3, <2>4
<1>4. ASSUME NEW x \in S, NEW y \in S, rank[x] = rank[y] PROVE x = y
  <2> HIDE DEF Below, n
  <2>1. Cardinality(Below(x)) = Cardinality(Below(y)) /\ Cardinality(Below(x)) \in 0..(n - 1)
    BY <1>0, <1>2, <1>4
  <2>2. \A k \in 0..(n - 1) : ~(k < k)
    BY <1>1
  <2> QED
    BY <1>3, <2>1, <2>2
<1>5. rank \in [S -> 0..(n - 1)]
  <2> HIDE DEF Below, n
  <2> QED
    BY <1>0, <1>2
<1>6. rank \in Injection(S, 0..(n - 1))
  <2> HIDE DEF n
  <2> QED
    BY <1>4, <1>5 DEF Injection, IsInjective
<1>7. IsFiniteSet(0..(n - 1)) /\ Cardinality(0..(n - 1)) = n
  <2> HIDE DEF n
  <2>1. n - 1 \in Int /\ (0 > n - 1 <=> n = 0) /\ (n - 1) - 0 + 1 = n
    BY <1>1
  <2> QED
    BY <1>1, <2>1, FS_Interval
<1>8. rank \in Surjection(S, 0..(n - 1))
    BY <1>6, <1>7, FS_Injection
<1>9. ASSUME NEW k \in 1..n PROVE \E x \in S : rank[x] = k - 1
  <2> HIDE DEF n
  <2>1. k - 1 \in 0..(n - 1)
    BY <1>1
  <2> QED
    BY <1>8, <2>1 DEF Surjection
<1> QED
    BY <1>1, <1>4, <1>5, <1>9

\* There are finitely many pairs, of different candidates.
LEMMA PairsAreFinite ==
    /\ IsFiniteSet(Pairs)
    /\ \A S \in SUBSET Pairs : IsFiniteSet(S)
    /\ \A p \in Pairs : /\ p = <<p[1], p[2]>> /\ p[1] \in Candidates /\ p[2] \in Candidates
                        /\ p[1] \in Nat /\ p[2] \in Nat /\ p[1] < p[2]
PROOF
<1>1. IsFiniteSet(Candidates \X Candidates)
    BY CandidatesAreNumbers, FS_Product
<1>2. Pairs \in SUBSET (Candidates \X Candidates)
    BY DEF Pairs
<1>3. IsFiniteSet(Pairs)
    BY <1>1, <1>2, FS_Subset
<1>4. \A S \in SUBSET Pairs : IsFiniteSet(S)
    BY <1>3, FS_Subset
<1>5. \A p \in Pairs : p = <<p[1], p[2]>> /\ p[1] \in Candidates /\ p[2] \in Candidates
                        /\ p[1] < p[2]
    BY DEF Pairs
<1> QED
    BY <1>3, <1>4, <1>5, CandidatesAreNumbers

\* The canonical order has each pair once.
LEMMA OrderedProperties ==
    ASSUME NEW S \in SUBSET Pairs
    PROVE  /\ Ordered(S) \in Seq(S)
           /\ Len(Ordered(S)) = Cardinality(S)
           /\ \A p \in S : \E k \in 1..Len(Ordered(S)) : Ordered(S)[k] = p
           /\ \A j, k \in 1..Len(Ordered(S)) : Ordered(S)[j] = Ordered(S)[k] => j = k
PROOF
<1> DEFINE R == {z \in S \X S : Before(z[1], z[2])}
           rank == Rank(S, R)
           n == Cardinality(S)
           o == Ordered(S)
<1>1. IsFiniteSet(S)
    BY PairsAreFinite
<1>2. \A p \in S : /\ p = <<p[1], p[2]>> /\ p[1] \in Nat /\ p[2] \in Nat
    BY PairsAreFinite
<1>3. \A p, q \in S : <<p, q>> \in R <=> Before(p, q)
    OBVIOUS
<1>4. /\ \A p \in S : ~Before(p, p)
      /\ \A p, q, r \in S : Before(p, q) /\ Before(q, r) => Before(p, r)
      /\ \A p, q \in S : p = q \/ Before(p, q) \/ Before(q, p)
    BY <1>2 DEF Before
<1>5. /\ n \in Nat
      /\ \A p \in S : rank[p] \in 0..(n - 1)
      /\ \A p, q \in S : rank[p] = rank[q] => p = q
      /\ \A k \in 1..n : \E p \in S : rank[p] = k - 1
  <2>1. /\ \A p \in S : <<p, p>> \notin R
        /\ \A p, q, r \in S : <<p, q>> \in R /\ <<q, r>> \in R => <<p, r>> \in R
        /\ \A p, q \in S : p = q \/ <<p, q>> \in R \/ <<q, p>> \in R
    <3> HIDE DEF R
    <3> QED
      BY <1>3, <1>4
  <2> HIDE DEF R
  <2> QED
    BY <1>1, <2>1, RankIsABijection
<1>6. \A p \in S : {q \in S : Before(q, p)} = {q \in S : <<q, p>> \in R}
  <2> HIDE DEF R
  <2> QED
    BY <1>3
<1>7. \A p \in S : Cardinality({q \in S : Before(q, p)}) = rank[p]
  <2> HIDE DEF R
  <2> QED
    BY <1>6 DEF Rank
<1>8. o = [k \in 1..n |-> CHOOSE p \in S : Cardinality({q \in S : Before(q, p)}) = k - 1]
    BY DEF Ordered
<1> HIDE DEF rank, n, o
<1>9. ASSUME NEW k \in 1..n PROVE o[k] \in S /\ rank[o[k]] = k - 1
  <2>1. \E p \in S : Cardinality({q \in S : Before(q, p)}) = k - 1
    BY <1>5, <1>7
  <2>2. o[k] \in S /\ Cardinality({q \in S : Before(q, o[k])}) = k - 1
    BY <1>8, <2>1
  <2> QED
    BY <1>7, <2>2
<1>10. o \in Seq(S) /\ Len(o) = n
  <2>1. o \in [1..n -> S]
    BY <1>8, <1>9
  <2> QED
    BY <1>5, <2>1
<1>11. \A p \in S : \E k \in 1..n : o[k] = p
  <2> TAKE p \in S
  <2>1. rank[p] + 1 \in 1..n /\ (rank[p] + 1) - 1 = rank[p]
    BY <1>5
  <2>2. o[rank[p] + 1] \in S /\ rank[o[rank[p] + 1]] = rank[p]
    BY <1>9, <2>1
  <2> QED
    BY <1>5, <2>1, <2>2
<1>12. \A j, k \in 1..n : o[j] = o[k] => j = k
    BY <1>5, <1>9
<1> QED
    BY <1>10, <1>11, <1>12 DEF o, n

\* What a fold over a sequence does last.
LEMMA LastOfInterval ==
    ASSUME NEW n \in Nat
    PROVE  /\ 1..(n + 1) # {}
           /\ Max(1..(n + 1)) = n + 1
           /\ (1..(n + 1)) \ {Max(1..(n + 1))} = 1..n
PROOF
<1>1. n + 1 \in 1..(n + 1) /\ 1..(n + 1) \subseteq 1..(n + 1)
    OBVIOUS
<1>2. Max(1..(n + 1)) = n + 1
    BY <1>1, MaxOfInterval
<1>3. (1..(n + 1)) \ {n + 1} = 1..n
    OBVIOUS
<1> QED
    BY <1>1, <1>2, <1>3

-----------------------------------------------------------------------------
(* The evidence of a decision.                                             *)

\* Keeping first occurrences keeps each element once.
LEMMA FirstOccurrencesAreUnique ==
    ASSUME NEW T, NEW s \in Seq(T)
    PROVE  /\ FoldLeft(FirstOccurrence, <<>>, s) \in Seq(T)
           /\ IsInjective(FoldLeft(FirstOccurrence, <<>>, s))
PROOF
<1> DEFINE V == Seq(T)
           G == [x \in V \X T |-> FirstOccurrence(x[1], x[2])]
           it == CHOOSE it : it = [t \in SUBSET DOMAIN s |->
                     IF t = {} THEN <<>> ELSE FirstOccurrence(it[t \ {Max(t)}], s[Max(t)])]
<1>1. Len(s) \in Nat /\ DOMAIN s = 1..Len(s) /\ \A k \in 1..Len(s) : s[k] \in T
    OBVIOUS
<1>2. \A v \in V, x \in T : FirstOccurrence(v, x) \in V
    BY DEF FirstOccurrence
<1>3. G \in [V \X T -> V] /\ <<>> \in V /\ \A v \in V, x \in T : G[<<v, x>>] = FirstOccurrence(v, x)
  <2> HIDE DEF V
  <2>1. G \in [V \X T -> V]
    BY <1>2
  <2> QED
    BY <2>1 DEF V
<1>4. it = [t \in SUBSET DOMAIN s |->
               IF t = {} THEN <<>> ELSE FirstOccurrence(it[t \ {Max(t)}], s[Max(t)])]
  <2> HIDE DEF G, V
  <2>3. G \in [V \X T -> V] /\ <<>> \in V
    BY <1>3
  <2>4. FoldsOf(V, G, <<>>, s) # {}
    BY <2>3, FoldExists
  <2>0. PICK g : g \in FoldsOf(V, G, <<>>, s)
    BY <2>4
  <2>1. /\ g \in [SUBSET (1..Len(s)) -> V]
        /\ \A t \in SUBSET (1..Len(s)) :
               g[t] = IF t = {} THEN <<>> ELSE G[<<g[t \ {Max(t)}], s[Max(t)]>>]
    BY <2>0 DEF FoldsOf
  <2>2. ASSUME NEW t \in SUBSET (1..Len(s))
        PROVE  g[t] = IF t = {} THEN <<>> ELSE FirstOccurrence(g[t \ {Max(t)}], s[Max(t)])
    <3>1. CASE t # {}
      <4>1. Max(t) \in 1..Len(s)
        BY <1>1, <3>1, MaxProperties
      <4>2. s[Max(t)] \in T /\ g[t \ {Max(t)}] \in V
        BY <1>1, <2>1, <4>1
      <4> QED
        BY <1>3, <2>1, <3>1, <4>2
    <3> QED
      BY <2>1, <3>1
  <2>5. g = [t \in SUBSET DOMAIN s |->
               IF t = {} THEN <<>> ELSE FirstOccurrence(g[t \ {Max(t)}], s[Max(t)])]
    BY <1>1, <2>1, <2>2
  <2> QED
    BY <2>5, Zenon
<1>5. FoldLeft(FirstOccurrence, <<>>, s) = it[DOMAIN s]
    BY DEF FoldLeft, MapThenFoldSet
<1> HIDE DEF it
<1> DEFINE E == {n \in Nat : n \leq Len(s) => it[1..n] \in Seq(T) /\ IsInjective(it[1..n])}
<1>6. 0 \in E
  <2>1. 1..0 = {} /\ 1..0 \in SUBSET DOMAIN s
    OBVIOUS
  <2>2. it[1..0] = <<>>
    BY <1>4, <2>1
  <2>3. <<>> \in Seq(T) /\ IsInjective(<<>>)
    BY DEF IsInjective
  <2> QED
    BY <1>1, <2>2, <2>3
<1>7. ASSUME NEW n \in Nat, n \in E PROVE n + 1 \in E
  <2> SUFFICES ASSUME n + 1 \leq Len(s)
               PROVE  it[1..(n + 1)] \in Seq(T) /\ IsInjective(it[1..(n + 1)])
    OBVIOUS
  <2>1. n \leq Len(s) /\ n + 1 \in 1..Len(s) /\ 1..(n + 1) \in SUBSET DOMAIN s
    BY <1>1
  <2>2. it[1..(n + 1)] = FirstOccurrence(it[1..n], s[n + 1])
    BY <1>4, <2>1, LastOfInterval
  <2>3. it[1..n] \in Seq(T) /\ IsInjective(it[1..n]) /\ s[n + 1] \in T
    BY <1>1, <1>7, <2>1
  <2>4. CASE Contains(it[1..n], s[n + 1])
    BY <2>2, <2>3, <2>4 DEF FirstOccurrence
  <2>5. CASE ~Contains(it[1..n], s[n + 1])
    <3>1. PICK e \in Seq(T) : e = it[1..n]
      BY <2>3
    <3>2. PICK x \in T : x = s[n + 1]
      BY <2>3
    <3>3. \A k \in 1..Len(e) : e[k] # x
      BY <2>5, <3>1, <3>2 DEF Contains
    <3>4. it[1..(n + 1)] = Append(e, x)
      BY <2>2, <2>5, <3>1, <3>2 DEF FirstOccurrence
    <3>5. IsInjective(e)
      BY <2>3, <3>1
    <3>6. IsInjective(Append(e, x))
      BY <3>3, <3>5 DEF IsInjective
    <3> QED
      BY <3>4, <3>6
  <2> QED
    BY <2>4, <2>5
<1>8. Nat \subseteq E
  <2> HIDE DEF E
  <2> QED
    BY <1>6, <1>7, SetInduction
<1>9. Len(s) \in E
    BY <1>1, <1>8
<1> QED
    BY <1>1, <1>5, <1>9

\* Each place of the canonical order of selectors holds one of them.
LEMMA CanonicalProperties ==
    ASSUME NEW sel \in Seq(Selector), IsInjective(sel)
    PROVE  DOMAIN Canonical(sel) = DOMAIN sel
           /\ \A k \in DOMAIN sel : Canonical(sel)[k] \in ToSet(sel)
PROOF
<1> DEFINE S == ToSet(sel)
           R == {z \in S \X S : SelectorBefore(z[1], z[2])}
<1>1. Len(sel) \in Nat /\ DOMAIN sel = 1..Len(sel) /\ S = {sel[k] : k \in 1..Len(sel)}
      /\ S \subseteq Selector
    BY DEF ToSet
<1>2. IsFiniteSet(S) /\ Cardinality(S) = Len(sel)
  <2>1. sel \in Bijection(1..Len(sel), S)
    <3> HIDE DEF S
    <3>1. sel \in [1..Len(sel) -> S]
      BY <1>1
    <3>2. sel \in Injection(1..Len(sel), S)
      BY <1>1, <3>1 DEF Injection, IsInjective
    <3>3. sel \in Surjection(1..Len(sel), S)
      BY <1>1, <3>1 DEF Surjection
    <3> QED
      BY <3>2, <3>3 DEF Bijection
  <2> HIDE DEF S
  <2>2. ExistsBijection(1..Len(sel), S)
    BY <2>1 DEF ExistsBijection
  <2> QED
    BY <1>1, <2>2, FS_CountingElements, FS_NatBijection
<1>3. \A s \in S : s = <<s[1], s[2]>> /\ s[1] \in {"L", "R"} /\ s[2] \in Nat
    BY <1>1 DEF Selector
<1>4. \A s, t \in S : <<s, t>> \in R <=> SelectorBefore(s, t)
    OBVIOUS
<1>5. /\ \A s \in S : ~SelectorBefore(s, s)
      /\ \A s, t, u \in S : SelectorBefore(s, t) /\ SelectorBefore(t, u) => SelectorBefore(s, u)
      /\ \A s, t \in S : s = t \/ SelectorBefore(s, t) \/ SelectorBefore(t, s)
    BY <1>3 DEF SelectorBefore
<1> HIDE DEF R, S
<1>6. \A k \in 1..Len(sel) : \E s \in S : Rank(S, R)[s] = k - 1
    BY <1>2, <1>4, <1>5, RankIsABijection
<1>7. \A s \in S : {t \in S : SelectorBefore(t, s)} = {t \in S : <<t, s>> \in R}
    BY <1>4
<1>8. \A s \in S : Cardinality({t \in S : SelectorBefore(t, s)}) = Rank(S, R)[s]
    BY <1>7 DEF Rank
<1>9. Canonical(sel) = [k \in DOMAIN sel |->
          CHOOSE s \in S : Cardinality({t \in S : SelectorBefore(t, s)}) = k - 1]
    BY DEF Canonical, S
<1>10. ASSUME NEW k \in DOMAIN sel PROVE Canonical(sel)[k] \in S
  <2>1. \E s \in S : Cardinality({t \in S : SelectorBefore(t, s)}) = k - 1
    BY <1>1, <1>6, <1>8
  <2> QED
    BY <1>9, <2>1
<1> QED
    BY <1>9, <1>10 DEF S

\* The evidence of a decision is that of the two candidates, each ref once.
LEMMA EvidenceProperties ==
    ASSUME NEW i \in Indexes, NEW p \in Pairs, NEW sel \in Selections, ValidSelection(i, p, sel)
    PROVE  /\ Evidence(i, p, sel) \in Seq(Nat)
           /\ IsInjective(Evidence(i, p, sel))
           /\ ToSet(Evidence(i, p, sel)) \subseteq ToSet(i[p[1]].evidence) \union ToSet(i[p[2]].evidence)
PROOF
<1> DEFINE s == [k \in DOMAIN sel |-> Cites(i, p, Canonical(sel)[k])[Canonical(sel)[k][2]]]
           T == ToSet(i[p[1]].evidence) \union ToSet(i[p[2]].evidence)
<1>1. /\ sel \in Seq(Selector) /\ IsInjective(sel)
      /\ \A x \in ToSet(sel) : x[2] \in 1..Len(Cites(i, p, x))
    BY SelectionsAreOfSelectors DEF ValidSelection
<1>2. \A c \in {p[1], p[2]} : i[c].evidence \in Seq(Nat)
    BY IndexesAreIndexes, PairsAreFinite DEF IsIndex, Entry
<1>3. ASSUME NEW x \in ToSet(sel) PROVE Cites(i, p, x)[x[2]] \in T
  <2>1. x[2] \in 1..Len(Cites(i, p, x))
    BY <1>1
  <2>2. ASSUME NEW e \in Seq(Nat), NEW k \in 1..Len(e) PROVE e[k] \in ToSet(e)
    BY DEF ToSet
  <2>3. CASE Cites(i, p, x) = i[p[1]].evidence
    BY <1>2, <2>1, <2>2, <2>3
  <2>4. CASE Cites(i, p, x) = i[p[2]].evidence
    BY <1>2, <2>1, <2>2, <2>4
  <2> QED
    BY <2>3, <2>4 DEF Cites
<1>4. T \subseteq Nat
    BY <1>2 DEF ToSet
<1>5. s \in Seq(T)
  <2> HIDE DEF T
  <2>1. \A k \in DOMAIN sel : s[k] \in T
    BY <1>1, <1>3, CanonicalProperties
  <2>2. Len(sel) \in Nat /\ DOMAIN sel = 1..Len(sel) /\ DOMAIN s = DOMAIN sel
    BY <1>1
  <2>3. s \in [1..Len(sel) -> T]
    BY <2>1, <2>2
  <2> HIDE DEF s
  <2> QED
    BY <2>2, <2>3
<1>6. Evidence(i, p, sel) = FoldLeft(FirstOccurrence, <<>>, s)
    BY DEF Evidence
<1> HIDE DEF s, T
<1>7. Evidence(i, p, sel) \in Seq(T) /\ IsInjective(Evidence(i, p, sel))
    BY <1>5, <1>6, FirstOccurrencesAreUnique
<1>8. ToSet(Evidence(i, p, sel)) \subseteq T
    BY <1>7 DEF ToSet
<1> QED
    BY <1>4, <1>7, <1>8 DEF T

-----------------------------------------------------------------------------
(* The blocks.                                                             *)

\* The candidates of the pairs of a block.
CandidatesOf(b) == UNION {{q[1], q[2]} : q \in ToSet(b)}

\* The blocks bs hold the pairs of S, each in one block, within the limits.
WellPacked(bs, S) ==
    /\ bs \in Seq(Seq(Pairs))
    /\ \A j \in 1..Len(bs) : Len(bs[j]) \in 1..MaxPairs /\ Cardinality(CandidatesOf(bs[j])) \leq MaxCandidates
    /\ \A j \in 1..Len(bs) : ToSet(bs[j]) \subseteq S
    /\ \A p \in S : \E j \in 1..Len(bs) : p \in ToSet(bs[j])
    /\ \A j, k \in 1..Len(bs) : j # k => ToSet(bs[j]) \cap ToSet(bs[k]) = {}

\* The elements of a sequence with one more.
LEMMA ToSetOfAppend ==
    ASSUME NEW T, NEW b \in Seq(T), NEW p \in T
    PROVE  Append(b, p) \in Seq(T) /\ ToSet(Append(b, p)) = ToSet(b) \union {p}
           /\ Len(Append(b, p)) = Len(b) + 1 /\ Len(b) \in Nat
PROOF
<1>1. Append(b, p) \in Seq(T) /\ Len(Append(b, p)) = Len(b) + 1 /\ Len(b) \in Nat
    OBVIOUS
<1>2. \A k \in 1..Len(b) : Append(b, p)[k] = b[k]
    OBVIOUS
<1>3. Append(b, p)[Len(b) + 1] = p
    OBVIOUS
<1>4. ToSet(Append(b, p)) \subseteq ToSet(b) \union {p}
    BY <1>1, <1>2, <1>3 DEF ToSet
<1>5. ToSet(b) \union {p} \subseteq ToSet(Append(b, p))
    BY <1>1, <1>2, <1>3 DEF ToSet
<1> QED
    BY <1>1, <1>4, <1>5

\* Packing one more pair keeps the blocks well packed.
LEMMA PackStep ==
    ASSUME NEW S \in SUBSET Pairs, NEW bs, WellPacked(bs, S), NEW p \in Pairs \ S
    PROVE  WellPacked(Pack(bs, p), S \union {p})
PROOF
<1>1. bs \in Seq(Seq(Pairs)) /\ Len(bs) \in Nat /\ \A j \in 1..Len(bs) : bs[j] \in Seq(Pairs)
    BY DEF WellPacked
<1>2. MaxPairs \in Nat \ {0} /\ MaxCandidates \in Nat \ {0, 1}
    BY LimitsArePositive
<1>3. CASE bs # <<>> /\ Fits(Last(bs), p)
  <2>1. PICK n \in Nat : n = Len(bs)
    BY <1>1
  <2>2. n # 0 /\ Last(bs) = bs[n] /\ n \in 1..n
    BY <1>1, <1>3, <2>1 DEF Last
  <2>3. PICK b \in Seq(Pairs) : b = bs[n]
    BY <1>1, <2>1, <2>2
  <2>4. PICK c : c = Append(b, p)
    OBVIOUS
  <2>4a. c \in Seq(Pairs)
    BY <2>4
  <2>5. Front(bs) \in Seq(Seq(Pairs)) /\ Len(Front(bs)) = n - 1
        /\ \A j \in 1..(n - 1) : Front(bs)[j] = bs[j]
    BY <1>1, <2>1, <2>2 DEF Front
  <2>6. PICK f \in Seq(Seq(Pairs)) : f = Front(bs)
    BY <2>5
  <2>7. PICK ps : ps = Append(f, c)
    OBVIOUS
  <2>7a. ps \in Seq(Seq(Pairs))
    BY <2>4a, <2>7
  <2>8. Pack(bs, p) = ps
    BY <1>3, <2>2, <2>3, <2>4, <2>6, <2>7 DEF Pack
  <2>9. Len(ps) = n /\ ps[n] = c /\ \A j \in 1..n : j # n => ps[j] = bs[j]
    BY <2>1, <2>2, <2>4a, <2>5, <2>6, <2>7
  <2>10. ToSet(c) = ToSet(b) \union {p} /\ Len(c) = Len(b) + 1 /\ Len(b) \in Nat
    BY <2>4, ToSetOfAppend
  <2>11. Len(c) \in 1..MaxPairs /\ Cardinality(CandidatesOf(c)) \leq MaxCandidates
    BY <1>2, <1>3, <2>2, <2>3, <2>4, <2>10 DEF Fits, CandidatesOf
  <2>12. \A j \in 1..Len(ps) : /\ Len(ps[j]) \in 1..MaxPairs
                               /\ Cardinality(CandidatesOf(ps[j])) \leq MaxCandidates
    BY <2>1, <2>9, <2>11 DEF WellPacked
  <2>13. \A j \in 1..Len(ps) : ToSet(ps[j]) \subseteq ToSet(bs[j]) \union {p}
                               /\ (j # n => ToSet(ps[j]) = ToSet(bs[j]))
                               /\ ToSet(bs[j]) \subseteq ToSet(ps[j])
    BY <2>3, <2>9, <2>10
  <2>14. \A j \in 1..Len(ps) : ToSet(ps[j]) \subseteq S \union {p}
    BY <2>1, <2>9, <2>13 DEF WellPacked
  <2>15. \A q \in S \union {p} : \E j \in 1..Len(ps) : q \in ToSet(ps[j])
    <3> TAKE q \in S \union {p}
    <3>1. CASE q = p
      BY <2>2, <2>9, <2>10, <3>1
    <3>2. CASE q \in S
      BY <2>1, <2>9, <2>13, <3>2 DEF WellPacked
    <3> QED
      BY <3>1, <3>2
  <2>16. \A j, k \in 1..Len(ps) : j # k => ToSet(ps[j]) \cap ToSet(ps[k]) = {}
    <3> SUFFICES ASSUME NEW j \in 1..Len(ps), NEW k \in 1..Len(ps), j # k,
                        NEW q, q \in ToSet(ps[j]), q \in ToSet(ps[k])
                 PROVE  FALSE
      OBVIOUS
    <3>1. \A l \in 1..n : p \notin ToSet(bs[l])
      BY <2>1 DEF WellPacked
    <3>2. ToSet(bs[j]) \cap ToSet(bs[k]) = {} /\ j \in 1..n /\ k \in 1..n
      BY <2>1, <2>9 DEF WellPacked
    <3> QED
      BY <2>13, <3>1, <3>2
  <2> QED
    BY <2>7a, <2>8, <2>12, <2>14, <2>15, <2>16 DEF WellPacked
<1>4. CASE ~(bs # <<>> /\ Fits(Last(bs), p))
  <2>1. PICK n \in Nat : n = Len(bs)
    BY <1>1
  <2>2. PICK c : c = <<p>>
    OBVIOUS
  <2>2a. c \in Seq(Pairs)
    BY <2>2
  <2>3. PICK ps : ps = Append(bs, c)
    OBVIOUS
  <2>3a. ps \in Seq(Seq(Pairs))
    BY <1>1, <2>2a, <2>3
  <2>4. Pack(bs, p) = ps
    BY <1>4, <2>2, <2>3 DEF Pack
  <2>5. /\ Len(ps) = n + 1 /\ ps[n + 1] = c /\ n + 1 \in 1..(n + 1)
        /\ \A j \in 1..(n + 1) : j # n + 1 => ps[j] = bs[j] /\ j \in 1..n
        /\ \A j \in 1..n : ps[j] = bs[j] /\ j \in 1..(n + 1)
    BY <1>1, <2>1, <2>2a, <2>3
  <2>6. ToSet(c) = {p} /\ Len(c) = 1
    BY <2>2 DEF ToSet
  <2>7. Len(c) \in 1..MaxPairs /\ Cardinality(CandidatesOf(c)) \leq MaxCandidates
    <3>1. CandidatesOf(c) = {p[1], p[2]}
      BY <2>6 DEF CandidatesOf
    <3>2. Cardinality({p[1], p[2]}) = 2
      <4>1. p[1] # p[2]
        BY PairsAreFinite
      <4>2. IsFiniteSet({}) /\ Cardinality({}) = 0
        BY FS_EmptySet
      <4>3. IsFiniteSet({p[1]}) /\ Cardinality({p[1]}) = 1
        BY <4>2, FS_Singleton
      <4>4. {p[1]} \union {p[2]} = {p[1], p[2]} /\ p[2] \notin {p[1]}
        BY <4>1
      <4>5. Cardinality({p[1]} \union {p[2]}) = 2
        BY <4>3, <4>4, FS_AddElement
      <4> QED
        BY <4>4, <4>5
    <3> QED
      BY <1>2, <2>6, <3>1, <3>2
  <2>8. \A j \in 1..Len(ps) : /\ Len(ps[j]) \in 1..MaxPairs
                              /\ Cardinality(CandidatesOf(ps[j])) \leq MaxCandidates
    BY <2>1, <2>5, <2>7 DEF WellPacked
  <2>9. \A j \in 1..Len(ps) : ToSet(ps[j]) \subseteq S \union {p}
    BY <2>1, <2>5, <2>6 DEF WellPacked
  <2>10. \A q \in S \union {p} : \E j \in 1..Len(ps) : q \in ToSet(ps[j])
    <3> TAKE q \in S \union {p}
    <3>1. CASE q = p
      BY <2>5, <2>6, <3>1
    <3>2. CASE q \in S
      <4>1. PICK j \in 1..n : q \in ToSet(bs[j])
        BY <2>1, <3>2 DEF WellPacked
      <4> QED
        BY <2>5, <4>1
    <3> QED
      BY <3>1, <3>2
  <2>11. \A j, k \in 1..Len(ps) : j # k => ToSet(ps[j]) \cap ToSet(ps[k]) = {}
    <3> SUFFICES ASSUME NEW j \in 1..Len(ps), NEW k \in 1..Len(ps), j # k,
                        NEW q, q \in ToSet(ps[j]), q \in ToSet(ps[k])
                 PROVE  FALSE
      OBVIOUS
    <3>1. \A l \in 1..n : p \notin ToSet(bs[l])
      BY <2>1 DEF WellPacked
    <3>2. CASE j = n + 1
      BY <2>5, <2>6, <3>1, <3>2
    <3>3. CASE k = n + 1
      BY <2>5, <2>6, <3>1, <3>3
    <3>4. CASE j # n + 1 /\ k # n + 1
      <4>1. j \in 1..n /\ k \in 1..n /\ ps[j] = bs[j] /\ ps[k] = bs[k]
        BY <2>5, <3>4
      <4>2. ToSet(bs[j]) \cap ToSet(bs[k]) = {}
        BY <2>1, <4>1 DEF WellPacked
      <4> QED
        BY <4>1, <4>2
    <3> QED
      BY <3>2, <3>3, <3>4
  <2> QED
    BY <2>3a, <2>4, <2>8, <2>9, <2>10, <2>11 DEF WellPacked
<1> QED
    BY <1>3, <1>4

\* The blocks of a plan are its undecided pairs, well packed.
LEMMA BlocksAreWellPacked ==
    ASSUME NEW pl, Undecided(pl) \subseteq Pairs
    PROVE  WellPacked(Blocks(pl), Undecided(pl))
PROOF
<1> DEFINE S == Undecided(pl)
           s == Ordered(S)
           V == Seq(Seq(Pairs))
           G == [x \in V \X S |-> Pack(x[1], x[2])]
           it == CHOOSE it : it = [t \in SUBSET DOMAIN s |->
                     IF t = {} THEN <<>> ELSE Pack(it[t \ {Max(t)}], s[Max(t)])]
<1>0. /\ s \in Seq(S) /\ S \in SUBSET Pairs
      /\ \A p \in S : \E k \in 1..Len(s) : s[k] = p
      /\ \A j, k \in 1..Len(s) : s[j] = s[k] => j = k
  <2> HIDE DEF S
  <2> QED
    BY OrderedProperties DEF S
<1> HIDE DEF S
<1>5. Blocks(pl) = it[DOMAIN s]
    BY DEF Blocks, FoldLeft, MapThenFoldSet, S
<1> HIDE DEF s
<1>1. Len(s) \in Nat /\ DOMAIN s = 1..Len(s) /\ \A k \in 1..Len(s) : s[k] \in S
    BY <1>0
<1>2. ASSUME NEW v \in V, NEW x \in S PROVE Pack(v, x) \in V
  <2>1. x \in Pairs /\ <<x>> \in Seq(Pairs)
    BY <1>0
  <2>2. CASE v # <<>> /\ Fits(Last(v), x)
    <3>1. Last(v) \in Seq(Pairs) /\ Front(v) \in V
      BY <2>2 DEF Last, Front
    <3>2. Append(Last(v), x) \in Seq(Pairs)
      BY <2>1, <3>1
    <3> QED
      BY <2>2, <3>1, <3>2 DEF Pack
  <2>3. CASE ~(v # <<>> /\ Fits(Last(v), x))
    BY <2>1, <2>3 DEF Pack
  <2> QED
    BY <2>2, <2>3
<1>3. G \in [V \X S -> V] /\ <<>> \in V /\ \A v \in V, x \in S : G[<<v, x>>] = Pack(v, x)
  <2>0. <<>> \in V
    OBVIOUS
  <2> HIDE DEF V
  <2>1. G \in [V \X S -> V]
    BY <1>2
  <2> QED
    BY <2>0, <2>1
<1> HIDE DEF G, V
<1>4. it = [t \in SUBSET DOMAIN s |->
               IF t = {} THEN <<>> ELSE Pack(it[t \ {Max(t)}], s[Max(t)])]
  <2>3. G \in [V \X S -> V] /\ <<>> \in V
    BY <1>3
  <2>4. FoldsOf(V, G, <<>>, s) # {}
    BY <1>0, <2>3, FoldExists
  <2>0. PICK g : g \in FoldsOf(V, G, <<>>, s)
    BY <2>4
  <2>1. /\ g \in [SUBSET (1..Len(s)) -> V]
        /\ \A t \in SUBSET (1..Len(s)) :
               g[t] = IF t = {} THEN <<>> ELSE G[<<g[t \ {Max(t)}], s[Max(t)]>>]
    BY <2>0 DEF FoldsOf
  <2>2. ASSUME NEW t \in SUBSET (1..Len(s))
        PROVE  g[t] = IF t = {} THEN <<>> ELSE Pack(g[t \ {Max(t)}], s[Max(t)])
    <3>1. CASE t # {}
      <4>1. Max(t) \in 1..Len(s)
        BY <1>1, <3>1, MaxProperties
      <4>2. s[Max(t)] \in S /\ g[t \ {Max(t)}] \in V
        BY <1>1, <2>1, <4>1
      <4> QED
        BY <1>3, <2>1, <3>1, <4>2
    <3> QED
      BY <2>1, <3>1
  <2>5. g = [t \in SUBSET DOMAIN s |->
               IF t = {} THEN <<>> ELSE Pack(g[t \ {Max(t)}], s[Max(t)])]
    BY <1>1, <2>1, <2>2
  <2> QED
    BY <2>5, Zenon
<1> HIDE DEF it
<1> DEFINE P(n) == {s[k] : k \in 1..n}
           E == {n \in Nat : n \leq Len(s) => WellPacked(it[1..n], P(n))}
<1>6. 0 \in E
  <2>1. 1..0 = {} /\ 1..0 \in SUBSET DOMAIN s /\ P(0) = {}
    OBVIOUS
  <2>2. it[1..0] = <<>>
    BY <1>4, <2>1
  <2>3. WellPacked(<<>>, {})
    BY DEF WellPacked
  <2> HIDE DEF P
  <2> QED
    BY <2>1, <2>2, <2>3
<1>7. ASSUME NEW n \in Nat, n \in E PROVE n + 1 \in E
  <2> SUFFICES ASSUME n + 1 \leq Len(s) PROVE WellPacked(it[1..(n + 1)], P(n + 1))
    OBVIOUS
  <2>1. n \leq Len(s) /\ n + 1 \in 1..Len(s) /\ 1..(n + 1) \in SUBSET DOMAIN s
    BY <1>1
  <2>2. it[1..(n + 1)] = Pack(it[1..n], s[n + 1])
    BY <1>4, <2>1, LastOfInterval
  <2>3. WellPacked(it[1..n], P(n))
    BY <1>7, <2>1
  <2>4. P(n + 1) = P(n) \union {s[n + 1]}
    OBVIOUS
  <2>5. P(n) \in SUBSET Pairs
    BY <1>0, <1>1, <2>1
  <2>6. s[n + 1] \in Pairs \ P(n)
    BY <1>0, <1>1, <2>1
  <2> HIDE DEF P
  <2> QED
    BY <2>2, <2>3, <2>4, <2>5, <2>6, PackStep
<1>8. Nat \subseteq E
  <2> HIDE DEF E
  <2> QED
    BY <1>6, <1>7, SetInduction
<1>9. Len(s) \in E
    BY <1>1, <1>8
<1>10. P(Len(s)) = S
    BY <1>0, <1>1
<1> HIDE DEF P
<1> QED
    BY <1>1, <1>5, <1>9, <1>10 DEF S

-----------------------------------------------------------------------------
(* The inductive invariant.                                                *)

\* Nothing was planned yet, or the audit stopped the run.
Unplanned ==
    /\ plan = <<>> /\ blocks = <<>> /\ asked = <<>> /\ decided = <<>>
    /\ block = 1 /\ round = 0

\* What planning leaves, and nothing changes later.
Planned ==
    /\ plan = PlanOf(index, hard)
    /\ blocks = Blocks(plan)
    /\ \A p \in hard : Mergeable(index, p)

\* A run has its plan, or has not come to it.
PlanInv ==
    \/ stage \in {"plan", "failed"} /\ Unplanned
    \/ stage # "plan" /\ Planned

\* The calls of a that were about block b.
CallsFor(a, b) == {k \in 1..Len(a) : a[k] = b}

\* A run past the provider.
Late == {"merge", "finalized", "published", "refused", "blocked"}

\* The blocks are asked about in order, one round after the other.
AskedInv ==
    /\ block \in 1..(Len(blocks) + 1)
    /\ stage = "resolve" =>
           /\ round < MaxRounds
           /\ block \leq Len(blocks) => Cardinality(CallsFor(asked, blocks[block])) = round
    /\ \A k \in 1..Len(asked) :
           \E j \in 1..Len(blocks) : j \leq block /\ asked[k] = blocks[j]
    /\ \A j \in 1..Len(blocks) :
           /\ Cardinality(CallsFor(asked, blocks[j])) \leq MaxRounds
           /\ j < block => \E k \in 1..Len(asked) : asked[k] = blocks[j]
    /\ stage \in Late => block > Len(blocks)

\* Components are of one kind, and what is the same is merged or waits for it.
MergeInv ==
    /\ \A c, d \in Candidates : rep[c] = rep[d] => index[c].kind = index[d].kind
    /\ stage \in Late =>
           /\ Covered(plan)
           /\ \A k \in 1..Len(todo) : todo[k] \in With("same_entity")
           /\ \A p \in With("same_entity") :
                  rep[p[1]] = rep[p[2]] \/ \E k \in 1..Len(todo) : todo[k] = p

\* The map is that of the decisions from when it was made on.
MapInv ==
    stage \in {"finalized", "published", "refused"} =>
        todo = <<>> /\ map = EntityMap /\ Clean(map)

\* What holds before and after every step.
IInv == TypeOK /\ PlanInv /\ AskedInv /\ EvidenceIsBound /\ MergeInv /\ MapInv

\* Planned pairs join candidates of one kind, and hold the undecided ones.
LEMMA PlanProperties ==
    ASSUME NEW i, NEW h \in SUBSET Pairs, \A p \in h : Mergeable(i, p)
    PROVE  /\ DOMAIN PlanOf(i, h) = Blocked(i, h)
           /\ Blocked(i, h) \subseteq Pairs
           /\ \A p \in Blocked(i, h) : PlanOf(i, h)[p] \in States /\ Mergeable(i, p)
           /\ Undecided(PlanOf(i, h)) \subseteq Blocked(i, h)
PROOF
<1>1. DOMAIN PlanOf(i, h) = Blocked(i, h)
    BY DEF PlanOf
<1>2. Blocked(i, h) \subseteq Pairs /\ \A p \in Blocked(i, h) : Mergeable(i, p)
    BY DEF Blocked
<1>3. \A p \in Blocked(i, h) : PlanOf(i, h)[p] \in States
    BY DEF PlanOf, StateOf, States
<1> QED
    BY <1>1, <1>2, <1>3 DEF Undecided

\* Planning's own decisions are decisions about planned pairs.
LEMMA DeterministicProperties ==
    ASSUME NEW pl
    PROVE  /\ DOMAIN Deterministic(pl) = DOMAIN pl \ Undecided(pl)
           /\ \A p \in DOMAIN pl \ Undecided(pl) :
                  /\ Deterministic(pl)[p] \in Decision
                  /\ Deterministic(pl)[p].method = "deterministic"
                  /\ pl[p] = "auto_same" => Deterministic(pl)[p].verdict = "same_entity"
PROOF
<1> DEFINE D == {q \in DOMAIN pl : pl[q] # "needs_semantic_decision"}
           d(p) == [verdict |-> IF pl[p] = "auto_same" THEN "same_entity" ELSE "different_entity",
                    method |-> "deterministic", evidence |-> <<>>]
<1>1. D = DOMAIN pl \ Undecided(pl)
    BY DEF Undecided
<1>2. \A p \in D : /\ d(p) \in Decision /\ d(p).method = "deterministic"
                   /\ pl[p] = "auto_same" => d(p).verdict = "same_entity"
  <2>1. <<>> \in Seq(Nat)
    OBVIOUS
  <2> HIDE DEF D
  <2> QED
    BY <2>1 DEF Decision, Verdicts
<1>3. Deterministic(pl) = [p \in D |-> d(p)]
    BY DEF Deterministic
<1> HIDE DEF D, d
<1> QED
    BY <1>1, <1>2, <1>3

\* The calls about a block after one more call.
LEMMA CallsForAppend ==
    ASSUME NEW T, NEW a \in Seq(T), NEW b \in T, NEW c \in T
    PROVE  /\ Cardinality(CallsFor(a, c)) \in Nat
           /\ b # c => CallsFor(Append(a, b), c) = CallsFor(a, c)
           /\ b = c => Cardinality(CallsFor(Append(a, b), c)) = Cardinality(CallsFor(a, c)) + 1
PROOF
<1>1. Len(a) \in Nat
    OBVIOUS
<1>2. PICK n \in Nat : n = Len(a)
    BY <1>1
<1>3. IsFiniteSet(1..n)
    BY FS_Interval
<1>4. IsFiniteSet(CallsFor(a, c))
    BY <1>2, <1>3, FS_Subset DEF CallsFor
<1>5. Cardinality(CallsFor(a, c)) \in Nat
    BY <1>4, FS_CardinalityType
<1>6. /\ Len(Append(a, b)) = n + 1 /\ Append(a, b)[n + 1] = b
      /\ \A k \in 1..n : Append(a, b)[k] = a[k]
    BY <1>2
<1>7. ASSUME b # c PROVE CallsFor(Append(a, b), c) = CallsFor(a, c)
  <2>1. \A k \in 1..(n + 1) : k = n + 1 \/ k \in 1..n
    OBVIOUS
  <2>2. \A k : k \in CallsFor(Append(a, b), c) <=> k \in CallsFor(a, c)
    BY <1>2, <1>6, <1>7, <2>1 DEF CallsFor
  <2>3. CallsFor(Append(a, b), c) \subseteq CallsFor(a, c)
    BY <2>2
  <2>4. CallsFor(a, c) \subseteq CallsFor(Append(a, b), c)
    BY <2>2
  <2> QED
    BY <2>3, <2>4
<1>8. ASSUME b = c PROVE CallsFor(Append(a, b), c) = CallsFor(a, c) \union {n + 1}
  <2>1. \A k \in 1..(n + 1) : k = n + 1 \/ k \in 1..n
    OBVIOUS
  <2>2. CallsFor(Append(a, b), c) \subseteq CallsFor(a, c) \union {n + 1}
    BY <1>2, <1>6, <2>1 DEF CallsFor
  <2>3. CallsFor(a, c) \union {n + 1} \subseteq CallsFor(Append(a, b), c)
    BY <1>2, <1>6, <1>8 DEF CallsFor
  <2> QED
    BY <2>2, <2>3
<1>9. n + 1 \notin CallsFor(a, c)
    BY <1>2 DEF CallsFor
<1>10. Cardinality(CallsFor(a, c) \union {n + 1}) = Cardinality(CallsFor(a, c)) + 1
    BY <1>4, <1>9, FS_AddElement
<1> QED
    BY <1>5, <1>7, <1>8, <1>10

\* What every step starts from: the types of the data a run works on.
LEMMA DataTypes ==
    ASSUME TypeOK
    PROVE  /\ hard \in SUBSET Pairs
           /\ DOMAIN decided \subseteq Pairs
           /\ \A p \in DOMAIN decided : decided[p] \in Decision
           /\ \A v : With(v) \in SUBSET Pairs /\ With(v) \subseteq DOMAIN decided
           /\ MaxRounds \in Nat \ {0} /\ MaxPairs \in Nat \ {0}
           /\ index \in Indexes /\ IsIndex(index)
           /\ \A c \in Candidates : index[c].kind \in Kinds /\ index[c].at \in Nat
PROOF
<1>1. hard \in SUBSET Pairs /\ MaxRounds \in Nat \ {0} /\ MaxPairs \in Nat \ {0}
    BY HardSetsAreOfPairs, LimitsArePositive DEF TypeOK
<1>2. DOMAIN decided \subseteq Pairs /\ \A p \in DOMAIN decided : decided[p] \in Decision
    BY DEF TypeOK
<1>3. index \in Indexes /\ IsIndex(index)
    BY IndexesAreIndexes DEF TypeOK
<1>4. \A c \in Candidates : index[c].kind \in Kinds /\ index[c].at \in Nat
    BY <1>3 DEF IsIndex, Entry
<1> QED
    BY <1>1, <1>2, <1>3, <1>4 DEF With

\* Once planned, the plan and the blocks are those of the index.
LEMMA PlannedProperties ==
    ASSUME TypeOK, Planned
    PROVE  /\ \A p \in DOMAIN plan : p \in Pairs /\ Mergeable(index, p) /\ plan[p] \in States
           /\ DOMAIN plan = Blocked(index, hard)
           /\ Undecided(plan) \subseteq DOMAIN plan
           /\ WellPacked(blocks, Undecided(plan))
           /\ Len(blocks) \in Nat /\ blocks \in Seq(Seq(Pairs))
           /\ \A j \in 1..Len(blocks) : blocks[j] \in Seq(Pairs) /\ blocks[j] # <<>>
           /\ \A j, k \in 1..Len(blocks) : blocks[j] = blocks[k] => j = k
PROOF
<1>1. hard \in SUBSET Pairs
    BY DataTypes
<1>2. /\ \A p \in DOMAIN plan : p \in Pairs /\ Mergeable(index, p) /\ plan[p] \in States
      /\ DOMAIN plan = Blocked(index, hard)
      /\ Undecided(plan) \subseteq DOMAIN plan
    BY <1>1, PlanProperties DEF Planned
<1>3. WellPacked(blocks, Undecided(plan))
    BY <1>2, BlocksAreWellPacked DEF Planned
<1>4. blocks \in Seq(Seq(Pairs)) /\ Len(blocks) \in Nat
    BY <1>3 DEF WellPacked
<1>5. ASSUME NEW j \in 1..Len(blocks) PROVE blocks[j] \in Seq(Pairs) /\ Len(blocks[j]) # 0
    BY <1>3, <1>4, LimitsArePositive DEF WellPacked
<1>6. ASSUME NEW j \in 1..Len(blocks), NEW k \in 1..Len(blocks), blocks[j] = blocks[k]
      PROVE  j = k
  <2>1. PICK b \in Seq(Pairs) : b = blocks[j] /\ Len(b) # 0
    BY <1>5
  <2>2. b[1] \in ToSet(b)
    BY <2>1 DEF ToSet
  <2>3. j # k => ToSet(blocks[j]) \cap ToSet(blocks[k]) = {}
    BY <1>3 DEF WellPacked
  <2> QED
    BY <1>6, <2>1, <2>2, <2>3
<1>7. \A j \in 1..Len(blocks) : blocks[j] \in Seq(Pairs) /\ blocks[j] # <<>>
    BY <1>5
<1> QED
    BY <1>2, <1>3, <1>4, <1>6, <1>7

\* The invariant holds at first.
LEMMA InitIInv == Init => IInv
PROOF
<1> SUFFICES ASSUME Init PROVE IInv
    OBVIOUS
<1>1. TypeOK
  <2>1. block \in Nat /\ round \in 0..MaxRounds
    BY LimitsArePositive DEF Init
  <2> QED
    BY <2>1 DEF Init, TypeOK
<1>2. PlanInv
    BY DEF Init, PlanInv, Unplanned
<1>3. AskedInv
    BY DEF Init, AskedInv, Late
<1>4. EvidenceIsBound
    BY DEF Init, EvidenceIsBound
<1>5. MergeInv
    BY DEF Init, MergeInv, Late
<1>6. MapInv
    BY DEF Init, MapInv
<1> QED
    BY <1>1, <1>2, <1>3, <1>4, <1>5, <1>6 DEF IInv

\* A step keeps the plan.
LEMMA PlanStep == PlanInv /\ [Next]_vars => PlanInv'
PROOF
<1> SUFFICES ASSUME PlanInv, [Next]_vars PROVE PlanInv'
    OBVIOUS
<1>1. CASE Plan
  <2>1. plan' = PlanOf(index', hard') /\ blocks' = Blocks(plan')
        /\ \A p \in hard' : Mergeable(index', p)
    BY <1>1 DEF Plan
  <2>2. stage' # "plan"
    BY <1>1 DEF Plan
  <2> QED
    BY <2>1, <2>2 DEF PlanInv, Planned
<1>2. CASE AuditFails
    BY <1>2 DEF AuditFails, PlanInv, Unplanned, Planned
<1>3. ASSUME stage \notin {"plan", "failed"}, UNCHANGED <<index, hard, plan, blocks>>, stage' # "plan"
      PROVE  PlanInv'
  <2>1. Planned
    BY <1>3 DEF PlanInv
  <2>2. Planned'
    BY <1>3, <2>1 DEF Planned
  <2> QED
    BY <1>3, <2>2 DEF PlanInv
<1>4. CASE Answers \/ Reject \/ Fail
    BY <1>3, <1>4 DEF Answers, Answer, Reject, Fail, Calls
<1>5. CASE Resolve \/ Merge \/ Finalize \/ Publish
    BY <1>3, <1>5 DEF Resolve, Merge, Finalize, Publish
<1>6. CASE UNCHANGED vars
  <2>1. Planned => Planned'
    BY <1>6 DEF Planned, vars
  <2> QED
    BY <1>6, <2>1 DEF vars, PlanInv, Unplanned
<1> QED
    BY <1>1, <1>2, <1>4, <1>5, <1>6 DEF Next

\* An answer decides the pairs of the block that had no decision, each bound
\* to evidence of its candidates.
LEMMA AnswerProperties ==
    ASSUME TypeOK, Planned,
           NEW sel \in Selections, NEW v \in [DOMAIN blocks[block] -> Verdicts],
           block \in 1..Len(blocks), Answer(v, sel)
    PROVE  /\ DOMAIN decided' = DOMAIN decided \union ToSet(blocks[block])
           /\ ToSet(blocks[block]) \subseteq Pairs
           /\ \A p \in DOMAIN decided : decided'[p] = decided[p]
           /\ \A p \in ToSet(blocks[block]) \ DOMAIN decided :
                  /\ decided'[p] \in Decision
                  /\ decided'[p].method = "llm"
                  /\ IsInjective(decided'[p].evidence)
                  /\ ToSet(decided'[p].evidence) \subseteq
                         ToSet(index[p[1]].evidence) \union ToSet(index[p[2]].evidence)
PROOF
<1>1. PICK b \in Seq(Pairs) : b = blocks[block]
    BY PlannedProperties
<1> DEFINE D(p) == LET k == CHOOSE j \in DOMAIN b : b[j] = p
                   IN [verdict |-> v[k], method |-> "llm", evidence |-> Evidence(index, p, sel)]
<1>2. decided' = [p \in DOMAIN decided \union ToSet(b) |->
                     IF p \in DOMAIN decided THEN decided[p] ELSE D(p)]
    BY <1>1 DEF Answer
<1>3. ToSet(b) \subseteq Pairs
    BY DEF ToSet
<1>4. ASSUME NEW p \in ToSet(b)
      PROVE  /\ D(p) \in Decision
             /\ D(p).method = "llm"
             /\ D(p).evidence = Evidence(index, p, sel)
  <2>1. \E j \in DOMAIN b : b[j] = p
    BY DEF ToSet
  <2>2. PICK k \in DOMAIN b : k = CHOOSE j \in DOMAIN b : b[j] = p
    BY <2>1
  <2>3. v[k] \in Verdicts
    BY <1>1, <2>2
  <2>4. D(p) = [verdict |-> v[k], method |-> "llm", evidence |-> Evidence(index, p, sel)]
    BY <2>2
  <2>5. ValidSelection(index, p, sel) /\ p \in Pairs
    BY <1>1, <1>3 DEF Answer
  <2>6. Evidence(index, p, sel) \in Seq(Nat)
    BY <2>5, DataTypes, EvidenceProperties
  <2> HIDE DEF D
  <2> QED
    BY <2>3, <2>4, <2>6 DEF Decision
<1>5. ASSUME NEW p \in ToSet(b)
      PROVE  /\ IsInjective(Evidence(index, p, sel))
             /\ ToSet(Evidence(index, p, sel)) \subseteq
                         ToSet(index[p[1]].evidence) \union ToSet(index[p[2]].evidence)
  <2>1. ValidSelection(index, p, sel) /\ p \in Pairs
    BY <1>1, <1>3 DEF Answer
  <2> QED
    BY <2>1, DataTypes, EvidenceProperties
<1> HIDE DEF D
<1>6. DOMAIN decided' = DOMAIN decided \union ToSet(b)
    BY <1>2
<1>7. \A p \in DOMAIN decided : decided'[p] = decided[p]
    BY <1>2
<1>8. \A p \in ToSet(b) \ DOMAIN decided : decided'[p] = D(p)
    BY <1>2
<1> QED
    BY <1>1, <1>3, <1>4, <1>5, <1>6, <1>7, <1>8

\* Every target has a type.
LEMMA EntityMapType ==
    ASSUME TypeOK
    PROVE  DOMAIN EntityMap = Candidates /\ \A c \in Candidates : EntityMap[c] \in Target
PROOF
<1> DEFINE m == [c \in Candidates |-> Members(c)]
<1>1. EntityMap = [c \in Candidates |-> TargetOf(m, c)]
    BY DEF EntityMap
<1>2. ASSUME NEW c \in Candidates PROVE Members(c) \in SUBSET Candidates
    BY DEF Members, Component, Group, Nodes
<1>3. ASSUME NEW c \in Candidates PROVE Number(m, c) \in Nat
  <2>1. IsFiniteSet(SUBSET Candidates)
    BY CandidatesAreNumbers, FS_SUBSET
  <2> DEFINE N == {S \in {m[d] : d \in {e \in Candidates : Series(e) = Series(c)}} :
                       index[First(S)].at \leq index[First(m[c])].at}
  <2>2. N \subseteq SUBSET Candidates
    BY <1>2
  <2>3. Number(m, c) = Cardinality(N)
    BY DEF Number
  <2> HIDE DEF N
  <2> QED
    BY <2>1, <2>2, <2>3, FS_Subset, FS_CardinalityType
<1>4. ASSUME NEW c \in Candidates PROVE TargetOf(m, c) \in Target
  <2>1. index[c].kind \in Kinds /\ Number(m, c) \in Nat
    BY <1>3, DataTypes
  <2> HIDE DEF m
  <2> QED
    BY <2>1 DEF TargetOf, Target
<1> HIDE DEF m
<1> QED
    BY <1>1, <1>4

\* A step keeps the types.
LEMMA TypeStep == TypeOK /\ PlanInv /\ AskedInv /\ [Next]_vars => TypeOK'
PROOF
<1> SUFFICES ASSUME TypeOK, PlanInv, AskedInv, [Next]_vars PROVE TypeOK'
    OBVIOUS
<1> USE DataTypes
<1>1. CASE Plan
  <2>1. /\ DOMAIN plan' \subseteq Pairs /\ \A p \in DOMAIN plan' : plan'[p] \in States
        /\ Undecided(plan') \subseteq Pairs
    BY <1>1, PlanProperties DEF Plan
  <2>2. blocks' \in Seq(Seq(Pairs))
    BY <1>1, <2>1, BlocksAreWellPacked DEF Plan, WellPacked
  <2>3. DOMAIN decided' \subseteq Pairs /\ \A p \in DOMAIN decided' : decided'[p] \in Decision
    BY <1>1, <2>1, DeterministicProperties DEF Plan
  <2> QED
    BY <1>1, <2>1, <2>2, <2>3 DEF TypeOK, Plan
<1>2. CASE AuditFails
    BY <1>2 DEF TypeOK, AuditFails, Ends
<1>3. ASSUME Calls PROVE asked' \in Seq(Seq(Pairs)) /\ Planned /\ block \in 1..Len(blocks)
  <2>1. Planned
    BY <1>3 DEF Calls, PlanInv
  <2>2. block \in 1..Len(blocks)
    BY <1>3, <2>1, PlannedProperties DEF Calls, TypeOK, AskedInv
  <2>3. blocks[block] \in Seq(Pairs)
    BY <2>1, <2>2, PlannedProperties
  <2> QED
    BY <1>3, <2>1, <2>2, <2>3 DEF Calls, TypeOK
<1>4. CASE Answers
  <2>1. PICK v \in [DOMAIN blocks[block] -> Verdicts], sel \in Selections : Answer(v, sel)
    BY <1>4 DEF Answers
  <2>2. Calls
    BY <2>1 DEF Answer
  <2>3. DOMAIN decided' \subseteq Pairs /\ \A p \in DOMAIN decided' : decided'[p] \in Decision
    BY <1>3, <2>1, <2>2, AnswerProperties
  <2>4. block' \in Nat /\ round' \in 0..MaxRounds /\ stage' = stage
    BY <2>1 DEF Answer, TypeOK
  <2> QED
    BY <1>3, <2>2, <2>3, <2>4 DEF TypeOK, Calls
<1>5. CASE Reject
  <2>1. Calls /\ round < MaxRounds
    BY <1>5 DEF Reject, Calls, AskedInv
  <2>2. round' \in 0..MaxRounds
    BY <1>5, <2>1 DEF Reject, TypeOK
  <2> QED
    BY <1>3, <1>5, <2>1, <2>2 DEF TypeOK, Reject, Calls, Ends
<1>6. CASE Fail
    BY <1>3, <1>6 DEF TypeOK, Fail, Calls, Ends
<1>7. CASE Resolve
  <2>1. With("same_entity") \in SUBSET Pairs
    OBVIOUS
  <2>2. Ordered(With("same_entity")) \in Seq(Pairs)
    BY <2>1, OrderedProperties
  <2>3. todo' \in Seq(Pairs)
    BY <1>7, <2>2 DEF Resolve, TypeOK
  <2> QED
    BY <1>7, <2>3 DEF TypeOK, Resolve, Ends
<1>8. CASE Merge
  <2>1. Head(todo) \in Pairs /\ Tail(todo) \in Seq(Pairs)
    BY <1>8 DEF Merge, TypeOK
  <2>2. PICK a \in Candidates, b \in Candidates :
            a = rep[Head(todo)[1]] /\ b = rep[Head(todo)[2]]
    BY <2>1, PairsAreFinite DEF TypeOK
  <2>3. Min({a, b}) \in {a, b}
    <3>1. a \in Nat /\ b \in Nat
      BY CandidatesAreNumbers
    <3>2. \E x \in {a, b} : \A y \in {a, b} : x \leq y
      BY <3>1
    <3> QED
      BY <3>2 DEF Min
  <2>4. rep' = [c \in Candidates |-> IF rep[c] \in {a, b} THEN Min({a, b}) ELSE rep[c]]
    BY <1>8, <2>2 DEF Merge
  <2>5. rep' \in [Candidates -> Candidates]
    BY <2>3, <2>4 DEF TypeOK
  <2> QED
    BY <1>8, <2>1, <2>5 DEF TypeOK, Merge
<1>9. CASE Finalize
  <2>1. DOMAIN map' = Candidates /\ \A c \in Candidates : map'[c] \in Target
    BY <1>9, EntityMapType DEF Finalize
  <2>2. stage' \in {"finalized", "blocked"}
    BY <1>9 DEF Finalize
  <2> QED
    BY <1>9, <2>1, <2>2 DEF TypeOK, Finalize, Ends
<1>10. CASE Publish
    BY <1>10 DEF TypeOK, Publish, Ends
<1>11. CASE UNCHANGED vars
    BY <1>11 DEF TypeOK, vars
<1> QED
    BY <1>1, <1>2, <1>4, <1>5, <1>6, <1>7, <1>8, <1>9, <1>10, <1>11 DEF Next

\* What one more call does to the calls of each block.
LEMMA CallStep ==
    ASSUME TypeOK, PlanInv, AskedInv, Calls
    PROVE  /\ Planned /\ block \in 1..Len(blocks)
           /\ Cardinality(CallsFor(asked', blocks[block])) = round + 1
           /\ block + 1 \leq Len(blocks) => Cardinality(CallsFor(asked', blocks[block + 1])) = 0
           /\ \A k \in 1..Len(asked') :
                  \E j \in 1..Len(blocks) : j \leq block /\ asked'[k] = blocks[j]
           /\ \A j \in 1..Len(blocks) :
                  /\ Cardinality(CallsFor(asked', blocks[j])) \leq MaxRounds
                  /\ j < block + 1 => \E k \in 1..Len(asked') : asked'[k] = blocks[j]
PROOF
<1>1. Planned
    BY DEF Calls, PlanInv
<1>2. PICK n \in Nat : n = Len(blocks)
    BY <1>1, PlannedProperties
<1>3. block \in 1..n
    BY <1>2 DEF Calls, TypeOK, AskedInv
<1>4. PICK b \in Seq(Pairs) : b = blocks[block]
    BY <1>1, <1>2, <1>3, PlannedProperties
<1>5. asked \in Seq(Seq(Pairs)) /\ asked' = Append(asked, b)
    BY <1>4 DEF Calls, TypeOK
<1>6. PICK m \in Nat : m = Len(asked)
    BY <1>5
<1>7. /\ Len(asked') = m + 1 /\ asked'[m + 1] = b /\ m + 1 \in 1..(m + 1)
      /\ \A k \in 1..m : asked'[k] = asked[k] /\ k \in 1..(m + 1)
      /\ \A k \in 1..(m + 1) : k = m + 1 \/ k \in 1..m
    BY <1>5, <1>6
<1>8. ASSUME NEW j \in 1..n, j # block
      PROVE  CallsFor(asked', blocks[j]) = CallsFor(asked, blocks[j])
  <2>1. blocks[j] \in Seq(Pairs) /\ blocks[j] # b
    BY <1>1, <1>2, <1>3, <1>4, <1>8, PlannedProperties
  <2> QED
    BY <1>5, <2>1, CallsForAppend
<1>9. round < MaxRounds /\ Cardinality(CallsFor(asked, b)) = round
    BY <1>2, <1>3, <1>4 DEF Calls, AskedInv
<1>10. Cardinality(CallsFor(asked', b)) = round + 1
    BY <1>5, <1>9, CallsForAppend
<1>11. ASSUME block + 1 \leq n PROVE Cardinality(CallsFor(asked', blocks[block + 1])) = 0
  <2>1. block + 1 \in 1..n /\ block + 1 # block
    BY <1>3, <1>11
  <2>2. CallsFor(asked', blocks[block + 1]) = CallsFor(asked, blocks[block + 1])
    BY <1>8, <2>1
  <2>3. ASSUME NEW k \in 1..m PROVE asked[k] # blocks[block + 1]
    <3>1. PICK j \in 1..n : j \leq block /\ asked[k] = blocks[j]
      BY <1>2, <1>6 DEF AskedInv
    <3>2. j # block + 1
      BY <1>3, <3>1
    <3> QED
      BY <1>1, <1>2, <2>1, <3>1, <3>2, PlannedProperties
  <2>4. CallsFor(asked, blocks[block + 1]) = {}
    BY <1>6, <2>3 DEF CallsFor
  <2> QED
    BY <2>2, <2>4, FS_EmptySet
<1>12. \A k \in 1..(m + 1) : \E j \in 1..n : j \leq block /\ asked'[k] = blocks[j]
  <2> TAKE k \in 1..(m + 1)
  <2>1. CASE k = m + 1
    BY <1>3, <1>4, <1>7, <2>1
  <2>2. CASE k \in 1..m
    BY <1>2, <1>6, <1>7, <2>2 DEF AskedInv
  <2> QED
    BY <1>7, <2>1, <2>2
<1>13. ASSUME NEW j \in 1..n PROVE Cardinality(CallsFor(asked', blocks[j])) \leq MaxRounds
  <2>1. CASE j = block
    BY <1>4, <1>9, <1>10, <2>1, DataTypes DEF TypeOK
  <2>2. CASE j # block
    BY <1>2, <1>8, <2>2 DEF AskedInv
  <2> QED
    BY <2>1, <2>2
<1>14. ASSUME NEW j \in 1..n, j < block + 1 PROVE \E k \in 1..(m + 1) : asked'[k] = blocks[j]
  <2>1. CASE j = block
    BY <1>4, <1>7, <2>1
  <2>2. CASE j # block
    <3>1. j < block
      BY <1>3, <1>14, <2>2
    <3>2. PICK k \in 1..m : asked[k] = blocks[j]
      BY <1>2, <1>6, <3>1 DEF AskedInv
    <3> QED
      BY <1>7, <3>2
  <2> QED
    BY <2>1, <2>2
<1> QED
    BY <1>1, <1>2, <1>3, <1>4, <1>7, <1>10, <1>11, <1>12, <1>13, <1>14

\* A step keeps the order of the calls.
LEMMA AskedStep == TypeOK /\ TypeOK' /\ PlanInv /\ AskedInv /\ [Next]_vars => AskedInv'
PROOF
<1> SUFFICES ASSUME TypeOK, TypeOK', PlanInv, AskedInv, [Next]_vars PROVE AskedInv'
    OBVIOUS
<1>1. CASE Plan
  <2>1. block' = 1 /\ round' = 0 /\ asked' = <<>> /\ stage' = "resolve"
    BY <1>1 DEF Plan, PlanInv, Unplanned, Planned
  <2>4. Len(blocks') \in Nat
    BY DEF TypeOK
  <2>5. \A b : Cardinality(CallsFor(asked', b)) = 0
    <3> TAKE b
    <3>1. CallsFor(asked', b) = {}
      BY <2>1 DEF CallsFor
    <3> QED
      BY <3>1, FS_EmptySet
  <2>6. MaxRounds \in Nat \ {0}
    BY DataTypes
  <2>7. \A j \in 1..Len(blocks') : ~(j < 1)
    BY <2>4
  <2> QED
    BY <2>1, <2>4, <2>5, <2>6, <2>7 DEF AskedInv, Late
<1>2. CASE AuditFails
    BY <1>2 DEF AuditFails, AskedInv, Late
<1>3. CASE Answers
  <2>1. PICK v \in [DOMAIN blocks[block] -> Verdicts], sel \in Selections : Answer(v, sel)
    BY <1>3 DEF Answers
  <2>2. Calls /\ block' = block + 1 /\ round' = 0 /\ stage' = "resolve" /\ blocks' = blocks
    BY <2>1 DEF Answer, Calls
  <2>3. PICK n \in Nat : n = Len(blocks)
    BY <2>2, CallStep, PlannedProperties
  <2>4. block \in 1..n /\ block + 1 \in 1..(n + 1)
    BY <2>2, <2>3, CallStep
  <2>5. \A j \in 1..n : j \leq block => j \leq block + 1
    BY <2>4
  <2>6. 0 < MaxRounds
    BY DataTypes
  <2> QED
    BY <2>2, <2>3, <2>4, <2>5, <2>6, CallStep DEF AskedInv, Late
<1>4. CASE Reject
  <2>1. Calls /\ block' = block /\ round' = round + 1 /\ blocks' = blocks
        /\ stage' = IF round + 1 = MaxRounds THEN "exhausted" ELSE "resolve"
    BY <1>4 DEF Reject, Calls
  <2>2. PICK n \in Nat : n = Len(blocks)
    BY <2>1, CallStep, PlannedProperties
  <2>3. block \in 1..n /\ block \in 1..(n + 1) /\ \A j \in 1..n : j < block => j < block + 1
    BY <2>1, <2>2, CallStep
  <2>4. stage' = "resolve" => round + 1 < MaxRounds
    <3>1. round < MaxRounds /\ round \in Nat
      BY <2>1 DEF Calls, AskedInv, TypeOK
    <3> QED
      BY <2>1, <3>1, DataTypes
  <2>5. stage' \notin Late
    BY <2>1 DEF Late
  <2> QED
    BY <2>1, <2>2, <2>3, <2>4, <2>5, CallStep DEF AskedInv
<1>5. CASE Fail
  <2>1. Calls /\ block' = block /\ blocks' = blocks /\ stage' = "failed"
    BY <1>5 DEF Fail, Calls
  <2>2. PICK n \in Nat : n = Len(blocks)
    BY <2>1, CallStep, PlannedProperties
  <2>3. block \in 1..n /\ block \in 1..(n + 1) /\ \A j \in 1..n : j < block => j < block + 1
    BY <2>1, <2>2, CallStep
  <2>4. stage' \notin Late /\ stage' # "resolve"
    BY <2>1 DEF Late
  <2>5. block' \in 1..(Len(blocks') + 1)
    BY <2>1, <2>2, <2>3
  <2>6. \A j \in 1..Len(blocks') :
            /\ Cardinality(CallsFor(asked', blocks'[j])) \leq MaxRounds
            /\ j < block' => \E k \in 1..Len(asked') : asked'[k] = blocks'[j]
    BY <2>1, <2>2, <2>3, CallStep
  <2>7. \A k \in 1..Len(asked') :
            \E j \in 1..Len(blocks') : j \leq block' /\ asked'[k] = blocks'[j]
    BY <2>1, <2>2, CallStep
  <2> QED
    BY <2>4, <2>5, <2>6, <2>7 DEF AskedInv
<1>6. CASE Resolve
    BY <1>6 DEF Resolve, AskedInv, Late
<1>7. CASE Merge \/ Finalize \/ Publish
  <2>1. UNCHANGED <<blocks, block, round, asked>> /\ stage \in Late /\ stage' # "resolve"
    BY <1>7 DEF Merge, Finalize, Publish, Late
  <2> QED
    BY <2>1 DEF AskedInv
<1>8. CASE UNCHANGED vars
    BY <1>8 DEF vars, AskedInv
<1> QED
    BY <1>1, <1>2, <1>3, <1>4, <1>5, <1>6, <1>7, <1>8 DEF Next

\* A step keeps the decisions bound to evidence.
LEMMA EvidenceStep ==
    TypeOK /\ PlanInv /\ AskedInv /\ EvidenceIsBound /\ [Next]_vars => EvidenceIsBound'
PROOF
<1> SUFFICES ASSUME TypeOK, PlanInv, AskedInv, EvidenceIsBound, [Next]_vars
             PROVE  EvidenceIsBound'
    OBVIOUS
<1>1. CASE Plan
  <2>1. \A p \in DOMAIN decided' : decided'[p].method = "deterministic"
    BY <1>1, DeterministicProperties DEF Plan
  <2> QED
    BY <2>1 DEF EvidenceIsBound
<1>2. CASE Answers
  <2>1. PICK v \in [DOMAIN blocks[block] -> Verdicts], sel \in Selections : Answer(v, sel)
    BY <1>2 DEF Answers
  <2>2. Calls /\ index' = index
    BY <2>1 DEF Answer, Calls
  <2>3. Planned /\ block \in 1..Len(blocks)
    BY <2>2, CallStep
  <2> QED
    BY <2>1, <2>2, <2>3, AnswerProperties DEF EvidenceIsBound
<1>3. CASE UNCHANGED <<index, decided>>
    BY <1>3 DEF EvidenceIsBound
<1>4. CASE AuditFails \/ Reject \/ Fail \/ Resolve \/ Merge \/ Finalize \/ Publish \/ UNCHANGED vars
    BY <1>3, <1>4 DEF AuditFails, Reject, Fail, Calls, Resolve, Merge, Finalize, Publish, vars
<1> QED
    BY <1>1, <1>2, <1>4 DEF Next

\* The coverage of an unchanged plan by unchanged decisions.
LEMMA StillCovered ==
    ASSUME UNCHANGED <<plan, decided>>
    PROVE  (Covered(plan) => Covered(plan)') /\ \A v : With(v)' = With(v)
PROOF
<1>1. Covered(plan) => Covered(plan)'
    BY DEF Covered
<1>2. \A v : With(v)' = With(v)
    BY DEF With
<1> QED
    BY <1>1, <1>2

\* A step keeps components of one kind, and loses no pair to be merged.
LEMMA MergeStep == TypeOK /\ PlanInv /\ MergeInv /\ [Next]_vars => MergeInv'
PROOF
<1> SUFFICES ASSUME TypeOK, PlanInv, MergeInv, [Next]_vars PROVE MergeInv'
    OBVIOUS
<1>1. ASSUME UNCHANGED <<index, rep>>, stage' \notin Late PROVE MergeInv'
    BY <1>1 DEF MergeInv
<1>2. CASE Plan \/ AuditFails \/ Fail
    BY <1>1, <1>2 DEF Plan, AuditFails, Fail, Calls, Late
<1>3. CASE Answers \/ Reject
    BY <1>1, <1>3 DEF Answers, Answer, Reject, Calls, Late
<1>4. CASE Resolve
  <2>1. CASE ~Covered(plan)
    BY <1>1, <1>4, <2>1 DEF Resolve, Late
  <2>2. CASE Covered(plan)
    <3>1. PICK S \in SUBSET Pairs : S = With("same_entity")
      BY DataTypes
    <3>2. /\ UNCHANGED <<index, rep, plan, decided>>
          /\ todo' = Ordered(S)
      BY <1>4, <2>2, <3>1 DEF Resolve
    <3>3. Covered(plan)' /\ With("same_entity")' = S
      BY <2>2, <3>1, <3>2, StillCovered
    <3>4. /\ todo' \in Seq(S)
          /\ \A p \in S : \E k \in 1..Len(todo') : todo'[k] = p
      BY <3>2, OrderedProperties
    <3>5. \A k \in 1..Len(todo') : todo'[k] \in S
      BY <3>4
    <3> QED
      BY <3>2, <3>3, <3>4, <3>5 DEF MergeInv
  <2> QED
    BY <2>1, <2>2
<1>5. CASE Merge
  <2>1. /\ UNCHANGED <<index, plan, decided>>
        /\ Covered(plan)
        /\ stage = "merge" /\ todo # <<>> /\ todo' = Tail(todo)
    BY <1>5 DEF Merge, MergeInv, Late
  <2>2. Covered(plan)' /\ With("same_entity")' = With("same_entity")
    BY <2>1, StillCovered
  <2>3. PICK t \in Seq(Pairs) : t = todo /\ t # <<>>
    BY <2>1 DEF TypeOK
  <2>4. PICK p \in Pairs : p = t[1] /\ p = Head(todo)
    BY <2>3
  <2>5. /\ Len(t) \in Nat /\ 1 \in 1..Len(t)
        /\ Len(todo') = Len(t) - 1
        /\ \A k \in 1..Len(todo') : todo'[k] = t[k + 1] /\ k + 1 \in 1..Len(t)
    BY <2>1, <2>3
  <2>6. p \in With("same_entity") /\ p \in DOMAIN decided
    BY <1>5, <2>3, <2>4, <2>5 DEF MergeInv, Merge, Late, With
  <2>7. index[p[1]].kind = index[p[2]].kind
    <3>1. Planned /\ p \in DOMAIN plan
      BY <2>1, <2>6 DEF PlanInv, Covered
    <3> QED
      BY <3>1, PlannedProperties DEF Mergeable
  <2>8. PICK a \in Candidates, b \in Candidates : a = rep[p[1]] /\ b = rep[p[2]]
    BY PairsAreFinite DEF TypeOK
  <2>9. PICK r : r = Min({a, b})
    OBVIOUS
  <2>10. r \in {a, b}
    <3>1. a \in Nat /\ b \in Nat
      BY CandidatesAreNumbers
    <3>2. \E x \in {a, b} : \A y \in {a, b} : x \leq y
      BY <3>1
    <3> QED
      BY <2>9, <3>2 DEF Min
  <2>11. \A c \in Candidates : rep'[c] = IF rep[c] \in {a, b} THEN r ELSE rep[c]
    BY <1>5, <2>4, <2>8, <2>9 DEF Merge
  <2>12. ASSUME NEW c \in Candidates, NEW d \in Candidates, rep'[c] = rep'[d]
         PROVE  index[c].kind = index[d].kind
    <3>0. p[1] \in Candidates /\ p[2] \in Candidates
      BY PairsAreFinite
    <3>1. \A e \in Candidates : rep[e] \in {a, b} => index[e].kind = index[p[1]].kind
      BY <2>7, <2>8, <3>0 DEF MergeInv
    <3>2. CASE rep[c] \in {a, b}
      <4>1. rep[d] \in {a, b}
        BY <2>10, <2>11, <2>12, <3>2
      <4> QED
        BY <3>1, <3>2, <4>1
    <3>3. CASE rep[c] \notin {a, b}
      <4>1. rep[d] \notin {a, b}
        BY <2>10, <2>11, <2>12, <3>3
      <4>2. rep[c] = rep[d]
        BY <2>11, <2>12, <3>3, <4>1
      <4> QED
        BY <4>2 DEF MergeInv
    <3> QED
      BY <3>2, <3>3
  <2>13. \A k \in 1..Len(todo') : todo'[k] \in With("same_entity")
    BY <2>1, <2>3, <2>5 DEF MergeInv, Late
  <2>14. ASSUME NEW q \in With("same_entity")
         PROVE  rep'[q[1]] = rep'[q[2]] \/ \E k \in 1..Len(todo') : todo'[k] = q
    <3>1. q \in Pairs
      BY DataTypes
    <3>2. q[1] \in Candidates /\ q[2] \in Candidates
      BY <3>1, PairsAreFinite
    <3>3. CASE rep[q[1]] = rep[q[2]]
      BY <2>11, <3>2, <3>3
    <3>4. ASSUME NEW k \in 1..Len(t), t[k] = q
          PROVE  rep'[q[1]] = rep'[q[2]] \/ \E l \in 1..Len(todo') : todo'[l] = q
      <4>1. CASE k = 1
        <5>1. rep[q[1]] = a /\ rep[q[2]] = b
          BY <2>4, <2>8, <3>4, <4>1
        <5> QED
          BY <2>11, <3>2, <5>1
      <4>2. CASE k # 1
        <5>1. k - 1 \in 1..Len(todo') /\ (k - 1) + 1 = k
          BY <2>5, <4>2
        <5> QED
          BY <2>5, <3>4, <5>1
      <4> QED
        BY <4>1, <4>2
    <3>5. rep[q[1]] = rep[q[2]] \/ \E k \in 1..Len(t) : t[k] = q
      BY <2>1, <2>3 DEF MergeInv, Late
    <3> QED
      BY <3>3, <3>4, <3>5
  <2> QED
    BY <2>1, <2>2, <2>12, <2>13, <2>14 DEF MergeInv
<1>6. ASSUME UNCHANGED <<index, plan, decided, todo, rep>>, stage' \in Late => stage \in Late
      PROVE  MergeInv'
  <2>1. \A v : With(v)' = With(v)
    BY <1>6, StillCovered
  <2>2. stage' \in Late => Covered(plan)'
    BY <1>6, StillCovered DEF MergeInv
  <2> QED
    BY <1>6, <2>1, <2>2 DEF MergeInv
<1>7. CASE Finalize \/ Publish \/ UNCHANGED vars
    BY <1>6, <1>7 DEF Finalize, Publish, vars, Late
<1> QED
    BY <1>2, <1>3, <1>4, <1>5, <1>7 DEF Next

\* The entity map of unchanged data.
LEMMA SameEntityMap ==
    ASSUME UNCHANGED <<index, decided, rep>>
    PROVE  EntityMap' = EntityMap /\ Conflicts' = Conflicts
PROOF
<1>1. Nodes' = Nodes /\ \A v : With(v)' = With(v)
    BY DEF Nodes, With
<1>2. \A c : Component(c)' = Component(c)
    BY <1>1 DEF Component
<1>3. \A c : Uncertain(c)' <=> Uncertain(c)
    BY <1>1, <1>2 DEF Uncertain
<1>4. \A S : ClosedGroup(S)' <=> ClosedGroup(S)
    BY <1>1, <1>2 DEF ClosedGroup
<1>5. \A c : Group(c)' = Group(c)
    BY <1>1, <1>4 DEF Group
<1>6. \A c : Resolved(c)' <=> Resolved(c)
    BY <1>1, <1>3 DEF Resolved
<1>7. \A c : Members(c)' = Members(c)
    BY <1>1, <1>2, <1>5, <1>6 DEF Members
<1>8. \A c : Series(c)' = Series(c)
    BY <1>6 DEF Series
<1>9. \A S : First(S)' = First(S)
    BY DEF First
<1>10. \A m, c : Number(m, c)' = Number(m, c)
    BY <1>8, <1>9 DEF Number
<1>11. \A m, c : TargetOf(m, c)' = TargetOf(m, c)
    BY <1>6, <1>10 DEF TargetOf
<1>12. EntityMap' = EntityMap
    BY <1>7, <1>11 DEF EntityMap
<1>13. Conflicts' = Conflicts
    BY <1>1 DEF Conflicts
<1> QED
    BY <1>12, <1>13

\* A step keeps the map that of the decisions.
LEMMA MapStep == MapInv /\ [Next]_vars => MapInv'
PROOF
<1> SUFFICES ASSUME MapInv, [Next]_vars PROVE MapInv'
    OBVIOUS
<1>1. CASE Plan \/ AuditFails \/ Answers \/ Reject \/ Fail \/ Resolve \/ Merge
    BY <1>1 DEF MapInv, Plan, AuditFails, Answers, Answer, Reject, Fail, Calls, Resolve, Merge
<1>2. ASSUME UNCHANGED <<index, decided, rep>>, map' = EntityMap, Clean(map'), todo' = <<>>
      PROVE  MapInv'
  <2>1. map' = EntityMap'
    BY <1>2, SameEntityMap
  <2>2. Clean(map)'
    BY <1>2, SameEntityMap DEF Clean
  <2> QED
    BY <1>2, <2>1, <2>2 DEF MapInv
<1>3. CASE Finalize
  <2>1. CASE Clean(map')
    BY <1>2, <1>3, <2>1 DEF Finalize
  <2>2. CASE ~Clean(map')
    BY <1>3, <2>2 DEF Finalize, MapInv
  <2> QED
    BY <2>1, <2>2
<1>4. CASE Publish \/ UNCHANGED vars
  <2>1. UNCHANGED <<index, decided, rep, map, todo>>
        /\ (stage' \in {"finalized", "published", "refused"} =>
                stage \in {"finalized", "published", "refused"})
    BY <1>4 DEF Publish, vars
  <2>2. CASE stage \notin {"finalized", "published", "refused"}
    BY <2>1, <2>2 DEF MapInv
  <2>3. CASE stage \in {"finalized", "published", "refused"}
    BY <1>2, <2>1, <2>3 DEF MapInv
  <2> QED
    BY <2>2, <2>3
<1> QED
    BY <1>1, <1>3, <1>4 DEF Next

\* The invariant holds throughout, for every instance.
THEOREM Invariance == Spec => []IInv
PROOF
<1>1. Init => IInv
    BY InitIInv
<1>2. IInv /\ [Next]_vars => IInv'
  <2> SUFFICES ASSUME IInv, [Next]_vars PROVE IInv'
    OBVIOUS
  <2>1. TypeOK' /\ PlanInv'
    BY TypeStep, PlanStep DEF IInv
  <2> QED
    BY <2>1, AskedStep, EvidenceStep, MergeStep, MapStep DEF IInv
<1> QED
    BY <1>1, <1>2, PTL DEF Spec

\* The variables keep their types: decisions and blocks are about pairs of
\* candidates, evidence is a sequence of refs, targets are of the two forms.
THEOREM TypeCorrectness == Spec => []TypeOK
PROOF
<1>1. IInv => TypeOK
    BY DEF IInv
<1> QED
    BY <1>1, Invariance, PTL

\* _verify_finalization_bundle: what a run without findings finalizes, readers
\* of CURRENT accept, unless it was planned with constraints they do not know.
THEOREM CleanRunsVerify == Spec => []RunsVerify
PROOF
<1>1. Init => RunsVerify
    BY DEF Init, RunsVerify
<1>2. IInv /\ IInv' /\ RunsVerify /\ [Next]_vars => RunsVerify'
  <2> SUFFICES ASSUME IInv, RunsVerify, [Next]_vars, stage' = "refused", hard' = {} PROVE FALSE
    BY DEF RunsVerify
  <2>1. CASE Publish
    <3>1. stage = "finalized" /\ ~Verified /\ hard = {}
      BY <2>1 DEF Publish
    <3>2. Planned /\ Covered(plan) /\ map = EntityMap /\ Clean(map) /\ EvidenceIsBound
      BY <3>1 DEF IInv, PlanInv, MergeInv, MapInv, Late
    <3> QED
      BY <3>1, <3>2 DEF Verified, Planned
  <2>2. CASE ~Publish
    <3>1. stage = "refused" /\ hard = {}
      BY <2>2 DEF Next, vars, Plan, AuditFails, Answers, Answer, Reject, Fail, Calls,
                  Resolve, Merge, Finalize
    <3> QED
      BY <3>1 DEF RunsVerify
  <2> QED
    BY <2>1, <2>2
<1> QED
    BY <1>1, <1>2, Invariance, PTL DEF Spec

\* resolve_semantic_ambiguity, pack_semantic_pairs_v1: the provider is asked
\* about open pairs only, about each in one block, within the limits and at
\* most MaxRounds times, and about all of them before anything is finalized.
THEOREM OpenPairsAreAsked == Spec => []ProviderIsAskedWhatIsOpen
PROOF
<1>1. IInv => ProviderIsAskedWhatIsOpen
  <2> SUFFICES ASSUME IInv PROVE ProviderIsAskedWhatIsOpen
    OBVIOUS
  <2> USE DEF IInv
  <2>1. CASE ~Planned
    <3>1. asked = <<>> /\ stage \in {"plan", "failed"}
      BY <2>1 DEF PlanInv, Unplanned
    <3>2. ASSUME NEW p \in Pairs
          PROVE  LET calls == {k \in DOMAIN asked : p \in ToSet(asked[k])}
                 IN Cardinality(calls) \leq MaxRounds /\ Cardinality({asked[k] : k \in calls}) \leq 1
      <4> DEFINE calls == {k \in DOMAIN asked : p \in ToSet(asked[k])}
      <4>1. calls = {} /\ {asked[k] : k \in calls} = {}
        BY <3>1
      <4>2. 0 \leq MaxRounds /\ Cardinality({}) = 0
        BY FS_EmptySet, DataTypes
      <4> HIDE DEF calls
      <4>3. Cardinality(calls) \leq MaxRounds /\ Cardinality({asked[k] : k \in calls}) \leq 1
        BY <4>1, <4>2
      <4> QED
        BY <4>3 DEF calls
    <3>3. \A k \in DOMAIN asked : FALSE
      BY <3>1
    <3> QED
      BY <3>1, <3>2, <3>3 DEF ProviderIsAskedWhatIsOpen
  <2>2. CASE Planned
    <3>1. /\ asked \in Seq(Seq(Pairs)) /\ DOMAIN asked = 1..Len(asked)
          /\ WellPacked(blocks, Undecided(plan)) /\ Len(blocks) \in Nat
      BY <2>2, PlannedProperties DEF TypeOK
    <3>2. ASSUME NEW k \in DOMAIN asked
          PROVE  /\ ToSet(asked[k]) \subseteq Undecided(plan)
                 /\ Len(asked[k]) \in 1..MaxPairs
                 /\ Cardinality(UNION {{p[1], p[2]} : p \in ToSet(asked[k])}) \leq MaxCandidates
      <4>1. PICK j \in 1..Len(blocks) : asked[k] = blocks[j]
        BY <3>1 DEF AskedInv
      <4> QED
        BY <3>1, <4>1 DEF WellPacked, CandidatesOf
    <3>3. ASSUME NEW p \in Pairs
          PROVE  LET calls == {k \in DOMAIN asked : p \in ToSet(asked[k])}
                 IN Cardinality(calls) \leq MaxRounds /\ Cardinality({asked[k] : k \in calls}) \leq 1
      <4> DEFINE calls == {k \in DOMAIN asked : p \in ToSet(asked[k])}
                 told == {asked[k] : k \in calls}
      <4>1. CASE calls = {}
        <5>1. told = {}
          BY <4>1
        <5>2. 0 \leq MaxRounds /\ Cardinality({}) = 0
          BY FS_EmptySet, DataTypes
        <5> HIDE DEF calls, told
        <5>3. Cardinality(calls) \leq MaxRounds /\ Cardinality(told) \leq 1
          BY <4>1, <5>1, <5>2
        <5> QED
          BY <5>3 DEF calls, told
      <4>2. CASE calls # {}
        <5>1. PICK l \in 1..Len(asked) : p \in ToSet(asked[l])
          BY <3>1, <4>2
        <5>2. PICK j \in 1..Len(blocks) : asked[l] = blocks[j]
          BY <5>1 DEF AskedInv
        <5>3. ASSUME NEW k \in 1..Len(asked), p \in ToSet(asked[k]) PROVE asked[k] = blocks[j]
          <6>1. PICK i \in 1..Len(blocks) : asked[k] = blocks[i]
            BY <5>3 DEF AskedInv
          <6>2. i # j => ToSet(blocks[i]) \cap ToSet(blocks[j]) = {}
            BY <3>1 DEF WellPacked
          <6> QED
            BY <5>1, <5>2, <5>3, <6>1, <6>2
        <5>4. calls \subseteq CallsFor(asked, blocks[j])
          BY <3>1, <5>3 DEF CallsFor
        <5>5. CallsFor(asked, blocks[j]) \subseteq calls
          BY <3>1, <5>1, <5>2 DEF CallsFor
        <5>6. told = {blocks[j]}
          BY <3>1, <5>1, <5>2, <5>3
        <5>7. Cardinality({blocks[j]}) = 1
          BY FS_Singleton
        <5> HIDE DEF calls, told
        <5>8. calls = CallsFor(asked, blocks[j])
          BY <5>4, <5>5
        <5>9. Cardinality(calls) \leq MaxRounds /\ Cardinality(told) \leq 1
          BY <5>6, <5>7, <5>8 DEF AskedInv
        <5> QED
          BY <5>9 DEF calls, told
      <4> QED
        BY <4>1, <4>2
    <3>4. ASSUME stage \in {"merge", "finalized", "published"}
          PROVE  UNION {ToSet(asked[k]) : k \in DOMAIN asked} = Undecided(plan)
      <4>1. block > Len(blocks) /\ block \in Nat
        BY <3>4 DEF AskedInv, Late, TypeOK
      <4>2. ASSUME NEW p \in Undecided(plan) PROVE \E k \in DOMAIN asked : p \in ToSet(asked[k])
        <5>1. PICK j \in 1..Len(blocks) : p \in ToSet(blocks[j])
          BY <3>1 DEF WellPacked
        <5>2. j < block
          BY <3>1, <4>1
        <5>3. PICK k \in 1..Len(asked) : asked[k] = blocks[j]
          BY <5>2 DEF AskedInv
        <5> QED
          BY <3>1, <5>1, <5>3
      <4> QED
        BY <3>2, <4>2
    <3> QED
      BY <3>2, <3>3, <3>4 DEF ProviderIsAskedWhatIsOpen
  <2> QED
    BY <2>1, <2>2
<1> QED
    BY <1>1, Invariance, PTL

-----------------------------------------------------------------------------
(* The entity map.                                                         *)

\* A run that has a map: its decisions join like with like, what is the same
\* is in one component, and the map has no finding.
Settled ==
    /\ TypeOK
    /\ \A p \in DOMAIN decided :
           /\ p[1] \in Nodes /\ p[2] \in Nodes
           /\ index[p[1]].kind = index[p[2]].kind
    /\ \A p \in With("same_entity") : rep[p[1]] = rep[p[2]]
    /\ \A c, d \in Candidates : rep[c] = rep[d] => index[c].kind = index[d].kind
    /\ map = EntityMap
    /\ Clean(map)

\* A run that finalized is settled.
LEMMA FinalizedIsSettled ==
    ASSUME IInv, stage \in {"finalized", "published"}
    PROVE  Settled /\ Planned /\ Covered(plan)
PROOF
<1> USE DEF IInv
<1>1. Planned /\ Covered(plan) /\ todo = <<>> /\ map = EntityMap /\ Clean(map)
    BY DEF PlanInv, MergeInv, MapInv, Late
<1>2. ASSUME NEW p \in DOMAIN decided
      PROVE  /\ p[1] \in Nodes /\ p[2] \in Nodes
             /\ index[p[1]].kind = index[p[2]].kind
  <2>1. p \in Pairs /\ Mergeable(index, p)
    BY <1>1, PlannedProperties DEF Covered
  <2> QED
    BY <2>1, PairsAreFinite DEF Mergeable, Nodes
<1>3. \A k \in 1..Len(todo) : FALSE
    BY <1>1
<1>4. \A p \in With("same_entity") : rep[p[1]] = rep[p[2]]
    BY <1>3 DEF MergeInv, Late
<1> QED
    BY <1>1, <1>2, <1>4 DEF Settled, MergeInv

\* Nodes of one component share all that depends on it.
LEMMA ComponentProperties ==
    ASSUME Settled, NEW c \in Nodes, NEW d \in Nodes, rep[c] = rep[d]
    PROVE  /\ Component(c) = Component(d) /\ d \in Component(c)
           /\ Uncertain(c) <=> Uncertain(d)
           /\ Group(c) = Group(d)
           /\ index[c].kind = index[d].kind
PROOF
<1>1. Component(c) = Component(d) /\ c \in Component(d) /\ d \in Component(c)
    BY DEF Component
<1>2. index[c].kind = index[d].kind
    BY DEF Settled, Nodes
<1>3. \A S \in SUBSET Nodes : ClosedGroup(S) => (c \in S <=> d \in S)
    BY <1>1 DEF ClosedGroup
<1>4. Group(c) = Group(d)
    BY <1>3 DEF Group
<1>5. Uncertain(c) <=> Uncertain(d)
    BY <1>1 DEF Uncertain
<1> QED
    BY <1>1, <1>2, <1>4, <1>5

\* A group is the least closed set of nodes around each of its members.
LEMMA GroupProperties ==
    ASSUME Settled, NEW c \in Nodes
    PROVE  /\ c \in Group(c) /\ Group(c) \subseteq Nodes
           /\ \A S \in SUBSET Nodes : c \in S /\ ClosedGroup(S) => Group(c) \subseteq S
           /\ ClosedGroup(Group(c))
           /\ \A d \in Group(c) : Group(d) = Group(c)
PROOF
<1>1. \A x \in Nodes : /\ x \in Group(x) /\ Group(x) \subseteq Nodes
                       /\ \A S \in SUBSET Nodes : x \in S /\ ClosedGroup(S) => Group(x) \subseteq S
    BY DEF Group
<1>2. \A p \in With("uncertain") : p[1] \in Nodes /\ p[2] \in Nodes
    BY DEF With, Settled
<1>3. ASSUME NEW x \in Nodes PROVE ClosedGroup(Group(x))
  <2>1. ASSUME NEW y \in Group(x), NEW z \in Component(y) PROVE z \in Group(x)
    <3>1. z \in Nodes
      BY DEF Component
    <3>2. \A S \in SUBSET Nodes : x \in S /\ ClosedGroup(S) => z \in S
      BY <2>1 DEF Group, ClosedGroup
    <3> QED
      BY <3>1, <3>2 DEF Group
  <2>2. ASSUME NEW p \in With("uncertain") PROVE p[1] \in Group(x) <=> p[2] \in Group(x)
    <3>1. \A S \in SUBSET Nodes : ClosedGroup(S) => (p[1] \in S <=> p[2] \in S)
      BY DEF ClosedGroup
    <3> QED
      BY <1>2, <3>1 DEF Group
  <2> QED
    BY <2>1, <2>2 DEF ClosedGroup
<1>4. ASSUME NEW d \in Group(c) PROVE Group(d) = Group(c)
  <2>1. d \in Nodes /\ Group(d) \subseteq Group(c)
    BY <1>1, <1>3
  <2>2. c \in Group(d)
    <3> SUFFICES ASSUME c \notin Group(d) PROVE FALSE
      OBVIOUS
    <3> DEFINE S == Nodes \ Group(d)
    <3>1. ClosedGroup(Group(d))
      BY <1>3, <2>1
    <3>2. \A x \in S : \A y \in Component(x) : y \in S
      <4> SUFFICES ASSUME NEW x \in S, NEW y \in Component(x), y \in Group(d) PROVE FALSE
        BY DEF Component
      <4>1. x \in Component(y)
        BY DEF Component
      <4> QED
        BY <3>1, <4>1 DEF ClosedGroup
    <3>3. \A p \in With("uncertain") : p[1] \in S <=> p[2] \in S
      BY <1>2, <3>1 DEF ClosedGroup
    <3>4. c \in S /\ S \in SUBSET Nodes
      OBVIOUS
    <3>5. d \notin S
      BY <1>1, <2>1
    <3> HIDE DEF S
    <3>6. ClosedGroup(S)
      BY <3>2, <3>3 DEF ClosedGroup
    <3> QED
      BY <1>1, <3>4, <3>5, <3>6
  <2> QED
    BY <1>1, <1>3, <2>1, <2>2
<1> QED
    BY <1>1, <1>3, <1>4

\* Entities partition the candidates, and are of one kind and one series.
LEMMA MembersProperties ==
    ASSUME Settled, NEW c \in Candidates
    PROVE  /\ c \in Members(c) /\ Members(c) \subseteq Candidates
           /\ \A d \in Members(c) : /\ Members(d) = Members(c)
                                    /\ Resolved(d) <=> Resolved(c)
                                    /\ index[d].kind = index[c].kind
PROOF
<1>0. Nodes \subseteq Candidates
    BY DEF Nodes
<1>1. CASE c \notin Nodes
    BY <1>1 DEF Members
<1>2. CASE c \in Nodes /\ Resolved(c)
  <2>1. Members(c) = Component(c) /\ c \in Component(c) /\ Component(c) \subseteq Nodes
    BY <1>2 DEF Members, Component
  <2>2. ASSUME NEW d \in Component(c)
        PROVE  Members(d) = Members(c) /\ Resolved(d) /\ index[d].kind = index[c].kind
    <3>1. d \in Nodes /\ rep[c] = rep[d]
      BY DEF Component
    <3>2. Resolved(d)
      BY <1>2, <3>1, ComponentProperties DEF Resolved
    <3> QED
      BY <1>2, <2>1, <3>1, <3>2, ComponentProperties DEF Members
  <2> QED
    BY <1>0, <1>2, <2>1, <2>2
<1>3. CASE c \in Nodes /\ ~Resolved(c)
  <2>1. Members(c) = Group(c)
    BY <1>3 DEF Members
  <2> DEFINE U == {x \in Nodes : ~Resolved(x) /\ index[x].kind = index[c].kind}
  <2>2. \A x \in U : \A y \in Component(x) : y \in U
    <3> TAKE x \in U
    <3> TAKE y \in Component(x)
    <3>1. x \in Nodes /\ y \in Nodes /\ rep[x] = rep[y]
      BY DEF Component
    <3> QED
      BY <3>1, ComponentProperties DEF Resolved
  <2>3. ASSUME NEW p \in With("uncertain") PROVE p[1] \in U <=> p[2] \in U
    <3>1. p[1] \in Nodes /\ p[2] \in Nodes /\ index[p[1]].kind = index[p[2]].kind
      BY DEF With, Settled
    <3>2. p[1] \in Component(p[1]) /\ p[2] \in Component(p[2])
      BY <3>1 DEF Component
    <3>3. ~Resolved(p[1]) /\ ~Resolved(p[2])
      BY <3>2 DEF Resolved, Uncertain
    <3> QED
      BY <3>1, <3>3
  <2>4. c \in U /\ U \in SUBSET Nodes
    BY <1>3
  <2>5. \A d \in U : d \in Nodes /\ ~Resolved(d) /\ index[d].kind = index[c].kind
    OBVIOUS
  <2> HIDE DEF U
  <2>6. ClosedGroup(U)
    BY <2>2, <2>3 DEF ClosedGroup
  <2>7. Group(c) \subseteq U
    BY <1>3, <2>4, <2>6, GroupProperties
  <2>8. ASSUME NEW d \in Group(c)
        PROVE  Members(d) = Members(c) /\ ~Resolved(d) /\ index[d].kind = index[c].kind
    <3>1. Group(d) = Group(c)
      BY <1>3, GroupProperties
    <3> QED
      BY <2>1, <2>5, <2>7, <3>1 DEF Members
  <2> QED
    BY <1>0, <1>3, <2>1, <2>8, GroupProperties
<1> QED
    BY <1>1, <1>2, <1>3

\* The first member of an entity.
LEMMA FirstProperties ==
    ASSUME Settled, NEW S \in SUBSET Candidates, S # {}
    PROVE  First(S) \in S /\ \A d \in S : index[First(S)].at \leq index[d].at
PROOF
<1> DEFINE T == {index[c].at : c \in S}
<1>1. T \subseteq Nat /\ T # {}
    BY DataTypes DEF Settled
<1>2. PICK x \in T : \A y \in T : x \leq y
  <2> HIDE DEF T
  <2> QED
    BY <1>1, LeastExists
<1>3. \E c \in S : \A d \in S : index[c].at \leq index[d].at
    BY <1>2
<1> QED
    BY <1>3 DEF First

\* Where the entity of a candidate first appears.
At(c) == index[First(Members(c))].at

\* The entities of c's series that are numbered up to c's.
UpTo(c) ==
    {S \in {Members(d) : d \in {e \in Candidates : Series(e) = Series(c)}} :
         index[First(S)].at \leq At(c)}

\* The number of a target counts the entities of its series up to its own.
LEMMA NumberProperties ==
    ASSUME Settled, NEW c \in Candidates
    PROVE  /\ EntityMap[c].number = Cardinality(UpTo(c)) /\ IsFiniteSet(UpTo(c))
           /\ Cardinality(UpTo(c)) \in Nat
           /\ EntityMap[c].status = "resolved" <=> Resolved(c)
           /\ EntityMap[c].status = "unresolved" <=> ~Resolved(c)
           /\ Resolved(c) => EntityMap[c].kind = index[c].kind
           /\ EntityMap[c] = IF Resolved(c)
                  THEN [status |-> "resolved", kind |-> index[c].kind, number |-> Cardinality(UpTo(c))]
                  ELSE [status |-> "unresolved", number |-> Cardinality(UpTo(c))]
PROOF
<1> DEFINE m == [x \in Candidates |-> Members(x)]
           F == {e \in Candidates : Series(e) = Series(c)}
<1>1. EntityMap[c] = TargetOf(m, c)
    BY DEF EntityMap
<1>2. {m[d] : d \in F} = {Members(d) : d \in F} /\ m[c] = Members(c)
    OBVIOUS
<1>3. Number(m, c) = Cardinality(UpTo(c))
  <2>1. Number(m, c) = Cardinality({S \in {m[d] : d \in F} :
                                        index[First(S)].at \leq index[First(m[c])].at})
    BY DEF Number
  <2>2. UpTo(c) = {S \in {Members(d) : d \in F} : index[First(S)].at \leq At(c)}
    BY DEF UpTo
  <2> HIDE DEF m, F
  <2> QED
    BY <1>2, <2>1, <2>2 DEF At
<1>4. IsFiniteSet(UpTo(c)) /\ Cardinality(UpTo(c)) \in Nat
  <2>1. IsFiniteSet(SUBSET Candidates)
    BY CandidatesAreNumbers, FS_SUBSET
  <2>2. UpTo(c) \subseteq SUBSET Candidates
    BY MembersProperties DEF UpTo
  <2> QED
    BY <2>1, <2>2, FS_Subset, FS_CardinalityType
<1> HIDE DEF m
<1>5. CASE Resolved(c)
    BY <1>1, <1>3, <1>4, <1>5 DEF TargetOf
<1>6. CASE ~Resolved(c)
    BY <1>1, <1>3, <1>4, <1>6 DEF TargetOf
<1> QED
    BY <1>5, <1>6

\* Two candidates have one target exactly if they are of one entity, and in a
\* series numbers grow with the first appearance.
LEMMA TargetProperties ==
    ASSUME Settled, NEW c \in Candidates, NEW d \in Candidates
    PROVE  /\ EntityMap[c] = EntityMap[d] <=> Members(c) = Members(d)
           /\ Series(c) = Series(d) /\ EntityMap[c].number < EntityMap[d].number => At(c) < At(d)
PROOF
<1>1. \A x \in Candidates : /\ First(Members(x)) \in Members(x) /\ First(Members(x)) \in Candidates
                            /\ At(x) \in Nat
  <2> TAKE x \in Candidates
  <2>1. Members(x) \in SUBSET Candidates /\ Members(x) # {}
    BY MembersProperties
  <2>2. First(Members(x)) \in Members(x)
    BY <2>1, FirstProperties
  <2> QED
    BY <2>1, <2>2, DataTypes DEF At, Settled
<1>2. ASSUME NEW x \in Candidates, NEW y \in Candidates, Series(x) = Series(y), At(x) < At(y)
      PROVE  Cardinality(UpTo(x)) < Cardinality(UpTo(y))
  <2>1. Members(y) \in UpTo(y)
    BY <1>1 DEF UpTo, At
  <2>2. Members(y) \notin UpTo(x)
    BY <1>1, <1>2 DEF UpTo, At
  <2>3. UpTo(x) \subseteq UpTo(y)
    <3> SUFFICES ASSUME NEW S \in UpTo(x) PROVE S \in UpTo(y)
      OBVIOUS
    <3>1. PICK e \in Candidates : S = Members(e) /\ Series(e) = Series(x)
      BY DEF UpTo
    <3>2. At(e) \leq At(x)
      BY <3>1 DEF UpTo, At
    <3>3. At(e) \leq At(y)
      BY <1>1, <1>2, <3>2
    <3> QED
      BY <1>2, <3>1, <3>3 DEF UpTo, At
  <2>4. IsFiniteSet(UpTo(y) \ {Members(y)})
        /\ Cardinality(UpTo(y) \ {Members(y)}) = Cardinality(UpTo(y)) - 1
    BY <2>1, NumberProperties, FS_RemoveElement
  <2>5. UpTo(x) \in SUBSET (UpTo(y) \ {Members(y)})
    BY <2>2, <2>3
  <2>6. Cardinality(UpTo(x)) \leq Cardinality(UpTo(y)) - 1
    BY <2>4, <2>5, FS_Subset
  <2>7. Cardinality(UpTo(x)) \in Nat /\ Cardinality(UpTo(y)) \in Nat
    BY NumberProperties
  <2> QED
    BY <2>6, <2>7
<1>3. ASSUME Series(c) = Series(d), At(c) = At(d) PROVE Members(c) = Members(d)
  <2>1. First(Members(c)) = First(Members(d))
    BY <1>1, <1>3, DataTypes DEF At, IsIndex, Settled
  <2> QED
    BY <1>1, <2>1, MembersProperties
<1>4. \A x \in Candidates : Resolved(x) <=> Series(x) # "unresolved"
    BY DEF Series, Resolved, Nodes
<1>5. ASSUME EntityMap[c] = EntityMap[d] PROVE Members(c) = Members(d)
  <2>1. Cardinality(UpTo(c)) = Cardinality(UpTo(d))
    BY <1>5, NumberProperties
  <2>2. Series(c) = Series(d)
    BY <1>5, NumberProperties DEF Series
  <2>3. ~(At(c) < At(d)) /\ ~(At(d) < At(c))
    <3>1. PICK n \in Nat : n = Cardinality(UpTo(c)) /\ n = Cardinality(UpTo(d))
      BY <2>1, NumberProperties
    <3>2. ~(n < n)
      OBVIOUS
    <3> QED
      BY <1>2, <2>2, <3>1, <3>2
  <2> QED
    BY <1>1, <1>3, <2>2, <2>3
<1>6. ASSUME Members(c) = Members(d) PROVE EntityMap[c] = EntityMap[d]
  <2>1. (Resolved(d) <=> Resolved(c)) /\ index[d].kind = index[c].kind
    BY <1>6, MembersProperties
  <2>2. Series(d) = Series(c)
    BY <2>1 DEF Series
  <2>3. UpTo(c) = UpTo(d)
    BY <1>6, <2>2 DEF UpTo, At
  <2>4. EntityMap[c] = IF Resolved(c)
            THEN [status |-> "resolved", kind |-> index[c].kind, number |-> Cardinality(UpTo(c))]
            ELSE [status |-> "unresolved", number |-> Cardinality(UpTo(c))]
    BY NumberProperties
  <2>5. EntityMap[d] = IF Resolved(d)
            THEN [status |-> "resolved", kind |-> index[d].kind, number |-> Cardinality(UpTo(d))]
            ELSE [status |-> "unresolved", number |-> Cardinality(UpTo(d))]
    BY NumberProperties
  <2> QED
    BY <2>1, <2>3, <2>4, <2>5
<1>7. ASSUME Series(c) = Series(d), EntityMap[c].number < EntityMap[d].number
      PROVE  At(c) < At(d)
  <2>1. Cardinality(UpTo(c)) < Cardinality(UpTo(d))
        /\ Cardinality(UpTo(c)) \in Nat /\ Cardinality(UpTo(d)) \in Nat
    BY <1>7, NumberProperties
  <2>2. ~(At(d) < At(c))
    BY <1>2, <1>7, <2>1
  <2>3. At(c) # At(d)
    <3> SUFFICES ASSUME At(c) = At(d) PROVE FALSE
      OBVIOUS
    <3>1. UpTo(c) = UpTo(d)
      BY <1>7 DEF UpTo
    <3> QED
      BY <2>1, <3>1
  <2> QED
    BY <1>1, <2>2, <2>3
<1> QED
    BY <1>5, <1>6, <1>7

\* publish_validated: an EntityMap that may become CURRENT puts candidates
\* decided to be the same, and those that share a strong name, under one
\* target, no two that were told apart under one canonical entity, and a pair
\* in doubt under one unresolved entity, through any chain of decisions.
THEOREM DecisionsAreHonoured == Spec => []MapHonoursDecisions
PROOF
<1>1. IInv => MapHonoursDecisions
  <2> SUFFICES ASSUME IInv, stage \in {"finalized", "published"}
               PROVE  /\ \A p \in With("same_entity") : map[p[1]] = map[p[2]]
                      /\ \A p \in With("different_entity") :
                             map[p[1]].status = "resolved" => map[p[1]] # map[p[2]]
                      /\ \A p \in With("uncertain") :
                             map[p[1]].status = "unresolved" /\ map[p[1]] = map[p[2]]
                      /\ hard = {} => \A p \in Pairs :
                             Mergeable(index, p) /\ SharedKeys(index, p) \cap StrongKeys # {}
                             => map[p[1]] = map[p[2]]
    BY DEF MapHonoursDecisions
  <2>1. Settled /\ Planned /\ Covered(plan) /\ map = EntityMap /\ Conflicts = {}
    BY FinalizedIsSettled DEF Settled, Clean
  <2>2. ASSUME NEW p \in DOMAIN decided
        PROVE  /\ p[1] \in Nodes /\ p[2] \in Nodes
               /\ p[1] \in Candidates /\ p[2] \in Candidates
    BY <2>1 DEF Settled, Nodes
  <2>3. ASSUME NEW p \in With("same_entity") PROVE map[p[1]] = map[p[2]]
    <3>1. p[1] \in Nodes /\ p[2] \in Nodes /\ p[1] \in Candidates /\ p[2] \in Candidates
      BY <2>2 DEF With
    <3>2. rep[p[1]] = rep[p[2]]
      BY <2>1 DEF Settled
    <3>3. Members(p[1]) = Members(p[2])
      BY <2>1, <3>1, <3>2, ComponentProperties DEF Members, Resolved
    <3> QED
      BY <2>1, <3>1, <3>3, TargetProperties
  <2>4. ASSUME NEW p \in With("different_entity"), map[p[1]].status = "resolved",
               map[p[1]] = map[p[2]]
        PROVE  FALSE
    <3>1. p[1] \in Nodes /\ p[2] \in Nodes /\ p[1] \in Candidates /\ p[2] \in Candidates
      BY <2>2 DEF With
    <3>2. Resolved(p[1]) /\ Members(p[1]) = Members(p[2])
      BY <2>1, <2>4, <3>1, NumberProperties, TargetProperties
    <3>3. p[2] \in Component(p[1])
      <4>1. p[2] \in Members(p[2])
        BY <2>1, <3>1, MembersProperties
      <4>2. Members(p[1]) = Component(p[1])
        BY <3>1, <3>2 DEF Members
      <4> QED
        BY <3>2, <4>1, <4>2
    <3>4. p \in Conflicts
      BY <3>3 DEF Component, Conflicts
    <3> QED
      BY <2>1, <3>4
  <2>5. ASSUME NEW p \in With("uncertain")
        PROVE  map[p[1]].status = "unresolved" /\ map[p[1]] = map[p[2]]
    <3>1. p[1] \in Nodes /\ p[2] \in Nodes /\ p[1] \in Candidates /\ p[2] \in Candidates
      BY <2>2 DEF With
    <3>2. ~Resolved(p[1]) /\ ~Resolved(p[2])
      <4>1. p[1] \in Component(p[1]) /\ p[2] \in Component(p[2])
        BY <3>1 DEF Component
      <4> QED
        BY <4>1 DEF Resolved, Uncertain
    <3>3. p[2] \in Group(p[1])
      BY <2>1, <3>1, GroupProperties DEF ClosedGroup
    <3>4. Members(p[1]) = Members(p[2])
      BY <2>1, <3>1, <3>2, <3>3, GroupProperties DEF Members
    <3> QED
      BY <2>1, <3>1, <3>2, <3>4, NumberProperties, TargetProperties
  <2>6. ASSUME hard = {}, NEW p \in Pairs,
               Mergeable(index, p), SharedKeys(index, p) \cap StrongKeys # {}
        PROVE  map[p[1]] = map[p[2]]
    <3>1. p \in Blocked(index, hard) /\ SharedKeys(index, p) # {}
      BY <2>6 DEF Blocked
    <3>2. p \in DOMAIN plan /\ plan[p] = "auto_same"
      BY <2>1, <2>6, <3>1 DEF Planned, PlanOf, StateOf
    <3>3. p \in DOMAIN plan \ Undecided(plan)
      BY <3>2 DEF Undecided
    <3>4. p \in DOMAIN decided /\ decided[p] = Deterministic(plan)[p]
      BY <2>1, <3>3 DEF Covered
    <3>5. decided[p].verdict = "same_entity"
      BY <3>2, <3>3, <3>4, DeterministicProperties
    <3> QED
      BY <2>3, <3>4, <3>5 DEF With
  <2> QED
    BY <2>3, <2>4, <2>5, <2>6
<1> QED
    BY <1>1, Invariance, PTL

\* _assign_canonical_entities, _build_unresolved_entities: ids have no gap, no
\* entity mixes kinds, and ids grow with the first appearance in the text.
THEOREM NumbersFollowTheText == Spec => []IdsFollowTheText
PROOF
<1>1. IInv => IdsFollowTheText
  <2> DEFINE targets == {map[c] : c \in Candidates}
             Less(t) == [t EXCEPT !.number = @ - 1]
  <2> SUFFICES ASSUME IInv, stage \in {"finalized", "published"}
               PROVE  /\ \A t \in targets : t.number = 1
                          \/ \E u \in targets : u = Less(t) /\ Appearance(u) < Appearance(t)
                      /\ \A c, d \in Candidates : map[c] = map[d] => index[c].kind = index[d].kind
    BY DEF IdsFollowTheText
  <2>1. Settled /\ map = EntityMap /\ Clean(map) /\ DOMAIN map = Candidates
    BY FinalizedIsSettled DEF Settled, Clean
  <2>2. ASSUME NEW c \in Candidates
        PROVE  /\ Appearance(map[c]) \in Nat /\ Appearance(map[c]) = At(c)
    <3> DEFINE ats == {index[d].at : d \in {e \in Candidates : map[e] = map[c]}}
    <3>1. ats \subseteq Nat
      BY <2>1, DataTypes DEF Settled
    <3>2. First(Members(c)) \in Members(c) /\ \A d \in Members(c) : At(c) \leq index[d].at
      BY <2>1, MembersProperties, FirstProperties DEF At
    <3>3. At(c) \in ats
      <4>1. PICK f \in Candidates : f = First(Members(c))
        BY <2>1, <3>2, MembersProperties
      <4>2. Members(f) = Members(c)
        BY <2>1, <3>2, <4>1, MembersProperties
      <4>3. map[f] = map[c]
        BY <2>1, <4>2, TargetProperties
      <4> QED
        BY <4>1, <4>3 DEF At
    <3>4. ASSUME NEW x \in ats PROVE At(c) \leq x
      <4>1. PICK d \in Candidates : x = index[d].at /\ map[d] = map[c]
        OBVIOUS
      <4>2. Members(d) = Members(c)
        BY <2>1, <4>1, TargetProperties
      <4>3. d \in Members(c)
        BY <2>1, <4>2, MembersProperties
      <4> QED
        BY <3>2, <4>1, <4>3
    <3>5. Appearance(map[c]) = Min(ats)
      BY DEF Appearance
    <3> HIDE DEF ats
    <3>6. Min(ats) \in ats /\ Min(ats) \leq At(c)
      BY <3>3, <3>4 DEF Min
    <3>7. PICK a \in Nat : a = At(c)
      BY <3>1, <3>3
    <3>8. PICK n \in Nat : n = Min(ats)
      BY <3>1, <3>6
    <3>9. n \leq a /\ a \leq n
      BY <3>4, <3>6, <3>7, <3>8
    <3>10. n = a
      BY <3>9
    <3> QED
      BY <3>5, <3>7, <3>8, <3>10
  <2>3. ASSUME NEW t \in targets, t.number # 1
        PROVE  \E u \in targets : u = Less(t) /\ Appearance(u) < Appearance(t)
    <3>1. PICK c \in Candidates : t = map[c]
      OBVIOUS
    <3>2. t \in Range(map)
      BY <2>1, <3>1 DEF Range
    <3>3. Less(t) \in Range(map)
      BY <2>1, <2>3, <3>2 DEF Clean
    <3>4. PICK d \in Candidates : map[d] = Less(t)
      BY <2>1, <3>3 DEF Range
    <3>5. Series(c) = Series(d) /\ map[d].number < map[c].number
      <4>1. map[c].number \in Nat /\ map[d].number \in Nat
        BY <2>1, NumberProperties
      <4>2. CASE Resolved(c)
        <5>1. map[c] = [status |-> "resolved", kind |-> index[c].kind, number |-> map[c].number]
          BY <2>1, <4>2, NumberProperties
        <5>2. /\ map[d].status = "resolved" /\ map[d].kind = index[c].kind
              /\ map[d].number = map[c].number - 1
          BY <3>1, <3>4, <5>1
        <5>3. Resolved(d) /\ index[d].kind = index[c].kind
          BY <2>1, <5>2, NumberProperties
        <5> QED
          BY <4>1, <4>2, <5>2, <5>3 DEF Series
      <4>3. CASE ~Resolved(c)
        <5>1. map[c] = [status |-> "unresolved", number |-> map[c].number]
          BY <2>1, <4>3, NumberProperties
        <5>2. map[d].status = "unresolved" /\ map[d].number = map[c].number - 1
          BY <3>1, <3>4, <5>1
        <5>3. ~Resolved(d)
          BY <2>1, <5>2, NumberProperties
        <5> QED
          BY <4>1, <4>3, <5>2, <5>3 DEF Series
      <4> QED
        BY <4>2, <4>3
    <3>6. At(d) < At(c)
      BY <2>1, <3>5, TargetProperties
    <3>7. Appearance(map[d]) < Appearance(t)
      BY <2>2, <3>1, <3>6
    <3> QED
      BY <3>4, <3>7
  <2>4. ASSUME NEW c \in Candidates, NEW d \in Candidates, map[c] = map[d]
        PROVE  index[c].kind = index[d].kind
    <3>1. Members(c) = Members(d)
      BY <2>1, <2>4, TargetProperties
    <3> QED
      BY <2>1, <3>1, MembersProperties
  <2> QED
    BY <2>3, <2>4
<1> QED
    BY <1>1, Invariance, PTL

=============================================================================

--------------------------- MODULE CountingLemmas ---------------------------
(* Facts about natural numbers, about how often the members of a set occur *)
(* in a sequence, and about sums, that the proofs about several components *)
(* cite.                                                                   *)
EXTENDS Integers, Sequences, FiniteSets, SequencesExt, FiniteSetTheorems,
        SequenceTheorems, WellFoundedInduction, TLAPS

(* A set of natural numbers has a least element: the induction principle   *)
(* the proofs use, in a form whose parameters are sets.                    *)
LEMMA LeastNat ==
    ASSUME NEW T, T \subseteq Nat, T # {}
    PROVE  \E m \in T : \A k \in T : m <= k
<1>1. PICK n : n \in T /\ n \in Nat
  OBVIOUS
<1> DEFINE Family == {0 .. k : k \in {j \in T : j <= n}}
<1>2. IsFiniteSet(0 .. n)
  BY <1>1, FS_Interval
<1>3. /\ Family \subseteq SUBSET (0 .. n)
      /\ Family # {}
  BY <1>1
<1>4. IsWellFoundedOn(StrictSubsetOrdering(0 .. n), SUBSET (0 .. n))
  <2>1. FiniteSubsetsOf(0 .. n) = SUBSET (0 .. n)
    BY <1>2, FS_FiniteSubsetsOfFinite
  <2>2. IsWellFoundedOn(StrictSubsetOrdering(0 .. n), FiniteSubsetsOf(0 .. n))
    BY FS_StrictSubsetOrderingWellFounded
  <2>3. QED
    BY <2>1, <2>2
<1>5. \E low \in Family :
         \A other \in Family : ~ (<<other, low>> \in StrictSubsetOrdering(0 .. n))
  <2> HIDE DEF Family
  <2>1. QED
    BY <1>3, <1>4, WFMin
<1>6. PICK m \in {j \in T : j <= n} :
         \A other \in Family : ~ (<<other, 0 .. m>> \in StrictSubsetOrdering(0 .. n))
  BY <1>5
<1>7. ASSUME NEW k \in T, k < m
      PROVE  FALSE
  <2>1. k <= n /\ k \in Nat /\ m \in Nat
    BY <1>1, <1>6, <1>7
  <2>2. 0 .. k \in Family /\ 0 .. k \in SUBSET (0 .. n) /\ 0 .. m \in SUBSET (0 .. n)
    BY <2>1, <1>1, <1>6
  <2>3. m \in 0 .. m /\ m \notin 0 .. k /\ 0 .. k \subseteq 0 .. m
    BY <2>1, <1>7
  <2>4. <<0 .. k, 0 .. m>> \in StrictSubsetOrdering(0 .. n)
    BY <2>2, <2>3 DEF StrictSubsetOrdering
  <2>5. QED
    BY <2>2, <2>4, <1>6
<1>8. QED
  BY <1>1, <1>6, <1>7

-----------------------------------------------------------------------------

Spots(q, V) == {k \in DOMAIN q : q[k] \in V}
Count(q, V) == Cardinality(Spots(q, V))

LEMMA SpotsFinite ==
    ASSUME NEW S, NEW q \in Seq(S), NEW V
    PROVE  /\ IsFiniteSet(Spots(q, V))
           /\ Count(q, V) \in Nat
           /\ Count(q, V) = 0 <=> \A k \in DOMAIN q : q[k] \notin V
<1>1. Len(q) \in Nat /\ DOMAIN q = 1 .. Len(q)
  BY LenProperties
<1>2. IsFiniteSet(1 .. Len(q))
  BY <1>1, FS_Interval
<1>3. Spots(q, V) \in SUBSET (1 .. Len(q))
  BY <1>1 DEF Spots
<1>4. IsFiniteSet(Spots(q, V))
  BY <1>2, <1>3, FS_Subset
<1>5. Count(q, V) \in Nat
  BY <1>4, FS_CardinalityType DEF Count
<1>6. Count(q, V) = 0 <=> Spots(q, V) = {}
  BY <1>4, FS_EmptySet DEF Count
<1>7. QED
  BY <1>4, <1>5, <1>6 DEF Spots

(* One place at most, when the sequence never repeats a member of V.       *)
LEMMA CountUnique ==
    ASSUME NEW S, NEW q \in Seq(S), NEW V,
           \A k, l \in DOMAIN q : q[k] \in V /\ q[l] \in V => k = l
    PROVE  /\ Count(q, V) <= 1
           /\ (\E k \in DOMAIN q : q[k] \in V) => Count(q, V) = 1
<1>1. CASE \A k \in DOMAIN q : q[k] \notin V
  BY <1>1, SpotsFinite
<1>2. CASE \E k \in DOMAIN q : q[k] \in V
  <2>1. PICK k \in DOMAIN q : q[k] \in V
    BY <1>2
  <2>2. Spots(q, V) = {k}
    BY <2>1 DEF Spots
  <2>3. Cardinality({k}) = 1
    BY FS_Singleton
  <2>4. QED
    BY <2>2, <2>3 DEF Count
<1>3. QED
  BY <1>1, <1>2

LEMMA CountConcat ==
    ASSUME NEW S, NEW u \in Seq(S), NEW v \in Seq(S), NEW V
    PROVE  Count(u \o v, V) = Count(u, V) + Count(v, V)
<1> DEFINE m == Len(u)
           Moved == {m + k : k \in Spots(v, V)}
<1>1. /\ u \o v \in Seq(S) /\ DOMAIN (u \o v) = 1 .. m + Len(v)
      /\ DOMAIN u = 1 .. m /\ DOMAIN v = 1 .. Len(v)
      /\ m \in Nat /\ Len(v) \in Nat
  BY ConcatProperties, LenProperties
<1>2. \A k \in 1 .. m + Len(v) : (u \o v)[k] = IF k <= m THEN u[k] ELSE v[k - m]
  BY ConcatProperties
<1>3. Spots(u \o v, V) = Spots(u, V) \cup Moved
  <2>1. ASSUME NEW k \in Spots(u \o v, V)
        PROVE  k \in Spots(u, V) \cup Moved
    <3>1. k \in 1 .. m + Len(v) /\ (u \o v)[k] \in V
      BY <1>1 DEF Spots
    <3>2. CASE k <= m
      BY <3>1, <3>2, <1>1, <1>2 DEF Spots
    <3>3. CASE k > m
      <4>1. k - m \in Spots(v, V) /\ k = m + (k - m)
        BY <3>1, <3>3, <1>1, <1>2 DEF Spots
      <4>2. QED
        BY <4>1
    <3>4. QED
      BY <3>1, <3>2, <3>3, <1>1
  <2>2. Spots(u, V) \subseteq Spots(u \o v, V)
    BY <1>1, <1>2 DEF Spots
  <2>3. ASSUME NEW k \in Spots(v, V)
        PROVE  m + k \in Spots(u \o v, V)
    <3>1. k \in 1 .. Len(v) /\ v[k] \in V
      BY <1>1 DEF Spots
    <3>2. m + k \in 1 .. m + Len(v) /\ ~ (m + k <= m) /\ (m + k) - m = k
      BY <3>1, <1>1
    <3>3. QED
      BY <3>1, <3>2, <1>1, <1>2 DEF Spots
  <2>4. QED
    BY <2>1, <2>2, <2>3
<1>4. IsFiniteSet(Spots(u, V)) /\ IsFiniteSet(Spots(v, V))
  BY SpotsFinite
<1>5. IsFiniteSet(Moved) /\ Cardinality(Moved) = Cardinality(Spots(v, V))
  <2> DEFINE move == [k \in Spots(v, V) |-> m + k]
  <2>1. \A k \in Spots(v, V) : k \in Nat
    BY <1>1 DEF Spots
  <2>2. move \in Bijection(Spots(v, V), Moved)
    BY <2>1, <1>1 DEF Bijection, Injection, Surjection, IsInjective
  <2>3. ExistsBijection(Spots(v, V), Moved)
    BY <2>2 DEF ExistsBijection
  <2>4. QED
    BY <2>3, <1>4, FS_Bijection
<1>6. Spots(u, V) \cap Moved = {}
  BY <1>1 DEF Spots
<1>7. Cardinality(Spots(u, V) \cap Moved) = 0
  BY <1>6, FS_EmptySet
<1>8. /\ Cardinality(Spots(u, V) \cup Moved)
           = Cardinality(Spots(u, V)) + Cardinality(Moved) - Cardinality(Spots(u, V) \cap Moved)
  BY <1>4, <1>5, FS_Union
<1>9. Cardinality(Spots(u, V)) \in Nat /\ Cardinality(Moved) \in Nat
  BY <1>4, <1>5, FS_CardinalityType
<1>10. QED
  BY <1>3, <1>5, <1>7, <1>8, <1>9 DEF Count

LEMMA CountEmpty ==
    ASSUME NEW V
    PROVE  Count(<<>>, V) = 0
<1>1. <<>> \in Seq({}) /\ DOMAIN <<>> = {}
  OBVIOUS
<1>2. Spots(<<>>, V) = {}
  BY <1>1 DEF Spots
<1>3. QED
  BY <1>2, FS_EmptySet DEF Count

LEMMA CountAppend ==
    ASSUME NEW S, NEW q \in Seq(S), NEW e \in S, NEW V
    PROVE  Count(Append(q, e), V) = Count(q, V) + (IF e \in V THEN 1 ELSE 0)
<1>1. Append(q, e) = q \o <<e>> /\ <<e>> \in Seq(S)
  BY AppendIsConcat
<1>2. Count(<<e>>, V) = IF e \in V THEN 1 ELSE 0
  <2>1. <<e>> \in Seq(S) /\ DOMAIN <<e>> = {1} /\ <<e>>[1] = e
    OBVIOUS
  <2>2. CASE e \in V
    BY <2>1, <2>2, CountUnique
  <2>3. CASE e \notin V
    BY <2>1, <2>3, SpotsFinite
  <2>4. QED
    BY <2>2, <2>3
<1>3. Count(q \o <<e>>, V) = Count(q, V) + Count(<<e>>, V)
  BY <1>1, CountConcat
<1>4. QED
  BY <1>1, <1>2, <1>3
-----------------------------------------------------------------------------

(* A finite set that Less (a set of pairs) orders totally can be listed in *)
(* that order: each member goes to the place that counts those up to it.   *)
LEMMA ListingExists ==
    ASSUME NEW S, IsFiniteSet(S), NEW Less,
           \A x, y \in S : x # y => <<x, y>> \in Less \/ <<y, x>> \in Less,
           \A x, y \in S : ~ (<<x, y>> \in Less /\ <<y, x>> \in Less),
           \A x, y, z \in S : <<x, y>> \in Less /\ <<y, z>> \in Less => <<x, z>> \in Less
    PROVE  \E q \in [1 .. Cardinality(S) -> S] :
              \A j, k \in 1 .. Cardinality(S) : j < k => <<q[j], q[k]>> \in Less
<1> DEFINE n == Cardinality(S)
           Upto(x) == {y \in S : y = x \/ <<y, x>> \in Less}
           rank == [x \in S |-> Cardinality(Upto(x))]
           Ranks == {rank[x] : x \in S}
<1>1. n \in Nat
  BY FS_CardinalityType
<1>2. ASSUME NEW x \in S
      PROVE  IsFiniteSet(Upto(x)) /\ rank[x] \in 1 .. n
  <2>1. Upto(x) \in SUBSET S /\ x \in Upto(x)
    OBVIOUS
  <2>2. IsFiniteSet(Upto(x)) /\ Cardinality(Upto(x)) <= n
    BY <2>1, FS_Subset
  <2>3. Cardinality(Upto(x)) \in Nat /\ Cardinality(Upto(x)) # 0
    BY <2>1, <2>2, FS_CardinalityType, FS_EmptySet
  <2>4. rank[x] = Cardinality(Upto(x))
    OBVIOUS
  <2> HIDE DEF rank, Upto, n
  <2>5. QED
    BY <1>1, <2>2, <2>3, <2>4
<1>3. ASSUME NEW x \in S, NEW y \in S, <<x, y>> \in Less
      PROVE  rank[x] < rank[y]
  <2>1. Upto(x) \subseteq Upto(y) /\ y \in Upto(y) /\ y \notin Upto(x)
    BY <1>3
  <2>2. Upto(x) \in SUBSET Upto(y) /\ Upto(x) # Upto(y)
    BY <2>1
  <2>3. IsFiniteSet(Upto(y)) /\ rank[x] \in 1 .. n /\ rank[y] \in 1 .. n
    BY <1>2
  <2>4. /\ Cardinality(Upto(x)) <= Cardinality(Upto(y))
        /\ Cardinality(Upto(y)) = Cardinality(Upto(x)) => Upto(x) = Upto(y)
    BY <2>2, <2>3, FS_Subset
  <2>5. rank[x] = Cardinality(Upto(x)) /\ rank[y] = Cardinality(Upto(y))
    OBVIOUS
  <2> HIDE DEF rank, Upto, n
  <2>6. QED
    BY <1>1, <2>2, <2>3, <2>4, <2>5
<1>4. \A x, y \in S : rank[x] = rank[y] => x = y
  <2>1. ASSUME NEW x \in S, NEW y \in S, rank[x] = rank[y], x # y
        PROVE  FALSE
    <3>1. rank[x] < rank[y] \/ rank[y] < rank[x]
      BY <1>3, <2>1
    <3>2. rank[x] \in 1 .. n /\ rank[y] \in 1 .. n
      BY <1>2
    <3> HIDE DEF rank, n
    <3>3. QED
      BY <1>1, <2>1, <3>1, <3>2
  <2>2. QED
    BY <2>1
<1>5. Ranks = 1 .. n
  <2>1. rank \in Bijection(S, Ranks)
    BY <1>4 DEF Bijection, Injection, Surjection, IsInjective
  <2>2. Cardinality(Ranks) = n
    BY <2>1, FS_Bijection DEF ExistsBijection
  <2>3. IsFiniteSet(1 .. n) /\ Cardinality(1 .. n) = n
    BY <1>1, FS_Interval
  <2>4. Ranks \in SUBSET (1 .. n)
    <3>1. \A x \in S : rank[x] \in 1 .. n
      BY <1>2
    <3> HIDE DEF rank, n
    <3>2. QED
      BY <3>1
  <2> HIDE DEF Ranks, n
  <2>5. QED
    BY <2>2, <2>3, <2>4, FS_Subset
<1> DEFINE q == [k \in 1 .. n |-> CHOOSE x \in S : rank[x] = k]
<1>6. \A k \in 1 .. n : q[k] \in S /\ rank[q[k]] = k
  <2>1. ASSUME NEW k \in 1 .. n
        PROVE  q[k] \in S /\ rank[q[k]] = k
    <3>1. \E x \in S : rank[x] = k
      BY <1>5
    <3> HIDE DEF rank
    <3>2. QED
      BY <3>1
  <2>2. QED
    BY <2>1
<1>7. ASSUME NEW j \in 1 .. n, NEW k \in 1 .. n, j < k
      PROVE  <<q[j], q[k]>> \in Less
  <2>1. q[j] \in S /\ q[k] \in S /\ rank[q[j]] = j /\ rank[q[k]] = k
    BY <1>6
  <2>2. <<q[j], q[k]>> \in Less \/ <<q[k], q[j]>> \in Less
    <3> HIDE DEF q, rank
    <3>1. j # k
      BY <1>1, <1>7
    <3>2. QED
      BY <2>1, <3>1
  <2>3. <<q[k], q[j]>> \in Less => k < j
    <3> HIDE DEF q, rank
    <3>1. QED
      BY <1>3, <2>1
  <2> HIDE DEF q, rank
  <2>4. QED
    BY <1>1, <1>7, <2>2, <2>3
<1>8. q \in [1 .. n -> S]
  BY <1>6
<1> HIDE DEF q
<1>9. QED
  BY <1>7, <1>8
(* The places of a stable sort by key, and that nothing is left out of it. *)
StableOrder(key, n, at) ==
    \A i, j \in 1 .. n : i < j => \/ key[at[i]] < key[at[j]]
                                  \/ key[at[i]] = key[at[j]] /\ at[i] < at[j]

LEMMA StableSort ==
    ASSUME NEW n \in Nat, NEW key, \A i \in 1 .. n : key[i] \in Int
    PROVE  /\ \E at \in [1 .. n -> 1 .. n] : StableOrder(key, n, at)
           /\ \A at \in [1 .. n -> 1 .. n] :
                 StableOrder(key, n, at) => \A k \in 1 .. n : \E i \in 1 .. n : at[i] = k
<1> DEFINE D == 1 .. n
           Before(i, j) == key[i] < key[j] \/ (key[i] = key[j] /\ i < j)
           Less == {p \in D \X D : Before(p[1], p[2])}
<1>1. IsFiniteSet(D) /\ Cardinality(D) = n
  BY FS_Interval
<1>2. \A i \in D : key[i] \in Int /\ i \in Int
  OBVIOUS
<1>3. \A i, j \in D : <<i, j>> \in Less <=> Before(i, j)
  OBVIOUS
<1>4. /\ \A i, j \in D : i # j => <<i, j>> \in Less \/ <<j, i>> \in Less
      /\ \A i, j \in D : ~ (<<i, j>> \in Less /\ <<j, i>> \in Less)
      /\ \A i, j, k \in D : <<i, j>> \in Less /\ <<j, k>> \in Less => <<i, k>> \in Less
  <2> HIDE DEF D, Less
  <2>1. QED
    BY <1>2, <1>3
<1>5. \E q \in [1 .. Cardinality(D) -> D] :
        \A j, k \in 1 .. Cardinality(D) : j < k => <<q[j], q[k]>> \in Less
  <2> HIDE DEF D, Less
  <2>1. QED
    BY <1>1, <1>4, ListingExists
<1>6. \E at \in [1 .. n -> 1 .. n] : StableOrder(key, n, at)
  <2>1. PICK q \in [D -> D] : \A j, k \in D : j < k => <<q[j], q[k]>> \in Less
    BY <1>1, <1>5
  <2>2. \A j, k \in D : j < k => Before(q[j], q[k])
    <3> HIDE DEF D, Less
    <3>1. QED
      BY <1>3, <2>1
  <2>3. StableOrder(key, n, q)
    BY <2>2 DEF StableOrder
  <2>4. QED
    BY <2>3
<1>7. ASSUME NEW at \in [1 .. n -> 1 .. n], StableOrder(key, n, at), NEW k \in 1 .. n
      PROVE  \E i \in 1 .. n : at[i] = k
  <2>1. \A i, j \in D : at[i] = at[j] => i = j
    <3>1. ASSUME NEW i \in D, NEW j \in D, i < j, at[i] = at[j]
          PROVE  FALSE
      <4>1. at[i] \in D /\ key[at[i]] \in Int /\ Before(at[i], at[i])
        BY <1>2, <1>7, <3>1 DEF StableOrder
      <4>2. QED
        BY <4>1
    <3>2. QED
      BY <3>1
  <2> DEFINE Places == {at[i] : i \in D}
  <2>2. at \in Bijection(D, Places)
    BY <1>7, <2>1 DEF Bijection, Injection, Surjection, IsInjective
  <2>3. Cardinality(Places) = Cardinality(D) /\ Places \in SUBSET D
    BY <1>1, <1>7, <2>2, FS_Bijection DEF ExistsBijection
  <2>4. Places = D
    <3> HIDE DEF D, Places
    <3>1. QED
      BY <1>1, <2>3, FS_Subset
  <2>5. QED
    BY <2>4
<1>8. QED
  BY <1>6, <1>7

-----------------------------------------------------------------------------
(* Sums and folds over the first n natural numbers.                        *)

LEMMA NatInduct ==
    ASSUME NEW T, 0 \in T, \A n \in Nat : n \in T => n + 1 \in T
    PROVE  Nat \subseteq T
<1> SUFFICES ASSUME NEW x \in Nat, x \notin T PROVE FALSE
  OBVIOUS
<1>1. PICK m \in Nat \ T : \A k \in Nat \ T : m <= k
  BY LeastNat
<1>2. m # 0 /\ m - 1 \in Nat
  BY <1>1
<1>3. m - 1 \in T
  BY <1>1, <1>2
<1>4. (m - 1) + 1 \in T
  BY <1>2, <1>3
<1>5. QED
  BY <1>1, <1>4

(* A function that folds the members of a set of numbers, largest last.    *)
Folding(it, n, base, step) ==
    it = [s \in SUBSET (1 .. n) |-> IF s = {} THEN base
                                    ELSE step[<<it[s \ {Max(s)}], Max(s)>>]]

LEMMA LargestIs ==
    ASSUME NEW n \in Nat, NEW s \in SUBSET (1 .. n), s # {}
    PROVE  Max(s) \in s /\ \A y \in s : Max(s) >= y
<1> DEFINE T == {n - x : x \in s}
<1>1. T \subseteq Nat /\ T # {}
  OBVIOUS
<1>2. PICK m \in T : \A k \in T : m <= k
  BY <1>1, LeastNat
<1>3. PICK x \in s : m = n - x
  BY <1>2
<1>4. ASSUME NEW y \in s PROVE x >= y
  <2>1. n - y \in T
    OBVIOUS
  <2>2. n - x <= n - y /\ x \in Int /\ y \in Int
    BY <1>2, <1>3, <2>1
  <2>3. QED
    BY <2>2
<1>5. \E z \in s : \A y \in s : z >= y
  BY <1>4
<1>6. QED
  BY <1>5 DEF Max

LEMMA FoldingExists ==
    ASSUME NEW n \in Nat, NEW A, NEW base \in A, NEW step, 
           \A x \in A, k \in 1 .. n : step[<<x, k>>] \in A
    PROVE  \E it \in [SUBSET (1 .. n) -> A] : Folding(it, n, base, step)
<1> DEFINE T == {m \in Nat : m <= n => \E it \in [SUBSET (1 .. m) -> A] : Folding(it, m, base, step)}
<1>1. 0 \in T
  <2>1. SUBSET (1 .. 0) = {{}}
    OBVIOUS
  <2>2. PICK it : it = [s \in SUBSET (1 .. 0) |-> base]
    OBVIOUS
  <2>3. it \in [SUBSET (1 .. 0) -> A]
    BY <2>2
  <2>4. it = [s \in SUBSET (1 .. 0) |-> IF s = {} THEN base
                                    ELSE step[<<it[s \ {Max(s)}], Max(s)>>]]
    BY <2>1, <2>2
  <2>5. Folding(it, 0, base, step)
    BY <2>4 DEF Folding
  <2>6. QED
    BY <2>3, <2>5
<1>2. ASSUME NEW m \in Nat, m \in T, m + 1 <= n PROVE m + 1 \in T
  <2>1. PICK it \in [SUBSET (1 .. m) -> A] : Folding(it, m, base, step)
    <3>1. m <= n
      BY <1>2
    <3>2. QED
      BY <1>2, <3>1
  <2>2. PICK top \in 1 .. n : top = m + 1
    BY <1>2
  <2>3. PICK new : new = [s \in SUBSET (1 .. top) |->
                            IF top \in s THEN step[<<it[s \ {top}], top>>] ELSE it[s]]
    OBVIOUS
  <2>4. \A s \in SUBSET (1 .. top) : s \ {top} \in SUBSET (1 .. m) /\ (top \notin s => s \in SUBSET (1 .. m))
    BY <2>2
  <2>5. new \in [SUBSET (1 .. top) -> A]
    BY <2>1, <2>3, <2>4
  <2>6. ASSUME NEW s \in SUBSET (1 .. top), s # {}
        PROVE  new[s] = step[<<new[s \ {Max(s)}], Max(s)>>]
    <3>1. Max(s) \in s /\ (\A y \in s : Max(s) >= y) /\ s \subseteq Nat
      <4>1. top \in Nat /\ s \in SUBSET (1 .. top)
        BY <2>2
      <4>2. Max(s) \in s /\ (\A y \in s : Max(s) >= y)
        BY <2>6, <4>1, LargestIs, Zenon
      <4>3. QED
        BY <4>1, <4>2
    <3>2. CASE top \in s
      <4>1. Max(s) = top
        <5>1. Max(s) \in 1 .. top /\ Max(s) >= top
          BY <3>1, <3>2
        <5>2. QED
          BY <5>1
      <4>2. new[s \ {top}] = it[s \ {top}]
        BY <2>3, <2>4
      <4>3. QED
        BY <2>3, <3>2, <4>1, <4>2
    <3>3. CASE top \notin s
      <4>1. s \in SUBSET (1 .. m) /\ s \ {Max(s)} \in SUBSET (1 .. m)
            /\ s \ {Max(s)} \in SUBSET (1 .. top) /\ top \notin s \ {Max(s)}
        BY <2>4, <3>3
      <4>2. it[s] = step[<<it[s \ {Max(s)}], Max(s)>>]
        <5>1. it[s] = [t \in SUBSET (1 .. m) |-> IF t = {} THEN base
                          ELSE step[<<it[t \ {Max(t)}], Max(t)>>]][s]
          BY <2>1 DEF Folding
        <5>2. QED
          BY <2>6, <4>1, <5>1
      <4>3. new[s] = it[s] /\ new[s \ {Max(s)}] = it[s \ {Max(s)}]
        BY <2>3, <3>3, <4>1
      <4>4. QED
        BY <4>2, <4>3
    <3>4. QED
      BY <3>2, <3>3
  <2>7. new[{}] = base
    <3>1. {} \in SUBSET (1 .. m) /\ {} \in SUBSET (1 .. top) /\ top \notin {}
      OBVIOUS
    <3>2. new[{}] = it[{}]
      BY <2>3, <3>1
    <3>3. it[{}] = [t \in SUBSET (1 .. m) |-> IF t = {} THEN base
                          ELSE step[<<it[t \ {Max(t)}], Max(t)>>]][{}]
      BY <2>1 DEF Folding
    <3>4. QED
      BY <3>1, <3>2, <3>3
  <2>8. new = [s \in SUBSET (1 .. top) |-> new[s]]
    BY <2>3
  <2>9. Folding(new, top, base, step)
    BY <2>6, <2>7, <2>8 DEF Folding
  <2>10. QED
    BY <1>2, <2>2, <2>5, <2>9
<1>3. ASSUME NEW m \in Nat, m \in T, m + 1 > n PROVE m + 1 \in T
  BY <1>3
<1>4. n \in T
  <2> HIDE DEF T
  <2>1. \A m \in Nat : m \in T => m + 1 \in T
    BY <1>2, <1>3
  <2>2. Nat \subseteq T
    BY <1>1, <2>1, NatInduct
  <2>3. QED
    BY <2>2
<1>5. n <= n
  OBVIOUS
<1>6. QED
  BY <1>4, <1>5

(* The sum of what d maps 1 .. n to.                                       *)
Running(g, d, n) == /\ g \in [0 .. n -> Int] /\ g[0] = 0
                    /\ \A k \in 1 .. n : g[k] = g[k - 1] + d[k]
Total(d, n) == (CHOOSE g : Running(g, d, n))[n]
Numbers(d, n) == \A k \in 1 .. n : d[k] \in Int

LEMMA RunningExists ==
    ASSUME NEW n \in Nat, NEW d, Numbers(d, n)
    PROVE  \E g : Running(g, d, n)
<1> DEFINE T == {m \in Nat : m <= n => \E g : Running(g, d, m)}
<1>1. 0 \in T
  <2>1. PICK g : g = [k \in 0 .. 0 |-> 0]
    OBVIOUS
  <2>2. Running(g, d, 0)
    BY <2>1 DEF Running
  <2>3. QED
    BY <2>2
<1>2. ASSUME NEW m \in Nat, m \in T, m + 1 <= n PROVE m + 1 \in T
  <2>1. PICK g : Running(g, d, m)
    <3>1. m <= n
      BY <1>2
    <3>2. QED
      BY <1>2, <3>1
  <2>2. PICK h : h = [k \in 0 .. m + 1 |-> IF k = m + 1 THEN g[m] + d[m + 1] ELSE g[k]]
    OBVIOUS
  <2>3. g \in [0 .. m -> Int] /\ g[0] = 0 /\ (\A k \in 1 .. m : g[k] = g[k - 1] + d[k]) /\ d[m + 1] \in Int
    BY <1>2, <2>1 DEF Running, Numbers
  <2>4. h \in [0 .. m + 1 -> Int] /\ h[0] = 0
    BY <2>2, <2>3
  <2>5. ASSUME NEW k \in 1 .. m + 1 PROVE h[k] = h[k - 1] + d[k]
    <3>1. CASE k = m + 1
      BY <2>2, <3>1
    <3>2. CASE k # m + 1
      BY <2>2, <2>3, <3>2
    <3>3. QED
      BY <3>1, <3>2
  <2>6. Running(h, d, m + 1)
    BY <2>4, <2>5 DEF Running
  <2>7. QED
    BY <2>6
<1>3. ASSUME NEW m \in Nat, m \in T, m + 1 > n PROVE m + 1 \in T
  BY <1>3
<1>4. n \in T
  <2> HIDE DEF T
  <2>1. \A m \in Nat : m \in T => m + 1 \in T
    BY <1>2, <1>3
  <2>2. Nat \subseteq T
    BY <1>1, <2>1, NatInduct
  <2>3. QED
    BY <2>2
<1>5. n <= n
  OBVIOUS
<1>6. QED
  BY <1>4, <1>5

(* Two running sums agree where what they sum does.                        *)
LEMMA RunningSame ==
    ASSUME NEW n \in Nat, NEW d, NEW e, NEW g, NEW h, NEW N \in Nat, n <= N,
           Running(g, d, n), Running(h, e, N), \A k \in 1 .. n : d[k] = e[k]
    PROVE  g[n] = h[n]
<1> DEFINE T == {m \in Nat : m <= n => g[m] = h[m]}
<1>1. 0 \in T
  BY DEF Running
<1>2. ASSUME NEW m \in Nat, m \in T PROVE m + 1 \in T
  <2> SUFFICES ASSUME m + 1 <= n PROVE g[m + 1] = h[m + 1]
    OBVIOUS
  <2>1. g[m] = h[m] /\ m + 1 \in 1 .. n /\ m + 1 \in 1 .. N /\ (m + 1) - 1 = m
    BY <1>2
  <2>2. g[m + 1] = g[(m + 1) - 1] + d[m + 1] /\ h[m + 1] = h[(m + 1) - 1] + e[m + 1]
    BY <2>1 DEF Running
  <2>3. QED
    BY <2>1, <2>2
<1>3. n \in T
  <2> HIDE DEF T
  <2>1. Nat \subseteq T
    BY <1>1, <1>2, NatInduct
  <2>2. QED
    BY <2>1
<1>4. n <= n
  OBVIOUS
<1>5. QED
  BY <1>3, <1>4

LEMMA TotalIs ==
    ASSUME NEW n \in Nat, NEW d, Numbers(d, n)
    PROVE  /\ Total(d, n) \in Int
           /\ \A g : Running(g, d, n) => Total(d, n) = g[n]
<1>1. PICK h : h = CHOOSE g : Running(g, d, n)
  OBVIOUS
<1>2. Running(h, d, n) /\ Total(d, n) = h[n]
  BY <1>1, RunningExists DEF Total
<1>3. ASSUME NEW g, Running(g, d, n) PROVE h[n] = g[n]
  BY <1>2, <1>3, RunningSame
<1>4. h[n] \in Int
  BY <1>2 DEF Running
<1>5. QED
  BY <1>2, <1>3, <1>4

LEMMA TotalStep ==
    ASSUME NEW n \in Nat, NEW d, Numbers(d, n + 1)
    PROVE  Total(d, n + 1) = Total(d, n) + d[n + 1]
<1>1. Numbers(d, n) /\ n + 1 \in Nat
  BY DEF Numbers
<1>2. PICK h : Running(h, d, n + 1)
  BY <1>1, RunningExists
<1>3. PICK g : Running(g, d, n)
  BY <1>1, RunningExists
<1>4. g[n] = h[n]
  BY <1>2, <1>3, RunningSame
<1>5. h[n + 1] = h[n] + d[n + 1]
  BY <1>2 DEF Running
<1>6. Total(d, n) = g[n] /\ Total(d, n + 1) = h[n + 1]
  BY <1>1, <1>2, <1>3, TotalIs
<1>7. QED
  BY <1>4, <1>5, <1>6

LEMMA TotalNone == ASSUME NEW d PROVE Total(d, 0) = 0
<1>1. Numbers(d, 0)
  BY DEF Numbers
<1>2. PICK g : Running(g, d, 0)
  BY <1>1, RunningExists
<1>3. g[0] = 0
  BY <1>2 DEF Running
<1>4. QED
  BY <1>1, <1>2, <1>3, TotalIs

LEMMA TotalSame ==
    ASSUME NEW n \in Nat, NEW d, NEW e, Numbers(d, n), \A k \in 1 .. n : d[k] = e[k]
    PROVE  Total(d, n) = Total(e, n)
<1>1. Numbers(e, n)
  BY DEF Numbers
<1>2. PICK g : Running(g, d, n)
  BY RunningExists
<1>3. PICK h : Running(h, e, n)
  BY <1>1, RunningExists
<1>4. g[n] = h[n]
  BY <1>2, <1>3, RunningSame
<1>5. QED
  BY <1>1, <1>2, <1>3, <1>4, TotalIs

(* Sums add up.                                                            *)
LEMMA TotalSum ==
    ASSUME NEW n \in Nat, NEW c, NEW d, NEW e, Numbers(d, n), Numbers(e, n),
           \A k \in 1 .. n : c[k] = d[k] + e[k]
    PROVE  Total(c, n) = Total(d, n) + Total(e, n)
<1>1. PICK g : Running(g, d, n)
  BY RunningExists
<1>2. PICK h : Running(h, e, n)
  BY RunningExists
<1>3. PICK f : f = [k \in 0 .. n |-> g[k] + h[k]]
  OBVIOUS
<1>4. /\ g \in [0 .. n -> Int] /\ g[0] = 0 /\ h \in [0 .. n -> Int] /\ h[0] = 0
      /\ \A k \in 1 .. n : g[k] = g[k - 1] + d[k] /\ h[k] = h[k - 1] + e[k]
  BY <1>1, <1>2 DEF Running
<1>5. f \in [0 .. n -> Int] /\ f[0] = 0
  BY <1>3, <1>4
<1>6. ASSUME NEW k \in 1 .. n PROVE f[k] = f[k - 1] + c[k]
  <2>1. k - 1 \in 0 .. n /\ k \in 0 .. n /\ d[k] \in Int /\ e[k] \in Int
    BY DEF Numbers
  <2>2. f[k] = g[k] + h[k] /\ f[k - 1] = g[k - 1] + h[k - 1] /\ c[k] = d[k] + e[k]
    BY <1>3, <2>1
  <2>3. g[k] = g[k - 1] + d[k] /\ h[k] = h[k - 1] + e[k] /\ g[k - 1] \in Int /\ h[k - 1] \in Int
    BY <1>4, <2>1
  <2>4. QED
    BY <2>1, <2>2, <2>3
<1>7. Running(f, c, n)
  BY <1>5, <1>6 DEF Running
<1>8. Numbers(c, n)
  BY DEF Numbers
<1>9. f[n] = g[n] + h[n]
  BY <1>3
<1>10. QED
  BY <1>1, <1>2, <1>7, <1>8, <1>9, TotalIs

(* Sums of natural numbers only grow.                                      *)
LEMMA TotalGrows ==
    ASSUME NEW n \in Nat, NEW d, \A k \in 1 .. n : d[k] \in Nat
    PROVE  /\ Total(d, n) \in Nat
           /\ \A k \in 0 .. n : Total(d, k) \in Nat /\ Total(d, k) <= Total(d, n)
<1> DEFINE T == {m \in Nat : m <= n => /\ Total(d, m) \in Nat
                                      /\ \A k \in 0 .. m : Total(d, k) \in Nat /\ Total(d, k) <= Total(d, m)}
<1>1. 0 \in T
  <2>1. \A k \in 0 .. 0 : k = 0
    OBVIOUS
  <2>2. QED
    BY <2>1, TotalNone
<1>2. ASSUME NEW m \in Nat, m \in T PROVE m + 1 \in T
  <2> SUFFICES ASSUME m + 1 <= n
               PROVE  /\ Total(d, m + 1) \in Nat
                      /\ \A k \in 0 .. m + 1 : Total(d, k) \in Nat /\ Total(d, k) <= Total(d, m + 1)
    OBVIOUS
  <2>1. Numbers(d, m + 1) /\ d[m + 1] \in Nat
    BY DEF Numbers
  <2>2. Total(d, m) \in Nat /\ \A k \in 0 .. m : Total(d, k) \in Nat /\ Total(d, k) <= Total(d, m)
    BY <1>2
  <2>3. Total(d, m + 1) = Total(d, m) + d[m + 1]
    BY <2>1, TotalStep
  <2>4. Total(d, m + 1) \in Nat /\ Total(d, m) <= Total(d, m + 1)
    BY <2>1, <2>2, <2>3
  <2>5. \A k \in 0 .. m + 1 : k = m + 1 \/ k \in 0 .. m
    OBVIOUS
  <2>6. QED
    BY <2>2, <2>4, <2>5
<1>3. n \in T
  <2> HIDE DEF T
  <2>1. Nat \subseteq T
    BY <1>1, <1>2, NatInduct
  <2>2. QED
    BY <2>1
<1>4. n <= n
  OBVIOUS
<1>5. QED
  BY <1>3, <1>4

(* A sum of one number and zeros.                                          *)
LEMMA TotalPoint ==
    ASSUME NEW n \in Nat, NEW d, NEW i \in 1 .. n, NEW x \in Int,
           \A k \in 1 .. n : d[k] = IF k = i THEN x ELSE 0
    PROVE  Total(d, n) = x
<1>1. PICK g : g = [k \in 0 .. n |-> IF k < i THEN 0 ELSE x]
  OBVIOUS
<1>2. Running(g, d, n)
  BY <1>1 DEF Running
<1>3. Numbers(d, n)
  BY DEF Numbers
<1>4. g[n] = x
  BY <1>1
<1>5. QED
  BY <1>2, <1>3, <1>4, TotalIs

LEMMA TotalChange ==
    ASSUME NEW n \in Nat, NEW d, NEW e, Numbers(d, n), NEW i \in 1 .. n, e[i] \in Int,
           \A k \in 1 .. n : k # i => e[k] = d[k]
    PROVE  Total(e, n) = Total(d, n) + (e[i] - d[i])
<1>1. PICK x \in Int : d[i] \in Int /\ x = e[i] - d[i]
  BY DEF Numbers
<1>2. PICK p : p = [k \in 1 .. n |-> IF k = i THEN x ELSE 0]
  OBVIOUS
<1>3. \A k \in 1 .. n : p[k] = IF k = i THEN x ELSE 0
  BY <1>2
<1>4. Numbers(p, n) /\ Total(p, n) = e[i] - d[i]
  <2>1. Numbers(p, n)
    BY <1>3 DEF Numbers
  <2>2. Total(p, n) = x
    BY <1>3, TotalPoint
  <2>3. QED
    BY <1>1, <2>1, <2>2
<1>5. \A k \in 1 .. n : e[k] = d[k] + p[k]
  BY <1>1, <1>3 DEF Numbers
<1>6. Total(e, n) = Total(d, n) + Total(p, n)
  BY <1>4, <1>5, TotalSum
<1>7. QED
  BY <1>4, <1>6

(* The sets a fold over a sequence walks through.                          *)
LEMMA UpTo ==
    ASSUME NEW n \in Nat, NEW k \in 1 .. n
    PROVE  /\ 1 .. k \in SUBSET (1 .. n) /\ 1 .. k # {} /\ Max(1 .. k) = k
           /\ (1 .. k) \ {k} = 1 .. (k - 1)
<1>1. 1 .. k \in SUBSET (1 .. n) /\ k \in 1 .. k
  OBVIOUS
<1>2. Max(1 .. k) \in 1 .. k /\ \A y \in 1 .. k : Max(1 .. k) >= y
  BY <1>1, LargestIs
<1>3. Max(1 .. k) = k
  BY <1>1, <1>2
<1>4. (1 .. k) \ {k} = 1 .. (k - 1)
  OBVIOUS
<1>5. QED
  BY <1>1, <1>3, <1>4

(* What a fold over 1 .. n goes through, value by value.                   *)
Course(g, n, A, base, step) ==
    /\ g \in [0 .. n -> A] /\ g[0] = base
    /\ \A k \in 1 .. n : g[k] = step[<<g[k - 1], k>>]

(* A fold by step, as far as its values over 1 .. k go.                    *)
Unfolds(it, n, A, base, step) ==
    /\ base \in A /\ \A x \in A, k \in 1 .. n : step[<<x, k>>] \in A
    /\ it[1 .. 0] = base
    /\ \A k \in 1 .. n : it[1 .. (k - 1)] \in A => it[1 .. k] = step[<<it[1 .. (k - 1)], k>>]

LEMMA CourseExists ==
    ASSUME NEW n \in Nat, NEW A, NEW base, NEW step, NEW it, Unfolds(it, n, A, base, step)
    PROVE  \E g : Course(g, n, A, base, step) /\ g[n] = it[1 .. n]
<1>0. /\ base \in A /\ it[1 .. 0] = base
      /\ \A x \in A, k \in 1 .. n : step[<<x, k>>] \in A
      /\ \A k \in 1 .. n : it[1 .. (k - 1)] \in A => it[1 .. k] = step[<<it[1 .. (k - 1)], k>>]
  BY DEF Unfolds
<1> DEFINE T == {m \in Nat : m <= n => it[1 .. m] \in A}
<1>1. 0 \in T
  BY <1>0
<1>2. ASSUME NEW m \in Nat, m \in T PROVE m + 1 \in T
  <2> SUFFICES ASSUME m + 1 <= n PROVE it[1 .. (m + 1)] \in A
    OBVIOUS
  <2>1. it[1 .. m] \in A
    BY <1>2
  <2>2. PICK k \in 1 .. n : k = m + 1 /\ k - 1 = m
    OBVIOUS
  <2>3. it[1 .. k] = step[<<it[1 .. m], k>>]
    BY <1>0, <2>1, <2>2
  <2>4. QED
    BY <1>0, <2>1, <2>2, <2>3
<1>3. ASSUME NEW k \in 0 .. n PROVE it[1 .. k] \in A
  <2>1. k \in T
    <3> HIDE DEF T
    <3>1. Nat \subseteq T
      BY <1>1, <1>2, NatInduct
    <3>2. QED
      BY <3>1
  <2>2. QED
    BY <2>1
<1>4. PICK g : g = [k \in 0 .. n |-> it[1 .. k]]
  OBVIOUS
<1>5. g \in [0 .. n -> A] /\ g[0] = base /\ g[n] = it[1 .. n]
  BY <1>0, <1>3, <1>4
<1>6. ASSUME NEW k \in 1 .. n PROVE g[k] = step[<<g[k - 1], k>>]
  <2>1. k - 1 \in 0 .. n /\ k \in 0 .. n
    OBVIOUS
  <2>2. it[1 .. (k - 1)] \in A
    BY <1>3, <2>1
  <2>3. it[1 .. k] = step[<<it[1 .. (k - 1)], k>>]
    BY <1>0, <2>2
  <2>4. QED
    BY <1>4, <2>1, <2>3
<1>7. QED
  BY <1>5, <1>6 DEF Course
=============================================================================

--------------------------- MODULE GauntletProofs ---------------------------
(***************************************************************************)
(* What the acceptance gate promises of the round's winner, for any        *)
(* schema, pages and candidates, and what the value-path discovery         *)
(* promises of its crawler.                                                *)
(*                                                                         *)
(* The first part is about the comparison engine: sorting a list by the    *)
(* alignment key permutes it, so a page's detail is perfect exactly when   *)
(* the sorted lists agree field by field.  The second part is the          *)
(* inductive invariant: every score is what some accumulators hold that    *)
(* tally the candidate's outputs, page by page.                            *)
(***************************************************************************)
EXTENDS FirstRound, OrderingProofs

F == Cardinality(Fields)

LEMMA FieldsFinite == IsFiniteSet(Fields) /\ F \in Nat /\ F > 0
<1>1. IsFiniteSet(Fields) /\ Fields # {}
  BY ValidatorAssumption
<1> QED BY <1>1, FS_CardinalityType, FS_EmptySet DEF F

LEMMA MinProperties ==
  ASSUME NEW S \in SUBSET Nat, S # {}
  PROVE  Min(S) \in S /\ \A y \in S : Min(S) <= y
<1>1. \E x \in S : \A y \in S : x <= y
  BY LeastElement
<1> QED BY <1>1 DEF Min

LEMMA MaxOfLengths ==
  ASSUME NEW m \in Nat, NEW n \in Nat
  PROVE  /\ Max({m, n}) \in Nat /\ Max({m, n}) >= m /\ Max({m, n}) >= n
         /\ m = n => Max({m, n}) = m
<1>1. {m, n} \in SUBSET (0..(m + n)) /\ {m, n} # {}
  OBVIOUS
<1>2. Max({m, n}) \in {m, n} /\ \A y \in {m, n} : Max({m, n}) >= y
  BY <1>1, MaxProperties
<1> QED BY <1>2

-----------------------------------------------------------------------------
(* The comparison engine.                                                  *)

LEMMA RankIsNat ==
  ASSUME NEW item \in Item
  PROVE  Rank(item) \in Nat
BY ValidatorAssumption DEF Item, Rank

Permutes(q, n) ==
  /\ q \in [1..n -> 1..n]
  /\ \A k \in 1..n : \E i \in 1..n : q[i] = k
  /\ \A i, j \in 1..n : q[i] = q[j] => i = j

\* Sorting by the alignment key permutes the list.
LEMMA KeyOrderProperties ==
  ASSUME NEW items \in Seq(Item), NEW n, n = Len(items), NEW q, q = KeyOrder(items)
  PROVE  /\ n \in Nat /\ Permutes(q, n)
         /\ \A i, j \in 1..n : i < j => Rank(items[q[i]]) <= Rank(items[q[j]])
<1> DEFINE D == DOMAIN items
           rank == [i \in 1..n |-> Rank(items[i])]
           R == {p \in D \X D : \/ Rank(items[p[1]]) < Rank(items[p[2]])
                                \/ Rank(items[p[1]]) = Rank(items[p[2]]) /\ p[1] < p[2]}
<1>1. n \in Nat /\ D = 1..n /\ \A i \in 1..n : items[i] \in Item
  BY LenProperties
<1>2. IsFiniteSet(D) /\ Cardinality(D) = n
  <2>1. n \in Int /\ 1 \in Int
    BY <1>1
  <2>2. Cardinality(1..n) = (IF 1 > n THEN 0 ELSE n - 1 + 1) /\ IsFiniteSet(1..n)
    BY <2>1, FS_Interval
  <2> QED BY <1>1, <2>2
<1>3. \A i \in 1..n : rank[i] \in Nat /\ rank[i] = Rank(items[i])
  BY <1>1, RankIsNat
<1>4. \A i, j \in 1..n : <<i, j>> \in R <=> rank[i] < rank[j] \/ (rank[i] = rank[j] /\ i < j)
  BY <1>1, <1>3
<1>5. q = SortedBy(D, R)
  BY DEF KeyOrder
<1> HIDE DEF R, rank, D
<1>6. StrictOrder(D, R)
  <2>1. \A x \in 1..n : <<x, x>> \notin R
    BY <1>3, <1>4
  <2>2. ASSUME NEW x \in 1..n, NEW y \in 1..n
        PROVE  x = y \/ <<x, y>> \in R \/ <<y, x>> \in R
    <3>1. rank[x] \in Nat /\ rank[y] \in Nat
      BY <1>3
    <3>2. rank[x] < rank[y] \/ rank[y] < rank[x] \/ rank[x] = rank[y]
      BY <3>1
    <3>3. x < y \/ y < x \/ x = y
      BY <1>1
    <3> QED BY <1>4, <3>2, <3>3
  <2>3. ASSUME NEW x \in 1..n, NEW y \in 1..n, NEW z \in 1..n,
               <<x, y>> \in R, <<y, z>> \in R
        PROVE  <<x, z>> \in R
    <3>1. rank[x] < rank[y] \/ (rank[x] = rank[y] /\ x < y)
      BY <1>4, <2>3
    <3>2. rank[y] < rank[z] \/ (rank[y] = rank[z] /\ y < z)
      BY <1>4, <2>3
    <3>3. rank[x] \in Nat /\ rank[y] \in Nat /\ rank[z] \in Nat
      BY <1>3
    <3>4. rank[x] < rank[z] \/ (rank[x] = rank[z] /\ x < z)
      BY <1>1, <3>1, <3>2, <3>3
    <3> QED BY <1>4, <3>4
  <2> QED BY <1>1, <2>1, <2>2, <2>3 DEF StrictOrder
<1>7. /\ q \in [1..n -> D]
      /\ \A x \in D : \E k \in 1..n : q[k] = x
      /\ \A i, j \in 1..n : i < j => <<q[i], q[j]>> \in R
      /\ \A i, j \in 1..n : q[i] = q[j] => i = j
  BY <1>2, <1>5, <1>6, SortedByProperties
<1>8. \A i, j \in 1..n : i < j => Rank(items[q[i]]) <= Rank(items[q[j]])
  <2> TAKE i, j \in 1..n
  <2> HAVE i < j
  <2>1. q[i] \in 1..n /\ q[j] \in 1..n /\ <<q[i], q[j]>> \in R
    BY <1>1, <1>7
  <2>2. rank[q[i]] <= rank[q[j]]
    BY <1>3, <1>4, <2>1
  <2> QED BY <1>3, <2>1, <2>2
<1> QED BY <1>1, <1>7, <1>8 DEF Permutes

\* A permutation of 1..n preserves the size of its subsets.
LEMMA CountAlong ==
  ASSUME NEW n \in Nat, NEW q, Permutes(q, n),
         NEW A \in SUBSET (1..n), NEW K \in SUBSET (1..n),
         \A i \in 1..n : i \in K <=> q[i] \in A
  PROVE  Cardinality(K) = Cardinality(A)
<1> DEFINE h == [i \in K |-> q[i]]
<1>1. IsFiniteSet(1..n)
  BY FS_Interval
<1>2. IsFiniteSet(K)
  BY <1>1, FS_Subset
<1>3. h \in Bijection(K, A)
  <2>1. h \in [K -> A] /\ \A i, j \in K : h[i] = h[j] => i = j
    BY DEF Permutes
  <2>2. \A k \in A : \E i \in K : h[i] = k
    BY DEF Permutes
  <2> HIDE DEF h
  <2> QED BY <2>1, <2>2 DEF Bijection, Injection, IsInjective, Surjection
<1>4. ExistsBijection(K, A)
  BY <1>3 DEF ExistsBijection
<1> QED BY <1>2, <1>4, FS_Bijection

InStep(s, t, A, B) == \A i \in 1..Len(s) : KeyOrder(s)[i] \in A <=> KeyOrder(t)[i] \in B

\* Two lists of one length whose alignments agree position by position, in
\* whatever is counted, have it equally often.
LEMMA AlignedCounts ==
  ASSUME NEW s \in Seq(Item), NEW t \in Seq(Item), Len(s) = Len(t),
         NEW A \in SUBSET (1..Len(s)), NEW B \in SUBSET (1..Len(s)),
         InStep(s, t, A, B)
  PROVE  Cardinality(A) = Cardinality(B)
<1> DEFINE n == Len(s)
           p == KeyOrder(s)
           q == KeyOrder(t)
<1>1. n \in Nat /\ Permutes(p, n)
  BY KeyOrderProperties
<1>2. Permutes(q, n)
  BY KeyOrderProperties
<1> DEFINE K == {i \in 1..n : p[i] \in A}
<1>3. /\ K \in SUBSET (1..n) /\ \A i \in 1..n : i \in K <=> p[i] \in A
      /\ \A i \in 1..n : i \in K <=> q[i] \in B
  BY DEF InStep
<1> HIDE DEF n, p, q, K
<1>4. Cardinality(K) = Cardinality(A)
  <2>1. A \in SUBSET (1..n)
    BY DEF n
  <2> QED BY <1>1, <1>3, <2>1, CountAlong
<1>5. Cardinality(K) = Cardinality(B)
  <2>1. B \in SUBSET (1..n)
    BY DEF n
  <2> QED BY <1>1, <1>2, <1>3, <2>1, CountAlong
<1> QED BY <1>4, <1>5

\* The sorted lists have one length and agree field by field.
Aligned(a, b) ==
  /\ Len(a) = Len(b)
  /\ \A i \in 1..Len(a), f \in Fields : FieldEqual(ByKey(a)[i][f], ByKey(b)[i][f])

\* A page's detail: a mean of at most 1, which is 1 with a perfect worst pair when
\* the lists align; and only then is the worst pair perfect and the count right.
LEMMA DetailProperties ==
  ASSUME NEW a \in Seq(Item), NEW b \in Seq(Item), NEW d, d = Detail(a, b)
  PROVE  /\ d.match \in BOOLEAN /\ d.match <=> Len(a) = Len(b)
         /\ d \in [sum : Nat, pairs : Nat \ {0}, worst : 0..F, match : BOOLEAN]
         /\ d.sum <= d.pairs * F
         /\ Aligned(a, b) => d.sum = d.pairs * F /\ d.worst = F
         /\ d.match /\ d.worst = F => Aligned(a, b)
<1> DEFINE match == Len(a) = Len(b)
           pairs == AlignedPairs(a, b)
           agreed == [i \in DOMAIN pairs |-> PairAgreement(pairs[i])]
           N == Max({Len(a), Len(b)})
           cells == {p \in (DOMAIN agreed) \X Fields : p[2] \in agreed[p[1]]}
           sizes == {Cardinality(agreed[i]) : i \in DOMAIN agreed}
<1>1. Len(a) \in Nat /\ Len(b) \in Nat /\ (Len(a) = 0 <=> a = <<>>) /\ (Len(b) = 0 <=> b = <<>>)
  BY EmptySeq, LenProperties
<1>2. IsFiniteSet(Fields) /\ F \in Nat /\ F > 0
  BY FieldsFinite
<1>3. CASE a = <<>> /\ b = <<>>
  <2>1. d = [sum |-> F, pairs |-> 1, worst |-> F, match |-> TRUE]
    BY <1>3 DEF Detail, F
  <2>2. Aligned(a, b)
    BY <1>1, <1>3 DEF Aligned
  <2>3. d.match = TRUE /\ d.sum = F /\ d.pairs = 1 /\ d.worst = F /\ Len(a) = Len(b)
    BY <1>1, <1>3, <2>1
  <2>4. d \in [sum : Nat, pairs : Nat \ {0}, worst : 0..F, match : BOOLEAN]
    BY <1>2, <2>1
  <2> QED BY <1>2, <2>2, <2>3, <2>4
<1>4. CASE ~(a = <<>> /\ b = <<>>) /\ <<>> \in {a, b}
  <2>1. d = [sum |-> 0, pairs |-> 1, worst |-> 0, match |-> match]
    BY <1>4 DEF Detail
  <2>2. ~match /\ ~Aligned(a, b)
    BY <1>1, <1>4 DEF Aligned
  <2>3. d = [sum |-> 0, pairs |-> 1, worst |-> 0, match |-> FALSE]
    BY <2>1, <2>2
  <2> QED BY <1>2, <2>2, <2>3
<1>5. CASE a # <<>> /\ b # <<>>
  <2>1. d = [sum |-> Cardinality(cells), pairs |-> Cardinality(DOMAIN agreed),
             worst |-> Min(sizes), match |-> match]
    BY <1>5 DEF Detail
  <2>2. N \in Nat /\ N > 0 /\ (match => N = Len(a))
    BY <1>1, <1>5, MaxOfLengths
  <2>3. DOMAIN pairs = 1..N /\ DOMAIN agreed = 1..N
    BY DEF AlignedPairs
  <2>4. \A i \in 1..N : agreed[i] = PairAgreement(pairs[i]) /\ agreed[i] \subseteq Fields
    BY <2>3 DEF PairAgreement
  <2>5. IsFiniteSet(1..N) /\ Cardinality(1..N) = N
    BY <2>2, FS_Interval
  <2>6. /\ IsFiniteSet((1..N) \X Fields) /\ Cardinality((1..N) \X Fields) = N * F
        /\ N * F \in Nat
    <3>1. N * F \in Nat
      BY <1>2, <2>2
    <3> QED BY <1>2, <2>5, <3>1, FS_Product DEF F
  <2>7. Cardinality(cells) \in Nat /\ Cardinality(cells) <= N * F
    <3>1. cells \in SUBSET ((1..N) \X Fields)
      BY <2>3
    <3> HIDE DEF cells, agreed, N
    <3>2. IsFiniteSet(cells) /\ Cardinality(cells) <= N * F
      BY <2>6, <3>1, FS_Subset
    <3> QED BY <3>2, FS_CardinalityType
  <2>8. \A i \in 1..N : Cardinality(agreed[i]) \in 0..F /\ (Cardinality(agreed[i]) = F => agreed[i] = Fields)
    <3> TAKE i \in 1..N
    <3>1. agreed[i] \in SUBSET Fields
      BY <2>4
    <3> HIDE DEF agreed
    <3>2. IsFiniteSet(agreed[i]) /\ Cardinality(agreed[i]) <= F /\ (F = Cardinality(agreed[i]) => Fields = agreed[i])
      BY <1>2, <3>1, FS_Subset DEF F
    <3>3. Cardinality(agreed[i]) \in Nat
      BY <3>2, FS_CardinalityType
    <3> QED BY <1>2, <3>2, <3>3
  <2>9. sizes \in SUBSET (0..F) /\ sizes # {} /\ \A i \in 1..N : Cardinality(agreed[i]) \in sizes
    <3>1. \A i \in 1..N : Cardinality(agreed[i]) \in sizes
      BY <2>3
    <3>2. \A y \in sizes : \E i \in 1..N : y = Cardinality(agreed[i])
      BY <2>3
    <3> HIDE DEF sizes, agreed, N
    <3>3. \A y \in sizes : y \in 0..F
      BY <2>8, <3>2
    <3>4. 1 \in 1..N
      BY <2>2
    <3> QED BY <3>1, <3>3, <3>4
  <2>10. Min(sizes) \in sizes /\ \A y \in sizes : Min(sizes) <= y
    <3>1. sizes \in SUBSET Nat
      BY <1>2, <2>9
    <3> HIDE DEF sizes
    <3> QED BY <2>9, <3>1, MinProperties
  <2>11. /\ d.sum = Cardinality(cells) /\ d.pairs = N /\ d.worst = Min(sizes)
         /\ d.match = match
         /\ d \in [sum : Nat, pairs : Nat \ {0}, worst : 0..F, match : BOOLEAN]
    <3>1. match \in BOOLEAN /\ Min(sizes) \in 0..F
      BY <2>9, <2>10
    <3> HIDE DEF cells, sizes, match
    <3>2. Cardinality(DOMAIN agreed) = N
      BY <2>3, <2>5
    <3> QED BY <2>1, <2>2, <2>7, <3>1, <3>2
  <2>12. match => \A i \in 1..N : pairs[i] = <<ByKey(a)[i], ByKey(b)[i]>>
    BY <1>1, <2>2, <2>3 DEF AlignedPairs
  <2>13. match => (Aligned(a, b) <=> \A i \in 1..N : agreed[i] = Fields)
    <3> HAVE match
    <3>1. \A i \in 1..N : agreed[i] = {f \in Fields : FieldEqual(ByKey(a)[i][f], ByKey(b)[i][f])}
      <4> TAKE i \in 1..N
      <4>1. agreed[i] = PairAgreement(pairs[i]) /\ pairs[i] = <<ByKey(a)[i], ByKey(b)[i]>>
        BY <2>4, <2>12
      <4> HIDE DEF agreed, pairs
      <4> QED BY <4>1 DEF PairAgreement
    <3> HIDE DEF agreed
    <3>2. \A i \in 1..N : (agreed[i] = Fields <=> \A f \in Fields : FieldEqual(ByKey(a)[i][f], ByKey(b)[i][f]))
      BY <3>1
    <3>3. N = Len(a)
      BY <2>2
    <3> QED BY <3>2, <3>3 DEF Aligned
  <2>14. Aligned(a, b) => d.sum = d.pairs * F /\ d.worst = F
    <3> HAVE Aligned(a, b)
    <3>1. match /\ \A i \in 1..N : agreed[i] = Fields
      BY <2>13 DEF Aligned
    <3>2. cells = (1..N) \X Fields
      BY <2>3, <3>1
    <3>3. Min(sizes) = F
      BY <2>2, <2>3, <2>10, <3>1 DEF F
    <3> QED BY <2>6, <2>11, <3>2, <3>3
  <2>15. d.match /\ d.worst = F => Aligned(a, b)
    <3> HAVE d.match /\ d.worst = F
    <3>1. match /\ Min(sizes) = F
      BY <2>11
    <3>2. \A i \in 1..N : Cardinality(agreed[i]) = F
      <4> HIDE DEF agreed, sizes
      <4> TAKE i \in 1..N
      <4>1. Cardinality(agreed[i]) \in sizes /\ Cardinality(agreed[i]) \in 0..F
        BY <2>8, <2>9
      <4>2. F <= Cardinality(agreed[i])
        BY <2>10, <3>1, <4>1
      <4> QED BY <1>2, <4>1, <4>2
    <3> QED BY <2>8, <2>13, <3>1, <3>2
  <2> QED BY <2>7, <2>11, <2>14, <2>15
<1> QED BY <1>3, <1>4, <1>5

-----------------------------------------------------------------------------
(* Aligned lists hold the same records.                                    *)

\* Fields that agree hold the same: the amount in a numeric field, elsewhere the
\* text, provided that the reference has no amount there.
LEMMA AgreeingIsSame ==
  ASSUME NEW x \in Item, NEW y \in Item, \A f \in Fields : FieldEqual(x[f], y[f]),
         \A f \in Fields \ Numeric : y[f] = None \/ Money[y[f]] = NoMoney
  PROVE  Same(x, y)
<1> SUFFICES ASSUME NEW f \in Fields
             PROVE  \/ None \in {x[f], y[f]} /\ x[f] = y[f]
                    \/ /\ None \notin {x[f], y[f]}
                       /\ IF f \in Numeric THEN Money[x[f]] = Money[y[f]]
                          ELSE Text[x[f]] = Text[y[f]]
  BY DEF Same
<1>1. FieldEqual(x[f], y[f]) /\ x[f] \in Values \cup {None} /\ y[f] \in Values \cup {None}
  BY DEF Item
<1>2. CASE None \in {x[f], y[f]}
  BY <1>1, <1>2 DEF FieldEqual
<1>3. CASE None \notin {x[f], y[f]}
  <2>1. \/ NoMoney \notin {Money[x[f]], Money[y[f]]} /\ Money[x[f]] = Money[y[f]]
        \/ NoMoney \in {Money[x[f]], Money[y[f]]} /\ Text[x[f]] = Text[y[f]]
    BY <1>1, <1>3 DEF FieldEqual
  <2>2. Text[x[f]] = Text[y[f]] => Money[x[f]] = Money[y[f]]
    BY <1>1, <1>3, ValidatorAssumption
  <2>3. f \in Numeric \/ Money[y[f]] = NoMoney
    BY <1>3
  <2> QED BY <1>3, <2>1, <2>2, <2>3
<1> QED BY <1>2, <1>3

LEMMA SameTransfers ==
  ASSUME NEW x \in Item, NEW y \in Item, NEW z \in Item, Same(x, y)
  PROVE  Same(x, z) <=> Same(y, z)
BY DEF Same

LEMMA AlignedIsReordered ==
  ASSUME NEW s \in Seq(Item), NEW t \in Seq(Item), Aligned(s, t),
         \A k \in DOMAIN t, f \in Fields \ Numeric : t[k][f] = None \/ Money[t[k][f]] = NoMoney
  PROVE  Reordered(s, t, Same)
<1> DEFINE n == Len(s)
           p == KeyOrder(s)
           q == KeyOrder(t)
<1>1. /\ n \in Nat /\ Len(t) = n /\ DOMAIN s = 1..n /\ DOMAIN t = 1..n
      /\ \A i \in 1..n : s[i] \in Item /\ t[i] \in Item
  BY LenProperties DEF Aligned
<1>2. \A i \in 1..n : p[i] \in 1..n /\ q[i] \in 1..n
  <2>1. Permutes(p, n)
    BY KeyOrderProperties
  <2>2. Permutes(q, n)
    BY <1>1, KeyOrderProperties
  <2> QED BY <2>1, <2>2 DEF Permutes
<1>3. \A i \in 1..n : Same(s[p[i]], t[q[i]])
  <2> TAKE i \in 1..n
  <2>1. ByKey(s)[i] = s[p[i]] /\ ByKey(t)[i] = t[q[i]]
    BY <1>1 DEF ByKey
  <2>2. \A f \in Fields : FieldEqual(s[p[i]][f], t[q[i]][f])
    BY <2>1 DEF Aligned
  <2> HIDE DEF p, q, n
  <2>3. s[p[i]] \in Item /\ t[q[i]] \in Item /\ q[i] \in DOMAIN t
    BY <1>1, <1>2
  <2> QED BY <2>2, <2>3, AgreeingIsSame
<1>4. ASSUME NEW item \in ToSet(s) \cup ToSet(t)
      PROVE  Cardinality({i \in DOMAIN s : Same(s[i], item)})
               = Cardinality({i \in DOMAIN t : Same(t[i], item)})
  <2> DEFINE A == {i \in DOMAIN s : Same(s[i], item)}
             B == {i \in DOMAIN t : Same(t[i], item)}
  <2>1. item \in Item
    BY <1>1 DEF ToSet
  <2>2. \A i \in 1..n : p[i] \in A <=> q[i] \in B
    <3> TAKE i \in 1..n
    <3>1. Same(s[p[i]], item) <=> Same(t[q[i]], item)
      BY <1>1, <1>2, <1>3, <2>1, SameTransfers
    <3> QED BY <1>1, <1>2, <3>1
  <2>3. A \in SUBSET (1..Len(s)) /\ B \in SUBSET (1..Len(s))
    BY <1>1
  <2> HIDE DEF A, B
  <2>4. InStep(s, t, A, B)
    BY <2>2 DEF InStep
  <2>5. Cardinality(A) = Cardinality(B)
    BY <1>1, <2>3, <2>4, AlignedCounts
  <2> QED BY <2>5 DEF A, B
<1> QED BY <1>4 DEF Reordered

-----------------------------------------------------------------------------
(* A reordering of records that differ in the key aligns with them.        *)

Increasing(f, n) == f \in [1..n -> Nat] /\ \A i, j \in 1..n : i < j => f[i] < f[j]
Within(f, g, n) == \A i \in 1..n : \E j \in 1..n : f[i] = g[j]

LEMMA IncreasingAlike ==
  ASSUME NEW n \in Nat, NEW f, NEW g, Increasing(f, n), Increasing(g, n),
         Within(f, g, n), Within(g, f, n)
  PROVE  \A i \in 1..n : f[i] = g[i]
<1> DEFINE Bad == {k \in 1..n : f[k] # g[k]}
<1> SUFFICES ASSUME Bad # {}
             PROVE  FALSE
  OBVIOUS
<1> USE DEF Increasing, Within
<1>1. Bad \in SUBSET Nat
  OBVIOUS
<1>2. PICK m \in Bad : \A k \in Bad : m <= k
  BY <1>1, LeastElement
<1>3. m \in 1..n /\ f[m] # g[m] /\ \A k \in 1..n : k < m => f[k] = g[k]
  BY <1>2
<1>4. PICK j \in 1..n : f[m] = g[j]
  BY <1>3
<1>5. PICK k \in 1..n : g[m] = f[k]
  BY <1>3
<1>6. j > m
  <2>1. j # m
    BY <1>3, <1>4
  <2>2. j < m => f[j] = f[m]
    BY <1>3, <1>4
  <2>3. j < m => f[j] < f[m]
    BY <1>3
  <2>4. f[j] \in Nat /\ f[m] \in Nat
    BY <1>3
  <2> QED BY <1>3, <2>1, <2>2, <2>3, <2>4
<1>7. k > m
  <2>1. k # m
    BY <1>3, <1>5
  <2>2. k < m => g[k] = g[m]
    BY <1>3, <1>5
  <2>3. k < m => g[k] < g[m]
    BY <1>3
  <2>4. g[k] \in Nat /\ g[m] \in Nat
    BY <1>3
  <2> QED BY <1>3, <2>1, <2>2, <2>3, <2>4
<1>8. g[m] < f[m] /\ f[m] < g[m]
  BY <1>3, <1>4, <1>5, <1>6, <1>7
<1>9. g[m] \in Nat /\ f[m] \in Nat
  BY <1>3
<1> QED BY <1>8, <1>9

LEMMA EqualAgrees ==
  ASSUME NEW v
  PROVE  FieldEqual(v, v)
BY DEF FieldEqual

LEMMA AcceptedMeans ==
  ASSUME NEW s \in Seq(Item)
  PROVE  Reason(s) = "" <=> /\ s # <<>>
                            /\ \A f \in Required : ~LowFill(s, f)
                            /\ \A i \in DOMAIN s : SchemaValid(s[i])
BY DEF Reason

KeysDiffer(t) == \A j, k \in DOMAIN t : Rank(t[j]) = Rank(t[k]) => j = k

\* Each item as often, and the records of t once each: s has t's records, once each.
LEMMA ReorderedOnce ==
  ASSUME NEW s \in Seq(Item), NEW t \in Seq(Item), Reordered(s, t, Equal), KeysDiffer(t)
  PROVE  /\ Len(s) = Len(t)
         /\ \A i \in 1..Len(s) : \E j \in 1..Len(t) : s[i] = t[j]
         /\ \A j \in 1..Len(t) : \E i \in 1..Len(s) : s[i] = t[j]
         /\ \A i, j \in 1..Len(s) : s[i] = s[j] => i = j
<1> DEFINE m == Len(s)
           n == Len(t)
           At(u, z) == {i \in DOMAIN u : u[i] = z}
<1>1. m \in Nat /\ n \in Nat /\ DOMAIN s = 1..m /\ DOMAIN t = 1..n
  BY LenProperties
<1>2. IsFiniteSet(1..m) /\ IsFiniteSet(1..n) /\ Cardinality(1..m) = m /\ Cardinality(1..n) = n
  <2> HIDE DEF m, n
  <2>1. Cardinality(1..m) = (IF 1 > m THEN 0 ELSE m - 1 + 1)
    BY <1>1, FS_Interval
  <2>2. Cardinality(1..n) = (IF 1 > n THEN 0 ELSE n - 1 + 1)
    BY <1>1, FS_Interval
  <2> QED BY <1>1, <2>1, <2>2, FS_Interval
<1>3. \A z : /\ At(s, z) \in SUBSET (1..m) /\ At(t, z) \in SUBSET (1..n)
             /\ IsFiniteSet(At(s, z)) /\ IsFiniteSet(At(t, z))
  <2> TAKE z
  <2>1. At(s, z) \in SUBSET (1..m) /\ At(t, z) \in SUBSET (1..n)
    BY <1>1
  <2> HIDE DEF At
  <2> QED BY <1>2, <2>1, FS_Subset
<1>4. \A z \in ToSet(s) \cup ToSet(t) : Cardinality(At(s, z)) = Cardinality(At(t, z))
  BY DEF Reordered, Equal
<1>5. /\ \A i \in 1..m : s[i] \in ToSet(s) /\ i \in At(s, s[i])
      /\ \A j \in 1..n : t[j] \in ToSet(t) /\ j \in At(t, t[j])
  BY <1>1 DEF ToSet
<1>6. \A u, z, i : i \in At(u, z) => u[i] = z
  OBVIOUS
<1> HIDE DEF At, m, n
<1>7. \A i \in 1..m : \E j \in 1..n : s[i] = t[j]
  <2> TAKE i \in 1..m
  <2>1. Cardinality(At(s, s[i])) # 0
    BY <1>3, <1>5, FS_EmptySet
  <2>2. At(t, s[i]) # {}
    <3>1. s[i] \in ToSet(s) \cup ToSet(t)
      BY <1>5
    <3>2. Cardinality(At(t, s[i])) # 0
      BY <1>4, <2>1, <3>1
    <3> QED BY <3>2, FS_EmptySet
  <2>3. PICK j : j \in At(t, s[i])
    BY <2>2
  <2> QED BY <1>3, <1>6, <2>3
<1>8. \A j \in 1..n : \E i \in 1..m : s[i] = t[j]
  <2> TAKE j \in 1..n
  <2>1. Cardinality(At(t, t[j])) # 0
    BY <1>3, <1>5, FS_EmptySet
  <2>2. At(s, t[j]) # {}
    <3>1. t[j] \in ToSet(s) \cup ToSet(t)
      BY <1>5
    <3>2. Cardinality(At(s, t[j])) # 0
      BY <1>4, <2>1, <3>1
    <3> QED BY <3>2, FS_EmptySet
  <2>3. PICK i : i \in At(s, t[j])
    BY <2>2
  <2> QED BY <1>3, <1>6, <2>3
<1>9. \A j \in 1..n : At(t, t[j]) = {j}
  <2> TAKE j \in 1..n
  <2>1. \A k \in At(t, t[j]) : k = j
    BY <1>1, <1>3, <1>6 DEF KeysDiffer
  <2> QED BY <1>5, <2>1
<1>10. \A i, j \in 1..m : s[i] = s[j] => i = j
  <2> TAKE i, j \in 1..m
  <2> HAVE s[i] = s[j]
  <2>1. PICK k \in 1..n : s[i] = t[k]
    BY <1>7
  <2>2. Cardinality(At(t, s[i])) = 1
    BY <1>9, <2>1, FS_Singleton
  <2>3. Cardinality(At(s, s[i])) = 1
    BY <1>4, <1>5, <2>2
  <2>4. \E x : At(s, s[i]) = {x}
    BY <1>3, <2>3, FS_Singleton
  <2>5. i \in At(s, s[i]) /\ j \in At(s, s[i])
    <3>1. j \in At(s, s[j])
      BY <1>5
    <3> QED BY <1>5, <3>1
  <2> QED BY <2>4, <2>5
<1>11. m = n
  <2> DEFINE h == [i \in 1..m |-> CHOOSE j \in 1..n : s[i] = t[j]]
  <2>1. \A i \in 1..m : h[i] \in 1..n /\ s[i] = t[h[i]]
    BY <1>7
  <2>2. h \in [1..m -> 1..n]
    BY <2>1
  <2> HIDE DEF h
  <2>3. \A i, j \in 1..m : h[i] = h[j] => i = j
    BY <1>10, <2>1
  <2>4. \A k \in 1..n : \E i \in 1..m : h[i] = k
    <3> TAKE k \in 1..n
    <3>1. PICK i \in 1..m : s[i] = t[k]
      BY <1>8
    <3>2. t[h[i]] = t[k] /\ h[i] \in 1..n
      BY <2>1, <3>1
    <3>3. h[i] = k
      BY <1>1, <3>2 DEF KeysDiffer
    <3> QED BY <3>3
  <2>5. h \in Bijection(1..m, 1..n)
    BY <2>2, <2>3, <2>4 DEF Bijection, Injection, IsInjective, Surjection
  <2>6. ExistsBijection(1..m, 1..n)
    BY <2>5 DEF ExistsBijection
  <2> QED BY <1>2, <2>6, FS_Bijection
<1> QED BY <1>7, <1>8, <1>10, <1>11 DEF m, n

\* And so the sorted lists are one and the same.
LEMMA ReorderedSortsAlike ==
  ASSUME NEW s \in Seq(Item), NEW t \in Seq(Item), Reordered(s, t, Equal), KeysDiffer(t)
  PROVE  /\ Len(s) = Len(t)
         /\ \A i \in 1..Len(s) : s[KeyOrder(s)[i]] = t[KeyOrder(t)[i]]
<1> DEFINE n == Len(s)
           p == KeyOrder(s)
           q == KeyOrder(t)
           f == [i \in 1..n |-> Rank(s[p[i]])]
           g == [i \in 1..n |-> Rank(t[q[i]])]
<1>1. /\ n \in Nat /\ Len(t) = n /\ DOMAIN s = 1..n /\ DOMAIN t = 1..n
      /\ \A i \in 1..n : s[i] \in Item /\ t[i] \in Item
      /\ \A i \in 1..n : \E j \in 1..n : s[i] = t[j]
      /\ \A j \in 1..n : \E i \in 1..n : s[i] = t[j]
      /\ \A i, j \in 1..n : s[i] = s[j] => i = j
  <2>1. Len(s) = Len(t)
    BY ReorderedOnce
  <2>2. \A j \in 1..Len(t) : \E i \in 1..Len(s) : s[i] = t[j]
    BY ReorderedOnce
  <2>3. \A i \in 1..Len(s) : \E j \in 1..Len(t) : s[i] = t[j]
    BY ReorderedOnce
  <2>4. \A i, j \in 1..Len(s) : s[i] = s[j] => i = j
    BY ReorderedOnce
  <2> QED BY <2>1, <2>2, <2>3, <2>4, LenProperties
<1>2. \A i, j \in 1..n : Rank(t[i]) = Rank(t[j]) => i = j
  BY <1>1 DEF KeysDiffer
<1>3. \A i, j \in 1..n : Rank(s[i]) = Rank(s[j]) => i = j
  <2> TAKE i, j \in 1..n
  <2> HAVE Rank(s[i]) = Rank(s[j])
  <2>1. PICK k \in 1..n : s[i] = t[k]
    BY <1>1
  <2>2. PICK l \in 1..n : s[j] = t[l]
    BY <1>1
  <2>3. k = l
    BY <1>2, <2>1, <2>2
  <2> QED BY <1>1, <2>1, <2>2, <2>3
<1>4. /\ Permutes(p, n)
      /\ \A i, j \in 1..n : i < j => Rank(s[p[i]]) <= Rank(s[p[j]])
  BY KeyOrderProperties
<1>5. /\ Permutes(q, n)
      /\ \A i, j \in 1..n : i < j => Rank(t[q[i]]) <= Rank(t[q[j]])
  BY <1>1, KeyOrderProperties
<1>6. \A i \in 1..n : Rank(s[i]) \in Nat /\ Rank(t[i]) \in Nat
  BY <1>1, RankIsNat
<1> HIDE DEF n, p, q
<1>7. \A i \in 1..n : /\ p[i] \in 1..n /\ q[i] \in 1..n
                      /\ f[i] = Rank(s[p[i]]) /\ g[i] = Rank(t[q[i]])
  BY <1>4, <1>5 DEF Permutes
<1>8. f \in [1..n -> Nat] /\ g \in [1..n -> Nat]
  BY <1>6, <1>7
<1> HIDE DEF f, g
<1>9. \A i, j \in 1..n : i < j => f[i] < f[j]
  <2> TAKE i, j \in 1..n
  <2> HAVE i < j
  <2>1. f[i] <= f[j] /\ f[i] \in Nat /\ f[j] \in Nat
    BY <1>4, <1>7, <1>8
  <2>2. p[i] # p[j]
    BY <1>1, <1>4 DEF Permutes
  <2>3. f[i] # f[j]
    BY <1>3, <1>7, <2>2
  <2> QED BY <2>1, <2>3
<1>10. \A i, j \in 1..n : i < j => g[i] < g[j]
  <2> TAKE i, j \in 1..n
  <2> HAVE i < j
  <2>1. g[i] <= g[j] /\ g[i] \in Nat /\ g[j] \in Nat
    BY <1>5, <1>7, <1>8
  <2>2. q[i] # q[j]
    BY <1>1, <1>5 DEF Permutes
  <2>3. g[i] # g[j]
    BY <1>2, <1>7, <2>2
  <2> QED BY <2>1, <2>3
<1>11. \A i \in 1..n : \E j \in 1..n : f[i] = g[j]
  <2> TAKE i \in 1..n
  <2>1. PICK k \in 1..n : s[p[i]] = t[k]
    BY <1>1, <1>7
  <2>2. PICK j \in 1..n : q[j] = k
    BY <1>5 DEF Permutes
  <2> QED BY <1>7, <2>1, <2>2
<1>12. \A j \in 1..n : \E i \in 1..n : g[j] = f[i]
  <2> TAKE j \in 1..n
  <2>1. PICK k \in 1..n : s[k] = t[q[j]]
    BY <1>1, <1>7
  <2>2. PICK i \in 1..n : p[i] = k
    BY <1>4 DEF Permutes
  <2> QED BY <1>7, <2>1, <2>2
<1>13. \A i \in 1..n : f[i] = g[i]
  <2>1. Increasing(f, n) /\ Increasing(g, n)
    BY <1>8, <1>9, <1>10 DEF Increasing
  <2>2. Within(f, g, n) /\ Within(g, f, n)
    BY <1>11, <1>12 DEF Within
  <2>3. n \in Nat
    BY <1>1
  <2> QED BY <2>1, <2>2, <2>3, IncreasingAlike
<1>14. \A i \in 1..n : s[p[i]] = t[q[i]]
  <2> TAKE i \in 1..n
  <2>1. PICK k \in 1..n : s[p[i]] = t[k]
    BY <1>1, <1>7
  <2>2. k = q[i]
    BY <1>2, <1>7, <1>13, <2>1
  <2> QED BY <2>1, <2>2
<1> QED BY <1>1, <1>14 DEF n, p, q

LEMMA ReorderedIsAligned ==
  ASSUME NEW s \in Seq(Item), NEW t \in Seq(Item), Reordered(s, t, Equal), KeysDiffer(t)
  PROVE  Aligned(s, t)
<1>1. /\ Len(s) \in Nat /\ Len(s) = Len(t) /\ DOMAIN s = 1..Len(s) /\ DOMAIN t = 1..Len(s)
      /\ \A i \in 1..Len(s) : s[KeyOrder(s)[i]] = t[KeyOrder(t)[i]]
  BY ReorderedSortsAlike, LenProperties
<1>2. \A i \in 1..Len(s) : ByKey(s)[i] = ByKey(t)[i]
  BY <1>1 DEF ByKey
<1> QED BY <1>1, <1>2, EqualAgrees DEF Aligned

\* The schema gate does not see the order of the items.
LEMMA ReorderedIsAccepted ==
  ASSUME NEW s \in Seq(Item), NEW t \in Seq(Item), Reordered(s, t, Equal), KeysDiffer(t),
         Reason(t) = ""
  PROVE  Reason(s) = ""
<1> DEFINE n == Len(s)
<1>1. /\ n \in Nat /\ Len(t) = n /\ DOMAIN s = 1..n /\ DOMAIN t = 1..n
      /\ \A i \in 1..n : \E j \in 1..n : s[i] = t[j]
      /\ \A i \in 1..n : s[KeyOrder(s)[i]] = t[KeyOrder(t)[i]]
  <2>1. \A i \in 1..Len(s) : \E j \in 1..Len(t) : s[i] = t[j]
    BY ReorderedOnce
  <2>2. Len(s) = Len(t) /\ \A i \in 1..Len(s) : s[KeyOrder(s)[i]] = t[KeyOrder(t)[i]]
    BY ReorderedSortsAlike
  <2> QED BY <2>1, <2>2, LenProperties
<1>2. /\ t # <<>> /\ \A f \in Required : ~LowFill(t, f)
      /\ \A i \in 1..n : SchemaValid(t[i])
  BY <1>1, AcceptedMeans
<1>3. s # <<>>
  BY <1>1, <1>2, EmptySeq
<1>4. \A i \in DOMAIN s : SchemaValid(s[i])
  BY <1>1, <1>2
<1>5. ASSUME NEW f \in Required
      PROVE  ~LowFill(s, f)
  <2> DEFINE A == {i \in DOMAIN s : s[i][f] # None}
             B == {i \in DOMAIN t : t[i][f] # None}
  <2>1. A \in SUBSET (1..Len(s)) /\ B \in SUBSET (1..Len(s))
    BY <1>1
  <2>2. \A i \in 1..n : KeyOrder(s)[i] \in 1..n /\ KeyOrder(t)[i] \in 1..n
    <3>1. Permutes(KeyOrder(s), n)
      BY KeyOrderProperties
    <3>2. Permutes(KeyOrder(t), n)
      BY <1>1, KeyOrderProperties
    <3> QED BY <3>1, <3>2 DEF Permutes
  <2>3. InStep(s, t, A, B)
    BY <1>1, <2>2 DEF InStep
  <2>4. LowFill(s, f) <=> 10 * Cardinality(A) < 8 * n
    BY DEF LowFill
  <2>5. LowFill(t, f) <=> 10 * Cardinality(B) < 8 * n
    BY <1>1 DEF LowFill
  <2> HIDE DEF A, B
  <2>6. Cardinality(A) = Cardinality(B)
    BY <1>1, <2>1, <2>3, AlignedCounts
  <2> QED BY <1>2, <2>4, <2>5, <2>6
<1> QED BY <1>3, <1>4, <1>5, AcceptedMeans

-----------------------------------------------------------------------------
(* The scores.                                                             *)

Outs == Seq(Item) \cup {Crashed}
PageDetails == [sum : Nat, pairs : Nat \ {0}, worst : 0..F, match : BOOLEAN]
Accumulators == [errors : SUBSET Nat, invalid : SUBSET Nat, details : Seq(PageDetails),
                 sum : Nat, pairs : Nat \ {0}]
ScoreSet == [passed : BOOLEAN, sum : Nat, pairs : Nat \ {0}]

PageDetail(out, records) == IF out = Crashed THEN NoDetail ELSE Detail(out, records)
Full(detail) == detail.sum = detail.pairs * F

\* a is what scoring the outputs os on the first pages, n of them samples, leaves.
Tallied(pages, n, a, os) ==
  /\ a.errors = {i \in 1..Len(os) : os[i] = Crashed}
  /\ a.invalid = {i \in 1..Len(os) : i <= n /\ (os[i] = Crashed \/ Reason(os[i]) # "")}
  /\ Len(a.details) = Len(os)
  /\ \A i \in 1..Len(os) : a.details[i] = PageDetail(os[i], pages[i].records)
  /\ a.sum <= a.pairs * (Len(os) * F)
  /\ (\A i \in 1..Len(os) : Full(a.details[i])) => a.sum = a.pairs * (Len(os) * F)

\* Passed, for n samples.
Qualifies(n, a) ==
  /\ n # 0 /\ a.invalid = {} /\ a.errors = {}
  /\ \A i \in 1..Len(a.details) :
       /\ a.details[i].match
       /\ BarDen * a.details[i].worst >= BarNum * F
       /\ i > n => Full(a.details[i])

Scored(pages, n, score, os) ==
  \E a \in Accumulators :
    /\ Tallied(pages, n, a, os)
    /\ score.passed <=> Qualifies(n, a)
    /\ score.sum = a.sum /\ score.pairs = a.pairs

LEMMA PassedQualifies ==
  ASSUME NEW T, samples \in Seq(T), NEW a \in Accumulators
  PROVE  Passed(a) <=> Qualifies(Len(samples), a)
<1>1. a.details \in Seq(PageDetails)
  BY DEF Accumulators
<1>2. DOMAIN a.details = 1..Len(a.details)
  BY <1>1, LenProperties
<1>3. samples # <<>> <=> Len(samples) # 0
  BY EmptySeq
<1> QED BY <1>2, <1>3 DEF Passed, Qualifies, F, Full

LEMMA PageDetailProperties ==
  ASSUME NEW out \in Outs, NEW records \in Seq(Item), NEW d, d = PageDetail(out, records)
  PROVE  /\ d \in PageDetails /\ d.sum <= d.pairs * F
         /\ out = Crashed => ~d.match
<1>1. CASE out = Crashed
  <2>1. d = [sum |-> 0, pairs |-> 1, worst |-> 0, match |-> FALSE]
    BY <1>1 DEF PageDetail, NoDetail
  <2> QED BY <2>1, FieldsFinite DEF PageDetails
<1>2. CASE out # Crashed
  <2>1. d = Detail(out, records) /\ out \in Seq(Item)
    BY <1>2 DEF PageDetail, Outs
  <2> QED BY <1>2, <2>1, DetailProperties DEF PageDetails
<1> QED BY <1>1, <1>2

\* Adding a mean of at most 1 to k means of at most 1, over a common denominator.
Means(S, P, K) == S \in Nat /\ P \in Nat \ {0} /\ K \in Nat /\ S <= P * K
Perfect(S, P, K) == S = P * K

LEMMA MeansAdded ==
  ASSUME NEW S, NEW P, NEW K, Means(S, P, K), NEW s, NEW p, NEW f, Means(s, p, f)
  PROVE  /\ Means(S * p + s * P, P * p, K + f)
         /\ Perfect(S, P, K) /\ Perfect(s, p, f) => Perfect(S * p + s * P, P * p, K + f)
<1> USE DEF Means, Perfect
<1>1. ASSUME NEW x \in Nat, NEW y \in Nat, NEW z \in Nat, x <= y
      PROVE  x * z <= y * z
  <2>1. PICK w \in Nat : y = x + w
    BY <1>1
  <2>2. y * z = x * z + w * z /\ w * z \in Nat /\ x * z \in Nat
    BY <2>1
  <2> QED BY <2>2
<1>2. P * K \in Nat /\ p * f \in Nat
  OBVIOUS
<1>3. S * p <= (P * K) * p /\ s * P <= (p * f) * P
  BY <1>1, <1>2
<1>4. (P * K) * p + (p * f) * P = (P * p) * (K + f)
  OBVIOUS
<1>5. S * p \in Nat /\ s * P \in Nat /\ (P * K) * p \in Nat /\ (p * f) * P \in Nat /\ P * p \in Nat
  BY <1>2
<1>6. P * p # 0
  OBVIOUS
<1> QED BY <1>3, <1>4, <1>5, <1>6

\* Scoring one more page.
NextTally(a, out, records, pos, n) ==
  LET d == PageDetail(out, records)
  IN  [errors |-> a.errors \cup {i \in {pos} : out = Crashed},
       invalid |-> a.invalid \cup {i \in {pos} : i <= n /\ (out = Crashed \/ Reason(out) # "")},
       details |-> Append(a.details, d),
       sum |-> a.sum * d.pairs + d.sum * a.pairs,
       pairs |-> a.pairs * d.pairs]

LEMMA OneMorePage ==
  ASSUME NEW pages, NEW n \in Nat, NEW a \in Accumulators, NEW os \in Seq(Outs),
         Tallied(pages, n, a, os), NEW out \in Outs, NEW pos, pos = Len(os) + 1,
         pages[pos].records \in Seq(Item),
         NEW b, b = NextTally(a, out, pages[pos].records, pos, n)
  PROVE  b \in Accumulators /\ Tallied(pages, n, b, Append(os, out))
<1> DEFINE d == PageDetail(out, pages[pos].records)
           new == Append(os, out)
           k == Len(os)
<1>1. d \in PageDetails /\ d.sum <= d.pairs * F
  BY PageDetailProperties
<1>2. /\ k \in Nat /\ pos \in Nat /\ pos = k + 1 /\ Len(new) = pos /\ new[pos] = out
      /\ \A i \in 1..k : new[i] = os[i]
  BY AppendProperties, LenProperties
<1>3. /\ a.errors \in SUBSET Nat /\ a.invalid \in SUBSET Nat /\ a.details \in Seq(PageDetails)
      /\ a.sum \in Nat /\ a.pairs \in Nat \ {0}
  BY DEF Accumulators
<1>4. /\ b.errors = a.errors \cup {i \in {pos} : out = Crashed}
      /\ b.invalid = a.invalid \cup {i \in {pos} : i <= n /\ (out = Crashed \/ Reason(out) # "")}
      /\ b.details = Append(a.details, d)
      /\ b.sum = a.sum * d.pairs + d.sum * a.pairs
      /\ b.pairs = a.pairs * d.pairs
      /\ b = [errors |-> b.errors, invalid |-> b.invalid, details |-> b.details,
              sum |-> b.sum, pairs |-> b.pairs]
  BY DEF NextTally
<1> HIDE DEF d, new, k
<1>5. /\ Len(a.details) = k
      /\ \A i \in 1..k : a.details[i] = PageDetail(os[i], pages[i].records)
      /\ a.sum <= a.pairs * (k * F)
      /\ (\A i \in 1..k : Full(a.details[i])) => a.sum = a.pairs * (k * F)
  BY DEF Tallied, k
<1>6. /\ b.details \in Seq(PageDetails) /\ Len(b.details) = pos /\ b.details[pos] = d
      /\ \A i \in 1..k : b.details[i] = a.details[i]
  <2>1. /\ Append(a.details, d) \in Seq(PageDetails)
        /\ Len(Append(a.details, d)) = Len(a.details) + 1
        /\ \A i \in 1..Len(a.details) : Append(a.details, d)[i] = a.details[i]
        /\ Append(a.details, d)[Len(a.details) + 1] = d
    BY <1>1, <1>3, AppendProperties
  <2> QED BY <1>2, <1>4, <1>5, <2>1
<1>7. /\ F \in Nat /\ k * F \in Nat /\ k * F + F = pos * F
      /\ d.sum \in Nat /\ d.pairs \in Nat \ {0}
  <2>1. F \in Nat /\ d.sum \in Nat /\ d.pairs \in Nat \ {0}
    BY <1>1, FieldsFinite DEF PageDetails
  <2>2. (k + 1) * F = k * F + F /\ k * F \in Nat
    BY <1>2, <2>1
  <2> QED BY <1>2, <2>1, <2>2
<1>8. /\ b.sum \in Nat /\ b.pairs \in Nat \ {0}
      /\ b.sum <= b.pairs * (k * F + F)
      /\ a.sum = a.pairs * (k * F) /\ d.sum = d.pairs * F => b.sum = b.pairs * (k * F + F)
  <2> DEFINE K == k * F
  <2>1. Means(a.sum, a.pairs, K) /\ Means(d.sum, d.pairs, F)
    BY <1>1, <1>3, <1>5, <1>7 DEF Means
  <2> HIDE DEF K
  <2>2. /\ a.sum * d.pairs + d.sum * a.pairs \in Nat /\ a.pairs * d.pairs \in Nat \ {0}
        /\ a.sum * d.pairs + d.sum * a.pairs <= (a.pairs * d.pairs) * (K + F)
        /\ a.sum = a.pairs * K /\ d.sum = d.pairs * F =>
             a.sum * d.pairs + d.sum * a.pairs = (a.pairs * d.pairs) * (K + F)
    <3>1. /\ Means(a.sum * d.pairs + d.sum * a.pairs, a.pairs * d.pairs, K + F)
          /\ Perfect(a.sum, a.pairs, K) /\ Perfect(d.sum, d.pairs, F) =>
               Perfect(a.sum * d.pairs + d.sum * a.pairs, a.pairs * d.pairs, K + F)
      BY <2>1, MeansAdded
    <3> QED BY <3>1 DEF Means, Perfect
  <2> QED BY <1>4, <2>2 DEF K
<1>9. b.errors = {i \in 1..pos : new[i] = Crashed}
  <2>1. a.errors = {i \in 1..k : os[i] = Crashed}
    BY DEF Tallied, k
  <2>2. \A i : i \in 1..pos <=> i = pos \/ i \in 1..k
    BY <1>2
  <2>3. \A i : i \in b.errors <=> (i \in 1..k /\ os[i] = Crashed) \/ (i = pos /\ out = Crashed)
    BY <1>4, <2>1
  <2>4. \A i \in 1..k : new[i] = os[i] /\ i # pos
    BY <1>2
  <2> QED BY <1>2, <2>2, <2>3, <2>4
<1>10. b.invalid = {i \in 1..pos : i <= n /\ (new[i] = Crashed \/ Reason(new[i]) # "")}
  <2>1. a.invalid = {i \in 1..k : i <= n /\ (os[i] = Crashed \/ Reason(os[i]) # "")}
    BY DEF Tallied, k
  <2>2. \A i : i \in 1..pos <=> i = pos \/ i \in 1..k
    BY <1>2
  <2>3. \A i : i \in b.invalid <=>
                 \/ i \in 1..k /\ i <= n /\ (os[i] = Crashed \/ Reason(os[i]) # "")
                 \/ i = pos /\ i <= n /\ (out = Crashed \/ Reason(out) # "")
    BY <1>4, <2>1
  <2>4. \A i \in 1..k : new[i] = os[i] /\ i # pos
    BY <1>2
  <2> QED BY <1>2, <2>2, <2>3, <2>4
<1>11. \A i \in 1..pos : b.details[i] = PageDetail(new[i], pages[i].records)
  <2> TAKE i \in 1..pos
  <2>1. CASE i = pos
    BY <1>2, <1>6, <2>1 DEF d
  <2>2. CASE i \in 1..k
    BY <1>2, <1>5, <1>6, <2>2
  <2> QED BY <1>2, <2>1, <2>2
<1>12. (\A i \in 1..pos : Full(b.details[i])) => b.sum = b.pairs * (pos * F)
  <2> HAVE \A i \in 1..pos : Full(b.details[i])
  <2>1. \A i \in 1..k : i \in 1..pos /\ b.details[i] = a.details[i]
    BY <1>2, <1>6 DEF k
  <2>2. pos \in 1..pos
    BY <1>2 DEF k
  <2>3. (\A i \in 1..k : Full(a.details[i])) /\ Full(d)
    BY <1>6, <2>1, <2>2
  <2> QED BY <1>5, <1>7, <1>8, <2>3 DEF Full
<1>13. b \in Accumulators
  <2>1. b.errors \in SUBSET Nat /\ b.invalid \in SUBSET Nat
    BY <1>2, <1>3, <1>4
  <2> QED BY <1>4, <1>6, <1>8, <2>1 DEF Accumulators
<1> QED BY <1>2, <1>6, <1>7, <1>8, <1>9, <1>10, <1>11, <1>12, <1>13 DEF Tallied, new

-----------------------------------------------------------------------------
(* Discovery and the crawlers.                                             *)

\* A place holds a target when it has it at one of the scales tried.
Holds(doc, place, target, numeric) ==
  /\ place.path \in DOMAIN doc
  /\ IF numeric
     THEN /\ place.scale \in {1, Scale}
          /\ NoMoney \notin {ToFloat(doc[place.path]), ToFloat(target)}
          /\ ToFloat(doc[place.path]) * place.scale = ToFloat(target)
     ELSE place.scale = 0 /\ Stripped[doc[place.path]] = Stripped[target]

\* What is discovered holds in every sample.
LEMMA DiscoveryHolds ==
  ASSUME NEW docs, NEW records, NEW f \in DOMAIN DiscoverPaths(docs, records),
         DOMAIN docs # {}
  PROVE  LET place == DiscoverPaths(docs, records)[f]
         IN  /\ f \in Fields /\ \A i \in DOMAIN records : records[i][f] # None
             /\ \A i \in DOMAIN docs : Holds(docs[i], place, records[i][f], f \in Volatile)
<1> DEFINE held == [i \in DOMAIN docs |-> PathScales(docs[i], records[i][f], f \in Volatile)]
           scales(p) == {s \in {1, Scale} :
                           \A i \in DOMAIN held : p \in DOMAIN held[i] /\ s \in held[i][p]}
           found == Consistent(docs, records, f)
           place == DiscoverPaths(docs, records)[f]
           path == Min(DOMAIN found)
<1>1. /\ f \in Fields /\ (\A i \in DOMAIN records : records[i][f] # None)
      /\ DOMAIN found # {}
      /\ place = [path |-> path, scale |-> IF f \in Volatile THEN Min(found[path]) ELSE 0]
  BY DEF DiscoverPaths, Considered
<1>2. found = [p \in {q \in Paths : scales(q) # {}} |-> scales(p)]
  BY DEF Consistent, Narrowed
<1>3. \A i \in DOMAIN docs :
        /\ i \in DOMAIN held
        /\ held[i] = PathScales(docs[i], records[i][f], f \in Volatile)
  OBVIOUS
<1> HIDE DEF found, held
<1>4. path \in DOMAIN found /\ path \in Paths /\ scales(path) # {} /\ found[path] = scales(path)
  <2>1. DOMAIN found \in SUBSET Nat
    BY <1>2, ValuePathAssumption
  <2>2. path \in DOMAIN found
    BY <1>1, <2>1, MinProperties
  <2> QED BY <1>2, <2>2
<1>5. Min(found[path]) \in scales(path)
  <2>1. found[path] \in SUBSET Nat /\ found[path] # {}
    BY <1>4, ValuePathAssumption
  <2> QED BY <1>4, <2>1, MinProperties
<1>6. ASSUME NEW i \in DOMAIN docs
      PROVE  Holds(docs[i], place, records[i][f], f \in Volatile)
  <2> DEFINE s == Min(found[path])
             leaf == docs[i][path]
             target == records[i][f]
  <2>1. s \in {1, Scale} /\ path \in DOMAIN held[i] /\ s \in held[i][path]
    BY <1>3, <1>5
  <2> HIDE DEF s
  <2>2. path \in DOMAIN docs[i] /\ s \in CandidateScales(leaf, target, f \in Volatile)
    BY <1>3, <2>1 DEF PathScales
  <2>3. CASE f \in Volatile
    <3>1. /\ NoMoney \notin {ToFloat(leaf), ToFloat(target)}
          /\ ToFloat(leaf) * s = ToFloat(target)
      BY <2>2, <2>3 DEF CandidateScales
    <3>2. place.path = path /\ place.scale = s
      BY <1>1, <2>3 DEF s
    <3> QED BY <2>1, <2>2, <2>3, <3>1, <3>2 DEF Holds
  <2>4. CASE f \notin Volatile
    <3>1. Stripped[leaf] = Stripped[target]
      BY <2>2, <2>4 DEF CandidateScales
    <3>2. place.path = path /\ place.scale = 0
      BY <1>1, <2>4
    <3> QED BY <2>2, <2>4, <3>1, <3>2 DEF Holds
  <2> QED BY <2>3, <2>4
<1> QED BY <1>1, <1>6

\* A leaf and an amount: the number the crawler makes of it.
LEMMA NumProperties ==
  ASSUME NEW v \in Leaves \cup {Null, None}, NEW s \in {1, Scale}
  PROVE  /\ Num(v, s) \in Values \cup {None}
         /\ ToFloat(v) # NoMoney =>
              LET n == ToFloat(v) * s
              IN  Num(v, s) \in Values /\ Float[Num(v, s)] = n
<1>1. CASE ToFloat(v) = NoMoney
  BY <1>1 DEF Num
<1>2. CASE ToFloat(v) # NoMoney
  <2>1. v \in Leaves /\ ToFloat(v) = Float[v]
    BY <1>2, ValuePathAssumption DEF ToFloat
  <2>2. Num(v, s) = Numeral[Float[v] * s]
    BY <1>2, <2>1 DEF Num
  <2> QED BY <1>2, <2>1, <2>2, ValuePathAssumption
<1> QED BY <1>1, <1>2

LEMMA DocumentReads ==
  ASSUME NEW doc \in Document, NEW path
  PROVE  /\ ReadPath(doc, path) \in Leaves \cup {None}
         /\ path \in DOMAIN doc => doc[path] \in Leaves \cup {Null}
         /\ path \in DOMAIN doc /\ doc[path] # Null => ReadPath(doc, path) = doc[path]
<1>1. PICK P \in SUBSET Paths : doc \in [P -> Leaves \cup {Null}]
  BY DEF Document
<1> QED BY <1>1 DEF ReadPath

\* Run where a numeric place holds its target, the crawler reads the target.
LEMMA ReadFieldProperties ==
  ASSUME NEW doc \in Document, NEW place, place.scale \in {0, 1, Scale}
  PROVE  ReadField(doc, place) \in Values \cup {None}
<1>1. ReadPath(doc, place.path) \in Leaves \cup {None}
  BY DocumentReads
<1>2. CASE place.scale = 0
  BY <1>1, <1>2, ValuePathAssumption DEF ReadField
<1>3. CASE place.scale \in {1, Scale}
  <2>1. place.scale # 0
    BY <1>3, ValuePathAssumption
  <2>2. ReadField(doc, place) = Num(ReadPath(doc, place.path), place.scale)
    BY <2>1 DEF ReadField
  <2> QED BY <1>1, <1>3, <2>2, NumProperties
<1> QED BY <1>2, <1>3

LEMMA ReadsTheTarget ==
  ASSUME NEW doc \in Document, NEW place, NEW target \in Values, NEW numeric \in BOOLEAN,
         Holds(doc, place, target, numeric)
  PROVE  numeric \/ Stripped[target] # Stripped[Null] => FieldEqual(ReadField(doc, place), target)
<1> DEFINE leaf == doc[place.path]
<1>1. place.path \in DOMAIN doc /\ leaf \in Leaves \cup {Null}
  BY DocumentReads DEF Holds
<1>2. target # None /\ target # Null
  BY ValidatorAssumption, ValuePathAssumption
<1>3. CASE numeric
  <2>1. /\ place.scale \in {1, Scale} /\ ToFloat(leaf) # NoMoney /\ ToFloat(target) # NoMoney
        /\ ToFloat(leaf) * place.scale = ToFloat(target)
    BY <1>3 DEF Holds
  <2>2. leaf # Null /\ leaf \in Leaves
    BY <1>1, <2>1 DEF ToFloat
  <2>3. ReadPath(doc, place.path) = leaf /\ place.scale # 0
    BY <1>1, <2>1, <2>2, ValuePathAssumption, DocumentReads
  <2>4. ReadField(doc, place) = Num(leaf, place.scale)
    BY <2>3 DEF ReadField
  <2> DEFINE got == ReadField(doc, place)
  <2>5. got \in Values /\ Float[got] = ToFloat(target)
    BY <2>1, <2>2, <2>4, NumProperties
  <2>6. ToFloat(target) = Float[target]
    BY <1>2 DEF ToFloat
  <2> HIDE DEF got
  <2>7. Money[got] = Float[got] /\ Money[target] = Float[target]
    BY <2>1, <2>5, <2>6, ValuePathAssumption
  <2>8. got # None
    BY <2>5, ValidatorAssumption
  <2>9. FieldEqual(got, target)
    BY <1>2, <2>1, <2>5, <2>6, <2>7, <2>8 DEF FieldEqual
  <2> QED BY <2>9 DEF got
<1>4. CASE ~numeric
  <2> HAVE numeric \/ Stripped[target] # Stripped[Null]
  <2>1. place.scale = 0 /\ Stripped[leaf] = Stripped[target]
    BY <1>4 DEF Holds
  <2>2. leaf # Null /\ leaf \in Leaves
    BY <1>1, <1>4, <2>1
  <2>3. ReadField(doc, place) = leaf
    BY <1>1, <2>1, <2>2, DocumentReads DEF ReadField
  <2>4. leaf \in Values /\ Text[leaf] = Text[target]
    BY <2>1, <2>2, ValuePathAssumption
  <2>5. Money[leaf] = Money[target] /\ leaf # None
    BY <2>4, ValidatorAssumption
  <2> QED BY <1>2, <2>3, <2>4, <2>5 DEF FieldEqual
<1> QED BY <1>3, <1>4

LEMMA FirstRecordIsItem ==
  ASSUME NEW pg \in Page
  PROVE  FirstRecord(pg) \in Item
<1>1. pg.records \in Seq(Item)
  BY DEF Page
<1>2. pg.records # <<>> => pg.records[1] \in Item
  BY <1>1, HeadTailProperties
<1> QED BY <1>2 DEF FirstRecord, Blank, Item

\* Where the first marked script of a sample parses, what was discovered holds there.
LEMMA Discovered ==
  ASSUME NEW s \in Seq(Page) \ {<<>>}, NEW f \in DOMAIN ValuePathDiscovery(s)
  PROVE  LET place == ValuePathDiscovery(s)[f]
         IN  /\ f \in Fields /\ place.scale \in {0, 1, Scale}
             /\ \A i \in DOMAIN s :
                  /\ FirstRecord(s[i])[f] \in Values
                  /\ ~Unreadable(s[i].islands) =>
                       /\ Head(s[i].islands) \in Document
                       /\ Holds(Head(s[i].islands), place, FirstRecord(s[i])[f], f \in Volatile)
<1> DEFINE docs == [i \in DOMAIN s |-> Head(ExtractJsonBlobs(s[i].islands))]
           records == [i \in DOMAIN s |-> FirstRecord(s[i])]
           place == ValuePathDiscovery(s)[f]
<1>1. ValuePathDiscovery(s) = DiscoverPaths(docs, records)
  BY DEF ValuePathDiscovery
<1>2. DOMAIN docs = DOMAIN s /\ DOMAIN records = DOMAIN s /\ DOMAIN s # {}
  <2>1. DOMAIN s = 1..Len(s) /\ Len(s) \in Nat /\ Len(s) # 0
    BY LenProperties, EmptySeq
  <2> QED BY <2>1
<1>3. \A i \in DOMAIN s : s[i] \in Page /\ records[i] = FirstRecord(s[i])
                          /\ docs[i] = Head(ExtractJsonBlobs(s[i].islands))
  BY LenProperties
<1> HIDE DEF docs, records
<1>4. /\ f \in Fields /\ \A i \in DOMAIN s : records[i][f] # None
      /\ \A i \in DOMAIN s : Holds(docs[i], place, records[i][f], f \in Volatile)
  BY <1>1, <1>2, DiscoveryHolds
<1>5. place.scale \in {0, 1, Scale}
  BY <1>2, <1>4 DEF Holds
<1>6. ASSUME NEW i \in DOMAIN s
      PROVE  /\ FirstRecord(s[i])[f] \in Values
             /\ ~Unreadable(s[i].islands) =>
                  /\ Head(s[i].islands) \in Document
                  /\ Holds(Head(s[i].islands), place, FirstRecord(s[i])[f], f \in Volatile)
  <2> DEFINE islands == s[i].islands
  <2>1. FirstRecord(s[i])[f] \in Values
    <3>1. FirstRecord(s[i]) \in Item /\ FirstRecord(s[i])[f] # None
      BY <1>3, <1>4, FirstRecordIsItem
    <3> QED BY <1>4, <3>1 DEF Item
  <2>2. ASSUME ~Unreadable(islands)
        PROVE  /\ Head(islands) \in Document
               /\ Holds(Head(islands), place, FirstRecord(s[i])[f], f \in Volatile)
    <3>1. islands \in Seq(Document \cup {Broken}) /\ islands # <<>> /\ Head(islands) # Broken
      BY <1>3, <2>2 DEF Page, Unreadable
    <3> HIDE DEF islands
    <3>2. Head(islands) = islands[1] /\ Len(islands) \in Nat /\ Len(islands) # 0
          /\ DOMAIN islands = 1..Len(islands) /\ islands[1] \in Document \cup {Broken}
      BY <3>1, EmptySeq, HeadTailProperties, LenProperties
    <3>3. {k \in DOMAIN islands : islands[k] # Broken} \in SUBSET (1..Len(islands))
          /\ 1 \in {k \in DOMAIN islands : islands[k] # Broken}
      BY <3>1, <3>2
    <3>4. Head(ExtractJsonBlobs(islands)) = Head(islands)
      BY <3>1, <3>3, KeptHead DEF ExtractJsonBlobs
    <3>5. docs[i] = Head(islands)
      BY <1>3, <3>4 DEF islands
    <3> QED BY <1>3, <1>4, <3>1, <3>2, <3>5
  <2> QED BY <2>1, <2>2
<1> QED BY <1>4, <1>5, <1>6

LEMMA ReadableHead ==
  ASSUME NEW islands \in Seq(Document \cup {Broken}), ~Unreadable(islands)
  PROVE  Head(islands) \in Document
<1>1. islands # <<>> /\ Head(islands) # Broken
  BY DEF Unreadable
<1>2. Head(islands) \in Document \cup {Broken}
  BY <1>1, HeadTailProperties
<1> QED BY <1>1, <1>2

LEMMA ValuePathCrawlTyped ==
  ASSUME NEW s \in Seq(Page) \ {<<>>}, NEW islands \in Seq(Document \cup {Broken}),
         NEW out, out = ValuePathCrawl(ValuePathDiscovery(s), islands)
  PROVE  /\ out \in Seq(Item)
         /\ ~Unreadable(islands) =>
              /\ Len(out) = 1
              /\ \A f \in Fields :
                   out[1][f] = IF f \in DOMAIN ValuePathDiscovery(s)
                               THEN ReadField(Head(islands), ValuePathDiscovery(s)[f]) ELSE None
<1> DEFINE reads == ValuePathDiscovery(s)
           item == [f \in Fields |-> IF f \in DOMAIN reads
                                     THEN ReadField(Head(islands), reads[f]) ELSE None]
<1>1. CASE Unreadable(islands)
  BY <1>1, EmptySeq DEF ValuePathCrawl
<1>2. CASE ~Unreadable(islands)
  <2>1. out = <<item>>
    BY <1>2 DEF ValuePathCrawl
  <2>2. Head(islands) \in Document
    BY <1>2, ReadableHead
  <2>3. \A f \in DOMAIN reads : ReadField(Head(islands), reads[f]) \in Values \cup {None}
    <3> TAKE f \in DOMAIN reads
    <3>1. reads[f].scale \in {0, 1, Scale}
      BY Discovered
    <3> QED BY <2>2, <3>1, ReadFieldProperties
  <2>4. item \in Item
    BY <2>3 DEF Item
  <2>5. \A f \in Fields : item[f] = IF f \in DOMAIN reads
                                   THEN ReadField(Head(islands), reads[f]) ELSE None
    OBVIOUS
  <2> HIDE DEF item
  <2>6. out \in Seq(Item) /\ Len(out) = 1 /\ out[1] = item
    BY <2>1, <2>4
  <2> QED BY <2>5, <2>6
<1> QED BY <1>1, <1>2

\* On a sample, the crawler reads a value that field_equal takes for the oracle's.
LEMMA CrawlerGeneralises ==
  ASSUME NEW s \in Seq(Page) \ {<<>>}, NEW i \in DOMAIN s, ~Unreadable(s[i].islands),
         NEW f \in DOMAIN ValuePathDiscovery(s), NEW wanted, wanted = FirstRecord(s[i])[f]
  PROVE  \/ Stripped[wanted] = Stripped[Null]
         \/ FieldEqual(ValuePathCrawl(ValuePathDiscovery(s), s[i].islands)[1][f], wanted)
<1> DEFINE place == ValuePathDiscovery(s)[f]
           doc == Head(s[i].islands)
<1>1. /\ f \in Fields /\ wanted \in Values /\ doc \in Document
      /\ Holds(doc, place, wanted, f \in Volatile)
  BY Discovered
<1>2. s[i].islands \in Seq(Document \cup {Broken})
  <2>1. s \in Seq(Page)
    OBVIOUS
  <2>2. s[i] \in Page
    BY <2>1, LenProperties
  <2> QED BY <2>2 DEF Page
<1>3. ValuePathCrawl(ValuePathDiscovery(s), s[i].islands)[1][f] = ReadField(doc, place)
  BY <1>1, <1>2, ValuePathCrawlTyped
<1> HIDE DEF place, doc
<1>4. (f \in Volatile) \in BOOLEAN
  OBVIOUS
<1>5. Stripped[wanted] # Stripped[Null] => FieldEqual(ReadField(doc, place), wanted)
  BY <1>1, <1>4, ReadsTheTarget
<1> QED BY <1>3, <1>5

-----------------------------------------------------------------------------
(* The inductive invariant.                                                *)

Offered ==
  {ValuePathCandidate, GeneratedCandidate} \cup {PathMapCandidate(reply) : reply \in Replies}

GivenInv ==
  /\ samples \in Sampled /\ fixtures \in Golden /\ cands \in Seq(Offered)
  /\ \A c \in 1..Candidates : cands[c].kind = "paths" => c = 1

\* How far the round is: the outputs go one candidate ahead of the scores.
CountInv ==
  /\ outs \in Seq(Seq(Outs)) /\ acc \in Accumulators /\ scores \in Seq(ScoreSet)
  /\ page \in 1..(Len(Pages) + 1) /\ Len(acc.details) = page - 1
  /\ best \in 0..Candidates /\ Len(scores) <= Candidates
  /\ Len(outs) = IF Candidates > 0 /\ Len(scores) = Candidates THEN Candidates
                 ELSE Len(scores) + 1

\* The accumulators tally what the current candidate returned so far.
TallyInv ==
  Len(outs) = Len(scores) + 1 =>
    Len(outs[Len(outs)]) = page - 1 /\ Tallied(Pages, Len(samples), acc, outs[Len(outs)])

\* Each score is what some accumulators held at the end of a candidate's pages.
ScoreInv ==
  \A c \in 1..Len(scores) :
    Len(outs[c]) = Len(Pages) /\ Scored(Pages, Len(samples), scores[c], outs[c])

\* What the value-path crawler returned is what it reads on the page.
ReadsInv ==
  \A c \in 1..Len(outs) : \A i \in 1..Len(outs[c]) :
    /\ c <= Candidates
    /\ outs[c][i] = Crashed \/ (cands[c].kind = "paths" =>
                                  outs[c][i] = ValuePathCrawl(cands[c].reads, Pages[i].islands))

BestInv ==
  best # 0 => /\ Candidates > 0 /\ Len(scores) = Candidates
              /\ best \in Winners /\ \A c \in Winners : best <= c

Inv == GivenInv /\ CountInv /\ TallyInv /\ ScoreInv /\ ReadsInv /\ BestInv

LEMMA PagesAre ==
  ASSUME samples \in Sampled, fixtures \in Golden
  PROVE  /\ samples \in Seq(Page) \ {<<>>} /\ fixtures \in Seq(Page)
         /\ Len(samples) \in Nat /\ Len(samples) > 0
         /\ Len(fixtures) \in Nat /\ Len(Pages) = Len(samples) + Len(fixtures)
         /\ DOMAIN samples = 1..Len(samples) /\ DOMAIN fixtures = 1..Len(fixtures)
         /\ DOMAIN Pages = 1..Len(Pages)
         /\ \A i \in 1..Len(samples) : Pages[i] = samples[i]
         /\ \A i \in 1..Len(fixtures) : Pages[Len(samples) + i] = fixtures[i]
         /\ \A i \in 1..Len(Pages) : /\ Pages[i].records \in Seq(Item)
                                     /\ Pages[i].islands \in Seq(Document \cup {Broken})
<1>1. samples \in Seq(Page) \ {<<>>} /\ fixtures \in Seq(Page)
  BY FirstRoundAssumption
<1>2. /\ Len(samples) \in Nat /\ Len(samples) > 0 /\ Len(fixtures) \in Nat
      /\ DOMAIN samples = 1..Len(samples) /\ DOMAIN fixtures = 1..Len(fixtures)
  BY <1>1, LenProperties, EmptySeq
<1>3. /\ Pages \in Seq(Page) /\ Len(Pages) = Len(samples) + Len(fixtures)
      /\ \A i \in 1..(Len(samples) + Len(fixtures)) :
           Pages[i] = IF i <= Len(samples) THEN samples[i] ELSE fixtures[i - Len(samples)]
  BY <1>1, ConcatProperties DEF Pages
<1> HIDE DEF Pages
<1>4. \A i \in 1..Len(samples) : Pages[i] = samples[i]
  BY <1>2, <1>3
<1>5. \A i \in 1..Len(fixtures) : Pages[Len(samples) + i] = fixtures[i]
  <2> TAKE i \in 1..Len(fixtures)
  <2>1. /\ Len(samples) + i \in 1..(Len(samples) + Len(fixtures))
        /\ ~(Len(samples) + i <= Len(samples)) /\ (Len(samples) + i) - Len(samples) = i
    BY <1>2
  <2> QED BY <1>3, <2>1
<1>6. DOMAIN Pages = 1..Len(Pages) /\ \A i \in 1..Len(Pages) : Pages[i] \in Page
  BY <1>3, LenProperties
<1>7. \A i \in 1..Len(Pages) : /\ Pages[i].records \in Seq(Item)
                               /\ Pages[i].islands \in Seq(Document \cup {Broken})
  BY <1>6 DEF Page
<1> QED BY <1>1, <1>2, <1>3, <1>4, <1>5, <1>6, <1>7

LEMMA SomePage ==
  ASSUME samples \in Sampled, fixtures \in Golden, NEW i \in 1..Len(Pages)
  PROVE  \/ \E j \in DOMAIN samples : Pages[i] = samples[j]
         \/ \E j \in DOMAIN fixtures : Pages[i] = fixtures[j]
<1>1. CASE i <= Len(samples)
  BY <1>1, PagesAre
<1>2. CASE ~(i <= Len(samples))
  <2> DEFINE j == i - Len(samples)
  <2>1. j \in 1..Len(fixtures) /\ Len(samples) + j = i
    BY <1>2, PagesAre
  <2> HIDE DEF j
  <2>2. Pages[Len(samples) + j] = fixtures[j] /\ j \in DOMAIN fixtures
    BY <2>1, PagesAre
  <2> QED BY <2>1, <2>2
<1> QED BY <1>1, <1>2

LEMMA InvInit == Init => Inv
<1> SUFFICES ASSUME Init PROVE Inv
  OBVIOUS
<1>1. /\ samples \in Sampled /\ fixtures \in Golden /\ cands = <<>> /\ page = 1
      /\ outs = <<<<>>>> /\ acc = NoScore /\ scores = <<>> /\ best = 0
  BY DEF Init, ScoringInit
<1>2. Len(Pages) \in Nat /\ Len(cands) = 0 /\ Len(scores) = 0
  BY <1>1, PagesAre
<1>3. /\ outs \in Seq(Seq(Outs)) /\ Len(outs) = 1 /\ outs[1] = <<>> /\ Len(outs[1]) = 0
  BY <1>1
<1>4. /\ acc \in Accumulators /\ Len(acc.details) = 0
      /\ acc.errors = {} /\ acc.invalid = {} /\ acc.details = <<>> /\ acc.sum = 0 /\ acc.pairs = 1
  <2>1. <<>> \in Seq(PageDetails) /\ Len(<<>>) = 0
    BY EmptySeq
  <2> QED BY <1>1, <2>1 DEF NoScore, Accumulators
<1>5. GivenInv
  BY <1>1, <1>2 DEF GivenInv, Candidates
<1>6. CountInv
  BY <1>1, <1>2, <1>3, <1>4 DEF CountInv, Candidates
<1>7. Tallied(Pages, Len(samples), acc, outs[1])
  <2>1. 0 * F = 0 /\ 1..0 = {}
    BY FieldsFinite
  <2> QED BY <1>3, <1>4, <2>1 DEF Tallied
<1>8. TallyInv
  BY <1>1, <1>3, <1>7 DEF TallyInv
<1>9. ScoreInv /\ ReadsInv /\ BestInv
  BY <1>1, <1>2, <1>3 DEF ScoreInv, ReadsInv, BestInv
<1> QED BY <1>5, <1>6, <1>8, <1>9 DEF Inv

LEMMA InvPrepare ==
  ASSUME Inv, NEW reply \in Replies, Prepare(reply)
  PROVE  Inv'
<1> DEFINE given1 == [i \in 1..Generated |-> GeneratedCandidate]
<1>1. /\ cands = <<>> /\ samples' = samples /\ fixtures' = fixtures /\ page' = page
      /\ outs' = outs /\ acc' = acc /\ scores' = scores /\ best' = best
      /\ cands' = Deterministic(reply) \o given1
  BY DEF Prepare, scoring
<1>2. /\ Candidates = 0 /\ Len(scores) = 0 /\ Len(outs) = 1 /\ best = 0
  <2>1. Candidates = 0
    BY <1>1 DEF Candidates
  <2>2. Len(scores) \in Nat
    BY LenProperties DEF Inv, CountInv
  <2> QED BY <2>1, <2>2 DEF Inv, CountInv
<1>3. Pages' = Pages /\ Len(samples)' = Len(samples) /\ Offered' = Offered
  BY <1>1 DEF Pages, Offered, ValuePathCandidate, PathMapCandidate, GeneratedCandidate
<1>4. given1 \in Seq(Offered) /\ Len(given1) = Generated /\ Generated \in Nat \ {0}
      /\ \A i \in 1..Generated : given1[i] = GeneratedCandidate
  <2>1. Generated \in Nat \ {0} /\ GeneratedCandidate \in Offered
    BY FirstRoundAssumption DEF Offered
  <2> HIDE DEF Offered, GeneratedCandidate
  <2>2. given1 \in [1..Generated -> Offered]
    BY <2>1
  <2> QED BY <2>1, <2>2, SeqDef, LenProperties
<1>5. \A i \in 1..Generated : given1[i].kind # "paths"
  BY <1>4 DEF GeneratedCandidate
<1> HIDE DEF given1
<1> DEFINE paths == Emitted(ValuePathCandidate)
           map == Emitted(PathMapCandidate(reply))
<1>6. paths \in Seq(Offered) /\ Len(paths) \in {0, 1}
  <2>1. ValuePathCandidate \in Offered
    BY DEF Offered
  <2>2. paths = <<>> \/ paths = <<ValuePathCandidate>>
    BY DEF Emitted
  <2> HIDE DEF paths, Offered, ValuePathCandidate
  <2>3. /\ <<>> \in Seq(Offered) /\ Len(<<>>) = 0
        /\ <<ValuePathCandidate>> \in Seq(Offered) /\ Len(<<ValuePathCandidate>>) = 1
    BY <2>1, EmptySeq
  <2> QED BY <2>2, <2>3
<1>7. map \in Seq(Offered) /\ Len(map) \in {0, 1} /\ \A i \in 1..Len(map) : map[i].kind # "paths"
  <2>1. PathMapCandidate(reply) \in Offered /\ PathMapCandidate(reply).kind # "paths"
    BY DEF Offered, PathMapCandidate
  <2>2. map = <<>> \/ map = <<PathMapCandidate(reply)>>
    BY DEF Emitted
  <2> HIDE DEF map, Offered, PathMapCandidate
  <2>3. /\ <<>> \in Seq(Offered) /\ Len(<<>>) = 0
        /\ <<PathMapCandidate(reply)>> \in Seq(Offered) /\ Len(<<PathMapCandidate(reply)>>) = 1
        /\ <<PathMapCandidate(reply)>>[1] = PathMapCandidate(reply)
    BY <2>1, EmptySeq
  <2>4. \A i \in 1..0 : FALSE
    OBVIOUS
  <2>5. \A i \in 1..1 : i = 1
    OBVIOUS
  <2> QED BY <2>1, <2>2, <2>3, <2>4, <2>5
<1> HIDE DEF paths, map
<1>8. /\ paths \o map \in Seq(Offered) /\ Len(paths \o map) = Len(paths) + Len(map)
      /\ \A i \in 1..(Len(paths) + Len(map)) :
           (paths \o map)[i] = IF i <= Len(paths) THEN paths[i] ELSE map[i - Len(paths)]
  BY <1>6, <1>7, ConcatProperties
<1> DEFINE found == paths \o map
<1>9. \A i \in 1..Len(found) : found[i].kind = "paths" => i = 1
  <2> TAKE i \in 1..Len(found)
  <2>1. CASE i <= Len(paths)
    BY <1>6, <1>8, <2>1
  <2>2. CASE ~(i <= Len(paths))
    <3>1. i - Len(paths) \in 1..Len(map) /\ found[i] = map[i - Len(paths)]
      BY <1>6, <1>7, <1>8, <2>2
    <3> QED BY <1>7, <3>1
  <2> QED BY <2>1, <2>2
<1>10. found \in Seq(Offered) /\ cands' = found \o given1 /\ Len(found) \in Nat
  BY <1>1, <1>6, <1>7, <1>8 DEF Deterministic, paths, map
<1> HIDE DEF found
<1>11. /\ cands' \in Seq(Offered) /\ Len(cands') = Len(found) + Generated
       /\ \A i \in 1..(Len(found) + Generated) :
            cands'[i] = IF i <= Len(found) THEN found[i] ELSE given1[i - Len(found)]
  BY <1>4, <1>10, ConcatProperties
<1>12. \A c \in 1..Candidates' : cands'[c].kind = "paths" => c = 1
  <2>1. Candidates' = Len(found) + Generated
    BY <1>11 DEF Candidates
  <2> TAKE c \in 1..Candidates'
  <2>2. CASE c <= Len(found)
    BY <1>9, <1>10, <1>11, <2>1, <2>2
  <2>3. CASE ~(c <= Len(found))
    <3>1. c - Len(found) \in 1..Generated /\ cands'[c] = given1[c - Len(found)]
      BY <1>4, <1>10, <1>11, <2>1, <2>3
    <3> QED BY <1>5, <3>1
  <2> QED BY <2>2, <2>3
<1>13. GivenInv'
  BY <1>1, <1>3, <1>11, <1>12 DEF Inv, GivenInv
<1>14. Candidates' \in Nat /\ Candidates' > 0
  BY <1>4, <1>10, <1>11 DEF Candidates
<1>15. CountInv'
  BY <1>1, <1>2, <1>3, <1>14 DEF Inv, CountInv
<1>16. TallyInv' /\ ScoreInv' /\ BestInv'
  BY <1>1, <1>2, <1>3 DEF Inv, TallyInv, ScoreInv, BestInv
<1>17. ReadsInv'
  BY <1>1, <1>2 DEF Inv, ReadsInv
<1> QED BY <1>13, <1>15, <1>16, <1>17 DEF Inv

\* A page is run: what is common to a crash and to an output.
LEMMA InvPage ==
  ASSUME Inv, Scoring, NEW out \in Outs, Returned(out), page' = page + 1,
         UNCHANGED <<given, scores, best>>,
         acc' = NextTally(acc, out, Pages[page].records, page, Len(samples)),
         out = Crashed \/ (cands[Current].kind = "paths" =>
                             out = ValuePathCrawl(cands[Current].reads, Pages[page].islands))
  PROVE  Inv'
<1> DEFINE c == Len(outs)
           os == outs[c]
<1>1. /\ samples' = samples /\ fixtures' = fixtures /\ cands' = cands
      /\ scores' = scores /\ best' = best /\ outs' = [outs EXCEPT ![c] = Append(@, out)]
  BY DEF given, Returned
<1>2. Pages' = Pages /\ Candidates' = Candidates /\ Offered' = Offered /\ Winners' = Winners
  BY <1>1 DEF Pages, Candidates, Offered, Winners, Better, ValuePathCandidate, PathMapCandidate,
              GeneratedCandidate
<1>3. /\ Candidates \in Nat /\ Len(scores) \in Nat /\ Len(scores) < Candidates
      /\ c = Len(scores) + 1 /\ c = Current /\ page <= Len(Pages) /\ page \in Nat /\ page > 0
  <2>1. Candidates \in Nat /\ Len(scores) \in Nat /\ Len(Pages) \in Nat
    BY PagesAre, LenProperties DEF Inv, GivenInv, CountInv, Candidates
  <2> QED BY <2>1 DEF Inv, CountInv, Scoring, Current
<1>4. /\ outs \in Seq(Seq(Outs)) /\ c \in 1..Len(outs) /\ os \in Seq(Outs)
      /\ DOMAIN outs = 1..Len(outs) /\ Len(os) = page - 1 /\ Len(os) \in Nat
      /\ Tallied(Pages, Len(samples), acc, os)
  <2>1. outs \in Seq(Seq(Outs)) /\ Len(os) = page - 1 /\ Tallied(Pages, Len(samples), acc, os)
    BY <1>3 DEF Inv, CountInv, TallyInv
  <2>2. DOMAIN outs = 1..Len(outs) /\ c \in 1..Len(outs) /\ \A i \in 1..Len(outs) : outs[i] \in Seq(Outs)
    BY <1>3, <2>1, LenProperties
  <2> QED BY <2>1, <2>2, LenProperties
<1>5. /\ outs'[c] = Append(os, out) /\ \A d \in 1..Len(outs) : d # c => outs'[d] = outs[d]
      /\ outs' \in Seq(Seq(Outs)) /\ Len(outs') = c
  <2>1. Append(os, out) \in Seq(Outs)
    BY <1>4, AppendProperties
  <2> HIDE DEF c, os
  <2>2. Len(outs) = c
    BY DEF c
  <2> QED BY <1>1, <1>4, <2>1, <2>2, ExceptSeq DEF os
<1>6. /\ Len(Append(os, out)) = page /\ Append(os, out)[page] = out
      /\ \A i \in 1..(page - 1) : Append(os, out)[i] = os[i]
  <2> HIDE DEF c, os
  <2>1. Len(Append(os, out)) = Len(os) + 1 /\ Append(os, out)[Len(os) + 1] = out
        /\ \A i \in 1..Len(os) : Append(os, out)[i] = os[i]
    BY <1>4, AppendProperties
  <2>2. Len(os) + 1 = page
    BY <1>3, <1>4
  <2> QED BY <1>4, <2>1, <2>2
<1> HIDE DEF c, os
<1>7. acc' \in Accumulators /\ Tallied(Pages, Len(samples), acc', Append(os, out))
  <2>1. Pages[page].records \in Seq(Item) /\ Len(samples) \in Nat
    BY <1>3, PagesAre DEF Inv, GivenInv
  <2>2. acc \in Accumulators /\ page = Len(os) + 1
    BY <1>3, <1>4 DEF Inv, CountInv
  <2> QED BY <1>4, <2>1, <2>2, OneMorePage
<1>8. Len(acc'.details) = page
  BY <1>6, <1>7 DEF Tallied
<1>9. GivenInv'
  BY <1>1, <1>2 DEF Inv, GivenInv
<1>10. CountInv'
  <2>1. page' \in 1..(Len(Pages) + 1) /\ Len(acc'.details) = page' - 1
    BY <1>3, <1>8, PagesAre DEF Inv, GivenInv
  <2>2. Len(outs') = IF Candidates > 0 /\ Len(scores) = Candidates THEN Candidates
                     ELSE Len(scores) + 1
    BY <1>3, <1>5
  <2> QED BY <1>1, <1>2, <1>5, <1>7, <2>1, <2>2 DEF Inv, CountInv
<1>11. TallyInv'
  <2>1. outs'[Len(outs')] = Append(os, out) /\ page' - 1 = page
    BY <1>3, <1>5
  <2> QED BY <1>1, <1>2, <1>6, <1>7, <2>1 DEF TallyInv
<1>12. ScoreInv'
  <2>1. \A d \in 1..Len(scores) : outs'[d] = outs[d]
    BY <1>3, <1>4, <1>5
  <2> QED BY <1>1, <1>2, <2>1 DEF Inv, ScoreInv
<1>13. ReadsInv'
  <2> SUFFICES ASSUME NEW d \in 1..Len(outs'), NEW i \in 1..Len(outs'[d])
               PROVE  /\ d <= Candidates
                      /\ outs'[d][i] = Crashed \/
                           (cands[d].kind = "paths" =>
                              outs'[d][i] = ValuePathCrawl(cands[d].reads, Pages[i].islands))
    BY <1>1, <1>2 DEF ReadsInv
  <2>1. d \in 1..Len(outs)
    BY <1>4, <1>5 DEF c
  <2>2. CASE d # c
    <3>1. outs'[d] = outs[d]
      BY <1>5, <2>1, <2>2
    <3> QED BY <2>1, <3>1 DEF Inv, ReadsInv
  <2>3. CASE d = c
    <3>1. outs'[d] = Append(os, out) /\ i \in 1..page /\ d <= Candidates
      BY <1>3, <1>5, <1>6, <2>3
    <3>2. CASE i = page
      BY <1>3, <1>6, <2>3, <3>1, <3>2
    <3>3. CASE i \in 1..(page - 1)
      <4>1. outs'[d][i] = outs[d][i] /\ i \in 1..Len(outs[d])
        BY <1>4, <1>6, <2>3, <3>1, <3>3 DEF os
      <4> QED BY <2>1, <4>1 DEF Inv, ReadsInv
    <3> QED BY <1>3, <3>1, <3>2, <3>3
  <2> QED BY <2>2, <2>3
<1>14. BestInv'
  BY <1>1, <1>2, <1>3 DEF Inv, BestInv
<1> QED BY <1>9, <1>10, <1>11, <1>12, <1>13, <1>14 DEF Inv

LEMMA NextTallyOfRun ==
  ASSUME Inv, NEW out \in Seq(Item), Run(out)
  PROVE  acc' = NextTally(acc, out, Pages[page].records, page, Len(samples))
<1> DEFINE d == Detail(out, Pages[page].records)
<1>1. acc \in Accumulators /\ out # Crashed
  BY GauntletAssumption DEF Inv, CountInv
<1>2. acc' = [errors |-> acc.errors,
              invalid |-> acc.invalid \cup {i \in {page} : i <= Len(samples) /\ Reason(out) # ""},
              details |-> Append(acc.details, d),
              sum |-> acc.sum * d.pairs + d.sum * acc.pairs, pairs |-> acc.pairs * d.pairs]
  <2>1. acc' = [Recorded(d) EXCEPT
                  !.invalid = @ \cup {i \in {page} : i <= Len(samples) /\ Reason(out) # ""}]
    BY DEF Run
  <2> HIDE DEF d
  <2> QED BY <1>1, <2>1 DEF Recorded, Accumulators
<1>3. acc.errors \cup {i \in {page} : out = Crashed} = acc.errors
  BY <1>1
<1>4. PageDetail(out, Pages[page].records) = d
  BY <1>1 DEF PageDetail
<1> HIDE DEF d
<1> QED BY <1>1, <1>2, <1>3, <1>4 DEF NextTally

LEMMA NextTallyOfCrash ==
  ASSUME Inv, Crash
  PROVE  acc' = NextTally(acc, Crashed, Pages[page].records, page, Len(samples))
<1>1. acc \in Accumulators
  BY DEF Inv, CountInv
<1>2. acc' = [errors |-> acc.errors \cup {page},
              invalid |-> acc.invalid \cup {i \in {page} : i <= Len(samples)},
              details |-> Append(acc.details, NoDetail),
              sum |-> acc.sum * NoDetail.pairs + NoDetail.sum * acc.pairs,
              pairs |-> acc.pairs * NoDetail.pairs]
  <2>1. acc' = [Recorded(NoDetail) EXCEPT
                  !.errors = @ \cup {page},
                  !.invalid = @ \cup {i \in {page} : i <= Len(samples)}]
    BY DEF Crash
  <2> HIDE DEF NoDetail
  <2> QED BY <1>1, <2>1 DEF Recorded, Accumulators
<1>3. PageDetail(Crashed, Pages[page].records) = NoDetail
  BY DEF PageDetail
<1> HIDE DEF NoDetail
<1> QED BY <1>1, <1>2, <1>3 DEF NextTally

LEMMA InvNextCandidate ==
  ASSUME Inv, NextCandidate
  PROVE  Inv'
<1> DEFINE c == Len(outs)
           os == outs[c]
           score == [passed |-> Passed(acc), sum |-> acc.sum, pairs |-> acc.pairs]
<1>1. /\ samples' = samples /\ fixtures' = fixtures /\ cands' = cands /\ best' = best
      /\ scores' = Append(scores, score) /\ page' = 1 /\ acc' = NoScore
      /\ outs' = IF c < Candidates THEN Append(outs, <<>>) ELSE outs
  BY DEF NextCandidate, given
<1>2. Pages' = Pages /\ Candidates' = Candidates /\ Offered' = Offered
  BY <1>1 DEF Pages, Candidates, Offered, ValuePathCandidate, PathMapCandidate,
              GeneratedCandidate
<1>3. /\ Candidates \in Nat /\ Len(scores) \in Nat /\ Len(scores) < Candidates
      /\ Len(Pages) \in Nat /\ c = Len(scores) + 1 /\ page = Len(Pages) + 1
  <2>1. Candidates \in Nat /\ Len(scores) \in Nat /\ Len(Pages) \in Nat
    BY PagesAre, LenProperties DEF Inv, GivenInv, CountInv, Candidates
  <2> QED BY <2>1 DEF Inv, CountInv, NextCandidate
<1>4. /\ outs \in Seq(Seq(Outs)) /\ Len(os) = Len(Pages)
      /\ Tallied(Pages, Len(samples), acc, os) /\ acc \in Accumulators
  BY <1>3 DEF Inv, CountInv, TallyInv
<1>5. /\ score \in ScoreSet /\ Scored(Pages, Len(samples), score, os)
  <2>1. Passed(acc) <=> Qualifies(Len(samples), acc)
    BY <1>4, PagesAre, PassedQualifies DEF Inv, GivenInv
  <2>2. Passed(acc) \in BOOLEAN
    BY DEF Passed
  <2>3. score.passed = Passed(acc) /\ score.sum = acc.sum /\ score.pairs = acc.pairs
    OBVIOUS
  <2>4. score \in ScoreSet
    BY <1>4, <2>2 DEF ScoreSet, Accumulators
  <2> HIDE DEF score, os
  <2>5. score.passed <=> Qualifies(Len(samples), acc)
    BY <2>1, <2>3
  <2> QED BY <1>4, <2>3, <2>4, <2>5 DEF Scored
<1> HIDE DEF score
<1>6. /\ scores' \in Seq(ScoreSet) /\ Len(scores') = c /\ scores'[c] = score
      /\ \A d \in 1..Len(scores) : scores'[d] = scores[d]
  <2>1. scores \in Seq(ScoreSet)
    BY DEF Inv, CountInv
  <2>2. /\ Append(scores, score) \in Seq(ScoreSet) /\ Len(Append(scores, score)) = Len(scores) + 1
        /\ Append(scores, score)[Len(scores) + 1] = score
        /\ \A d \in 1..Len(scores) : Append(scores, score)[d] = scores[d]
    BY <1>5, <2>1, AppendProperties
  <2> QED BY <1>1, <1>3, <2>2
<1>7. /\ Append(outs, <<>>) \in Seq(Seq(Outs)) /\ Len(Append(outs, <<>>)) = c + 1
      /\ Append(outs, <<>>)[c + 1] = <<>>
      /\ \A d \in 1..c : Append(outs, <<>>)[d] = outs[d]
  <2>1. <<>> \in Seq(Outs)
    BY EmptySeq
  <2> QED BY <1>4, <2>1, AppendProperties
<1> HIDE DEF c, os
<1>8. /\ outs' \in Seq(Seq(Outs)) /\ \A d \in 1..c : outs'[d] = outs[d]
      /\ Len(outs') = IF c < Candidates THEN c + 1 ELSE c
      /\ c < Candidates => outs'[c + 1] = <<>>
  <2>1. CASE c < Candidates
    BY <1>1, <1>7, <2>1
  <2>2. CASE ~(c < Candidates)
    <3>1. outs' = outs
      BY <1>1, <2>2
    <3> QED BY <1>4, <2>2, <3>1 DEF c
  <2> QED BY <2>1, <2>2
<1>9. /\ acc' \in Accumulators /\ Len(acc'.details) = 0
      /\ acc'.errors = {} /\ acc'.invalid = {} /\ acc'.details = <<>>
      /\ acc'.sum = 0 /\ acc'.pairs = 1
  <2>1. <<>> \in Seq(PageDetails) /\ Len(<<>>) = 0
    BY EmptySeq
  <2> QED BY <1>1, <2>1 DEF NoScore, Accumulators
<1>10. GivenInv'
  BY <1>1, <1>2 DEF Inv, GivenInv
<1>11. CountInv'
  <2>1. Len(outs') = IF Candidates > 0 /\ Len(scores') = Candidates THEN Candidates
                     ELSE Len(scores') + 1
    BY <1>3, <1>6, <1>8
  <2>2. page' \in 1..(Len(Pages) + 1) /\ Len(acc'.details) = page' - 1 /\ Len(scores') <= Candidates
    BY <1>1, <1>3, <1>6, <1>9
  <2> QED BY <1>1, <1>2, <1>6, <1>8, <1>9, <2>1, <2>2 DEF Inv, CountInv
<1>12. TallyInv'
  <2> SUFFICES ASSUME Len(outs') = Len(scores') + 1
               PROVE  /\ Len(outs'[Len(outs')]) = page' - 1
                      /\ Tallied(Pages, Len(samples), acc', outs'[Len(outs')])
    BY <1>1, <1>2 DEF TallyInv
  <2>1. outs'[Len(outs')] = <<>> /\ page' - 1 = 0
    BY <1>1, <1>3, <1>6, <1>8
  <2>2. 0 * F = 0 /\ 1..0 = {} /\ Len(<<>>) = 0
    BY FieldsFinite
  <2>3. Tallied(Pages, Len(samples), acc', <<>>)
    BY <1>9, <2>2 DEF Tallied
  <2> QED BY <2>1, <2>2, <2>3
<1>13. ScoreInv'
  <2>1. ASSUME NEW d \in 1..c
        PROVE  /\ Len(outs'[d]) = Len(Pages)
               /\ Scored(Pages, Len(samples), scores'[d], outs'[d])
    <3>1. CASE d = c
      BY <1>4, <1>5, <1>6, <1>8, <3>1 DEF os
    <3>2. CASE d # c
      <4>1. d \in 1..Len(scores) /\ scores'[d] = scores[d] /\ outs'[d] = outs[d]
        <5>1. d \in 1..Len(scores)
          BY <1>3, <3>2
        <5> QED BY <1>6, <1>8, <5>1
      <4> QED BY <4>1 DEF Inv, ScoreInv
    <3> QED BY <3>1, <3>2
  <2> QED BY <1>1, <1>2, <1>6, <2>1 DEF ScoreInv
<1>14. ReadsInv'
  <2>1. ASSUME NEW d \in 1..Len(outs'), NEW i \in 1..Len(outs'[d])
        PROVE  /\ d <= Candidates
               /\ outs'[d][i] = Crashed \/
                    (cands[d].kind = "paths" =>
                       outs'[d][i] = ValuePathCrawl(cands[d].reads, Pages[i].islands))
    <3>1. CASE d \in 1..c
      <4>1. outs'[d] = outs[d] /\ d \in 1..Len(outs)
        BY <1>8, <3>1 DEF c
      <4> QED BY <4>1 DEF Inv, ReadsInv
    <3>2. CASE d \notin 1..c
      <4>1. d = c + 1 /\ c < Candidates
        BY <1>3, <1>8, <3>2
      <4>2. outs'[d] = <<>> /\ 1..Len(<<>>) = {}
        BY <1>8, <4>1
      <4> QED BY <4>2
    <3> QED BY <3>1, <3>2
  <2> QED BY <1>1, <1>2, <2>1 DEF ReadsInv
<1>15. BestInv'
  <2>1. best = 0
    BY <1>3 DEF Inv, BestInv
  <2> QED BY <1>1, <2>1 DEF BestInv
<1> QED BY <1>10, <1>11, <1>12, <1>13, <1>14, <1>15 DEF Inv

LEMMA InvPick ==
  ASSUME Inv, Pick
  PROVE  Inv'
<1>1. /\ samples' = samples /\ fixtures' = fixtures /\ cands' = cands /\ page' = page
      /\ outs' = outs /\ acc' = acc /\ scores' = scores
      /\ best' = Min(Winners) /\ Winners # {} /\ Len(scores) = Candidates /\ Candidates > 0
  BY DEF Pick, given
<1>2. Pages' = Pages /\ Candidates' = Candidates /\ Offered' = Offered /\ Winners' = Winners
  BY <1>1 DEF Pages, Candidates, Offered, Winners, Better, ValuePathCandidate, PathMapCandidate,
              GeneratedCandidate
<1>3. Winners \in SUBSET (1..Candidates)
  <2>1. scores \in Seq(ScoreSet)
    BY DEF Inv, CountInv
  <2>2. DOMAIN scores = 1..Candidates
    BY <1>1, <2>1, LenProperties
  <2> QED BY <2>2 DEF Winners
<1>4. Candidates \in Nat
  BY LenProperties DEF Inv, GivenInv, Candidates
<1>5. Min(Winners) \in Winners /\ \A c \in Winners : Min(Winners) <= c
  <2>1. Winners \in SUBSET Nat
    BY <1>3, <1>4
  <2> QED BY <1>1, <2>1, MinProperties
<1>6. GivenInv' /\ TallyInv' /\ ScoreInv' /\ ReadsInv'
  BY <1>1, <1>2 DEF Inv, GivenInv, TallyInv, ScoreInv, ReadsInv
<1>7. CountInv'
  <2>1. best' \in 0..Candidates
    <3>1. Min(Winners) \in 1..Candidates
      BY <1>3, <1>5
    <3>2. Min(Winners) \in 0..Candidates
      BY <1>4, <3>1
    <3> QED BY <1>1, <3>2
  <2> QED BY <1>1, <1>2, <2>1 DEF Inv, CountInv
<1>8. BestInv'
  BY <1>1, <1>2, <1>5 DEF BestInv
<1> QED BY <1>6, <1>7, <1>8 DEF Inv

\* A deterministic crawler returns items.
LEMMA CrawlTyped ==
  ASSUME Inv, Scoring, cands[Current].kind # "generated"
  PROVE  /\ Crawl(cands[Current], Pages[page].islands) \in Seq(Item)
         /\ cands[Current].kind = "paths" =>
              Crawl(cands[Current], Pages[page].islands)
                = ValuePathCrawl(cands[Current].reads, Pages[page].islands)
<1> DEFINE cand == cands[Current]
           islands == Pages[page].islands
<1>1. /\ samples \in Sampled /\ fixtures \in Golden /\ cands \in Seq(Offered)
      /\ page \in 1..Len(Pages) /\ Current \in 1..Len(cands)
  <2>1. Len(scores) \in Nat /\ Len(cands) \in Nat /\ Len(Pages) \in Nat
    BY PagesAre, LenProperties DEF Inv, GivenInv, CountInv
  <2> QED BY <2>1 DEF Inv, GivenInv, CountInv, Scoring, Current, Candidates
<1>2. cand \in Offered /\ islands \in Seq(Document \cup {Broken}) /\ samples \in Seq(Page) \ {<<>>}
  <2>1. cand \in Offered
    BY <1>1, LenProperties
  <2> QED BY <1>1, <2>1, PagesAre
<1>3. CASE cand = ValuePathCandidate
  <2>1. cand.kind = "paths" /\ cand.reads = ValuePathDiscovery(samples)
    BY <1>3 DEF ValuePathCandidate
  <2> HIDE DEF cand, islands
  <2>2. Crawl(cand, islands) = ValuePathCrawl(ValuePathDiscovery(samples), islands)
    BY <2>1 DEF Crawl
  <2> QED BY <1>2, <2>1, <2>2, ValuePathCrawlTyped DEF cand, islands
<1>4. ASSUME NEW reply \in Replies, cand = PathMapCandidate(reply)
      PROVE  Crawl(cand, islands) \in Seq(Item) /\ cand.kind # "paths"
  <2>1. cand.kind = "map" /\ cand.reads = ProposeFieldmap(samples[1], reply)
    BY <1>4 DEF PathMapCandidate
  <2>2. \/ cand.reads = <<>>
        \/ cand.reads = reply /\ reply # Broken
    BY <2>1 DEF ProposeFieldmap
  <2>3. PathMapCrawl(<<>>, islands) \in Seq(Item)
    <3>1. Blank \in Item
      BY DEF Blank, Item
    <3>2. \A doc : ApplyFieldmap(doc, <<>>) = Blank
      BY DEF ApplyFieldmap, Blank
    <3> HIDE DEF islands
    <3>3. PathMapCrawl(<<>>, islands) \in {<<>>, <<Blank>>}
      BY <3>2 DEF PathMapCrawl
    <3>4. <<>> \in Seq(Item) /\ <<Blank>> \in Seq(Item)
      BY <3>1, EmptySeq
    <3> QED BY <3>3, <3>4
  <2>4. reply # Broken => PathMapCrawl(reply, islands) \in Seq(Item)
    <3>1. ASSUME reply # Broken, NEW s \in Sampled \cup Golden, NEW i \in DOMAIN s
          PROVE  PathMapCrawl(reply, s[i].islands) \in Seq(Item)
      BY <3>1, FirstRoundAssumption
    <3>2. \/ \E i \in DOMAIN samples : Pages[page] = samples[i]
          \/ \E i \in DOMAIN fixtures : Pages[page] = fixtures[i]
      BY <1>1, SomePage
    <3> QED BY <1>1, <3>1, <3>2
  <2> HIDE DEF cand, islands
  <2>5. Crawl(cand, islands) = PathMapCrawl(cand.reads, islands)
    BY <2>1 DEF Crawl
  <2> QED BY <2>1, <2>2, <2>3, <2>4, <2>5
<1>5. cand # GeneratedCandidate
  BY DEF GeneratedCandidate
<1> QED BY <1>2, <1>3, <1>4, <1>5 DEF Offered

LEMMA InvNext == Inv /\ [Next]_vars => Inv'
<1> SUFFICES ASSUME Inv, [Next]_vars PROVE Inv'
  OBVIOUS
<1>1. CASE \E reply \in Replies : Prepare(reply)
  BY <1>1, InvPrepare
<1>2. CASE RunDeterministic
  <2> DEFINE out == Crawl(cands[Current], Pages[page].islands)
  <2>1. Scoring /\ cands[Current].kind # "generated" /\ Run(out)
    BY <1>2 DEF RunDeterministic
  <2>2. out \in Seq(Item) /\ (cands[Current].kind = "paths" =>
                                out = ValuePathCrawl(cands[Current].reads, Pages[page].islands))
    BY <2>1, CrawlTyped
  <2> HIDE DEF out
  <2>3. out \in Outs /\ Returned(out) /\ page' = page + 1 /\ UNCHANGED <<given, scores, best>>
    BY <2>1, <2>2 DEF Run, Outs
  <2>4. acc' = NextTally(acc, out, Pages[page].records, page, Len(samples))
    BY <2>1, <2>2, NextTallyOfRun
  <2> QED BY <2>1, <2>2, <2>3, <2>4, InvPage
<1>3. CASE \E out \in Outputs : RunGenerated(out)
  <2>1. PICK out \in Outputs : RunGenerated(out)
    BY <1>3
  <2>2. /\ Scoring /\ cands[Current].kind # "paths" /\ Run(out) /\ out \in Seq(Item)
        /\ out \in Outs /\ Returned(out) /\ page' = page + 1 /\ UNCHANGED <<given, scores, best>>
    BY <2>1, GauntletAssumption DEF RunGenerated, Run, Outs
  <2>3. acc' = NextTally(acc, out, Pages[page].records, page, Len(samples))
    BY <2>2, NextTallyOfRun
  <2> QED BY <2>2, <2>3, InvPage
<1>4. CASE Crash
  <2>1. /\ Scoring /\ Crashed \in Outs /\ Returned(Crashed) /\ page' = page + 1
        /\ UNCHANGED <<given, scores, best>>
    BY <1>4 DEF Crash, Outs
  <2>2. acc' = NextTally(acc, Crashed, Pages[page].records, page, Len(samples))
    BY <1>4, NextTallyOfCrash
  <2> QED BY <2>1, <2>2, InvPage
<1>5. CASE NextCandidate
  BY <1>5, InvNextCandidate
<1>6. CASE Pick
  BY <1>6, InvPick
<1>7. CASE UNCHANGED vars
  <2>1. /\ samples' = samples /\ fixtures' = fixtures /\ cands' = cands /\ page' = page
        /\ outs' = outs /\ acc' = acc /\ scores' = scores /\ best' = best
    BY <1>7 DEF vars, given, scoring
  <2>2. Pages' = Pages /\ Candidates' = Candidates /\ Offered' = Offered /\ Winners' = Winners
    BY <2>1 DEF Pages, Candidates, Offered, Winners, Better, ValuePathCandidate,
                PathMapCandidate, GeneratedCandidate
  <2> QED BY <2>1, <2>2 DEF Inv, GivenInv, CountInv, TallyInv, ScoreInv, ReadsInv, BestInv
<1> QED BY <1>1, <1>2, <1>3, <1>4, <1>5, <1>6, <1>7 DEF Next

\* The scores are what the candidates' outputs make them, and the pick is the
\* first of the best (run_gauntlet, score_candidate).
THEOREM GauntletInvariant == Spec => []Inv
<1>1. Init => Inv
  BY InvInit
<1>2. Inv /\ [Next]_vars => Inv'
  BY InvNext
<1> QED BY <1>1, <1>2, PTL DEF Spec

-----------------------------------------------------------------------------
(* What follows for every schema, pages and candidates.                    *)

\* Every state of a round is well formed (TypeOK).
THEOREM GauntletTypeCorrect == Spec => []TypeOK
<1>1. Inv => TypeOK
  <2> SUFFICES ASSUME Inv PROVE TypeOK
    OBVIOUS
  <2>1. \A i \in DOMAIN Pages : Pages[i].records \in Seq(Item)
    BY PagesAre DEF Inv, GivenInv
  <2>2. /\ page \in 1..(Len(Pages) + 1) /\ Len(acc.details) = page - 1
        /\ Len(scores) <= Candidates /\ best \in 0..Candidates
    BY DEF Inv, CountInv
  <2>3. \A c \in DOMAIN outs, i \in 1..Len(Pages) :
          i \in DOMAIN outs[c] => outs[c][i] = Crashed \/ outs[c][i] \in Seq(Item)
    <3> TAKE c \in DOMAIN outs, i \in 1..Len(Pages)
    <3> HAVE i \in DOMAIN outs[c]
    <3>1. outs[c] \in Seq(Outs)
      BY LenProperties DEF Inv, CountInv
    <3>2. outs[c][i] \in Outs
      BY <3>1, LenProperties
    <3> QED BY <3>2 DEF Outs
  <2>4. /\ acc.sum \in Nat /\ acc.pairs \in Nat \ {0}
        /\ \A i \in DOMAIN acc.details : acc.details[i].worst \in 0..Cardinality(Fields)
    <3>1. acc.sum \in Nat /\ acc.pairs \in Nat \ {0} /\ acc.details \in Seq(PageDetails)
      BY DEF Inv, CountInv, Accumulators
    <3>2. \A i \in DOMAIN acc.details : acc.details[i] \in PageDetails
      BY <3>1, LenProperties
    <3> QED BY <3>1, <3>2 DEF PageDetails, F
  <2> QED BY <2>1, <2>2, <2>3, <2>4 DEF TypeOK
<1> QED BY <1>1, GauntletInvariant, PTL

\* What the gate accepted on a page, and what it cannot reject.
Accepted(c, i) ==
  /\ outs[c][i] # Crashed /\ outs[c][i] \in Seq(Item)
  /\ Aligned(outs[c][i], Pages[i].records)
  /\ i <= Len(samples) => Reason(outs[c][i]) = ""

\* A worst pair above the bar is a perfect pair when fields are few.
LEMMA BarIsPerfect ==
  ASSUME NEW worst \in 0..F
  PROVE  /\ FewFields /\ BarDen * worst >= BarNum * F => worst = F
         /\ worst = F => BarDen * worst >= BarNum * F
<1>1. F \in Nat /\ BarNum \in Nat /\ BarDen \in Nat \ {0} /\ BarNum <= BarDen /\ worst \in Nat
  BY FieldsFinite, GauntletAssumption
<1>2. ASSUME worst <= F - 1
      PROVE  BarDen * worst + BarDen <= BarDen * F
  <2>1. PICK k \in Nat : F = worst + 1 + k
    BY <1>1, <1>2
  <2>2. BarDen * F = BarDen * worst + BarDen + BarDen * k /\ BarDen * k \in Nat /\ BarDen * worst \in Nat
    BY <1>1, <2>1
  <2> QED BY <1>1, <2>2
<1>3. FewFields <=> BarDen * F < BarNum * F + BarDen
  BY DEF FewFields, F
<1>4. BarNum * F <= BarDen * F
  <2>1. PICK k \in Nat : BarDen = BarNum + k
    BY <1>1
  <2>2. BarDen * F = BarNum * F + k * F /\ k * F \in Nat /\ BarNum * F \in Nat
    BY <1>1, <2>1
  <2> QED BY <2>2
<1> DEFINE bf == BarDen * F
           nf == BarNum * F
           bw == BarDen * worst
<1>5. bf \in Nat /\ nf \in Nat /\ bw \in Nat
  BY <1>1
<1>6. worst <= F - 1 => bw + BarDen <= bf
  BY <1>2
<1>7. (worst = F => bw = bf) /\ nf <= bf /\ (FewFields <=> bf < nf + BarDen)
  BY <1>3, <1>4
<1> HIDE DEF bf, nf, bw
<1>8. worst <= F - 1 \/ worst = F
  BY <1>1
<1>9. FewFields /\ bw >= nf => worst = F
  BY <1>1, <1>5, <1>6, <1>7, <1>8
<1>10. worst = F => bw >= nf
  BY <1>5, <1>7
<1> QED BY <1>9, <1>10 DEF bw, nf

LEMMA ScoreFacts ==
  ASSUME Inv, NEW c \in 1..Len(scores)
  PROVE  /\ Len(outs[c]) = Len(Pages) /\ scores[c] \in ScoreSet
         /\ \A i \in 1..Len(Pages) : outs[c][i] \in Outs
         /\ Scored(Pages, Len(samples), scores[c], outs[c])
<1>1. scores \in Seq(ScoreSet) /\ outs \in Seq(Seq(Outs))
  BY DEF Inv, CountInv
<1>2. Len(outs[c]) = Len(Pages) /\ Scored(Pages, Len(samples), scores[c], outs[c])
  BY DEF Inv, ScoreInv
<1>3. c \in 1..Len(outs)
  <2>1. Len(scores) \in Nat /\ Candidates \in Nat
    BY <1>1, LenProperties DEF Inv, GivenInv, Candidates
  <2> QED BY <2>1 DEF Inv, CountInv
<1>4. outs[c] \in Seq(Outs) /\ scores[c] \in ScoreSet
  BY <1>1, <1>3, LenProperties
<1>5. \A i \in 1..Len(outs[c]) : outs[c][i] \in Outs
  BY <1>4, LenProperties
<1> QED BY <1>2, <1>4, <1>5

LEMMA PassedAccepts ==
  ASSUME Inv, FewFields, NEW c \in 1..Len(scores), scores[c].passed
  PROVE  \A i \in 1..Len(Pages) : Accepted(c, i)
<1> DEFINE os == outs[c]
           n == Len(samples)
<1>1. /\ Len(os) = Len(Pages) /\ \A i \in 1..Len(Pages) : os[i] \in Outs
      /\ Scored(Pages, n, scores[c], os)
  BY ScoreFacts
<1> HIDE DEF os, n
<1>2. PICK a \in Accumulators : Tallied(Pages, n, a, os) /\ Qualifies(n, a)
  BY <1>1 DEF Scored
<1>3. /\ \A i \in 1..Len(Pages) : os[i] # Crashed /\ (i <= n => Reason(os[i]) = "")
      /\ \A i \in 1..Len(Pages) :
           /\ a.details[i] = PageDetail(os[i], Pages[i].records)
           /\ a.details[i].match /\ BarDen * a.details[i].worst >= BarNum * F
  BY <1>1, <1>2 DEF Tallied, Qualifies
<1>4. ASSUME NEW i \in 1..Len(Pages)
      PROVE  Accepted(c, i)
  <2> DEFINE d == a.details[i]
             records == Pages[i].records
  <2>1. records \in Seq(Item) /\ os[i] \in Seq(Item)
    BY <1>1, <1>3, PagesAre DEF Inv, GivenInv, Outs
  <2>2. d = Detail(os[i], records)
    BY <1>3 DEF PageDetail
  <2>3. d.match /\ BarDen * d.worst >= BarNum * F
    BY <1>3
  <2> HIDE DEF d, records
  <2>4. d.worst \in 0..F
    BY <2>1, <2>2, DetailProperties
  <2>5. d.worst = F
    BY <2>3, <2>4, BarIsPerfect
  <2>6. Aligned(os[i], records)
    BY <2>1, <2>2, <2>3, <2>5, DetailProperties
  <2> QED BY <1>3, <2>1, <2>6 DEF Accepted, os, n, records
<1> QED BY <1>4

LEMMA AcceptedPasses ==
  ASSUME Inv, NEW c \in 1..Len(scores), \A i \in 1..Len(Pages) : Accepted(c, i)
  PROVE  scores[c].passed /\ \A k \in 1..Len(scores) : ~Better(scores[k], scores[c])
<1> DEFINE os == outs[c]
           n == Len(samples)
           N == Len(Pages)
<1>1. /\ Len(os) = N /\ scores[c] \in ScoreSet /\ Scored(Pages, n, scores[c], os)
      /\ n # 0 /\ N \in Nat
  BY ScoreFacts, PagesAre DEF Inv, GivenInv
<1>2. \A i \in 1..N : /\ os[i] # Crashed /\ os[i] \in Seq(Item)
                      /\ Aligned(os[i], Pages[i].records) /\ (i <= n => Reason(os[i]) = "")
  BY DEF Accepted
<1> HIDE DEF os, n, N
<1>3. PICK a \in Accumulators : /\ Tallied(Pages, n, a, os)
                                /\ scores[c].passed <=> Qualifies(n, a)
                                /\ scores[c].sum = a.sum /\ scores[c].pairs = a.pairs
  BY <1>1 DEF Scored
<1>4. \A i \in 1..N : /\ a.details[i].match /\ Full(a.details[i])
                      /\ BarDen * a.details[i].worst >= BarNum * F
  <2> TAKE i \in 1..N
  <2> DEFINE d == a.details[i]
             records == Pages[i].records
  <2>1. records \in Seq(Item) /\ Aligned(os[i], records) /\ os[i] \in Seq(Item) /\ os[i] # Crashed
    BY <1>2, PagesAre DEF Inv, GivenInv, N
  <2>2. d = Detail(os[i], records)
    BY <1>1, <1>3, <2>1 DEF PageDetail, Tallied
  <2> HIDE DEF d, records
  <2>3. d.worst \in 0..F /\ d.worst = F /\ d.sum = d.pairs * F /\ (d.match <=> Len(os[i]) = Len(records))
    BY <2>1, <2>2, DetailProperties
  <2>4. d.match
    BY <2>1, <2>3 DEF Aligned
  <2>5. BarDen * d.worst >= BarNum * F
    BY <2>3, BarIsPerfect
  <2> QED BY <2>3, <2>4, <2>5 DEF Full, d
<1>5. a.errors = {} /\ a.invalid = {} /\ Len(a.details) = N /\ a.sum = a.pairs * (N * F)
  BY <1>1, <1>2, <1>3, <1>4 DEF Tallied
<1>6. scores[c].passed
  BY <1>1, <1>3, <1>4, <1>5 DEF Qualifies
<1>7. ASSUME NEW k \in 1..Len(scores)
      PROVE  ~Better(scores[k], scores[c])
  <2>1. /\ scores[k] \in ScoreSet /\ Len(outs[k]) = N
        /\ Scored(Pages, n, scores[k], outs[k])
    BY ScoreFacts DEF N, n
  <2>2. PICK b \in Accumulators : Tallied(Pages, n, b, outs[k])
                                  /\ scores[k].sum = b.sum /\ scores[k].pairs = b.pairs
    BY <2>1 DEF Scored
  <2> DEFINE K == N * F
             s == scores[k].sum
             p == scores[k].pairs
             t == scores[c].sum
             q == scores[c].pairs
  <2>3. s <= p * K /\ t = q * K /\ s \in Nat /\ p \in Nat /\ t \in Nat /\ q \in Nat /\ K \in Nat
    <3>1. b.sum <= b.pairs * (N * F) /\ N * F \in Nat
      <4>1. b.sum <= b.pairs * (Len(outs[k]) * F)
        BY <2>2 DEF Tallied
      <4>2. F \in Nat /\ N \in Nat /\ Len(outs[k]) = N
        BY <1>1, <2>1, FieldsFinite
      <4>3. N * F \in Nat
        BY <4>2
      <4> QED BY <4>1, <4>2, <4>3
    <3>2. s \in Nat /\ p \in Nat /\ t \in Nat /\ q \in Nat
      BY <1>1, <2>1 DEF ScoreSet
    <3>3. s = b.sum /\ p = b.pairs /\ t = a.sum /\ q = a.pairs
      BY <1>3, <2>2
    <3> HIDE DEF s, p, t, q
    <3> QED BY <1>5, <3>1, <3>2, <3>3
  <2> HIDE DEF K, s, p, t, q
  <2>4. s * q <= t * p
    <3>1. p * K \in Nat
      BY <2>3
    <3>2. PICK w \in Nat : p * K = s + w
      BY <2>3, <3>1
    <3>3. (p * K) * q = s * q + w * q /\ w * q \in Nat /\ s * q \in Nat
      BY <2>3, <3>2
    <3>4. (p * K) * q = t * p
      BY <2>3
    <3> QED BY <3>3, <3>4
  <2>5. s * q \in Nat /\ t * p \in Nat
    BY <2>3
  <2>6. ~(s * q > t * p)
    BY <2>4, <2>5
  <2> QED BY <2>6 DEF Better, s, p, t, q
<1> QED BY <1>6, <1>7

\* Only a candidate that reproduces every page wins, if one wrong field puts an
\* item below the bar and the references hold amounts in amount fields only.
THEOREM WinnerReproduces ==
  ASSUME FewFields, AmountsApart
  PROVE  Spec => []WinnerReproducesEveryPage
<1>1. Inv => WinnerReproducesEveryPage
  <2> SUFFICES ASSUME Inv, best # 0
               PROVE  /\ Reproduces(best, Same)
                      /\ \A i \in DOMAIN samples :
                           /\ outs[best][i] # <<>>
                           /\ \A k \in DOMAIN outs[best][i] : SchemaValid(outs[best][i][k])
    BY DEF WinnerReproducesEveryPage
  <2>1. best \in 1..Len(scores) /\ scores[best].passed
    <3>1. best \in Winners /\ scores \in Seq(ScoreSet)
      BY DEF Inv, BestInv, CountInv
    <3> QED BY <3>1, LenProperties DEF Winners
  <2>2. \A i \in 1..Len(Pages) : Accepted(best, i)
    BY <2>1, PassedAccepts
  <2>3. ASSUME NEW i \in DOMAIN Pages
        PROVE  outs[best][i] # Crashed /\ Reordered(outs[best][i], Pages[i].records, Same)
    <3> DEFINE records == Pages[i].records
    <3>1. i \in 1..Len(Pages) /\ records \in Seq(Item)
      BY PagesAre DEF Inv, GivenInv
    <3>2. outs[best][i] # Crashed /\ outs[best][i] \in Seq(Item) /\ Aligned(outs[best][i], records)
      BY <2>2, <3>1 DEF Accepted
    <3>3. \A k \in DOMAIN records, f \in Fields \ Numeric :
            records[k][f] = None \/ Money[records[k][f]] = NoMoney
      <4>1. ASSUME NEW s \in Sampled \cup Golden, NEW j \in DOMAIN s, Pages[i] = s[j]
            PROVE  \A k \in DOMAIN records, f \in Fields \ Numeric :
                     records[k][f] = None \/ Money[records[k][f]] = NoMoney
        BY <4>1 DEF AmountsApart
      <4>2. \/ \E j \in DOMAIN samples : Pages[i] = samples[j]
            \/ \E j \in DOMAIN fixtures : Pages[i] = fixtures[j]
        BY <3>1, SomePage DEF Inv, GivenInv
      <4> QED BY <4>1, <4>2 DEF Inv, GivenInv
    <3> HIDE DEF records
    <3> QED BY <3>1, <3>2, <3>3, AlignedIsReordered DEF records
  <2>4. ASSUME NEW i \in DOMAIN samples
        PROVE  /\ outs[best][i] # <<>>
               /\ \A k \in DOMAIN outs[best][i] : SchemaValid(outs[best][i][k])
    <3>1. i \in 1..Len(Pages) /\ i <= Len(samples)
      BY PagesAre DEF Inv, GivenInv
    <3>2. Reason(outs[best][i]) = "" /\ outs[best][i] \in Seq(Item)
      BY <2>2, <3>1 DEF Accepted
    <3> QED BY <3>2, AcceptedMeans
  <2> QED BY <2>3, <2>4 DEF Reproduces
<1> QED BY <1>1, GauntletInvariant, PTL

\* A candidate that returned every page's records, in any order, is accepted.
LEMMA ReproducedIsAccepted ==
  ASSUME Inv, KeysApart, NEW c \in 1..Len(scores), Reproduces(c, Equal)
  PROVE  \A i \in 1..Len(Pages) : Accepted(c, i)
<1> SUFFICES ASSUME NEW i \in 1..Len(Pages) PROVE Accepted(c, i)
  OBVIOUS
<1> DEFINE records == Pages[i].records
           out == outs[c][i]
<1>1. i \in DOMAIN Pages /\ records \in Seq(Item) /\ samples \in Sampled /\ fixtures \in Golden
  BY PagesAre DEF Inv, GivenInv
<1>2. out # Crashed /\ out \in Seq(Item) /\ Reordered(out, records, Equal)
  <2>1. out \in Outs
    BY ScoreFacts
  <2>2. out # Crashed /\ Reordered(out, records, Equal)
    BY <1>1 DEF Reproduces
  <2> QED BY <2>1, <2>2 DEF Outs
<1>3. KeysDiffer(records)
  <2>1. ASSUME NEW s \in Sampled \cup Golden, NEW j \in DOMAIN s, Pages[i] = s[j]
        PROVE  KeysDiffer(records)
    BY <2>1 DEF KeysApart, KeysDiffer
  <2>2. \/ \E j \in DOMAIN samples : Pages[i] = samples[j]
        \/ \E j \in DOMAIN fixtures : Pages[i] = fixtures[j]
    BY <1>1, SomePage
  <2> QED BY <1>1, <2>1, <2>2
<1>4. i <= Len(samples) => Reason(records) = ""
  <2> HAVE i <= Len(samples)
  <2>1. i \in DOMAIN samples /\ Pages[i] = samples[i]
    BY <1>1, PagesAre
  <2> QED BY <1>1, <2>1, FirstRoundAssumption
<1> HIDE DEF records, out
<1>5. Aligned(out, records)
  BY <1>1, <1>2, <1>3, ReorderedIsAligned
<1>6. Reason(records) = "" => Reason(out) = ""
  BY <1>1, <1>2, <1>3, ReorderedIsAccepted
<1> QED BY <1>2, <1>4, <1>5, <1>6 DEF Accepted, records, out

\* The order of the rows never matters, when the records of a page differ in the
\* alignment key (_aligned_pairs).
THEOREM RowOrderIsIrrelevant ==
  ASSUME KeysApart
  PROVE  Spec => []OrderIrrelevant
<1>1. Inv => OrderIrrelevant
  <2> SUFFICES ASSUME Inv, NEW c \in DOMAIN scores, Reproduces(c, Equal)
               PROVE  scores[c].passed
    BY DEF OrderIrrelevant
  <2>1. c \in 1..Len(scores)
    BY LenProperties DEF Inv, CountInv
  <2> QED BY <2>1, ReproducedIsAccepted, AcceptedPasses
<1> QED BY <1>1, GauntletInvariant, PTL

\* A candidate that reproduces every page is never passed over for a later one
\* (run_gauntlet's max).
THEOREM FirstPerfectIsBest ==
  ASSUME KeysApart
  PROVE  Spec => []FirstPerfectWins
<1>1. Inv => FirstPerfectWins
  <2> SUFFICES ASSUME Inv, best # 0, NEW c \in DOMAIN scores, Reproduces(c, Equal)
               PROVE  best <= c
    BY DEF FirstPerfectWins
  <2>1. c \in 1..Len(scores) /\ DOMAIN scores = 1..Len(scores)
    BY LenProperties DEF Inv, CountInv
  <2>2. scores[c].passed /\ \A k \in 1..Len(scores) : ~Better(scores[k], scores[c])
    BY <2>1, ReproducedIsAccepted, AcceptedPasses
  <2>3. c \in Winners
    BY <2>1, <2>2 DEF Winners
  <2> QED BY <2>3 DEF Inv, BestInv
<1> QED BY <1>1, GauntletInvariant, PTL

\* The value-path candidate and what it returned.
LEMMA PathsCandidate ==
  ASSUME Inv, NEW c \in ByPaths
  PROVE  /\ c = 1 /\ cands[c].reads = ValuePathDiscovery(samples)
         /\ \A i \in 1..Len(Pages) :
              Ran(c, i) => outs[c][i] = ValuePathCrawl(cands[c].reads, Pages[i].islands)
<1>1. cands \in Seq(Offered) /\ outs \in Seq(Seq(Outs))
  BY DEF Inv, GivenInv, CountInv
<1>2. c \in 1..Candidates /\ cands[c] \in Offered /\ cands[c].kind = "paths"
  BY <1>1, LenProperties DEF ByPaths, Candidates
<1>3. c = 1
  BY <1>2 DEF Inv, GivenInv
<1>4. cands[c] = ValuePathCandidate
  BY <1>2 DEF Offered, GeneratedCandidate, PathMapCandidate
<1>5. ASSUME NEW i \in 1..Len(Pages), Ran(c, i)
      PROVE  outs[c][i] = ValuePathCrawl(cands[c].reads, Pages[i].islands)
  <2>1. c \in 1..Len(outs) /\ outs[c] \in Seq(Outs)
    BY <1>1, <1>5, LenProperties DEF Ran
  <2>2. i \in 1..Len(outs[c]) /\ outs[c][i] # Crashed
    BY <1>5, <2>1, LenProperties DEF Ran
  <2> QED BY <1>2, <2>1, <2>2 DEF Inv, ReadsInv
<1> QED BY <1>3, <1>4, <1>5 DEF ValuePathCandidate

\* What discover_paths finds in the samples is what the emitted crawler reads there.
THEOREM DiscoveryIsSound == Spec => []DiscoveryGeneralises
<1>1. Inv => DiscoveryGeneralises
  <2> SUFFICES ASSUME Inv, NEW c \in ByPaths, NEW i \in DOMAIN samples, Ran(c, i),
                      ~Unreadable(samples[i].islands), NEW f \in DOMAIN cands[c].reads
               PROVE  LET wanted == FirstRecord(samples[i])[f]
                      IN  \/ Stripped[wanted] = Stripped[Null]
                          \/ FieldEqual(outs[c][i][1][f], wanted)
    BY DEF DiscoveryGeneralises
  <2>1. /\ samples \in Seq(Page) \ {<<>>} /\ i \in 1..Len(Pages) /\ Pages[i] = samples[i]
    BY PagesAre DEF Inv, GivenInv
  <2>2. cands[c].reads = ValuePathDiscovery(samples)
    BY PathsCandidate
  <2>3. outs[c][i] = ValuePathCrawl(ValuePathDiscovery(samples), samples[i].islands)
    BY <2>1, <2>2, PathsCandidate
  <2> QED BY <2>1, <2>2, <2>3, CrawlerGeneralises
<1> QED BY <1>1, GauntletInvariant, PTL

\* Lists of one record align when the records agree field by field.
LEMMA SingletonsAlign ==
  ASSUME NEW s \in Seq(Item), NEW t \in Seq(Item), Len(s) = 1, Len(t) = 1,
         \A f \in Fields : FieldEqual(s[1][f], t[1][f])
  PROVE  Aligned(s, t)
<1>1. ASSUME NEW u \in Seq(Item), Len(u) = 1
      PROVE  ByKey(u)[1] = u[1]
  <2>1. KeyOrder(u) \in [1..1 -> 1..1]
    BY <1>1, KeyOrderProperties DEF Permutes
  <2>2. KeyOrder(u)[1] = 1 /\ 1 \in DOMAIN u
    BY <1>1, <2>1, LenProperties
  <2> QED BY <2>2 DEF ByKey
<1>2. ByKey(s)[1] = s[1] /\ ByKey(t)[1] = t[1]
  BY <1>1
<1> QED BY <1>2 DEF Aligned

\* One record that the schema takes passes both gates.
LEMMA SingleAccepted ==
  ASSUME NEW s \in Seq(Item), Len(s) = 1, SchemaValid(s[1])
  PROVE  Reason(s) = ""
<1>1. DOMAIN s = {1} /\ s # <<>>
  BY LenProperties, EmptySeq
<1>2. ASSUME NEW f \in Required
      PROVE  ~LowFill(s, f)
  <2>1. s[1][f] # None
    BY ValidatorAssumption DEF SchemaValid
  <2>2. {i \in DOMAIN s : s[i][f] # None} = {1}
    BY <1>1, <2>1
  <2>3. Cardinality({1}) = 1
    BY FS_Singleton
  <2>4. Cardinality({i \in DOMAIN s : s[i][f] # None}) = 1
    BY <2>2, <2>3
  <2>5. LowFill(s, f) <=> 10 * 1 < 8 * 1
    BY <2>4 DEF LowFill
  <2> QED BY <2>5
<1>3. \A i \in DOMAIN s : SchemaValid(s[i])
  BY <1>1
<1> QED BY <1>1, <1>2, <1>3, AcceptedMeans

\* On a page of one record that the discovery covers, the crawler reads it.
LEMMA SampleIsReproduced ==
  ASSUME NEW s \in Seq(Page) \ {<<>>}, NEW i \in DOMAIN s, NEW out,
         out = ValuePathCrawl(ValuePathDiscovery(s), s[i].islands),
         Len(s[i].records) = 1, ~Unreadable(s[i].islands),
         \A f \in Fields :
           LET wanted == s[i].records[1][f]
           IN  wanted # None => f \in DOMAIN ValuePathDiscovery(s)
                                /\ Stripped[wanted] # Stripped[Null]
  PROVE  Aligned(out, s[i].records)
<1> DEFINE reads == ValuePathDiscovery(s)
           records == s[i].records
<1>1. records \in Seq(Item) /\ s[i].islands \in Seq(Document \cup {Broken})
  <2>1. s \in Seq(Page)
    OBVIOUS
  <2>2. s[i] \in Page
    BY <2>1, LenProperties
  <2> QED BY <2>2 DEF Page
<1>2. FirstRecord(s[i]) = records[1]
  <2>1. Len(records) # 0
    OBVIOUS
  <2> HIDE DEF records
  <2>2. records # <<>>
    BY <1>1, <2>1, EmptySeq
  <2> QED BY <2>2 DEF FirstRecord, records
<1>3. /\ out \in Seq(Item) /\ Len(out) = 1
      /\ \A f \in Fields : f \notin DOMAIN reads => out[1][f] = None
  BY <1>1, ValuePathCrawlTyped
<1>4. ASSUME NEW f \in Fields
      PROVE  FieldEqual(out[1][f], records[1][f])
  <2>1. CASE f \in DOMAIN reads
    <3>1. records[1][f] # None
      <4>1. FirstRecord(s[i])[f] \in Values
        BY <2>1, Discovered
      <4> QED BY <1>2, <4>1, ValidatorAssumption
    <3>2. Stripped[records[1][f]] # Stripped[Null]
      BY <3>1
    <3> QED BY <1>2, <2>1, <3>2, CrawlerGeneralises
  <2>2. CASE f \notin DOMAIN reads
    <3>1. out[1][f] = None /\ records[1][f] = None
      BY <1>3, <2>2
    <3> QED BY <3>1, EqualAgrees
  <2> QED BY <2>1, <2>2
<1> HIDE DEF reads, records
<1>5. Aligned(out, records)
  BY <1>1, <1>3, <1>4, SingletonsAlign DEF records
<1> QED BY <1>5 DEF records

\* A site whose JSON holds every oracle value needs no generated code: the
\* value-path candidate passes the gauntlet unless a run of it crashes, and no
\* other is promoted.
THEOREM JsonNeedsNoModel == Spec => []JsonSiteNeedsNoModel
<1>1. Inv => JsonSiteNeedsNoModel
  <2> SUFFICES ASSUME Inv, NEW c \in ByPaths,
                      FullyDiscovered(cands[c].reads), StillThere(cands[c].reads),
                      c \in DOMAIN scores, \A i \in DOMAIN Pages : Ran(c, i)
               PROVE  scores[c].passed /\ best \in {0, c}
    BY DEF JsonSiteNeedsNoModel
  <2> DEFINE reads == ValuePathDiscovery(samples)
  <2>1. c = 1 /\ cands[c].reads = reads
    BY PathsCandidate
  <2>2. c \in 1..Len(scores) /\ DOMAIN scores = 1..Len(scores)
    BY LenProperties DEF Inv, CountInv
  <2>3. ASSUME NEW i \in 1..Len(Pages)
        PROVE  Accepted(c, i)
    <3> DEFINE out == outs[c][i]
    <3>1. /\ samples \in Seq(Page) \ {<<>>} /\ i \in DOMAIN Pages
          /\ Pages[i].records \in Seq(Item)
          /\ Pages[i].islands \in Seq(Document \cup {Broken})
      BY PagesAre DEF Inv, GivenInv
    <3>2. out # Crashed /\ out = ValuePathCrawl(reads, Pages[i].islands)
      BY <2>1, <3>1, PathsCandidate DEF Ran
    <3> HIDE DEF out, reads
    <3>3. /\ out \in Seq(Item)
          /\ ~Unreadable(Pages[i].islands) => Len(out) = 1
      BY <3>1, <3>2, ValuePathCrawlTyped DEF reads
    <3>4. CASE i <= Len(samples)
      <4>1. i \in DOMAIN samples /\ Pages[i] = samples[i]
        BY <3>4, PagesAre DEF Inv, GivenInv
      <4>2. /\ Len(samples[i].records) = 1 /\ ~Unreadable(samples[i].islands)
            /\ SchemaValid(out[1])
            /\ \A f \in Fields :
                 LET wanted == samples[i].records[1][f]
                 IN  wanted # None => f \in DOMAIN reads /\ Stripped[wanted] # Stripped[Null]
        BY <2>1, <3>2, <4>1 DEF FullyDiscovered
      <4>3. Aligned(out, Pages[i].records)
        BY <3>1, <3>2, <4>1, <4>2, SampleIsReproduced DEF reads
      <4>4. Reason(out) = ""
        BY <3>3, <4>1, <4>2, SingleAccepted
      <4> QED BY <3>2, <3>3, <4>3, <4>4 DEF Accepted, out
    <3>5. CASE ~(i <= Len(samples))
      <4> DEFINE j == i - Len(samples)
      <4>1. j \in 1..Len(fixtures) /\ Len(samples) + j = i
        BY <3>5, PagesAre DEF Inv, GivenInv
      <4> HIDE DEF j
      <4>2. Pages[i] = fixtures[j] /\ j \in DOMAIN fixtures
        BY <4>1, PagesAre DEF Inv, GivenInv
      <4>3. /\ Len(Pages[i].records) = 1 /\ out # <<>>
            /\ \A f \in Fields : FieldEqual(out[1][f], Pages[i].records[1][f])
        BY <2>1, <3>2, <4>2 DEF StillThere
      <4>4. ~Unreadable(Pages[i].islands)
        BY <3>2, <4>3 DEF ValuePathCrawl
      <4>5. Aligned(out, Pages[i].records)
        BY <3>1, <3>3, <4>3, <4>4, SingletonsAlign
      <4> QED BY <3>2, <3>3, <3>5, <4>5 DEF Accepted, out
    <3> QED BY <3>4, <3>5
  <2>4. scores[c].passed /\ \A k \in 1..Len(scores) : ~Better(scores[k], scores[c])
    BY <2>2, <2>3, AcceptedPasses
  <2>5. c \in Winners
    BY <2>2, <2>4 DEF Winners
  <2>6. best # 0 => best = 1
    <3>1. best # 0 => best \in 1..Len(scores) /\ best <= c
      BY <2>2, <2>5 DEF Inv, BestInv, Winners
    <3>2. Len(scores) \in Nat
      BY LenProperties DEF Inv, CountInv
    <3> QED BY <2>1, <3>1, <3>2
  <2> QED BY <2>1, <2>4, <2>6
<1> QED BY <1>1, GauntletInvariant, PTL
=============================================================================

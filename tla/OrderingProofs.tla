--------------------------- MODULE OrderingProofs ---------------------------
(***************************************************************************)
(* What the lists of this system are, for any elements: a finite set in a  *)
(* strict total order lists every element once and in that order, a filter *)
(* keeps the order of a list, and the version ladder lists every row.  And *)
(* what the SQL of the ladder does to a table of any versions: the numbers *)
(* it takes are fresh and the ladder only grows.                           *)
(***************************************************************************)
EXTENDS VersionLadder, FiniteSetTheorems, SequenceTheorems, TLAPS

StrictOrder(S, R) ==
  /\ \A x \in S : <<x, x>> \notin R
  /\ \A x, y \in S : x = y \/ <<x, y>> \in R \/ <<y, x>> \in R
  /\ \A x, y, z \in S : <<x, y>> \in R /\ <<y, z>> \in R => <<x, z>> \in R

\* What comes before an element is counted by a number below the length, and
\* by a smaller one than what comes before a later element.
LEMMA BelowProperties ==
  ASSUME NEW S, IsFiniteSet(S), NEW R, StrictOrder(S, R), NEW x \in S
  PROVE  /\ Cardinality(Below(S, R, x)) \in 0..(Cardinality(S) - 1)
         /\ \A y \in S : <<x, y>> \in R =>
              Cardinality(Below(S, R, x)) < Cardinality(Below(S, R, y))
<1>1. /\ Below(S, R, x) \in SUBSET S /\ IsFiniteSet(Below(S, R, x))
      /\ x \notin Below(S, R, x)
  BY FS_Subset DEF Below, StrictOrder
<1>2. Cardinality(S) \in Nat /\ Cardinality(Below(S, R, x)) \in Nat
  BY <1>1, FS_CardinalityType
<1>3. Cardinality(Below(S, R, x)) < Cardinality(S)
  BY <1>1, <1>2, FS_Subset
<1>4. ASSUME NEW y \in S, <<x, y>> \in R
      PROVE  Cardinality(Below(S, R, x)) < Cardinality(Below(S, R, y))
  <2>1. /\ Below(S, R, x) \in SUBSET Below(S, R, y) /\ x \in Below(S, R, y)
        /\ IsFiniteSet(Below(S, R, y))
    <3>1. Below(S, R, y) \in SUBSET S /\ x \in Below(S, R, y)
      BY <1>4 DEF Below
    <3>2. Below(S, R, x) \in SUBSET Below(S, R, y)
      BY <1>4 DEF Below, StrictOrder
    <3> QED BY <3>1, <3>2, FS_Subset
  <2>2. /\ Cardinality(Below(S, R, x)) <= Cardinality(Below(S, R, y))
        /\ Cardinality(Below(S, R, y)) # Cardinality(Below(S, R, x))
        /\ Cardinality(Below(S, R, y)) \in Nat
    <3>1. Below(S, R, x) # Below(S, R, y)
      BY <1>1, <2>1
    <3> HIDE DEF Below
    <3> QED BY <2>1, <3>1, FS_Subset, FS_CardinalityType
  <2> QED BY <1>2, <2>2
<1> QED BY <1>2, <1>3, <1>4

\* A set sorted by a strict total order: every element once, in that order.
LEMMA SortedByProperties ==
  ASSUME NEW S, IsFiniteSet(S), NEW R, StrictOrder(S, R),
         NEW q, q = SortedBy(S, R), NEW n, n = Cardinality(S)
  PROVE  /\ n \in Nat /\ q \in [1..n -> S] /\ q \in Seq(S) /\ Len(q) = n
         /\ \A x \in S : \E k \in 1..n : q[k] = x
         /\ \A i, j \in 1..n : i < j => <<q[i], q[j]>> \in R
         /\ \A i, j \in 1..n : q[i] = q[j] => i = j
<1> DEFINE rank(x) == Cardinality(Below(S, R, x)) + 1
           f == [x \in S |-> rank(x)]
<1>1. n \in Nat
  BY FS_CardinalityType
<1>2. \A x \in S : rank(x) \in 1..n
  BY <1>1, BelowProperties
<1>3. \A x, y \in S : <<x, y>> \in R => rank(x) < rank(y)
  <2> TAKE x, y \in S
  <2>1. Cardinality(Below(S, R, x)) \in Nat /\ Cardinality(Below(S, R, y)) \in Nat
    BY <1>1, BelowProperties
  <2> QED BY <2>1, BelowProperties
<1> HIDE DEF rank
<1>4. \A x, y \in S : rank(x) = rank(y) => x = y
  <2> SUFFICES ASSUME NEW x \in S, NEW y \in S, x # y PROVE rank(x) # rank(y)
    OBVIOUS
  <2>1. <<x, y>> \in R \/ <<y, x>> \in R
    BY DEF StrictOrder
  <2>2. rank(x) < rank(y) \/ rank(y) < rank(x)
    BY <1>3, <2>1
  <2> QED BY <1>1, <1>2, <2>2
<1>5. f \in Injection(S, 1..n)
  <2>1. f \in [S -> 1..n]
    BY <1>2
  <2> QED BY <2>1, <1>4 DEF Injection, IsInjective
<1>6. f \in Surjection(S, 1..n)
  <2>1. IsFiniteSet(1..n) /\ Cardinality(1..n) = n
    BY <1>1, FS_Interval
  <2> QED BY <1>5, <2>1, FS_Injection
<1>7. \A k \in 1..n : \E x \in S : rank(x) = k
  BY <1>6 DEF Surjection
<1>8. q = [k \in 1..n |-> CHOOSE x \in S : rank(x) = k]
  <2>1. \A k \in 1..n : (CHOOSE x \in S : rank(x) = k)
                          = CHOOSE x \in S : Cardinality(Below(S, R, x)) = k - 1
    <3> TAKE k \in 1..n
    <3>1. \A x \in S : rank(x) = k <=> Cardinality(Below(S, R, x)) = k - 1
      BY <1>1, BelowProperties DEF rank
    <3> QED BY <3>1
  <2> QED BY <2>1 DEF SortedBy
<1>9. \A k \in 1..n : q[k] \in S /\ rank(q[k]) = k
  BY <1>7, <1>8
<1>10. q \in [1..n -> S]
  BY <1>8, <1>9
<1>11. q \in Seq(S) /\ Len(q) = n
  BY <1>1, <1>10, LenProperties
<1>12. \A x \in S : \E k \in 1..n : q[k] = x
  BY <1>2, <1>4, <1>9
<1>13. \A i, j \in 1..n : i < j => <<q[i], q[j]>> \in R
  <2> SUFFICES ASSUME NEW i \in 1..n, NEW j \in 1..n, i < j PROVE <<q[i], q[j]>> \in R
    OBVIOUS
  <2>1. q[i] # q[j] /\ ~(rank(q[j]) < rank(q[i]))
    BY <1>1, <1>9
  <2> QED BY <1>3, <1>9, <2>1 DEF StrictOrder
<1>14. \A i, j \in 1..n : q[i] = q[j] => i = j
  BY <1>9
<1> QED BY <1>1, <1>10, <1>11, <1>12, <1>13, <1>14

-----------------------------------------------------------------------------
LEMMA LeastElement ==
  ASSUME NEW S \in SUBSET Nat, S # {}
  PROVE  \E m \in S : \A y \in S : m <= y
<1>1. PICK m \in S : \A y \in S : ~ (<<y, m>> \in OpToRel(<, Nat))
  BY NatLessThanWellFounded, WFMin
<1>2. \A y \in S : ~ (y < m)
  BY <1>1 DEF OpToRel
<1>3. \A y \in S : m <= y
  <2> TAKE y \in S
  <2>1. m \in Nat /\ y \in Nat /\ ~ (y < m)
    BY <1>2
  <2> QED BY <2>1
<1> QED BY <1>3

\* Numbers in increasing order: each once.
LEMMA AscendingProperties ==
  ASSUME NEW K \in SUBSET Nat, IsFiniteSet(K), NEW n, n = Cardinality(K)
  PROVE  /\ n \in Nat /\ Ascending(K) \in [1..n -> K]
         /\ \A k \in K : \E i \in 1..n : Ascending(K)[i] = k
         /\ \A i, j \in 1..n : i < j => Ascending(K)[i] < Ascending(K)[j]
<1> DEFINE R == {p \in K \X K : p[1] < p[2]}
<1>1. StrictOrder(K, R)
  BY DEF StrictOrder
<1>2. \A x, y \in K : <<x, y>> \in R <=> x < y
  OBVIOUS
<1> DEFINE q == Ascending(K)
<1>3. q = SortedBy(K, R)
  BY DEF Ascending
<1> HIDE DEF R, q
<1>4. /\ n \in Nat /\ q \in [1..n -> K]
      /\ \A k \in K : \E i \in 1..n : q[i] = k
      /\ \A i, j \in 1..n : i < j => <<q[i], q[j]>> \in R
  BY <1>1, <1>3, SortedByProperties
<1>5. \A i, j \in 1..n : i < j => q[i] < q[j]
  BY <1>2, <1>4
<1> QED BY <1>4, <1>5 DEF q

\* What a filter keeps of a list: the elements at the places kept, in order, and
\* so no more of them than the list has.
LEMMA KeptProperties ==
  ASSUME NEW T, NEW s \in Seq(T), NEW K \in SUBSET (1..Len(s))
  PROVE  /\ Kept(s, K) \in Seq(T)
         /\ Len(Kept(s, K)) = Cardinality(K) /\ Len(Kept(s, K)) <= Len(s)
         /\ \A k \in K : \E i \in 1..Len(Kept(s, K)) : Kept(s, K)[i] = s[k]
         /\ \A i \in 1..Len(Kept(s, K)) : \E k \in K : Kept(s, K)[i] = s[k]
<1> DEFINE q == Kept(s, K)
<1> DEFINE n == Cardinality(K)
<1>1. /\ Len(s) \in Nat /\ \A k \in 1..Len(s) : s[k] \in T
      /\ IsFiniteSet(1..Len(s)) /\ Cardinality(1..Len(s)) = Len(s)
  <2>1. Len(s) \in Nat /\ \A k \in 1..Len(s) : s[k] \in T
    BY LenProperties
  <2>2. Cardinality(1..Len(s)) = (IF 1 > Len(s) THEN 0 ELSE Len(s) - 1 + 1)
    BY <2>1, FS_Interval
  <2> QED BY <2>1, <2>2, FS_Interval
<1>2. IsFiniteSet(K) /\ n <= Len(s) /\ K \in SUBSET Nat
  <2>1. IsFiniteSet(K) /\ Cardinality(K) <= Cardinality(1..Len(s))
    BY <1>1, FS_Subset
  <2> QED BY <1>1, <2>1
<1>3. /\ n \in Nat /\ Ascending(K) \in [1..n -> K]
      /\ \A k \in K : \E i \in 1..n : Ascending(K)[i] = k
  BY <1>2, AscendingProperties
<1>4. q = [i \in 1..n |-> s[Ascending(K)[i]]]
  BY DEF Kept
<1> HIDE DEF n, q
<1>5. q \in [1..n -> T]
  BY <1>1, <1>3, <1>4
<1>6. q \in Seq(T) /\ Len(q) = n
  BY <1>3, <1>5
<1>7. \A i \in 1..n : q[i] = s[Ascending(K)[i]] /\ Ascending(K)[i] \in K
  BY <1>3, <1>4
<1>8. \A k \in K : \E i \in 1..n : q[i] = s[k]
  BY <1>3, <1>7
<1> QED BY <1>2, <1>6, <1>7, <1>8 DEF n, q

\* When the first element stays, it stays the first.
LEMMA KeptHead ==
  ASSUME NEW T, NEW s \in Seq(T), NEW K \in SUBSET (1..Len(s)), 1 \in K
  PROVE  Kept(s, K) # <<>> /\ Head(Kept(s, K)) = Head(s)
<1> DEFINE n == Cardinality(K)
<1>1. IsFiniteSet(K) /\ K \in SUBSET Nat /\ Len(s) \in Nat
  <2>1. Len(s) \in Nat
    BY LenProperties
  <2>2. IsFiniteSet(1..Len(s))
    BY <2>1, FS_Interval
  <2>3. IsFiniteSet(K)
    BY <2>2, FS_Subset
  <2> QED BY <2>1, <2>3
<1>2. /\ n \in Nat /\ Ascending(K) \in [1..n -> K]
      /\ \A k \in K : \E i \in 1..n : Ascending(K)[i] = k
      /\ \A i, j \in 1..n : i < j => Ascending(K)[i] < Ascending(K)[j]
  BY <1>1, AscendingProperties
<1>3. Kept(s, K) = [i \in 1..n |-> s[Ascending(K)[i]]]
  BY DEF Kept
<1> HIDE DEF n
<1>4. PICK i \in 1..n : Ascending(K)[i] = 1
  BY <1>2
<1>5. 1 \in 1..n /\ Ascending(K)[1] \in Nat /\ Ascending(K)[1] >= 1
  <2>1. 1 \in 1..n
    BY <1>2, <1>4
  <2>2. Ascending(K)[1] \in K
    BY <1>2, <2>1
  <2>3. \A k \in K : k \in Nat /\ k >= 1
    BY <1>1
  <2> QED BY <2>1, <2>2, <2>3
<1>6. Ascending(K)[1] = 1
  BY <1>2, <1>4, <1>5
<1>7. Kept(s, K) \in Seq(T) /\ Len(Kept(s, K)) = n /\ Kept(s, K)[1] = s[1]
  <2>1. Kept(s, K) \in Seq(T) /\ Len(Kept(s, K)) = n
    BY KeptProperties DEF n
  <2>2. Kept(s, K)[1] = s[Ascending(K)[1]]
    BY <1>3, <1>5
  <2> QED BY <1>6, <2>1, <2>2
<1> QED BY <1>5, <1>7, EmptySeq, HeadTailProperties
-----------------------------------------------------------------------------
(* The maximum of a bounded, nonempty set of numbers (MAX(n) of the SQL).  *)

LEMMA MaxProperties ==
  ASSUME NEW b \in Nat, NEW S \in SUBSET (0..b), S # {}
  PROVE  Max(S) \in S /\ \A y \in S : Max(S) >= y
<1> DEFINE T == {b - n : n \in S}
<1>1. T \subseteq Nat /\ T # {}
  <2>1. \A n \in S : n \in Nat /\ b - n \in Nat
    OBVIOUS
  <2>2. T \subseteq Nat
    BY <2>1
  <2>3. PICK n \in S : TRUE
    OBVIOUS
  <2>4. b - n \in T
    OBVIOUS
  <2> QED BY <2>2, <2>4
<1>2. PICK x \in T : \A y \in T : ~ (<<y, x>> \in OpToRel(<, Nat))
  <2> HIDE DEF T
  <2> QED BY <1>1, NatLessThanWellFounded, WFMin
<1>3. \A y \in T : ~ (y < x)
  BY <1>1, <1>2 DEF OpToRel
<1>4. PICK m \in S : x = b - m
  BY <1>2
<1>5. \A y \in S : m >= y
  <2> TAKE y \in S
  <2>1. ~ (b - y < b - m)
    BY <1>3, <1>4
  <2> QED BY <2>1, <1>4
<1> QED BY <1>4, <1>5 DEF Max

\* A number taken is above every number of a row.
LEMMA FreshVersion ==
  ASSUME NEW b \in Nat, NEW rows, DOMAIN rows \subseteq 0..b
  PROVE  /\ NextVersion(rows) \in 1..(b + 1) /\ NextVersion(rows) \notin DOMAIN rows
         /\ \A m \in DOMAIN rows : m < NextVersion(rows)
<1> DEFINE S == {0} \cup DOMAIN rows
<1>1. S \in SUBSET (0..b) /\ S # {}
  OBVIOUS
<1>2. NextVersion(rows) = 1 + Max(S)
  BY DEF NextVersion
<1>3. DOMAIN rows \subseteq S
  OBVIOUS
<1> HIDE DEF S
<1>4. Max(S) \in S /\ \A y \in S : Max(S) >= y
  BY <1>1, MaxProperties
<1>5. Max(S) \in 0..b
  BY <1>1, <1>4
<1>6. \A y \in DOMAIN rows : y \in 0..b /\ Max(S) >= y
  BY <1>3, <1>4
<1> QED BY <1>2, <1>5, <1>6

\* Promoting a version leaves it the only active one, and every other column of
\* every row alone.
LEMMA ActivateProperties ==
  ASSUME NEW rows, NEW n \in DOMAIN rows,
         \A m \in DOMAIN rows : "status" \in DOMAIN rows[m],
         NEW new, new = Activate(rows, n)
  PROVE  /\ DOMAIN new = DOMAIN rows
         /\ WithStatus(new, "active") = {n}
         /\ \A m \in DOMAIN rows :
              /\ DOMAIN new[m] = DOMAIN rows[m]
              /\ \A c \in DOMAIN rows[m] \ {"status"} : new[m][c] = rows[m][c]
              /\ new[m].status \in {rows[m].status, "fallback", "active"}
<1> DEFINE old == WithStatus(rows, "active")
           mid == Restatus(rows, old, "fallback")
<1>1. new = Restatus(mid, {n}, "active")
  BY DEF Activate
<1>2. /\ DOMAIN mid = DOMAIN rows
      /\ \A m \in DOMAIN rows :
           mid[m] = IF m \in old THEN [rows[m] EXCEPT !.status = "fallback"] ELSE rows[m]
  BY DEF Restatus
<1>3. \A m \in DOMAIN rows : m \in old <=> rows[m].status = "active"
  BY DEF WithStatus
<1>4. \A m \in DOMAIN rows :
        /\ DOMAIN mid[m] = DOMAIN rows[m] /\ mid[m].status # "active"
        /\ mid[m].status \in {rows[m].status, "fallback"}
        /\ \A c \in DOMAIN rows[m] \ {"status"} : mid[m][c] = rows[m][c]
  BY <1>2, <1>3
<1> HIDE DEF mid, old
<1>5. /\ DOMAIN new = DOMAIN mid
      /\ \A m \in DOMAIN mid :
           new[m] = IF m = n THEN [mid[m] EXCEPT !.status = "active"] ELSE mid[m]
  BY <1>1 DEF Restatus
<1>6. \A m \in DOMAIN rows :
        /\ DOMAIN new[m] = DOMAIN rows[m]
        /\ new[m].status = IF m = n THEN "active" ELSE mid[m].status
        /\ \A c \in DOMAIN rows[m] \ {"status"} : new[m][c] = mid[m][c]
  BY <1>2, <1>4, <1>5
<1>7. WithStatus(new, "active") = {n}
  BY <1>2, <1>4, <1>5, <1>6 DEF WithStatus
<1> QED BY <1>2, <1>4, <1>5, <1>6, <1>7

-----------------------------------------------------------------------------
(* The ladder: every row once, the active one first, newest before older.  *)

LEMMA LadderProperties ==
  ASSUME NEW b \in Nat, NEW rows, DOMAIN rows \subseteq 0..b
  PROVE  /\ LadderOf(rows) \in Seq(DOMAIN rows)
         /\ \A n \in DOMAIN rows : \E i \in 1..Len(LadderOf(rows)) : LadderOf(rows)[i] = n
         /\ \A i, j \in 1..Len(LadderOf(rows)) :
              i < j => Precedes(rows, LadderOf(rows)[i], LadderOf(rows)[j])
<1> DEFINE S == DOMAIN rows
           R == {p \in S \X S : Precedes(rows, p[1], p[2])}
           q == LadderOf(rows)
<1>1. IsFiniteSet(S)
  <2>1. IsFiniteSet(0..b)
    BY FS_Interval
  <2> QED BY <2>1, FS_Subset
<1>2. \A x, y \in S : <<x, y>> \in R <=> Precedes(rows, x, y)
  OBVIOUS
<1>3. \A x \in S : x \in Nat
  OBVIOUS
<1>4. q = SortedBy(S, R)
  BY DEF LadderOf
<1> HIDE DEF R, q
<1>5. StrictOrder(S, R)
  <2>1. \A x \in S : <<x, x>> \notin R
    BY <1>2, <1>3 DEF Precedes
  <2>2. ASSUME NEW x \in S, NEW y \in S, x # y
        PROVE  <<x, y>> \in R \/ <<y, x>> \in R
    <3>1. x > y \/ y > x
      BY <1>3, <2>2
    <3>2. Precedes(rows, x, y) \/ Precedes(rows, y, x)
      BY <3>1 DEF Precedes
    <3> QED BY <1>2, <3>2
  <2>3. ASSUME NEW x \in S, NEW y \in S, NEW z \in S, <<x, y>> \in R, <<y, z>> \in R
        PROVE  <<x, z>> \in R
    <3>1. x \in Nat /\ y \in Nat /\ z \in Nat /\ Precedes(rows, x, y) /\ Precedes(rows, y, z)
      BY <1>2, <1>3, <2>3
    <3>2. Precedes(rows, x, z)
      BY <3>1 DEF Precedes
    <3> QED BY <1>2, <3>2
  <2> QED BY <2>1, <2>2, <2>3 DEF StrictOrder
<1> HIDE DEF S
<1>6. /\ q \in Seq(S) /\ Len(q) = Cardinality(S) /\ Cardinality(S) \in Nat
      /\ q \in [1..Cardinality(S) -> S]
      /\ \A x \in S : \E k \in 1..Cardinality(S) : q[k] = x
      /\ \A i, j \in 1..Cardinality(S) : i < j => <<q[i], q[j]>> \in R
  BY <1>1, <1>4, <1>5, SortedByProperties
<1> QED BY <1>2, <1>6 DEF S, q
=============================================================================

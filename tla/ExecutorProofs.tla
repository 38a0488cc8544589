--------------------------- MODULE ExecutorProofs ---------------------------
(***************************************************************************)
(* Theorems about run_family, for any walks, processes, versions, pages,   *)
(* cadence and number of crashes.                                          *)
(*                                                                         *)
(* The inductive invariant says of each walk that its rungs are rows       *)
(* (Sound), of each process that one walk of it at most is in its          *)
(* bookkeeping (OneTail), of each version that what walks have counted and *)
(* not recorded accounts for its history lagging behind (Books, Balance),  *)
(* and of a single process that the snapshots follow the successes whose   *)
(* bookkeeping is over (Cadence).                                          *)
(***************************************************************************)
EXTENDS Executor, OrderingProofs

-----------------------------------------------------------------------------
(* Sums, counted as marks.                                                 *)

LEMMA MarksMembers ==
  ASSUME NEW f
  PROVE  /\ \A x \in DOMAIN f : \A k \in 1..f[x] : <<x, k>> \in Marks(f)
         /\ \A p \in Marks(f) : \E x \in DOMAIN f : \E k \in 1..f[x] : p = <<x, k>>
<1>1. ASSUME NEW x \in DOMAIN f, NEW k \in 1..f[x] PROVE <<x, k>> \in Marks(f)
  <2>1. <<x, k>> \in {x} \X (1..f[x])
    OBVIOUS
  <2> QED BY <2>1 DEF Marks
<1>2. ASSUME NEW p \in Marks(f) PROVE \E x \in DOMAIN f : \E k \in 1..f[x] : p = <<x, k>>
  <2>1. PICK x \in DOMAIN f : p \in {x} \X (1..f[x])
    BY DEF Marks
  <2> QED BY <2>1
<1> QED BY <1>1, <1>2

LEMMA SumIsNat ==
  ASSUME NEW D, IsFiniteSet(D), NEW f \in [D -> Nat]
  PROVE  IsFiniteSet(Marks(f)) /\ SumOf(f) \in Nat
<1> DEFINE columns == {{x} \X (1..f[x]) : x \in D}
           column == [x \in D |-> {x} \X (1..f[x])]
<1>1. IsFiniteSet(columns)
  <2>1. column \in Surjection(D, columns)
    BY DEF Surjection
  <2> QED BY <2>1, FS_Surjection
<1>2. ASSUME NEW c \in columns PROVE IsFiniteSet(c)
  <2>1. PICK x \in D : c = {x} \X (1..f[x])
    OBVIOUS
  <2>2. IsFiniteSet({x})
    BY FS_Singleton
  <2>3. IsFiniteSet(1..f[x])
    <3>1. 1 \in Int /\ f[x] \in Int
      OBVIOUS
    <3> QED BY <3>1, FS_Interval
  <2> QED BY <2>1, <2>2, <2>3, FS_Product
<1>3. Marks(f) = UNION columns
  BY DEF Marks
<1> HIDE DEF columns
<1>4. IsFiniteSet(Marks(f))
  BY <1>1, <1>2, <1>3, FS_UNION
<1> QED BY <1>4, FS_CardinalityType DEF SumOf

LEMMA SumRaised ==
  ASSUME NEW D, IsFiniteSet(D), NEW f \in [D -> Nat], NEW x \in D,
         NEW g, g = [f EXCEPT ![x] = @ + 1]
  PROVE  SumOf(g) = SumOf(f) + 1
<1> DEFINE new == <<x, f[x] + 1>>
<1>1. f[x] \in Nat /\ DOMAIN f = D /\ DOMAIN g = D
  OBVIOUS
<1>2. new \notin Marks(f)
  <2> SUFFICES ASSUME new \in Marks(f) PROVE FALSE
    OBVIOUS
  <2>1. PICK y \in D : \E k \in 1..f[y] : new = <<y, k>>
    BY <1>1, MarksMembers
  <2> QED BY <1>1, <2>1
<1>3. Marks(g) \subseteq Marks(f) \cup {new}
  <2> SUFFICES ASSUME NEW p \in Marks(g), p # new PROVE p \in Marks(f)
    OBVIOUS
  <2>1. PICK y \in D : \E k \in 1..g[y] : p = <<y, k>>
    BY <1>1, MarksMembers
  <2>2. PICK k \in 1..g[y] : p = <<y, k>>
    BY <2>1
  <2>3. k \in 1..f[y]
    BY <1>1, <2>2
  <2> QED BY <1>1, <2>2, <2>3, MarksMembers
<1>4. Marks(f) \cup {new} \subseteq Marks(g)
  <2>1. new \in Marks(g)
    <3>1. f[x] + 1 \in 1..g[x]
      BY <1>1
    <3> QED BY <1>1, <3>1, MarksMembers
  <2>2. ASSUME NEW p \in Marks(f) PROVE p \in Marks(g)
    <3>1. PICK y \in D : \E k \in 1..f[y] : p = <<y, k>>
      BY <1>1, MarksMembers
    <3>2. PICK k \in 1..f[y] : p = <<y, k>>
      BY <3>1
    <3>3. k \in 1..g[y]
      BY <1>1, <3>2
    <3> QED BY <1>1, <3>2, <3>3, MarksMembers
  <2> QED BY <2>1, <2>2
<1>5. Marks(g) = Marks(f) \cup {new}
  BY <1>3, <1>4
<1> QED BY <1>2, <1>5, SumIsNat, FS_AddElement DEF SumOf

\* What has no mark adds nothing.
LEMMA SumExtended ==
  ASSUME NEW D, NEW f \in [D -> Nat], NEW E, D \subseteq E, NEW g \in [E -> Nat],
         \A y \in D : g[y] = f[y], \A y \in E \ D : g[y] = 0
  PROVE  SumOf(g) = SumOf(f)
<1>1. Marks(g) \subseteq Marks(f)
  <2> SUFFICES ASSUME NEW p \in Marks(g) PROVE p \in Marks(f)
    OBVIOUS
  <2>1. PICK y \in E : \E k \in 1..g[y] : p = <<y, k>>
    BY MarksMembers
  <2>2. PICK k \in 1..g[y] : p = <<y, k>>
    BY <2>1
  <2>3. y \in D /\ k \in 1..f[y] /\ DOMAIN f = D
    BY <2>2
  <2> QED BY <2>2, <2>3, MarksMembers
<1>2. Marks(f) \subseteq Marks(g)
  <2> SUFFICES ASSUME NEW p \in Marks(f) PROVE p \in Marks(g)
    OBVIOUS
  <2>1. PICK y \in D : \E k \in 1..f[y] : p = <<y, k>>
    BY MarksMembers
  <2>2. PICK k \in 1..f[y] : p = <<y, k>>
    BY <2>1
  <2>3. y \in E /\ k \in 1..g[y] /\ DOMAIN g = E
    BY <2>2
  <2> QED BY <2>2, <2>3, MarksMembers
<1>3. Marks(g) = Marks(f)
  BY <1>1, <1>2
<1> QED BY <1>3 DEF SumOf

\* One more success crosses a multiple of the cadence or does not.
LEMMA NextMultiple ==
  ASSUME NEW s \in Nat, NEW e \in Nat \ {0}
  PROVE  /\ s \div e \in Nat /\ (s + 1) \div e \in Nat
         /\ (s + 1) \div e = s \div e + (IF (s + 1) % e = 0 THEN 1 ELSE 0)
<1> DEFINE q == s \div e
           r == s % e
           a == (s + 1) \div e
           b == (s + 1) % e
<1>1. q \in Nat /\ r \in 0..(e - 1) /\ s = e * q + r
  OBVIOUS
<1>2. a \in Nat /\ b \in 0..(e - 1) /\ s + 1 = e * a + b
  OBVIOUS
<1> QED BY <1>1, <1>2

-----------------------------------------------------------------------------
(* The invariant.                                                          *)

\* The walks that have counted a success and not recorded it.
Recording == {w \in Walks : At(w, "history")}
RecordingFor(n) == {w \in Recording : Rung(w) = n}

Sound(t, D) ==
  /\ t \in Walk /\ t.left \in Seq(D)
  /\ t.pc \in {"crawl", "history", "cadence"} => t.left # <<>>
  /\ t.pc = "crawl" => t.pages < MaxPages

OneTail ==
  \A v, w \in Walks : Process[v] = Process[w] /\ InTail(v) /\ InTail(w) => v = w

Books ==
  /\ \A n \in DOMAIN rows :
       /\ history[n] + Cardinality(RecordingFor(n)) <= rows[n].successes
       /\ rows[n].successes <= rows[n].runs
  /\ \A n \in (1..MaxVersion) \ DOMAIN rows : history[n] = 0

Recorded == SumOf([n \in DOMAIN rows |-> history[n]])
Balance == Total("successes") <= Recorded + crashes + Cardinality(Recording)

\* The successes whose bookkeeping is over, where one process does it.
Settled == Total("successes") - (IF \E w \in Walks : InTail(w) THEN 1 ELSE 0)
SingleProcess == \A v, w \in Walks : Process[v] = Process[w]
Cadence ==
  SingleProcess =>
    /\ Settled \in Nat
    /\ snapshots <= Settled \div SnapshotEvery
    /\ Settled \div SnapshotEvery <= snapshots + crashes

Inv == /\ TypeOK /\ \A w \in Walks : Sound(walk[w], DOMAIN rows)
       /\ OneTail /\ Books /\ Balance /\ Cadence

-----------------------------------------------------------------------------
(* What the conjuncts of the invariant are made of.                        *)

LEMMA Totals ==
  ASSUME TypeOK
  PROVE  /\ IsFiniteSet(DOMAIN rows)
         /\ Counts("runs") \in [DOMAIN rows -> Nat]
         /\ Counts("successes") \in [DOMAIN rows -> Nat]
         /\ [n \in DOMAIN rows |-> history[n]] \in [DOMAIN rows -> Nat]
         /\ Total("successes") \in Nat /\ Recorded \in Nat
         /\ crashes \in Nat /\ snapshots \in Nat
<1>1. IsFiniteSet(DOMAIN rows)
  <2>1. 1 \in Int /\ MaxVersion \in Int
    BY ExecutorAssumption
  <2>2. IsFiniteSet(1..MaxVersion) /\ DOMAIN rows \in SUBSET (1..MaxVersion)
    BY <2>1, FS_Interval DEF TypeOK
  <2> QED BY <2>2, FS_Subset
<1>2. \A n \in DOMAIN rows : rows[n].runs \in Nat /\ rows[n].successes \in Nat
  BY DEF TypeOK
<1>3. Counts("runs") \in [DOMAIN rows -> Nat] /\ Counts("successes") \in [DOMAIN rows -> Nat]
  BY <1>2 DEF Counts
<1>4. [n \in DOMAIN rows |-> history[n]] \in [DOMAIN rows -> Nat]
  BY DEF TypeOK
<1>5. Total("successes") \in Nat /\ Recorded \in Nat
  BY <1>1, <1>3, <1>4, SumIsNat DEF Total, Recorded
<1>6. crashes \in Nat /\ snapshots \in Nat
  BY ExecutorAssumption DEF TypeOK
<1> QED BY <1>1, <1>3, <1>4, <1>5, <1>6

LEMMA RecordingFinite ==
  /\ IsFiniteSet(Recording) /\ Cardinality(Recording) \in Nat
  /\ \A n : IsFiniteSet(RecordingFor(n)) /\ Cardinality(RecordingFor(n)) \in Nat
<1>1. IsFiniteSet(Walks)
  BY ExecutorAssumption
<1>2. Recording \in SUBSET Walks /\ \A n : RecordingFor(n) \in SUBSET Recording
  BY DEF Recording, RecordingFor
<1>3. IsFiniteSet(Recording)
  BY <1>1, <1>2, FS_Subset
<1>4. \A n : IsFiniteSet(RecordingFor(n))
  BY <1>2, <1>3, FS_Subset
<1> QED BY <1>3, <1>4, FS_CardinalityType

\* A ladder is the rows there are, as a walk takes them.
LEMMA LadderSound ==
  ASSUME TypeOK
  PROVE  LadderOf(rows) \in Seq(DOMAIN rows) /\ LadderOf(rows) \in Seq(1..MaxVersion)
<1>1. MaxVersion \in Nat /\ DOMAIN rows \subseteq 0..MaxVersion
      /\ DOMAIN rows \subseteq 1..MaxVersion
  BY ExecutorAssumption DEF TypeOK
<1>2. LadderOf(rows) \in Seq(DOMAIN rows)
  BY <1>1, LadderProperties
<1> QED BY <1>1, <1>2, SeqMonotonic

LEMMA RungSound ==
  ASSUME Inv, NEW w \in Walks, walk[w].left # <<>>
  PROVE  /\ Rung(w) \in DOMAIN rows /\ Tail(walk[w].left) \in Seq(DOMAIN rows)
         /\ Tail(walk[w].left) \in Seq(1..MaxVersion)
<1>1. walk[w].left \in Seq(DOMAIN rows) /\ DOMAIN rows \subseteq 1..MaxVersion
  BY DEF Inv, Sound, TypeOK
<1>2. Head(walk[w].left) \in DOMAIN rows /\ Tail(walk[w].left) \in Seq(DOMAIN rows)
  BY <1>1, HeadTailProperties
<1> QED BY <1>1, <1>2, SeqMonotonic DEF Rung

LEMMA InitInv == Init => Inv
<1> SUFFICES ASSUME Init PROVE Inv
  OBVIOUS
<1>1. /\ DOMAIN rows = {1} /\ rows[1].status = "active"
      /\ rows[1] \in [status : Statuses, runs : {0}, successes : {0}]
  BY DEF Init, NewRow, Statuses
<1>2. NewWalk \in Walk /\ NewWalk.left = <<>> /\ NewWalk.pc = "idle"
  <2>1. 0 \in 0..MaxPages
    BY ExecutorAssumption
  <2> QED BY <2>1 DEF NewWalk, Walk
<1>3. \A w \in Walks : walk[w] = NewWalk
  BY DEF Init
<1>4. TypeOK
  BY <1>1, <1>2, ExecutorAssumption DEF Init, TypeOK
<1>5. \A w \in Walks : Sound(walk[w], DOMAIN rows)
  <2>1. <<>> \in Seq(DOMAIN rows)
    OBVIOUS
  <2>2. Sound(NewWalk, DOMAIN rows)
    BY <1>2, <2>1 DEF Sound
  <2> QED BY <1>3, <2>2
<1>6. OneTail /\ ~ \E w \in Walks : InTail(w)
  BY <1>2, <1>3 DEF OneTail, InTail
<1>7. Recording = {} /\ \A n : RecordingFor(n) = {}
  BY <1>2, <1>3 DEF Recording, RecordingFor, At
<1>8. Cardinality(Recording) = 0 /\ \A n : Cardinality(RecordingFor(n)) = 0
  BY <1>7, FS_EmptySet
<1>9. \A n \in 1..MaxVersion : history[n] = 0
  BY DEF Init
<1>10. Books
  BY <1>1, <1>8, <1>9, ExecutorAssumption DEF Books
<1>11. Total("successes") = 0
  <2>1. \A x \in DOMAIN Counts("successes") : Counts("successes")[x] = 0
    BY <1>1 DEF Counts
  <2>2. Marks(Counts("successes")) = {}
    BY <2>1, MarksMembers
  <2> QED BY <2>2, FS_EmptySet DEF Total, SumOf
<1>12. Balance
  BY <1>4, <1>8, <1>11, Totals DEF Balance
<1>13. Cadence
  <2>1. Settled = 0 /\ snapshots = 0 /\ crashes = 0
    BY <1>6, <1>11 DEF Settled, Init
  <2>2. 0 \div SnapshotEvery = 0
    BY ExecutorAssumption
  <2> QED BY <2>1, <2>2 DEF Cadence
<1> QED BY <1>4, <1>5, <1>6, <1>10, <1>12, <1>13 DEF Inv

-----------------------------------------------------------------------------
(* The steps of a walk, by what they do to the books.                      *)

\* A walk that takes the state t leaves the others theirs.
LEMMA Moved ==
  ASSUME Inv, NEW w \in Walks, NEW t, Sound(t, DOMAIN rows), DOMAIN rows' = DOMAIN rows,
         walk' = [walk EXCEPT ![w] = t]
  PROVE  /\ walk' \in [Walks -> Walk] /\ walk'[w] = t
         /\ \A v \in Walks : Sound(walk'[v], DOMAIN rows')
         /\ \A v \in Walks \ {w} : walk'[v] = walk[v]
  BY DEF Inv, TypeOK, Sound

\* Neither the books nor the bookkeeping: only where the walk stands.
LEMMA QuietInv ==
  ASSUME Inv, NEW w \in Walks, NEW t, Sound(t, DOMAIN rows),
         t.pc \notin {"history", "cadence"}, ~InTail(w),
         walk' = [walk EXCEPT ![w] = t], UNCHANGED <<rows, history, snapshots, crashes>>
  PROVE  Inv'
<1>1. /\ walk' \in [Walks -> Walk] /\ walk'[w] = t
      /\ \A v \in Walks : Sound(walk'[v], DOMAIN rows')
      /\ \A v \in Walks \ {w} : walk'[v] = walk[v]
  BY Moved
<1>2. TypeOK'
  BY <1>1 DEF Inv, TypeOK
<1>3. \A v \in Walks : InTail(v)' <=> InTail(v)
  BY <1>1 DEF InTail
<1>4. \A v \in Walks : At(v, "history")' <=> At(v, "history")
  BY <1>1 DEF InTail, At
<1>5. Recording' = Recording /\ \A n : RecordingFor(n)' = RecordingFor(n)
  <2>1. Recording' = Recording
    BY <1>4 DEF Recording
  <2>2. \A v \in Recording : Rung(v)' = Rung(v)
    BY <1>1 DEF Recording, Rung, At, InTail
  <2> QED BY <2>1, <2>2 DEF RecordingFor
<1>6. OneTail'
  BY <1>3 DEF Inv, OneTail
<1>7. Books' /\ Balance'
  BY <1>5 DEF Inv, Books, Balance, Total, Counts, Recorded
<1>8. Cadence'
  <2>1. Settled' = Settled
    BY <1>3 DEF Settled, Total, Counts
  <2> QED BY <2>1 DEF Inv, Cadence, SingleProcess
<1> QED BY <1>1, <1>2, <1>6, <1>7, <1>8 DEF Inv

\* What record_run counts, for the version and in all.
LEMMA Counted ==
  ASSUME Inv, NEW n \in DOMAIN rows, NEW ok \in BOOLEAN, CountRun(n, ok)
  PROVE  /\ DOMAIN rows' = DOMAIN rows
         /\ \A m \in DOMAIN rows :
              rows'[m] \in [status : Statuses, runs : Nat, successes : Nat]
         /\ \A m \in DOMAIN rows \ {n} : rows'[m] = rows[m]
         /\ rows'[n].runs = rows[n].runs + 1
         /\ rows'[n].successes = rows[n].successes + (IF ok THEN 1 ELSE 0)
         /\ Total("successes")' = Total("successes") + (IF ok THEN 1 ELSE 0)
<1>1. rows' = [rows EXCEPT ![n] = [rows[n] EXCEPT !.runs = @ + 1,
                                         !.successes = @ + (IF ok THEN 1 ELSE 0)]]
  BY DEF CountRun
<1>2. rows[n] \in [status : Statuses, runs : Nat, successes : Nat]
  BY DEF Inv, TypeOK
<1>3. /\ DOMAIN rows' = DOMAIN rows
      /\ \A m \in DOMAIN rows \ {n} : rows'[m] = rows[m]
      /\ rows'[n] = [rows[n] EXCEPT !.runs = @ + 1,
                                    !.successes = @ + (IF ok THEN 1 ELSE 0)]
  BY <1>1
<1>4. /\ rows'[n] \in [status : Statuses, runs : Nat, successes : Nat]
      /\ rows'[n].runs = rows[n].runs + 1
      /\ rows'[n].successes = rows[n].successes + (IF ok THEN 1 ELSE 0)
  <2>1. (IF ok THEN 1 ELSE 0) \in {0, 1}
    OBVIOUS
  <2> DEFINE d == IF ok THEN 1 ELSE 0
  <2>2. d \in {0, 1}
    BY <2>1
  <2>3. rows'[n] = [rows[n] EXCEPT !.runs = @ + 1, !.successes = @ + d]
    BY <1>3
  <2> HIDE DEF d
  <2>4. rows'[n] = [c \in {"status", "runs", "successes"} |->
                      IF c = "runs" THEN rows[n].runs + 1
                      ELSE IF c = "successes" THEN rows[n].successes + d
                      ELSE rows[n].status]
    BY <1>2, <2>3
  <2>5. rows'[n] \in [status : Statuses, runs : Nat, successes : Nat]
    BY <1>2, <2>2, <2>4
  <2> QED BY <2>4, <2>5 DEF d
<1>5. \A m \in DOMAIN rows :
        rows'[m] \in [status : Statuses, runs : Nat, successes : Nat]
  BY <1>3, <1>4 DEF Inv, TypeOK
<1>6. Total("successes")' = Total("successes") + (IF ok THEN 1 ELSE 0)
  <2>1. /\ IsFiniteSet(DOMAIN rows) /\ Counts("successes") \in [DOMAIN rows -> Nat]
        /\ Total("successes") \in Nat
    BY Totals DEF Inv
  <2>2. CASE ok
    <3>1. Counts("successes")' = [Counts("successes") EXCEPT ![n] = @ + 1]
      BY <1>3, <1>4, <2>2 DEF Counts
    <3> HIDE DEF Counts
    <3> QED BY <2>1, <2>2, <3>1, SumRaised DEF Total
  <2>3. CASE ~ok
    <3>1. rows'[n].successes = rows[n].successes
      BY <1>2, <1>4, <2>3
    <3>2. Counts("successes")' = Counts("successes")
      BY <1>3, <3>1 DEF Counts
    <3> QED BY <2>1, <2>3, <3>2 DEF Total
  <2> QED BY <2>2, <2>3
<1> QED BY <1>3, <1>4, <1>5, <1>6

\* A run that yields nothing valid: one run more, one rung less.
LEMMA FailsInv == ASSUME Inv, NEW w \in Walks, Fails(w) PROVE Inv'
<1> DEFINE t == [walk[w] EXCEPT !.pc = "rung", !.left = Tail(@)]
<1>1. walk[w] \in Walk /\ walk[w].pc = "crawl" /\ walk[w].left # <<>>
  BY DEF Inv, Sound, Fails, At
<1>2. Rung(w) \in DOMAIN rows /\ Tail(walk[w].left) \in Seq(DOMAIN rows)
      /\ Tail(walk[w].left) \in Seq(1..MaxVersion)
  BY <1>1, RungSound
<1>3. Sound(t, DOMAIN rows)
  BY <1>1, <1>2 DEF Sound, Walk
<1>4. /\ DOMAIN rows' = DOMAIN rows
      /\ \A m \in DOMAIN rows :
           rows'[m] \in [status : Statuses, runs : Nat, successes : Nat]
      /\ \A m \in DOMAIN rows \ {Rung(w)} : rows'[m] = rows[m]
      /\ rows'[Rung(w)].runs = rows[Rung(w)].runs + 1
      /\ rows'[Rung(w)].successes = rows[Rung(w)].successes + 0
      /\ Total("successes")' = Total("successes") + 0
  BY <1>2, Counted DEF Fails
<1>5. /\ walk' \in [Walks -> Walk] /\ walk'[w] = t
      /\ \A v \in Walks : Sound(walk'[v], DOMAIN rows')
      /\ \A v \in Walks \ {w} : walk'[v] = walk[v]
  <2>1. walk' = [walk EXCEPT ![w] = t]
    BY DEF Fails
  <2> HIDE DEF t
  <2> QED BY <1>3, <1>4, <2>1, Moved
<1>6. TypeOK'
  BY <1>4, <1>5 DEF Inv, TypeOK, Fails
<1>7. t.pc = "rung"
  BY <1>1 DEF Walk
<1> HIDE DEF t
<1>8. \A v \in Walks : (InTail(v)' <=> InTail(v)) /\ (At(v, "history")' <=> At(v, "history"))
  BY <1>1, <1>5, <1>7 DEF InTail, At
<1>9. Recording' = Recording /\ \A n : RecordingFor(n)' = RecordingFor(n)
  <2>1. Recording' = Recording
    BY <1>8 DEF Recording
  <2>2. \A v \in Recording : Rung(v)' = Rung(v)
    BY <1>1, <1>5 DEF Recording, Rung, At
  <2> QED BY <2>1, <2>2 DEF RecordingFor
<1>10. OneTail'
  BY <1>8 DEF Inv, OneTail
<1>11. \A n \in DOMAIN rows : /\ rows[n].runs \in Nat /\ rows[n].successes \in Nat
                              /\ rows'[n].successes = rows[n].successes
                              /\ rows'[n].runs \in {rows[n].runs, rows[n].runs + 1}
  BY <1>4 DEF Inv, TypeOK
<1>12. UNCHANGED <<history, snapshots, crashes>>
  BY DEF Fails
<1>13. Books'
  BY <1>4, <1>9, <1>11, <1>12 DEF Inv, Books
<1>14. Total("successes")' = Total("successes")
  BY <1>4, Totals DEF Inv
<1>15. Balance'
  BY <1>4, <1>9, <1>12, <1>14 DEF Inv, Balance, Recorded
<1>16. Cadence'
  <2>1. Settled' = Settled
    BY <1>8, <1>14 DEF Settled
  <2> QED BY <1>12, <2>1 DEF Inv, Cadence, SingleProcess
<1> QED BY <1>5, <1>6, <1>10, <1>13, <1>15, <1>16 DEF Inv

\* A run that validates: counted, and the walk's bookkeeping begins.
LEMMA ValidatesInv == ASSUME Inv, NEW w \in Walks, Validates(w) PROVE Inv'
<1> DEFINE t == [walk[w] EXCEPT !.pc = "history", !.pages = @ + 1]
<1>1. walk[w] \in Walk /\ walk[w].pc = "crawl" /\ walk[w].left # <<>>
      /\ walk[w].left \in Seq(DOMAIN rows) /\ walk[w].pages < MaxPages
  BY DEF Inv, Sound, Validates, At
<1>2. Rung(w) \in DOMAIN rows
  BY <1>1, RungSound
<1>3. Sound(t, DOMAIN rows)
  <2>1. walk[w].pages + 1 \in 0..MaxPages
    BY <1>1, ExecutorAssumption DEF Walk
  <2> QED BY <1>1, <2>1 DEF Sound, Walk
<1>4. /\ DOMAIN rows' = DOMAIN rows
      /\ \A m \in DOMAIN rows :
           rows'[m] \in [status : Statuses, runs : Nat, successes : Nat]
      /\ \A m \in DOMAIN rows \ {Rung(w)} : rows'[m] = rows[m]
      /\ rows'[Rung(w)].runs = rows[Rung(w)].runs + 1
      /\ rows'[Rung(w)].successes = rows[Rung(w)].successes + 1
      /\ Total("successes")' = Total("successes") + 1
  BY <1>2, Counted DEF Validates
<1>5. /\ walk' \in [Walks -> Walk] /\ walk'[w] = t
      /\ \A v \in Walks : Sound(walk'[v], DOMAIN rows')
      /\ \A v \in Walks \ {w} : walk'[v] = walk[v]
  <2>1. walk' = [walk EXCEPT ![w] = t]
    BY DEF Validates
  <2> HIDE DEF t
  <2> QED BY <1>3, <1>4, <2>1, Moved
<1>6. TypeOK'
  BY <1>4, <1>5 DEF Inv, TypeOK, Validates
<1>7. t.pc = "history" /\ t.left = walk[w].left
  BY <1>1 DEF Walk
<1> HIDE DEF t
<1>8. /\ ~InTail(w) /\ InTail(w)' /\ At(w, "history")' /\ ~At(w, "history")
      /\ \A v \in Walks \ {w} :
           (InTail(v)' <=> InTail(v)) /\ (At(v, "history")' <=> At(v, "history"))
      /\ \A v \in Walks : Rung(v)' = Rung(v)
  BY <1>1, <1>5, <1>7 DEF InTail, At, Rung
<1>9. \A v \in Walks \ {w} : Process[v] = Process[w] => ~InTail(v)
  BY DEF Validates, Awaits
<1>10. OneTail'
  BY <1>8, <1>9 DEF Inv, OneTail
<1>11. /\ Recording' = Recording \cup {w} /\ w \notin Recording
       /\ \A n : n = Rung(w) =>
            RecordingFor(n)' = RecordingFor(n) \cup {w} /\ w \notin RecordingFor(n)
       /\ \A n : n # Rung(w) => RecordingFor(n)' = RecordingFor(n)
  BY <1>8 DEF Recording, RecordingFor
<1>12. /\ Cardinality(Recording') = Cardinality(Recording) + 1
       /\ \A n : n = Rung(w) =>
            Cardinality(RecordingFor(n)') = Cardinality(RecordingFor(n)) + 1
  <2>1. Cardinality(Recording') = Cardinality(Recording) + 1
    BY <1>11, RecordingFinite, FS_AddElement
  <2>2. ASSUME NEW n, n = Rung(w)
        PROVE  Cardinality(RecordingFor(n)') = Cardinality(RecordingFor(n)) + 1
    <3>1. IsFiniteSet(RecordingFor(n))
      BY RecordingFinite
    <3>2. /\ RecordingFor(n)' = RecordingFor(n) \cup {w}
          /\ w \notin RecordingFor(n)
      BY <1>11, <2>2
    <3> QED BY <3>1, <3>2, FS_AddElement
  <2> QED BY <2>1, <2>2
<1>13. UNCHANGED <<history, snapshots, crashes>>
  BY DEF Validates
<1>14. Books'
  <2>1. ASSUME NEW n \in DOMAIN rows
        PROVE  /\ history[n] + Cardinality(RecordingFor(n)') <= rows'[n].successes
               /\ rows'[n].successes <= rows'[n].runs
    <3>1. /\ history[n] \in Nat /\ Cardinality(RecordingFor(n)) \in Nat
          /\ rows[n].successes \in Nat /\ rows[n].runs \in Nat
          /\ history[n] + Cardinality(RecordingFor(n)) <= rows[n].successes
          /\ rows[n].successes <= rows[n].runs
      BY RecordingFinite DEF Inv, TypeOK, Books
    <3>2. CASE n = Rung(w)
      BY <1>4, <1>12, <3>1, <3>2
    <3>3. CASE n # Rung(w)
      BY <1>4, <1>11, <3>1, <3>3
    <3> QED BY <3>2, <3>3
  <2> QED BY <1>4, <1>13, <2>1 DEF Inv, Books
<1>15. Balance'
  <2>1. Recorded' = Recorded
    BY <1>4, <1>13 DEF Recorded
  <2> QED BY <1>4, <1>12, <1>13, <2>1, Totals, RecordingFinite DEF Inv, Balance
<1>16. Cadence'
  <2> SUFFICES ASSUME SingleProcess PROVE Settled' = Settled
    BY <1>13 DEF Inv, Cadence, SingleProcess
  <2>1. (~ \E v \in Walks : InTail(v)) /\ (\E v \in Walks : InTail(v))'
    BY <1>8, <1>9 DEF SingleProcess
  <2>2. Settled = Total("successes") - 0
    BY <2>1 DEF Settled
  <2>3. Settled' = Total("successes")' - 1
    BY <2>1 DEF Settled
  <2> QED BY <1>4, <2>2, <2>3, Totals DEF Inv
<1> QED BY <1>5, <1>6, <1>10, <1>14, <1>15, <1>16 DEF Inv

\* The success enters the history of its version.
LEMMA RecordHistoryInv == ASSUME Inv, NEW w \in Walks, RecordHistory(w) PROVE Inv'
<1> DEFINE t == [walk[w] EXCEPT !.pc = "cadence"]
<1>1. walk[w] \in Walk /\ walk[w].pc = "history" /\ walk[w].left # <<>>
      /\ walk[w].left \in Seq(DOMAIN rows)
  BY DEF Inv, Sound, RecordHistory, At
<1>2. Rung(w) \in DOMAIN rows /\ Rung(w) \in 1..MaxVersion
  BY <1>1, RungSound DEF Inv, TypeOK
<1>3. Sound(t, DOMAIN rows) /\ t.pc = "cadence" /\ t.left = walk[w].left
  BY <1>1 DEF Sound, Walk
<1>4. UNCHANGED <<rows, snapshots, crashes>>
  BY DEF RecordHistory
<1>5. /\ walk' \in [Walks -> Walk] /\ walk'[w] = t
      /\ \A v \in Walks : Sound(walk'[v], DOMAIN rows')
      /\ \A v \in Walks \ {w} : walk'[v] = walk[v]
  <2>1. walk' = [walk EXCEPT ![w] = t]
    BY DEF RecordHistory
  <2> HIDE DEF t
  <2> QED BY <1>3, <1>4, <2>1, Moved
<1>6. history' = [history EXCEPT ![Rung(w)] = @ + 1] /\ history \in [1..MaxVersion -> Nat]
  BY DEF RecordHistory, Inv, TypeOK
<1>7. TypeOK'
  BY <1>2, <1>4, <1>5, <1>6 DEF Inv, TypeOK
<1> HIDE DEF t
<1>8. /\ InTail(w) /\ At(w, "history") /\ ~At(w, "history")'
      /\ \A v \in Walks \ {w} : At(v, "history")' <=> At(v, "history")
      /\ \A v \in Walks : (InTail(v)' <=> InTail(v)) /\ Rung(v)' = Rung(v)
  BY <1>1, <1>3, <1>5 DEF InTail, At, Rung
<1>9. OneTail'
  BY <1>8 DEF Inv, OneTail
<1>10. /\ Recording' = Recording \ {w} /\ w \in Recording
       /\ \A n : n = Rung(w) =>
            RecordingFor(n)' = RecordingFor(n) \ {w} /\ w \in RecordingFor(n)
       /\ \A n : n # Rung(w) => RecordingFor(n)' = RecordingFor(n)
  BY <1>8 DEF Recording, RecordingFor
<1>11. /\ Cardinality(Recording') = Cardinality(Recording) - 1
       /\ \A n : n = Rung(w) =>
            Cardinality(RecordingFor(n)') = Cardinality(RecordingFor(n)) - 1
  <2>1. Cardinality(Recording') = Cardinality(Recording) - 1
    BY <1>10, RecordingFinite, FS_RemoveElement
  <2>2. ASSUME NEW n, n = Rung(w)
        PROVE  Cardinality(RecordingFor(n)') = Cardinality(RecordingFor(n)) - 1
    <3>1. IsFiniteSet(RecordingFor(n))
      BY RecordingFinite
    <3>2. /\ RecordingFor(n)' = RecordingFor(n) \ {w}
          /\ w \in RecordingFor(n)
      BY <1>10, <2>2
    <3> QED BY <3>1, <3>2, FS_RemoveElement
  <2> QED BY <2>1, <2>2
<1>12. Books'
  <2>1. ASSUME NEW n \in DOMAIN rows
        PROVE  history'[n] + Cardinality(RecordingFor(n)') <= rows[n].successes
    <3>1. /\ history[n] \in Nat /\ Cardinality(RecordingFor(n)) \in Nat
          /\ rows[n].successes \in Nat /\ n \in 1..MaxVersion
          /\ history[n] + Cardinality(RecordingFor(n)) <= rows[n].successes
      BY RecordingFinite DEF Inv, TypeOK, Books
    <3>2. CASE n = Rung(w)
      BY <1>6, <1>11, <3>1, <3>2
    <3>3. CASE n # Rung(w)
      BY <1>6, <1>10, <3>1, <3>3
    <3> QED BY <3>2, <3>3
  <2>2. \A n \in (1..MaxVersion) \ DOMAIN rows : history'[n] = 0
    BY <1>2, <1>6 DEF Inv, Books
  <2> QED BY <1>4, <2>1, <2>2 DEF Inv, Books
<1>13. Balance'
  <2> DEFINE H == [n \in DOMAIN rows |-> history[n]]
  <2>1. [n \in DOMAIN rows' |-> history'[n]] = [H EXCEPT ![Rung(w)] = @ + 1]
    BY <1>2, <1>4, <1>6 DEF Inv, TypeOK
  <2>2. Recorded' = Recorded + 1
    <3>1. IsFiniteSet(DOMAIN rows) /\ H \in [DOMAIN rows -> Nat]
      BY Totals DEF Inv
    <3>2. Recorded = SumOf(H) /\ Recorded' = SumOf([n \in DOMAIN rows' |-> history'[n]])
      BY DEF Recorded, SumOf, Marks
    <3> HIDE DEF H
    <3> QED BY <1>2, <2>1, <3>1, <3>2, SumRaised
  <2>3. Total("successes")' = Total("successes")
    BY <1>4 DEF Total, Counts
  <2> QED BY <1>4, <1>11, <2>2, <2>3, Totals, RecordingFinite DEF Inv, Balance
<1>14. Cadence'
  <2>1. Settled' = Settled
    BY <1>4, <1>8 DEF Settled, Total, Counts
  <2> QED BY <1>4, <2>1 DEF Inv, Cadence, SingleProcess
<1> QED BY <1>5, <1>7, <1>9, <1>12, <1>13, <1>14 DEF Inv

\* The bookkeeping of a success is over: its snapshot is taken if it is due.
LEMMA ServeInv == ASSUME Inv, NEW w \in Walks, Serve(w) PROVE Inv'
<1> DEFINE t == [walk[w] EXCEPT !.pc = "idle", !.result = "served"]
<1>1. walk[w] \in Walk /\ walk[w].pc = "cadence" /\ walk[w].left \in Seq(DOMAIN rows)
  BY DEF Inv, Sound, Serve, At
<1>2. Sound(t, DOMAIN rows) /\ t.pc = "idle"
  BY <1>1 DEF Sound, Walk
<1>3. UNCHANGED <<rows, history, crashes>>
  BY DEF Serve
<1>4. /\ walk' \in [Walks -> Walk] /\ walk'[w] = t
      /\ \A v \in Walks : Sound(walk'[v], DOMAIN rows')
      /\ \A v \in Walks \ {w} : walk'[v] = walk[v]
  <2>1. walk' = [walk EXCEPT ![w] = t]
    BY DEF Serve
  <2> HIDE DEF t
  <2> QED BY <1>2, <1>3, <2>1, Moved
<1> HIDE DEF t
<1>5. /\ InTail(w) /\ ~InTail(w)' /\ ~At(w, "history") /\ ~At(w, "history")'
      /\ \A v \in Walks \ {w} :
           /\ InTail(v)' <=> InTail(v)
           /\ At(v, "history")' <=> At(v, "history")
           /\ Rung(v)' = Rung(v)
  BY <1>1, <1>2, <1>4 DEF InTail, At, Rung
<1>6. TypeOK'
  BY <1>3, <1>4 DEF Inv, TypeOK, Serve
<1>7. OneTail'
  BY <1>5 DEF Inv, OneTail
<1>8. Recording' = Recording /\ \A n : RecordingFor(n)' = RecordingFor(n)
  BY <1>5 DEF Recording, RecordingFor
<1>9. Total("successes")' = Total("successes")
  BY <1>3 DEF Total, Counts
<1>10. Books' /\ Balance'
  BY <1>3, <1>8, <1>9 DEF Inv, Books, Balance, Recorded
<1>11. Cadence'
  <2> SUFFICES ASSUME SingleProcess
               PROVE  /\ Settled' \in Nat
                      /\ snapshots' <= Settled' \div SnapshotEvery
                      /\ Settled' \div SnapshotEvery <= snapshots' + crashes
    BY <1>3 DEF Cadence, SingleProcess
  <2>1. (\E v \in Walks : InTail(v)) /\ (~ \E v \in Walks : InTail(v))'
    BY <1>5 DEF SingleProcess, Inv, OneTail
  <2>2. Settled = Total("successes") - 1
    BY <2>1 DEF Settled
  <2>3. Settled' = Total("successes")' - 0
    BY <2>1 DEF Settled
  <2>4. /\ Settled \in Nat /\ snapshots \in Nat /\ crashes \in Nat
        /\ Total("successes") \in Nat
        /\ snapshots <= Settled \div SnapshotEvery
        /\ Settled \div SnapshotEvery <= snapshots + crashes
    BY Totals DEF Inv, Cadence
  <2>5. Settled' = Settled + 1 /\ Total("successes") = Settled + 1
    BY <1>9, <2>2, <2>3, <2>4
  <2>6. snapshots' = snapshots + (IF (Settled + 1) % SnapshotEvery = 0 THEN 1 ELSE 0)
    BY <2>5 DEF Serve, CadenceHit
  <2>7. /\ Settled \div SnapshotEvery \in Nat
        /\ (Settled + 1) \div SnapshotEvery
             = Settled \div SnapshotEvery
                 + (IF (Settled + 1) % SnapshotEvery = 0 THEN 1 ELSE 0)
    BY <2>4, NextMultiple, ExecutorAssumption
  <2> DEFINE q == Settled \div SnapshotEvery
             hit == IF (Settled + 1) % SnapshotEvery = 0 THEN 1 ELSE 0
  <2>8. /\ q \in Nat /\ hit \in {0, 1} /\ Settled' \div SnapshotEvery = q + hit
        /\ snapshots' = snapshots + hit /\ snapshots <= q /\ q <= snapshots + crashes
    BY <2>4, <2>5, <2>6, <2>7
  <2> HIDE DEF q, hit
  <2> QED BY <2>4, <2>5, <2>8
<1> QED BY <1>4, <1>6, <1>7, <1>10, <1>11 DEF Inv

-----------------------------------------------------------------------------
(* What else happens to the family.                                        *)

\* Versions come and change their status: what has been counted stays, and a
\* new version has counted nothing.
LEMMA LadderInv ==
  ASSUME Inv, UNCHANGED <<walk, history, snapshots, crashes>>,
         DOMAIN rows \subseteq DOMAIN rows', DOMAIN rows' \subseteq 1..MaxVersion,
         \A n \in DOMAIN rows' :
           /\ rows'[n] \in [status : Statuses, runs : Nat, successes : Nat]
           /\ n \in DOMAIN rows => /\ rows'[n].runs = rows[n].runs
                                   /\ rows'[n].successes = rows[n].successes
           /\ n \notin DOMAIN rows => rows'[n].runs = 0 /\ rows'[n].successes = 0
  PROVE  Inv'
<1>1. TypeOK'
  BY DEF Inv, TypeOK
<1>2. \A w \in Walks : Sound(walk[w], DOMAIN rows')
  <2> SUFFICES ASSUME NEW w \in Walks PROVE walk[w].left \in Seq(DOMAIN rows')
    BY DEF Inv, Sound
  <2>1. walk[w].left \in Seq(DOMAIN rows)
    BY DEF Inv, Sound
  <2> QED BY <2>1, SeqMonotonic
<1>3. \A w \in Walks : (At(w, "history")' <=> At(w, "history")) /\ Rung(w)' = Rung(w)
                       /\ (InTail(w)' <=> InTail(w))
  BY DEF At, Rung, InTail
<1>4. OneTail'
  BY <1>3 DEF Inv, OneTail
<1>5. Recording' = Recording /\ \A n : RecordingFor(n)' = RecordingFor(n)
  BY <1>3 DEF Recording, RecordingFor
<1>6. Books'
  <2>1. ASSUME NEW n \in DOMAIN rows' \ DOMAIN rows
        PROVE  history[n] + Cardinality(RecordingFor(n)) <= 0
    <3>1. \A w \in Recording : Rung(w) \in DOMAIN rows
      <4> TAKE w \in Recording
      <4>1. w \in Walks /\ walk[w].left # <<>>
        BY DEF Recording, At, Inv, Sound
      <4> QED BY <4>1, RungSound
    <3>2. RecordingFor(n) = {}
      BY <3>1 DEF RecordingFor
    <3>3. history[n] = 0 /\ Cardinality(RecordingFor(n)) = 0
      BY <3>2, FS_EmptySet DEF Inv, Books
    <3> QED BY <3>3
  <2> QED BY <1>5, <2>1 DEF Inv, Books
<1>7. Total("successes")' = Total("successes")
  <2> DEFINE F == [n \in DOMAIN rows |-> rows[n].successes]
             G == [n \in DOMAIN rows' |-> rows'[n].successes]
  <2>1. /\ F \in [DOMAIN rows -> Nat] /\ G \in [DOMAIN rows' -> Nat]
        /\ \A n \in DOMAIN rows : G[n] = F[n]
        /\ \A n \in DOMAIN rows' \ DOMAIN rows : G[n] = 0
    BY DEF Inv, TypeOK
  <2>2. Total("successes") = SumOf(F) /\ Total("successes")' = SumOf(G)
    BY DEF Total, Counts, SumOf, Marks
  <2> HIDE DEF F, G
  <2>3. DOMAIN rows \subseteq DOMAIN rows'
    OBVIOUS
  <2>4. SumOf(G) = SumOf(F)
    BY ONLY <2>1, <2>3, SumExtended
  <2> QED BY <2>2, <2>4
<1>8. Recorded' = Recorded
  <2> DEFINE H == [n \in DOMAIN rows |-> history[n]]
             G == [n \in DOMAIN rows' |-> history[n]]
  <2>1. /\ H \in [DOMAIN rows -> Nat] /\ G \in [DOMAIN rows' -> Nat]
        /\ \A n \in DOMAIN rows : G[n] = H[n]
        /\ \A n \in DOMAIN rows' \ DOMAIN rows : G[n] = 0
    BY DEF Inv, TypeOK, Books
  <2>2. Recorded = SumOf(H) /\ Recorded' = SumOf(G)
    BY DEF Recorded, SumOf, Marks
  <2> HIDE DEF H, G
  <2> QED BY <2>1, <2>2, SumExtended
<1>9. Balance'
  BY <1>5, <1>7, <1>8 DEF Inv, Balance
<1>10. Cadence'
  <2>1. Settled' = Settled
    BY <1>3, <1>7 DEF Settled
  <2> QED BY <2>1 DEF Inv, Cadence, SingleProcess
<1> QED BY <1>1, <1>2, <1>4, <1>6, <1>9, <1>10 DEF Inv

\* A change of statuses leaves the counters of every row.
LEMMA Restated ==
  ASSUME NEW r, NEW S, NEW status \in Statuses,
         \A n \in DOMAIN r : r[n] \in [status : Statuses, runs : Nat, successes : Nat]
  PROVE  /\ DOMAIN Restatus(r, S, status) = DOMAIN r
         /\ \A n \in DOMAIN r :
              /\ Restatus(r, S, status)[n]
                   \in [status : Statuses, runs : Nat, successes : Nat]
              /\ Restatus(r, S, status)[n].runs = r[n].runs
              /\ Restatus(r, S, status)[n].successes = r[n].successes
  BY DEF Restatus

LEMMA PromoteInv == ASSUME Inv, Promote PROVE Inv'
<1> DEFINE n == NextVersion(rows)
           r == Inserted(rows, n, NewRow)
           mid == Restatus(r, WithStatus(r, "active"), "fallback")
<1>1. /\ MaxVersion \in Nat /\ DOMAIN rows \subseteq 0..MaxVersion
      /\ DOMAIN rows \subseteq 1..MaxVersion
  BY ExecutorAssumption DEF Inv, TypeOK
<1>2. n \in 1..(MaxVersion + 1) /\ n \notin DOMAIN rows
  BY <1>1, FreshVersion
<1>3. n \in 1..MaxVersion
  BY <1>1, <1>2 DEF Promote
<1>4. /\ UNCHANGED <<walk, history, snapshots, crashes>>
      /\ rows' = Restatus(mid, {n}, "active")
  BY DEF Promote, Activate
<1> HIDE DEF n
<1>5. /\ DOMAIN r = DOMAIN rows \cup {n} /\ r[n] = NewRow
      /\ \A m \in DOMAIN rows : r[m] = rows[m]
  BY <1>2 DEF Inserted
<1>6. /\ NewRow \in [status : Statuses, runs : Nat, successes : Nat]
      /\ NewRow.runs = 0 /\ NewRow.successes = 0
  BY DEF NewRow, Statuses
<1>7. \A m \in DOMAIN r : r[m] \in [status : Statuses, runs : Nat, successes : Nat]
  BY <1>5, <1>6 DEF Inv, TypeOK
<1> HIDE DEF r
<1>8. "active" \in Statuses /\ "fallback" \in Statuses
  BY DEF Statuses
<1>9. /\ DOMAIN mid = DOMAIN r
      /\ \A m \in DOMAIN r :
           /\ mid[m] \in [status : Statuses, runs : Nat, successes : Nat]
           /\ mid[m].runs = r[m].runs /\ mid[m].successes = r[m].successes
  BY <1>7, <1>8, Restated
<1> HIDE DEF mid
<1>10. /\ DOMAIN rows' = DOMAIN mid
       /\ \A m \in DOMAIN mid :
            /\ rows'[m] \in [status : Statuses, runs : Nat, successes : Nat]
            /\ rows'[m].runs = mid[m].runs /\ rows'[m].successes = mid[m].successes
  BY <1>4, <1>8, <1>9, Restated
<1>11. /\ DOMAIN rows' = DOMAIN rows \cup {n}
       /\ \A m \in DOMAIN rows' :
            /\ rows'[m] \in [status : Statuses, runs : Nat, successes : Nat]
            /\ m \in DOMAIN rows => /\ rows'[m].runs = rows[m].runs
                                    /\ rows'[m].successes = rows[m].successes
            /\ m \notin DOMAIN rows => rows'[m].runs = 0 /\ rows'[m].successes = 0
  BY <1>2, <1>5, <1>6, <1>9, <1>10
<1> QED BY <1>1, <1>3, <1>4, <1>11, LadderInv

LEMMA RollbackInv == ASSUME Inv, Rollback PROVE Inv'
<1> DEFINE mid == Restatus(rows, WithStatus(rows, "active"), "archived")
<1>1. /\ UNCHANGED <<walk, history, snapshots, crashes>>
      /\ rows' = Restatus(mid, {RollbackTarget(rows)}, "active")
  BY DEF Rollback, RolledBack
<1>2. \A m \in DOMAIN rows : rows[m] \in [status : Statuses, runs : Nat, successes : Nat]
  BY DEF Inv, TypeOK
<1>3. "active" \in Statuses /\ "archived" \in Statuses
  BY DEF Statuses
<1>4. /\ DOMAIN mid = DOMAIN rows
      /\ \A m \in DOMAIN rows :
           /\ mid[m] \in [status : Statuses, runs : Nat, successes : Nat]
           /\ mid[m].runs = rows[m].runs /\ mid[m].successes = rows[m].successes
  BY <1>2, <1>3, Restated
<1> HIDE DEF mid
<1>5. /\ DOMAIN rows' = DOMAIN mid
      /\ \A m \in DOMAIN mid :
           /\ rows'[m] \in [status : Statuses, runs : Nat, successes : Nat]
           /\ rows'[m].runs = mid[m].runs /\ rows'[m].successes = mid[m].successes
  BY <1>1, <1>3, <1>4, Restated
<1>6. DOMAIN rows \subseteq 1..MaxVersion
  BY DEF Inv, TypeOK
<1> QED BY <1>1, <1>4, <1>5, <1>6, LadderInv

\* A process dies with its walks: one of them at most had counted a success it has
\* not recorded, or not yet measured against the cadence.
LEMMA CrashInv == ASSUME Inv, Crash PROVE Inv'
<1>1. UNCHANGED <<rows, history, snapshots>> /\ crashes' = crashes + 1
      /\ crashes < MaxCrashes
  BY DEF Crash
<1>2. PICK p \in {Process[w] : w \in Walks} :
        walk' = [w \in Walks |-> IF Process[w] = p THEN NewWalk ELSE walk[w]]
  BY DEF Crash
<1>3. NewWalk \in Walk /\ NewWalk.left = <<>> /\ NewWalk.pc = "idle"
  <2>1. 0 \in 0..MaxPages
    BY ExecutorAssumption
  <2> QED BY <2>1 DEF NewWalk, Walk
<1>4. Sound(NewWalk, DOMAIN rows)
  <2>1. <<>> \in Seq(DOMAIN rows)
    OBVIOUS
  <2> QED BY <1>3, <2>1 DEF Sound
<1>5. \A w \in Walks : walk'[w] = IF Process[w] = p THEN NewWalk ELSE walk[w]
  BY <1>2
<1>6. \A w \in Walks : Sound(walk'[w], DOMAIN rows')
  BY <1>1, <1>4, <1>5 DEF Inv
<1>7. TypeOK'
  <2>1. walk' \in [Walks -> Walk]
    BY <1>2, <1>3 DEF Inv, TypeOK
  <2>2. crashes' \in 0..MaxCrashes
    BY <1>1, ExecutorAssumption DEF Inv, TypeOK
  <2> QED BY <1>1, <2>1, <2>2 DEF Inv, TypeOK
<1>8. \A w \in Walks :
        /\ Process[w] = p => ~InTail(w)' /\ ~At(w, "history")'
        /\ Process[w] # p =>
             /\ InTail(w)' <=> InTail(w)
             /\ At(w, "history")' <=> At(w, "history")
             /\ Rung(w)' = Rung(w)
  BY <1>3, <1>5 DEF InTail, At, Rung
<1>9. OneTail'
  BY <1>8 DEF Inv, OneTail
<1>10. Recording' \subseteq Recording /\ \A n : RecordingFor(n)' \subseteq RecordingFor(n)
  BY <1>8 DEF Recording, RecordingFor
<1>11. Recording' \in SUBSET Recording /\ Cardinality(Recording') \in Nat
       /\ Cardinality(Recording) \in Nat
  BY <1>10, RecordingFinite, FS_Subset, FS_CardinalityType
<1>12. Cardinality(Recording) <= Cardinality(Recording') + 1
  <2>1. CASE \E w \in Recording : Process[w] = p
    <3>1. PICK w \in Recording : Process[w] = p
      BY <2>1
    <3>2. \A v \in Recording \ {w} : v \in Recording'
      <4> TAKE v \in Recording \ {w}
      <4>1. v \in Walks /\ w \in Walks /\ InTail(v) /\ InTail(w)
        BY DEF Recording, At, InTail
      <4>2. Process[v] # p
        BY <3>1, <4>1 DEF Inv, OneTail
      <4> QED BY <1>8, <4>1, <4>2 DEF Recording
    <3>3. Recording \ {w} \in SUBSET Recording' /\ IsFiniteSet(Recording')
      BY <1>11, <3>2, RecordingFinite, FS_Subset
    <3>4. Cardinality(Recording \ {w}) <= Cardinality(Recording')
      BY <3>3, FS_Subset
    <3>5. Cardinality(Recording \ {w}) = Cardinality(Recording) - 1
      BY RecordingFinite, FS_RemoveElement
    <3> QED BY <1>11, <3>4, <3>5
  <2>2. CASE \A w \in Recording : Process[w] # p
    <3>1. Recording' = Recording
      BY <1>8, <1>10, <2>2 DEF Recording
    <3> QED BY <1>11, <3>1
  <2> QED BY <2>1, <2>2
<1>13. Books'
  <2>1. ASSUME NEW n \in DOMAIN rows
        PROVE  history[n] + Cardinality(RecordingFor(n)') <= rows[n].successes
    <3>1. /\ history[n] \in Nat /\ Cardinality(RecordingFor(n)) \in Nat
          /\ IsFiniteSet(RecordingFor(n)) /\ rows[n].successes \in Nat
          /\ history[n] + Cardinality(RecordingFor(n)) <= rows[n].successes
      BY RecordingFinite DEF Inv, TypeOK, Books
    <3>2. RecordingFor(n)' \in SUBSET RecordingFor(n)
      BY <1>10
    <3>3. Cardinality(RecordingFor(n)') \in Nat
          /\ Cardinality(RecordingFor(n)') <= Cardinality(RecordingFor(n))
      BY <3>1, <3>2, FS_Subset, FS_CardinalityType
    <3> QED BY <3>1, <3>3
  <2> QED BY <1>1, <2>1 DEF Inv, Books
<1>14. Total("successes")' = Total("successes") /\ Recorded' = Recorded
  BY <1>1 DEF Total, Counts, Recorded
<1>15. Balance'
  BY <1>1, <1>11, <1>12, <1>14, Totals DEF Inv, Balance
<1>16. Cadence'
  <2> SUFFICES ASSUME SingleProcess
               PROVE  /\ Settled' \in Nat
                      /\ snapshots <= Settled' \div SnapshotEvery
                      /\ Settled' \div SnapshotEvery <= snapshots + (crashes + 1)
    BY <1>1 DEF Cadence, SingleProcess
  <2>1. ~(\E w \in Walks : InTail(w))'
    BY <1>2, <1>8 DEF SingleProcess
  <2>2. Settled' = Total("successes") - 0
    BY <1>14, <2>1 DEF Settled
  <2>3. /\ Settled \in Nat /\ snapshots \in Nat /\ crashes \in Nat
        /\ Total("successes") \in Nat
        /\ snapshots <= Settled \div SnapshotEvery
        /\ Settled \div SnapshotEvery <= snapshots + crashes
    BY Totals DEF Inv, Cadence
  <2>4. Settled' \in {Settled, Settled + 1}
    <3>1. (IF \E w \in Walks : InTail(w) THEN 1 ELSE 0) \in {0, 1}
      OBVIOUS
    <3> DEFINE d == IF \E w \in Walks : InTail(w) THEN 1 ELSE 0
    <3>2. d \in {0, 1} /\ Settled = Total("successes") - d
      BY <3>1 DEF Settled
    <3> HIDE DEF d
    <3> QED BY <2>2, <2>3, <3>2
  <2>5. /\ Settled \div SnapshotEvery \in Nat
        /\ (Settled + 1) \div SnapshotEvery
             \in {Settled \div SnapshotEvery, Settled \div SnapshotEvery + 1}
    <3> DEFINE e == SnapshotEvery
               hit == IF (Settled + 1) % e = 0 THEN 1 ELSE 0
    <3>1. Settled \div e \in Nat /\ (Settled + 1) \div e = Settled \div e + hit
      BY <2>3, NextMultiple, ExecutorAssumption
    <3>2. hit \in {0, 1}
      OBVIOUS
    <3> HIDE DEF hit
    <3> QED BY <3>1, <3>2
  <2>6. Settled' \div SnapshotEvery
          \in {Settled \div SnapshotEvery, Settled \div SnapshotEvery + 1}
    BY <2>4, <2>5
  <2> DEFINE q == Settled \div SnapshotEvery
             r == Settled' \div SnapshotEvery
  <2>7. q \in Nat /\ r \in {q, q + 1} /\ snapshots <= q /\ q <= snapshots + crashes
    BY <2>3, <2>5, <2>6
  <2> HIDE DEF q, r
  <2>8. snapshots <= r /\ r <= snapshots + (crashes + 1)
    BY <2>3, <2>7
  <2> QED BY <2>3, <2>4, <2>8 DEF r
<1> QED BY <1>6, <1>7, <1>9, <1>13, <1>15, <1>16 DEF Inv

-----------------------------------------------------------------------------
LEMMA NextInv == ASSUME Inv, [Next]_vars PROVE Inv'
<1>1. ASSUME NEW w \in Walks, Start(w) PROVE Inv'
  <2> DEFINE t == [NewWalk EXCEPT !.pc = "rung", !.left = LadderOf(rows)]
  <2>1. LadderOf(rows) \in Seq(DOMAIN rows) /\ LadderOf(rows) \in Seq(1..MaxVersion)
    BY LadderSound DEF Inv
  <2>2. 0 \in 0..MaxPages
    BY ExecutorAssumption
  <2>3. Sound(t, DOMAIN rows) /\ t.pc = "rung"
    BY <2>1, <2>2 DEF Sound, NewWalk, Walk
  <2>4. walk' = [walk EXCEPT ![w] = t] /\ UNCHANGED <<rows, history, snapshots, crashes>>
        /\ ~InTail(w)
    BY <1>1 DEF Start, At, InTail
  <2> HIDE DEF t
  <2> QED BY <2>3, <2>4, QuietInv
<1>2. ASSUME NEW w \in Walks, Load(w) PROVE Inv'
  <2> DEFINE t == [walk[w] EXCEPT !.pc = "crawl", !.pages = 0]
  <2>1. walk[w] \in Walk /\ walk[w].left \in Seq(DOMAIN rows) /\ walk[w].left # <<>>
    BY <1>2 DEF Inv, Sound, Load
  <2>2. 0 \in 0..MaxPages /\ 0 < MaxPages
    BY ExecutorAssumption
  <2>3. Sound(t, DOMAIN rows) /\ t.pc = "crawl"
    BY <2>1, <2>2 DEF Sound, Walk
  <2>4. walk' = [walk EXCEPT ![w] = t] /\ UNCHANGED <<rows, history, snapshots, crashes>>
        /\ ~InTail(w)
    BY <1>2 DEF Load, At, InTail
  <2> HIDE DEF t
  <2> QED BY <2>3, <2>4, QuietInv
<1>3. ASSUME NEW w \in Walks, Exhausted(w) \/ Raises(w) PROVE Inv'
  <2> DEFINE t(r) == [walk[w] EXCEPT !.pc = "idle", !.result = r]
  <2>1. PICK r \in {"exhausted", "raised"} : walk' = [walk EXCEPT ![w] = t(r)]
    BY <1>3 DEF Exhausted, Raises
  <2>2. walk[w] \in Walk /\ walk[w].left \in Seq(DOMAIN rows)
    BY DEF Inv, Sound
  <2>3. Sound(t(r), DOMAIN rows) /\ t(r).pc = "idle"
    BY <2>2 DEF Sound, Walk
  <2>4. UNCHANGED <<rows, history, snapshots, crashes>> /\ ~InTail(w)
    BY <1>3 DEF Exhausted, Raises, At, InTail
  <2> HIDE DEF t
  <2> QED BY <2>1, <2>3, <2>4, QuietInv
<1>4. ASSUME NEW w \in Walks, Page(w) PROVE Inv'
  <2> DEFINE t == [walk[w] EXCEPT !.pages = @ + 1]
  <2>1. walk[w] \in Walk /\ walk[w].left \in Seq(DOMAIN rows) /\ walk[w].left # <<>>
        /\ walk[w].pc = "crawl"
    BY <1>4 DEF Inv, Sound, Page, At
  <2>2. walk[w].pages + 1 \in 0..MaxPages /\ walk[w].pages + 1 < MaxPages
    BY <1>4, <2>1, ExecutorAssumption DEF Page, MorePages, Walk
  <2>3. Sound(t, DOMAIN rows) /\ t.pc = "crawl"
    BY <2>1, <2>2 DEF Sound, Walk
  <2>4. walk' = [walk EXCEPT ![w] = t] /\ UNCHANGED <<rows, history, snapshots, crashes>>
        /\ ~InTail(w)
    BY <1>4 DEF Page, At, InTail
  <2> HIDE DEF t
  <2> QED BY <2>3, <2>4, QuietInv
<1>5. CASE UNCHANGED vars
  BY <1>5 DEF vars, Inv, TypeOK, OneTail, InTail, Books, Balance, Cadence, SingleProcess,
     Settled, Total, Counts, Recorded, Recording, RecordingFor, At, Rung
<1> QED
  BY <1>1, <1>2, <1>3, <1>4, <1>5, ValidatesInv, FailsInv, RecordHistoryInv, ServeInv,
     PromoteInv, RollbackInv, CrashInv DEF Next, WalkStep

THEOREM Invariance == Spec => []Inv
<1> QED BY InitInv, NextInv, PTL DEF Spec

-----------------------------------------------------------------------------
\* Every row, every walk and every count has its type (executor.py, registry.py).
THEOREM ExecutorTypeCorrect == Spec => []TypeOK
<1>1. Inv => TypeOK
  BY DEF Inv
<1> QED BY <1>1, Invariance, PTL

\* Whatever walks interleave, whatever is promoted or rolled back meanwhile and
\* whichever process dies, a version's history never runs ahead of its counters,
\* and the successes missing from it are those of walks that are about to record
\* them and at most one for every crash (record_run, record_history).
THEOREM CountersAndHistory == Spec => []HistoryFollowsCounters
<1>1. Inv => HistoryFollowsCounters
  <2> SUFFICES ASSUME Inv PROVE HistoryFollowsCounters
    OBVIOUS
  <2>1. ASSUME NEW n \in DOMAIN rows
        PROVE  history[n] <= rows[n].successes /\ rows[n].successes <= rows[n].runs
    <3>1. /\ history[n] \in Nat /\ Cardinality(RecordingFor(n)) \in Nat
          /\ rows[n].successes \in Nat
          /\ history[n] + Cardinality(RecordingFor(n)) <= rows[n].successes
          /\ rows[n].successes <= rows[n].runs
      BY RecordingFinite DEF Inv, TypeOK, Books
    <3> QED BY <3>1
  <2>2. Balance
    BY DEF Inv
  <2> QED BY <2>1, <2>2 DEF HistoryFollowsCounters, Balance, Recorded, Recording
<1> QED BY <1>1, Invariance, PTL

\* In one process, whose walks are all between two pieces of bookkeeping, there is
\* a snapshot for every SnapshotEvery successes, less one at most for every crash
\* (maybe_snapshot on the running total).
THEOREM CadenceKept == Spec => []SnapshotCadence
<1>1. Inv => SnapshotCadence
  <2> SUFFICES ASSUME Inv, \A v, w \in Walks : Process[v] = Process[w] /\ ~InTail(w)
               PROVE  LET due == Total("successes") \div SnapshotEvery
                      IN  snapshots \in (due - crashes)..due
    BY DEF SnapshotCadence
  <2>1. ~ \E w \in Walks : InTail(w)
    OBVIOUS
  <2>2. SingleProcess
    BY DEF SingleProcess
  <2>3. Total("successes") \in Nat /\ snapshots \in Nat /\ crashes \in Nat
    BY Totals DEF Inv
  <2>4. Settled = Total("successes") - 0
    BY <2>1 DEF Settled
  <2>5. Settled = Total("successes")
    BY <2>3, <2>4
  <2> DEFINE due == Total("successes") \div SnapshotEvery
  <2>6. due \in Nat
    BY <2>3, NextMultiple, ExecutorAssumption
  <2>7. snapshots <= due /\ due <= snapshots + crashes
    BY <2>2, <2>5 DEF Inv, Cadence
  <2> HIDE DEF due
  <2>8. snapshots \in (due - crashes)..due
    BY <2>3, <2>6, <2>7
  <2> QED BY <2>8 DEF due
<1> QED BY <1>1, Invariance, PTL

-----------------------------------------------------------------------------
(* How far a walk is from its end.                                         *)

LEMMA RemainingBy ==
  ASSUME NEW w \in Walks
  PROVE  /\ At(w, "idle") => Remaining(w) = 0
         /\ At(w, "cadence") => Remaining(w) = 1
         /\ At(w, "history") => Remaining(w) = 2
         /\ At(w, "rung") => Remaining(w) = 1 + Len(walk[w].left) * RungSteps
         /\ At(w, "crawl") => Remaining(w) = Len(walk[w].left) * RungSteps - walk[w].pages
  BY DEF Remaining, At

LEMMA RungsTimesSteps ==
  ASSUME NEW L \in Nat, NEW K \in Nat
  PROVE  /\ L * K \in Nat
         /\ L > 0 => L * K >= K /\ (L - 1) * K = L * K - K
<1>1. L * K \in Nat /\ (L > 0 => (L - 1) * K \in Nat)
  OBVIOUS
<1>2. L > 0 => (L - 1) * K = L * K - K
  OBVIOUS
<1> QED BY <1>1, <1>2

\* A walk that has not ended has a step to take, and a rung that is being crawled
\* more than its bookkeeping.
LEMMA RemainingPositive ==
  ASSUME Inv, NEW w \in Walks, ~At(w, "idle")
  PROVE  /\ Remaining(w) \in Nat \ {0}
         /\ At(w, "crawl") => Remaining(w) > 3
<1> DEFINE L == Len(walk[w].left)
<1>1. /\ walk[w] \in Walk /\ walk[w].left \in Seq(DOMAIN rows)
      /\ walk[w].pc = "crawl" => walk[w].left # <<>> /\ walk[w].pages < MaxPages
  BY DEF Inv, Sound
<1>2. MaxPages \in Nat /\ RungSteps = MaxPages + 3 /\ RungSteps \in Nat
  BY ExecutorAssumption DEF RungSteps
<1>3. L \in Nat /\ (walk[w].pc = "crawl" => L > 0)
  BY <1>1, EmptySeq, LenProperties
<1>4. L * RungSteps \in Nat /\ (L > 0 => L * RungSteps >= RungSteps)
  BY <1>2, <1>3, RungsTimesSteps
<1>5. walk[w].pc \in {"rung", "crawl", "history", "cadence"} /\ walk[w].pages \in 0..MaxPages
  BY <1>1 DEF Walk, At
<1> HIDE DEF L
<1>6. CASE At(w, "crawl")
  <2>1. Remaining(w) = L * RungSteps - walk[w].pages
    BY <1>6, RemainingBy DEF L
  <2>2. walk[w].pages \in Nat /\ walk[w].pages < MaxPages /\ L * RungSteps >= RungSteps
    BY <1>1, <1>2, <1>3, <1>4, <1>5, <1>6 DEF At
  <2> QED BY <1>2, <1>4, <2>1, <2>2
<1>7. CASE At(w, "rung")
  <2>1. Remaining(w) = 1 + L * RungSteps /\ ~At(w, "crawl")
    BY <1>7, RemainingBy DEF L, At
  <2> QED BY <1>4, <2>1
<1>8. CASE InTail(w)
  BY <1>8, RemainingBy DEF InTail, At
<1> QED BY <1>5, <1>6, <1>7, <1>8 DEF At, InTail

\* Only w's step changes w's walk, but for a crash, which ends it.
LEMMA WalkStepAdvances ==
  ASSUME Inv, NEW w \in Walks, Start(w) \/ WalkStep(w), ~At(w, "idle")
  PROVE  Remaining(w)' < Remaining(w)
<1> DEFINE L == Len(walk[w].left)
<1>1. /\ walk[w] \in Walk /\ walk[w].left \in Seq(DOMAIN rows)
      /\ walk[w].pc = "crawl" => walk[w].left # <<>> /\ walk[w].pages < MaxPages
  BY DEF Inv, Sound
<1>2. L \in Nat /\ (walk[w].left = <<>> => L = 0) /\ (walk[w].left # <<>> => L > 0)
  BY <1>1, EmptySeq, LenProperties
<1>3. MaxPages \in Nat /\ RungSteps = MaxPages + 3 /\ RungSteps \in Nat
  BY ExecutorAssumption DEF RungSteps
<1>4. /\ L * RungSteps \in Nat
      /\ L > 0 => L * RungSteps >= RungSteps
                  /\ (L - 1) * RungSteps = L * RungSteps - RungSteps
  BY <1>2, <1>3, RungsTimesSteps
<1>5. walk \in [Walks -> Walk] /\ walk[w].pages \in Nat
  BY <1>1, <1>3 DEF Inv, TypeOK, Walk
<1>6. Remaining(w) \in Nat \ {0} /\ (At(w, "crawl") => Remaining(w) > 3)
  BY RemainingPositive
<1>7. /\ At(w, "idle")' => Remaining(w)' = 0
      /\ At(w, "cadence")' => Remaining(w)' = 1
      /\ At(w, "history")' => Remaining(w)' = 2
      /\ At(w, "rung")' => Remaining(w)' = 1 + Len(walk'[w].left) * RungSteps
      /\ At(w, "crawl")' => Remaining(w)' = Len(walk'[w].left) * RungSteps - walk'[w].pages
  BY DEF Remaining, At
<1> HIDE DEF L
<1>8. CASE Load(w)
  <2>1. /\ At(w, "rung") /\ At(w, "crawl")' /\ walk'[w].left = walk[w].left
        /\ walk'[w].pages = 0
    BY <1>1, <1>5, <1>8 DEF Load, At, Walk
  <2>2. Remaining(w) = 1 + L * RungSteps /\ Remaining(w)' = L * RungSteps - 0
    BY <1>7, <2>1, RemainingBy DEF L
  <2> QED BY <1>4, <2>2
<1>9. CASE Exhausted(w) \/ Raises(w) \/ Serve(w)
  <2>1. At(w, "idle")'
    BY <1>1, <1>5, <1>9 DEF Exhausted, Raises, Serve, At, Walk
  <2> QED BY <1>6, <1>7, <2>1
<1>10. CASE Page(w)
  <2>1. /\ At(w, "crawl") /\ At(w, "crawl")' /\ walk'[w].left = walk[w].left
        /\ walk'[w].pages = walk[w].pages + 1
    BY <1>1, <1>5, <1>10 DEF Page, At, Walk
  <2>2. /\ Remaining(w) = L * RungSteps - walk[w].pages
        /\ Remaining(w)' = L * RungSteps - (walk[w].pages + 1)
    BY <1>7, <2>1, RemainingBy DEF L
  <2> QED BY <1>4, <1>5, <2>2
<1>11. CASE Validates(w)
  <2>1. At(w, "crawl") /\ At(w, "history")'
    BY <1>1, <1>5, <1>11 DEF Validates, At, Walk
  <2> QED BY <1>6, <1>7, <2>1
<1>12. CASE Fails(w)
  <2>1. /\ At(w, "crawl") /\ At(w, "rung")' /\ walk'[w].left = Tail(walk[w].left)
        /\ walk[w].left # <<>> /\ walk[w].pages < MaxPages
    BY <1>1, <1>5, <1>12 DEF Fails, At, Walk
  <2>2. Len(walk'[w].left) = L - 1
    BY <1>1, <2>1, HeadTailProperties DEF L
  <2>3. /\ Remaining(w) = L * RungSteps - walk[w].pages
        /\ Remaining(w)' = 1 + (L - 1) * RungSteps
    BY <1>7, <2>1, <2>2, RemainingBy DEF L
  <2>4. L > 0 /\ Remaining(w)' = 1 + (L * RungSteps - RungSteps)
    BY <1>2, <1>4, <2>1, <2>3
  <2> QED BY <1>3, <1>4, <1>5, <2>1, <2>3, <2>4
<1>13. CASE RecordHistory(w)
  <2>1. At(w, "history") /\ At(w, "cadence")'
    BY <1>1, <1>5, <1>13 DEF RecordHistory, At, Walk
  <2> QED BY <1>7, <2>1, RemainingBy
<1> QED
  BY <1>8, <1>9, <1>10, <1>11, <1>12, <1>13 DEF Start, WalkStep

\* Every step of a walk lowers the same measure, so no site that links on forever,
\* no failing version and no promotion meanwhile keeps run_family from its end: a
\* walk of L rungs ends within 1 + L * (MaxPages + 3) steps of its own.
THEOREM WalksAdvance == Spec => WalkAdvances
<1>1. ASSUME Inv, [Next]_vars, NEW w \in Walks, ~At(w, "idle"), walk'[w] # walk[w]
      PROVE  Remaining(w)' < Remaining(w)
  <2>1. CASE Start(w) \/ WalkStep(w)
    BY <1>1, <2>1, WalkStepAdvances
  <2>2. ASSUME NEW v \in Walks \ {w}, Start(v) \/ WalkStep(v) PROVE FALSE
    <3>1. \E t : walk' = [walk EXCEPT ![v] = t]
      BY <2>2, Zenon DEF Start, WalkStep, Load, Exhausted, Page, Validates, Fails, Raises,
         RecordHistory, Serve
    <3>2. walk'[w] = walk[w]
      BY <2>2, <3>1 DEF Inv, TypeOK
    <3> QED BY <1>1, <3>2
  <2>3. CASE Promote \/ Rollback \/ UNCHANGED vars
    BY <1>1, <2>3 DEF Promote, Rollback, vars
  <2>4. CASE Crash
    <3>1. walk'[w] = NewWalk
      BY <1>1, <2>4 DEF Crash
    <3>2. Remaining(w)' = 0
      BY <3>1 DEF Remaining, At, NewWalk
    <3> QED BY <1>1, <3>2, RemainingPositive
  <2> QED BY <1>1, <2>1, <2>2, <2>3, <2>4 DEF Next
<1>2. Inv /\ [Next]_vars =>
        [\A w \in Walks : ~At(w, "idle") /\ walk'[w] # walk[w]
                            => Remaining(w)' < Remaining(w)]_vars
  BY <1>1
<1> QED BY <1>2, Invariance, PTL DEF Spec, WalkAdvances
=============================================================================

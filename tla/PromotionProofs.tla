--------------------------- MODULE PromotionProofs ---------------------------
(***************************************************************************)
(* Theorems about the registry and about the promotions that use it, for   *)
(* any number of processes, any sources and any bound on version numbers.  *)
(*                                                                         *)
(* First the registry alone, whatever its methods are called for.  Then    *)
(* promote() implements it: every step of a promotion is one step of one   *)
(* registry method or leaves the registry alone, so what holds of every    *)
(* use of the registry holds of the promotions of the self-healing loop.   *)
(***************************************************************************)
EXTENDS Promotion, OrderingProofs

-----------------------------------------------------------------------------
(* The registry.                                                           *)

LEMMA NextVersionProperties ==
  ASSUME TypeOK
  PROVE  NextVersion(rows) \in Nat \ {0} /\ NextVersion(rows) \notin DOMAIN rows
<1>1. MaxVersion \in Nat /\ DOMAIN rows \subseteq 0..MaxVersion
  BY RegistryAssumption DEF TypeOK, Numbers
<1> QED BY <1>1, FreshVersion

LEMMA RollbackTargetProperties ==
  ASSUME TypeOK, WithStatus(rows, "fallback") # {}
  PROVE  RollbackTarget(rows) \in WithStatus(rows, "fallback")
<1> DEFINE S == WithStatus(rows, "fallback")
<1>1. MaxVersion \in Nat /\ S \in SUBSET (0..MaxVersion)
  BY RegistryAssumption DEF TypeOK, Numbers, WithStatus
<1> HIDE DEF S
<1>2. S # {}
  BY DEF S
<1>3. Max(S) \in S
  BY <1>1, <1>2, MaxProperties
<1> QED BY <1>3 DEF S, RollbackTarget

-----------------------------------------------------------------------------
(* The two transactions that promote a rung.                               *)

OneActive(r) ==
  \A m, n \in WithStatus(r, "active") : m = n

RowsOK(r) == DOMAIN r \subseteq Numbers /\ \A n \in DOMAIN r : r[n] \in Row

LEMMA RestatusProperties ==
  ASSUME NEW r, RowsOK(r), NEW S, NEW status \in Statuses
  PROVE  /\ RowsOK(Restatus(r, S, status))
         /\ DOMAIN Restatus(r, S, status) = DOMAIN r
         /\ \A n \in DOMAIN r :
              /\ Restatus(r, S, status)[n].sha = r[n].sha
              /\ n \in S => Restatus(r, S, status)[n].status = status
              /\ n \notin S => Restatus(r, S, status)[n] = r[n]
  BY DEF Restatus, RowsOK, Row

\* Both promote one rung and retire the active ones, under different statuses.
PromoteRung(r, target, retired) ==
  Restatus(Restatus(r, WithStatus(r, "active"), retired), {target}, "active")

LEMMA PromoteProperties ==
  ASSUME NEW r, RowsOK(r), NEW target \in DOMAIN r, NEW retired \in Statuses,
         retired # "active"
  PROVE  LET new == PromoteRung(r, target, retired)
         IN  /\ RowsOK(new) /\ DOMAIN new = DOMAIN r
             /\ WithStatus(new, "active") = {target}
             /\ \A n \in DOMAIN r : new[n].sha = r[n].sha
             /\ \A n \in DOMAIN r \ {target} :
                  new[n].status = IF r[n].status = "active" THEN retired ELSE r[n].status
<1> DEFINE new == PromoteRung(r, target, retired)
           old == WithStatus(r, "active")
           mid == Restatus(r, old, retired)
<1>1. "active" \in Statuses
  BY DEF Statuses
<1>2. /\ RowsOK(mid) /\ DOMAIN mid = DOMAIN r
      /\ \A n \in DOMAIN r :
           /\ mid[n].sha = r[n].sha
           /\ n \in old => mid[n].status = retired
           /\ n \notin old => mid[n] = r[n]
  <2> HIDE DEF old
  <2> QED BY RestatusProperties
<1>3. \A n \in DOMAIN r : mid[n].status # "active"
  <2> SUFFICES ASSUME NEW n \in DOMAIN r PROVE mid[n].status # "active"
    OBVIOUS
  <2>1. CASE n \in old
    BY <2>1, <1>2
  <2>2. CASE n \notin old
    BY <2>2, <1>2 DEF WithStatus
  <2> QED BY <2>1, <2>2
<1> HIDE DEF mid
<1>4. new = Restatus(mid, {target}, "active")
  BY DEF mid, PromoteRung
<1> HIDE DEF new
<1>5. /\ RowsOK(new) /\ DOMAIN new = DOMAIN mid
      /\ \A n \in DOMAIN mid :
           /\ new[n].sha = mid[n].sha
           /\ n \in {target} => new[n].status = "active"
           /\ n \notin {target} => new[n] = mid[n]
  BY <1>1, <1>2, <1>4, RestatusProperties
<1>6. WithStatus(new, "active") = {target}
  BY <1>2, <1>3, <1>5 DEF WithStatus
<1>7. \A n \in DOMAIN r \ {target} :
        new[n].status = IF r[n].status = "active" THEN retired ELSE r[n].status
  <2> SUFFICES ASSUME NEW n \in DOMAIN r \ {target}
               PROVE  new[n].status = IF r[n].status = "active" THEN retired ELSE r[n].status
    OBVIOUS
  <2>1. new[n] = mid[n] /\ (n \in old <=> r[n].status = "active")
    BY <1>2, <1>5 DEF WithStatus
  <2> HIDE DEF old
  <2> QED BY <1>2, <2>1
<1> QED BY <1>2, <1>5, <1>6, <1>7 DEF new

-----------------------------------------------------------------------------
(* The inductive invariant.  A process that holds a number or a target     *)
(* holds one that makes sense: rows never disappear, so a rollback target  *)
(* selected before the transaction is still a row inside it.               *)

LocalsOK ==
  \A p \in Procs :
    /\ pc[p] \in {"open", "fill", "insert"} => num[p] \in Numbers
    /\ pc[p] = "rollback" => num[p] \in DOMAIN rows

RInv == TypeOK /\ LocalsOK /\ OneActive(rows)

LEMMA InitRInv == Init => RInv
<1> SUFFICES ASSUME Init PROVE RInv
  OBVIOUS
<1>1. DOMAIN rows = {}
  BY DEF Init
<1>2. TypeOK
  BY <1>1, RegistryAssumption DEF Init, TypeOK, Numbers
<1>3. LocalsOK
  BY DEF Init, LocalsOK
<1>4. OneActive(rows)
  BY <1>1 DEF OneActive, WithStatus
<1> QED BY <1>2, <1>3, <1>4 DEF RInv

LEMMA StepRInv ==
  ASSUME RInv, NEW p \in Procs, NEW from, NEW to, Step(p, from, to),
         to \in {"idle", "lookup", "minimal", "number"},
         UNCHANGED <<rows, num>>, TypeOK'
  PROVE  RInv'
<1>1. LocalsOK'
  <2> SUFFICES ASSUME NEW q \in Procs
               PROVE  /\ pc'[q] \in {"open", "fill", "insert"} => num[q] \in Numbers
                      /\ pc'[q] = "rollback" => num[q] \in DOMAIN rows
    BY DEF LocalsOK
  <2>1. pc'[q] = IF q = p THEN to ELSE pc[q]
    BY DEF Step, RInv, TypeOK
  <2> QED BY <2>1 DEF RInv, LocalsOK
<1> QED BY <1>1 DEF RInv, OneActive

\* A promotion that leaves the process idle keeps the invariant.
LEMMA PromotionRInv ==
  ASSUME RInv, NEW p \in Procs, NEW target \in DOMAIN rows,
         NEW retired \in Statuses, retired # "active",
         rows' = PromoteRung(rows, target, retired),
         pc' = pc \/ pc' = [pc EXCEPT ![p] = "idle"],
         UNCHANGED <<files, family, src, num>>
  PROVE  RInv' /\ WithStatus(rows', "active") # {}
<1>1. RowsOK(rows)
  BY DEF RInv, TypeOK, RowsOK
<1>2. /\ RowsOK(rows') /\ DOMAIN rows' = DOMAIN rows
      /\ WithStatus(rows', "active") = {target}
  BY <1>1, PromoteProperties
<1>3. TypeOK'
  BY <1>2 DEF RInv, TypeOK, RowsOK
<1>4. LocalsOK'
  <2> SUFFICES ASSUME NEW q \in Procs
               PROVE  /\ pc'[q] \in {"open", "fill", "insert"} => num[q] \in Numbers
                      /\ pc'[q] = "rollback" => num[q] \in DOMAIN rows
    BY <1>2 DEF LocalsOK
  <2>1. pc'[q] = pc[q] \/ pc'[q] = "idle"
    BY DEF RInv, TypeOK
  <2> QED BY <2>1 DEF RInv, LocalsOK
<1>5. OneActive(rows')
  BY <1>2 DEF OneActive
<1> QED BY <1>2, <1>3, <1>4, <1>5 DEF RInv, OneActive

LEMMA TakeNumberRInv ==
  ASSUME RInv, NEW p \in Procs, TakeNumber(p)
  PROVE  RInv'
<1>1. NextVersion(rows) \in Numbers
  BY NextVersionProperties, RegistryAssumption DEF TakeNumber, RInv, Numbers
<1>2. TypeOK'
  <2>1. num' \in [Procs -> 0..MaxVersion]
    BY <1>1 DEF TakeNumber, RInv, TypeOK, Numbers
  <2>2. pc' \in [Procs -> {"idle", "lookup", "minimal", "number", "open", "fill",
                           "insert", "rollback"}]
    BY DEF TakeNumber, Step, RInv, TypeOK
  <2> QED BY <2>1, <2>2 DEF TakeNumber, RInv, TypeOK
<1>3. LocalsOK'
  <2> SUFFICES ASSUME NEW q \in Procs
               PROVE  /\ pc'[q] \in {"open", "fill", "insert"} => num'[q] \in Numbers
                      /\ pc'[q] = "rollback" => num'[q] \in DOMAIN rows
    BY DEF LocalsOK, TakeNumber
  <2>1. /\ pc'[q] = IF q = p THEN "open" ELSE pc[q]
        /\ num'[q] = IF q = p THEN NextVersion(rows) ELSE num[q]
    BY DEF TakeNumber, Step, RInv, TypeOK
  <2> QED BY <1>1, <2>1 DEF RInv, LocalsOK
<1> QED BY <1>2, <1>3 DEF RInv, TakeNumber, OneActive

\* The two steps that write the crawler file.
LEMMA FileStepRInv ==
  ASSUME RInv, NEW p \in Procs, OpenFile(p) \/ FillFile(p)
  PROVE  RInv'
<1>1. files' \in [Numbers -> Sources \cup {Absent, Torn}]
  BY DEF OpenFile, FillFile, RInv, TypeOK
<1>2. /\ pc[p] \in {"open", "fill"}
      /\ \E to \in {"fill", "insert"} : pc' = [pc EXCEPT ![p] = to]
      /\ UNCHANGED <<rows, family, src, num>>
  BY DEF OpenFile, FillFile, Step
<1>3. TypeOK'
  <2>1. pc' \in [Procs -> {"idle", "lookup", "minimal", "number", "open", "fill",
                           "insert", "rollback"}]
    BY <1>2 DEF RInv, TypeOK
  <2> QED BY <1>1, <1>2, <2>1 DEF RInv, TypeOK
<1>4. LocalsOK'
  <2> SUFFICES ASSUME NEW q \in Procs
               PROVE  /\ pc'[q] \in {"open", "fill", "insert"} => num[q] \in Numbers
                      /\ pc'[q] = "rollback" => num[q] \in DOMAIN rows
    BY <1>2 DEF LocalsOK
  <2>1. pc'[q] = pc[q] \/ (q = p /\ pc'[q] \in {"fill", "insert"})
    BY <1>2 DEF RInv, TypeOK
  <2> QED BY <1>2, <2>1 DEF RInv, LocalsOK
<1> QED BY <1>2, <1>3, <1>4 DEF RInv, OneActive

LEMMA InsertRowRInv ==
  ASSUME RInv, NEW p \in Procs, InsertRow(p)
  PROVE  /\ RInv'
         /\ WithStatus(rows, "active") \subseteq WithStatus(rows', "active")
<1>1. /\ pc[p] = "insert" /\ num[p] \in Numbers
      /\ pc' = [pc EXCEPT ![p] = "idle"]
      /\ UNCHANGED <<files, family, src, num>>
  BY DEF InsertRow, Step, RInv, LocalsOK
<1>2. DOMAIN rows \subseteq DOMAIN rows' /\ DOMAIN rows' \subseteq Numbers
  BY <1>1 DEF InsertRow, Inserted, RInv, TypeOK
<1>3. \A n \in DOMAIN rows : rows'[n] = rows[n]
  BY DEF InsertRow, Inserted
<1>4. \A n \in DOMAIN rows' \ DOMAIN rows :
        rows'[n] = [status |-> "fallback", sha |-> src[p]]
  BY DEF InsertRow, Inserted
<1>5. TypeOK'
  <2>1. \A n \in DOMAIN rows' : rows'[n] \in Row
    BY <1>3, <1>4 DEF RInv, TypeOK, Row, Statuses
  <2>2. pc' \in [Procs -> {"idle", "lookup", "minimal", "number", "open", "fill",
                           "insert", "rollback"}]
    BY <1>1 DEF RInv, TypeOK
  <2> QED BY <1>1, <1>2, <2>1, <2>2 DEF RInv, TypeOK
<1>6. LocalsOK'
  <2> SUFFICES ASSUME NEW q \in Procs
               PROVE  /\ pc'[q] \in {"open", "fill", "insert"} => num[q] \in Numbers
                      /\ pc'[q] = "rollback" => num[q] \in DOMAIN rows'
    BY <1>1 DEF LocalsOK
  <2>1. pc'[q] = pc[q] \/ pc'[q] = "idle"
    BY <1>1 DEF RInv, TypeOK
  <2> QED BY <1>2, <2>1 DEF RInv, LocalsOK
<1>7. WithStatus(rows', "active") = WithStatus(rows, "active")
  <2>1. ASSUME NEW n \in DOMAIN rows' \ DOMAIN rows PROVE rows'[n].status # "active"
    BY <1>4
  <2> QED BY <1>2, <1>3, <2>1 DEF WithStatus
<1> QED BY <1>5, <1>6, <1>7 DEF RInv, OneActive

\* set_active's transaction promotes a rung that exists.
LEMMA SetActiveRInv ==
  ASSUME RInv, NEW p \in Procs, NEW n \in Numbers, SetActive(p, n)
  PROVE  RInv' /\ WithStatus(rows', "active") # {}
<1>1. /\ n \in DOMAIN rows /\ "fallback" \in Statuses
      /\ rows' = PromoteRung(rows, n, "fallback")
      /\ UNCHANGED <<files, family, pc, src, num>>
  BY DEF SetActive, Activate, PromoteRung, Statuses
<1> QED BY <1>1, PromotionRInv

\* rollback's transaction promotes the target it selected: still a row.
LEMMA RollbackCommitRInv ==
  ASSUME RInv, NEW p \in Procs, RollbackCommit(p)
  PROVE  RInv' /\ WithStatus(rows', "active") # {}
<1>1. /\ num[p] \in DOMAIN rows /\ "archived" \in Statuses
      /\ rows' = PromoteRung(rows, num[p], "archived")
      /\ pc' = [pc EXCEPT ![p] = "idle"]
      /\ UNCHANGED <<files, family, src, num>>
  BY DEF RollbackCommit, Step, RolledBack, PromoteRung, Statuses, RInv, LocalsOK
<1> QED BY <1>1, PromotionRInv

LEMMA RollbackSelectRInv ==
  ASSUME RInv, NEW p \in Procs, RollbackSelect(p)
  PROVE  RInv'
<1>1. RollbackTarget(rows) \in DOMAIN rows
  BY RollbackTargetProperties DEF RollbackSelect, RInv, WithStatus
<1>2. /\ pc' = [pc EXCEPT ![p] = "rollback"]
      /\ num' = [num EXCEPT ![p] = RollbackTarget(rows)]
      /\ UNCHANGED <<rows, files, family, src>>
  BY DEF RollbackSelect, Step
<1>3. TypeOK'
  <2>1. RollbackTarget(rows) \in 0..MaxVersion
    BY <1>1, RegistryAssumption DEF RInv, TypeOK, Numbers
  <2>2. num' \in [Procs -> 0..MaxVersion]
    BY <1>2, <2>1 DEF RInv, TypeOK
  <2>3. pc' \in [Procs -> {"idle", "lookup", "minimal", "number", "open", "fill",
                           "insert", "rollback"}]
    BY <1>2 DEF RInv, TypeOK
  <2> QED BY <1>2, <2>2, <2>3 DEF RInv, TypeOK
<1>4. LocalsOK'
  <2> SUFFICES ASSUME NEW q \in Procs
               PROVE  /\ pc'[q] \in {"open", "fill", "insert"} => num'[q] \in Numbers
                      /\ pc'[q] = "rollback" => num'[q] \in DOMAIN rows
    BY <1>2 DEF LocalsOK
  <2>1. /\ pc'[q] = IF q = p THEN "rollback" ELSE pc[q]
        /\ num'[q] = IF q = p THEN RollbackTarget(rows) ELSE num[q]
    BY <1>2 DEF RInv, TypeOK
  <2> QED BY <1>1, <2>1 DEF RInv, LocalsOK
<1> QED BY <1>2, <1>3, <1>4 DEF RInv, OneActive

\* Steps that change neither rows nor num: the lookups, the family row, a crash.
LEMMA OtherRInv ==
  ASSUME RInv, NEW p \in Procs,
         \/ AddVersion(p) \/ LookupFamily(p) \/ AutoCreateFamily(p)
         \/ UpsertFamily(p) \/ Crash(p)
  PROVE  RInv'
<1>1. UNCHANGED <<rows, num>>
  BY DEF AddVersion, LookupFamily, AutoCreateFamily, UpsertFamily, Crash
<1>2. TypeOK'
  <2>1. \E to \in {"idle", "lookup", "minimal", "number"} :
          pc' = [pc EXCEPT ![p] = to] \/ pc' = pc
    BY DEF AddVersion, LookupFamily, AutoCreateFamily, UpsertFamily, Crash, Step
  <2>2. pc' \in [Procs -> {"idle", "lookup", "minimal", "number", "open", "fill",
                           "insert", "rollback"}]
    BY <2>1 DEF RInv, TypeOK
  <2>3. src' \in [Procs -> Sources]
    <3>1. src' = src \/ \E s \in Safe : src' = [src EXCEPT ![p] = s]
      BY DEF AddVersion, LookupFamily, AutoCreateFamily, UpsertFamily, Crash
    <3> QED BY <3>1, RegistryAssumption DEF RInv, TypeOK
  <2>4. files' = files /\ family' \in {"none", "minimal", "routed"}
    BY DEF AddVersion, LookupFamily, AutoCreateFamily, UpsertFamily, Crash,
           RInv, TypeOK
  <2> QED BY <1>1, <2>2, <2>3, <2>4 DEF RInv, TypeOK
<1>3. LocalsOK'
  <2> SUFFICES ASSUME NEW q \in Procs
               PROVE  /\ pc'[q] \in {"open", "fill", "insert"} => num[q] \in Numbers
                      /\ pc'[q] = "rollback" => num[q] \in DOMAIN rows
    BY <1>1 DEF LocalsOK
  <2>1. pc'[q] = pc[q] \/ pc'[q] \in {"idle", "lookup", "minimal", "number"}
    BY DEF AddVersion, LookupFamily, AutoCreateFamily, UpsertFamily, Crash, Step,
           RInv, TypeOK
  <2> QED BY <2>1 DEF RInv, LocalsOK
<1> QED BY <1>1, <1>2, <1>3 DEF RInv, OneActive

\* Every step keeps the invariant, and an active rung is only ever replaced.
LEMMA NextRInv ==
  ASSUME RInv, [Next]_vars
  PROVE  /\ RInv'
         /\ WithStatus(rows, "active") # {} => WithStatus(rows', "active") # {}
<1>1. ASSUME NEW p \in Procs,
             \/ AddVersion(p) \/ LookupFamily(p) \/ AutoCreateFamily(p)
             \/ UpsertFamily(p) \/ Crash(p)
      PROVE  RInv' /\ rows' = rows
  <2>1. rows' = rows
    BY <1>1 DEF AddVersion, LookupFamily, AutoCreateFamily, UpsertFamily, Crash
  <2> QED BY <1>1, <2>1, OtherRInv
<1>2. ASSUME NEW p \in Procs, TakeNumber(p) PROVE RInv' /\ rows' = rows
  BY <1>2, TakeNumberRInv DEF TakeNumber
<1>3. ASSUME NEW p \in Procs, OpenFile(p) \/ FillFile(p) PROVE RInv' /\ rows' = rows
  <2>1. rows' = rows
    BY <1>3 DEF OpenFile, FillFile
  <2> QED BY <1>3, <2>1, FileStepRInv
<1>4. ASSUME NEW p \in Procs, InsertRow(p)
      PROVE  RInv' /\ WithStatus(rows, "active") \subseteq WithStatus(rows', "active")
  BY <1>4, InsertRowRInv
<1>5. ASSUME NEW p \in Procs, NEW n \in Numbers, SetActive(p, n)
      PROVE  RInv' /\ WithStatus(rows', "active") # {}
  BY <1>5, SetActiveRInv
<1>6. ASSUME NEW p \in Procs, RollbackSelect(p) PROVE RInv' /\ rows' = rows
  BY <1>6, RollbackSelectRInv DEF RollbackSelect
<1>7. ASSUME NEW p \in Procs, RollbackCommit(p)
      PROVE  RInv' /\ WithStatus(rows', "active") # {}
  BY <1>7, RollbackCommitRInv
<1>8. CASE UNCHANGED vars
  BY <1>8 DEF vars, RInv, TypeOK, LocalsOK, OneActive
<1> QED BY <1>1, <1>2, <1>3, <1>4, <1>5, <1>6, <1>7, <1>8 DEF Next

-----------------------------------------------------------------------------
(* Theorems.                                                               *)

\* The inductive invariant holds in every state of every instance.
THEOREM Invariance == Spec => []RInv
<1>1. RInv /\ [Next]_vars => RInv'
  BY NextRInv
<1> QED BY InitRInv, <1>1, PTL DEF Spec

\* Types are kept, whatever the processes, the sources and the bound.
THEOREM TypeCorrect == Spec => []TypeOK
<1>1. RInv => TypeOK
  BY DEF RInv
<1> QED BY <1>1, Invariance, PTL

\* At most one version of the family is active, however set_active, rollback and
\* add_version of any number of processes interleave or crash.
THEOREM OneActiveVersion == Spec => []AtMostOneActive
<1>1. RInv => AtMostOneActive
  <2> SUFFICES ASSUME RInv PROVE Cardinality(WithStatus(rows, "active")) <= 1
    BY DEF AtMostOneActive
  <2> DEFINE A == WithStatus(rows, "active")
  <2>1. CASE A = {}
    BY <2>1, FS_EmptySet
  <2>2. CASE A # {}
    <3>1. PICK n : n \in A
      BY <2>2
    <3>2. A = {n}
      BY <3>1 DEF RInv, OneActive
    <3>3. Cardinality({n}) = 1
      BY FS_Singleton
    <3> QED BY <3>2, <3>3
  <2> QED BY <2>1, <2>2
<1> QED BY <1>1, Invariance, PTL

\* No step takes away the family's active version without promoting another.
THEOREM AlwaysServed == Spec => NeverUnserved
<1>1. RInv /\ [Next]_vars
        => [WithStatus(rows, "active") # {} => WithStatus(rows, "active")' # {}]_vars
  BY NextRInv DEF WithStatus
<1> QED BY <1>1, Invariance, PTL DEF Spec, NeverUnserved

-----------------------------------------------------------------------------
(* The artifacts of a store with one writer.  The file of a row is the     *)
(* registered source, the source in hand passed the AST gate, and the      *)
(* number in hand has no row yet: with a second writer the last is false,  *)
(* because two add_version calls may take one number.                      *)

FilesOK == \A n \in DOMAIN rows : files[n] = rows[n].sha /\ rows[n].sha \in Safe

InHandOK ==
  \A p \in Procs :
    /\ pc[p] \in {"lookup", "minimal", "number", "open", "fill", "insert"}
         => src[p] \in Safe
    /\ pc[p] \in {"open", "fill", "insert"} => num[p] \notin DOMAIN rows
    /\ pc[p] = "insert" => files[num[p]] = src[p]
    /\ p \notin Writers => pc[p] \in {"idle", "rollback"}

FInv == RInv /\ FilesOK /\ InHandOK

\* What ArtifactsImmutable says of one step.
Immutable ==
  \A n \in DOMAIN rows :
    n \in DOMAIN rows' /\ rows'[n].sha = rows[n].sha /\ files'[n] = files[n]

LEMMA InitFInv == Init => FInv
<1> SUFFICES ASSUME Init PROVE FilesOK /\ InHandOK
  BY InitRInv DEF FInv
<1>1. DOMAIN rows = {}
  BY DEF Init
<1> QED BY <1>1 DEF Init, FilesOK, InHandOK

\* A step that keeps the files and the hashes of the rows.
LEMMA QuietFInv ==
  ASSUME FInv, RInv', files' = files, DOMAIN rows' = DOMAIN rows,
         \A n \in DOMAIN rows : rows'[n].sha = rows[n].sha,
         InHandOK'
  PROVE  FInv' /\ Immutable
  BY DEF FInv, FilesOK, Immutable

\* The processes that do not move keep their place and their locals.
OthersKept(p) ==
  \A q \in Procs \ {p} : pc'[q] = pc[q] /\ num'[q] = num[q] /\ src'[q] = src[q]

LEMMA StepKeepsOthers ==
  ASSUME RInv, NEW p \in Procs,
         \/ AddVersion(p) \/ LookupFamily(p) \/ AutoCreateFamily(p)
         \/ TakeNumber(p) \/ OpenFile(p) \/ FillFile(p) \/ InsertRow(p)
         \/ UpsertFamily(p) \/ (\E n \in Numbers : SetActive(p, n))
         \/ RollbackSelect(p) \/ RollbackCommit(p) \/ Crash(p)
  PROVE  OthersKept(p)
<1>1. /\ pc' = pc \/ \E to : pc' = [pc EXCEPT ![p] = to]
      /\ num' = num \/ \E n : num' = [num EXCEPT ![p] = n]
      /\ src' = src \/ \E s : src' = [src EXCEPT ![p] = s]
  BY DEF AddVersion, LookupFamily, AutoCreateFamily, TakeNumber, OpenFile,
         FillFile, InsertRow, UpsertFamily, SetActive, RollbackSelect,
         RollbackCommit, Crash, Step
<1> QED BY <1>1 DEF OthersKept, RInv, TypeOK

LEMMA InHandKept ==
  ASSUME FInv, NEW p \in Procs, OthersKept(p),
         UNCHANGED <<files, src>>, DOMAIN rows' = DOMAIN rows,
         \/ pc'[p] \in {"idle", "rollback"}
         \/ pc'[p] = pc[p] /\ num'[p] = num[p]
         \/ pc[p] = "lookup" /\ pc'[p] \in {"minimal", "number"}
         \/ pc[p] = "minimal" /\ pc'[p] = "number"
  PROVE  InHandOK'
  BY DEF FInv, InHandOK, OthersKept

LEMMA NextFInv ==
  ASSUME \A p, q \in Writers : p = q, FInv, [Next]_vars
  PROVE  FInv' /\ Immutable
<1>0. RInv'
  BY NextRInv DEF FInv
<1>1. ASSUME NEW p \in Procs, AddVersion(p) PROVE FInv' /\ Immutable
  <2>1. OthersKept(p)
    BY <1>1, StepKeepsOthers DEF FInv
  <2>2. /\ p \in Writers /\ pc'[p] = "lookup" /\ src'[p] \in Safe
        /\ UNCHANGED <<rows, files, num>>
    BY <1>1, RegistryAssumption DEF AddVersion, Step, FInv, RInv, TypeOK
  <2>3. InHandOK'
    BY <2>1, <2>2 DEF FInv, InHandOK, OthersKept
  <2> QED BY <1>0, <2>2, <2>3, QuietFInv
<1>2. ASSUME NEW p \in Procs,
             LookupFamily(p) \/ AutoCreateFamily(p) \/ UpsertFamily(p) \/ Crash(p)
      PROVE  FInv' /\ Immutable
  <2>1. UNCHANGED <<rows, files, src, num>>
    BY <1>2 DEF LookupFamily, AutoCreateFamily, UpsertFamily, Crash
  <2>2. \/ pc'[p] = "idle" \/ pc' = pc
        \/ pc[p] = "lookup" /\ pc'[p] \in {"minimal", "number"}
        \/ pc[p] = "minimal" /\ pc'[p] = "number"
    BY <1>2 DEF LookupFamily, AutoCreateFamily, UpsertFamily, Crash, Step,
                FInv, RInv, TypeOK
  <2>3. OthersKept(p)
    BY <1>2, StepKeepsOthers DEF FInv
  <2>4. InHandOK'
    BY <2>1, <2>2, <2>3, InHandKept
  <2> QED BY <1>0, <2>1, <2>4, QuietFInv
<1>3. ASSUME NEW p \in Procs, TakeNumber(p) PROVE FInv' /\ Immutable
  <2>1. NextVersion(rows) \notin DOMAIN rows
    BY NextVersionProperties DEF FInv, RInv
  <2>2. pc[p] = "number" /\ pc'[p] = "open" /\ num'[p] = NextVersion(rows)
    BY <1>3 DEF TakeNumber, Step, FInv, RInv, TypeOK
  <2>3. OthersKept(p) /\ UNCHANGED <<rows, files, src>>
    BY <1>3, StepKeepsOthers DEF FInv, TakeNumber
  <2>4. InHandOK'
    BY <2>1, <2>2, <2>3 DEF FInv, InHandOK, OthersKept
  <2> QED BY <1>0, <2>3, <2>4, QuietFInv
<1>4. ASSUME NEW p \in Procs, OpenFile(p) \/ FillFile(p) PROVE FInv' /\ Immutable
  <2>1. /\ num[p] \in Numbers /\ num[p] \notin DOMAIN rows
        /\ UNCHANGED <<rows, src, num>>
    BY <1>4 DEF OpenFile, FillFile, Step, FInv, RInv, LocalsOK, InHandOK
  <2>2. \A n \in DOMAIN rows : files'[n] = files[n]
    BY <1>4, <2>1 DEF OpenFile, FillFile, FInv, RInv, TypeOK
  <2>3. \/ pc[p] = "open" /\ pc'[p] = "fill"
        \/ pc[p] = "fill" /\ pc'[p] = "insert" /\ files'[num[p]] = src[p]
    BY <1>4, <2>1 DEF OpenFile, FillFile, Step, FInv, RInv, TypeOK
  <2>4. InHandOK'
    <3>1. OthersKept(p)
      BY <1>4, StepKeepsOthers DEF FInv
    <3>2. \A q \in Procs \ {p} : pc[q] \in {"idle", "rollback"}
      BY <2>3 DEF FInv, InHandOK
    <3> QED BY <2>1, <2>3, <3>1, <3>2 DEF FInv, InHandOK, OthersKept
  <2>5. FilesOK'
    BY <2>1, <2>2 DEF FInv, FilesOK
  <2> QED BY <1>0, <2>1, <2>2, <2>4, <2>5 DEF FInv, Immutable
<1>5. ASSUME NEW p \in Procs, InsertRow(p) PROVE FInv' /\ Immutable
  <2>1. /\ num[p] \notin DOMAIN rows /\ src[p] \in Safe /\ files[num[p]] = src[p]
        /\ pc[p] = "insert" /\ pc'[p] = "idle" /\ UNCHANGED <<files, src, num>>
    BY <1>5 DEF InsertRow, Step, FInv, InHandOK, RInv, TypeOK
  <2>2. /\ DOMAIN rows' = DOMAIN rows \cup {num[p]}
        /\ \A n \in DOMAIN rows : rows'[n] = rows[n]
        /\ rows'[num[p]].sha = src[p]
    BY <1>5, <2>1 DEF InsertRow, Inserted
  <2>3. FilesOK'
    BY <2>1, <2>2 DEF FInv, FilesOK
  <2>4. InHandOK'
    <3>1. OthersKept(p)
      BY <1>5, StepKeepsOthers DEF FInv
    <3>2. \A q \in Procs \ {p} : pc[q] \in {"idle", "rollback"}
      BY <2>1 DEF FInv, InHandOK
    <3> QED BY <2>1, <3>1, <3>2 DEF FInv, InHandOK, OthersKept
  <2> QED BY <1>0, <2>1, <2>2, <2>3, <2>4 DEF FInv, Immutable
<1>6. ASSUME NEW p \in Procs, NEW n \in Numbers, SetActive(p, n)
      PROVE  FInv' /\ Immutable
  <2>1. /\ UNCHANGED <<files, pc, src, num>> /\ RowsOK(rows)
        /\ n \in DOMAIN rows /\ "fallback" \in Statuses
        /\ rows' = PromoteRung(rows, n, "fallback")
    BY <1>6 DEF SetActive, Activate, PromoteRung, Statuses, FInv, RInv, TypeOK, RowsOK
  <2>2. DOMAIN rows' = DOMAIN rows /\ \A m \in DOMAIN rows : rows'[m].sha = rows[m].sha
    BY <2>1, PromoteProperties
  <2>3. OthersKept(p)
    BY <2>1 DEF OthersKept
  <2>4. InHandOK'
    BY <2>1, <2>2, <2>3, InHandKept
  <2> QED BY <1>0, <2>1, <2>2, <2>4, QuietFInv
<1>7. ASSUME NEW p \in Procs, RollbackSelect(p) PROVE FInv' /\ Immutable
  <2>1. UNCHANGED <<rows, files, src>> /\ pc'[p] = "rollback"
    BY <1>7 DEF RollbackSelect, Step, FInv, RInv, TypeOK
  <2>2. OthersKept(p)
    BY <1>7, StepKeepsOthers DEF FInv
  <2>3. InHandOK'
    BY <2>1, <2>2, InHandKept
  <2> QED BY <1>0, <2>1, <2>3, QuietFInv
<1>8. ASSUME NEW p \in Procs, RollbackCommit(p) PROVE FInv' /\ Immutable
  <2>1. /\ UNCHANGED <<files, src, num>> /\ RowsOK(rows) /\ pc'[p] = "idle"
        /\ num[p] \in DOMAIN rows /\ "archived" \in Statuses
        /\ rows' = PromoteRung(rows, num[p], "archived")
    BY <1>8 DEF RollbackCommit, Step, RolledBack, PromoteRung, Statuses, FInv, RInv, TypeOK,
                LocalsOK, RowsOK
  <2>2. DOMAIN rows' = DOMAIN rows /\ \A m \in DOMAIN rows : rows'[m].sha = rows[m].sha
    BY <2>1, PromoteProperties
  <2>3. OthersKept(p)
    BY <1>8, StepKeepsOthers DEF FInv
  <2>4. InHandOK'
    BY <2>1, <2>2, <2>3, InHandKept
  <2> QED BY <1>0, <2>1, <2>2, <2>4, QuietFInv
<1>9. CASE UNCHANGED vars
  BY <1>0, <1>9 DEF vars, FInv, FilesOK, InHandOK, Immutable
<1> QED
  BY <1>1, <1>2, <1>3, <1>4, <1>5, <1>6, <1>7, <1>8, <1>9 DEF Next

\* With one writer, every registered version can be loaded, whoever crashes when:
\* add_version gates, numbers and writes before the row exists.
THEOREM RungsLoad ==
  ASSUME \A p, q \in Writers : p = q
  PROVE  Spec => []EveryRungLoads
<1>1. FInv /\ [Next]_vars => FInv'
  BY NextFInv
<1>2. FInv => EveryRungLoads
  BY RegistryAssumption
     DEF FInv, FilesOK, RInv, TypeOK, Row, EveryRungLoads, LoadOutcome
<1> QED BY InitFInv, <1>1, <1>2, PTL DEF Spec

\* With one writer, neither the file nor the hash of a registered version ever
\* changes and no row disappears.
THEOREM ArtifactsKept ==
  ASSUME \A p, q \in Writers : p = q
  PROVE  Spec => ArtifactsImmutable
<1>1. FInv /\ [Next]_vars => FInv'
  BY NextFInv
<1>2. FInv /\ [Next]_vars
        => [\A n \in DOMAIN rows :
              /\ n \in DOMAIN rows' /\ rows'[n].sha = rows[n].sha
              /\ files'[n] = files[n]]_vars
  BY NextFInv DEF Immutable
<1> QED BY InitFInv, <1>1, <1>2, PTL DEF Spec, ArtifactsImmutable
-----------------------------------------------------------------------------
(* Promotions.                                                             *)

\* A step of a promotion, projected on the registry's variables.
LEMMA StepImplements ==
  ASSUME TypeOK, [PromotionNext]_promotionVars
  PROVE  [Next]_vars
<1>1. CASE UNCHANGED promotionVars
  BY <1>1 DEF promotionVars, vars
<1>2. ASSUME NEW p \in Procs,
             \/ Bootstrap(p) \/ Promote(p) \/ Adding(p) \/ Added(p)
             \/ Rollback(p) \/ ProcessDies(p)
      PROVE  Next \/ UNCHANGED vars
  <2>1. CASE Bootstrap(p) BY <2>1 DEF Bootstrap, Next
  <2>2. CASE Promote(p) BY <2>2 DEF Promote, Next
  <2>3. CASE Adding(p) BY <2>3 DEF Adding, Next
  <2>4. CASE Added(p) BY <2>4 DEF Added, Next
  <2>5. CASE Rollback(p) BY <2>5 DEF Rollback, Next
  <2>6. CASE ProcessDies(p)
    <3>1. CASE pc[p] # "idle"
      BY <2>6, <3>1 DEF ProcessDies, Crash, Next
    <3>2. CASE pc[p] = "idle"
      <4>1. pc' = pc
        BY <2>6, <3>2 DEF ProcessDies, TypeOK
      <4> QED BY <2>6, <4>1 DEF ProcessDies, vars
    <3> QED BY <3>1, <3>2
  <2> QED BY <1>2, <2>1, <2>2, <2>3, <2>4, <2>5, <2>6
<1>3. ASSUME NEW p \in Procs, Activated(p)
      PROVE  Next
  <2>1. SetActive(p, num[p])
    BY <1>3 DEF Activated
  <2>2. num[p] \in Numbers
    BY <2>1 DEF SetActive, TypeOK
  <2> QED BY <2>1, <2>2 DEF Next
<1>4. ASSUME NEW p \in Procs,
             \/ OpenFixture(p) \/ FillFixture(p) \/ FixturesSaved(p)
             \/ WriteAuditRow(p) \/ MirrorLine(p)
      PROVE  UNCHANGED vars
  BY <1>4 DEF OpenFixture, FillFixture, FixturesSaved, WriteAuditRow, MirrorLine
<1> QED BY <1>1, <1>2, <1>3, <1>4 DEF PromotionNext

\* Every behaviour of promotions, rollbacks and crashes is one of the registry:
\* promote() drives it only through its methods, whole (promote.py, registry.py).
THEOREM PromotionImplementsRegistry == PromotionSpec => Spec
<1>1. PromotionInit => Init
  BY DEF PromotionInit
<1>2. RInv /\ [PromotionNext]_promotionVars => [Next]_vars
  BY StepImplements DEF RInv
<1>3. RInv /\ [PromotionNext]_promotionVars => RInv'
  BY <1>2, NextRInv
<1>4. PromotionSpec => []RInv
  BY <1>1, <1>3, InitRInv, PTL DEF PromotionSpec
<1> QED BY <1>1, <1>2, <1>4, PTL DEF PromotionSpec, Spec

\* Whatever promotes, rolls back and crashes on the store, in whatever order, at
\* most one version of the family is active.
THEOREM PromotionOneActive == PromotionSpec => []AtMostOneActive
  BY PromotionImplementsRegistry, OneActiveVersion

\* And once a promotion has given the family an active version it keeps one.
THEOREM PromotionServed == PromotionSpec => NeverUnserved
  BY PromotionImplementsRegistry, AlwaysServed

\* While one process promotes, what it and the rollbacks of others leave can always
\* be loaded: a crash anywhere in promote() costs at worst an orphan file.
THEOREM PromotionRungsLoad ==
  ASSUME \A p, q \in Writers : p = q
  PROVE  PromotionSpec => []EveryRungLoads
  BY PromotionImplementsRegistry, RungsLoad

\* And no promotion, rollback or crash changes a registered version's artifact.
THEOREM PromotionKeepsArtifacts ==
  ASSUME \A p, q \in Writers : p = q
  PROVE  PromotionSpec => ArtifactsImmutable
  BY PromotionImplementsRegistry, ArtifactsKept

-----------------------------------------------------------------------------
(* The types of promote()'s own state, and what its audit rows name: a row *)
(* of the versions table, with the residual set of that row's promotion.   *)

\* promote() holds the number of a registered version once add_version returned.
Registered == {"activate", "open", "fill", "audit", "mirror"}

HoldsRow == \A p \in Procs : stage[p] \in Registered => num[p] \in DOMAIN rows

SlotOK ==
  \A p \in Procs :
    /\ stage[p] \in {"open", "fill"} => slot[p] <= 2 * count[p]
    /\ stage[p] = "fill" => slot[p] < 2 * count[p]
    /\ stage[p] \in {"audit", "mirror"} => slot[p] = 2 * count[p]

AuditOK ==
  \A i \in DOMAIN audit : /\ audit[i].to \in DOMAIN rows
                          /\ audit[i].residual = residual[audit[i].to]

PInv == PromotionTypeOK /\ RInv /\ HoldsRow /\ SlotOK /\ AuditOK

\* No statement of the registry deletes a row.
LEMMA RowsGrow ==
  ASSUME [Next]_vars
  PROVE  DOMAIN rows \subseteq DOMAIN rows'
<1>1. ASSUME NEW S, NEW status PROVE DOMAIN Restatus(rows, S, status) = DOMAIN rows
  BY DEF Restatus
<1>2. ASSUME NEW S, NEW status, NEW T, NEW other
      PROVE  DOMAIN Restatus(Restatus(rows, S, status), T, other) = DOMAIN rows
  BY DEF Restatus
<1>3. ASSUME NEW p \in Procs, InsertRow(p) PROVE DOMAIN rows \subseteq DOMAIN rows'
  BY <1>3 DEF InsertRow, Inserted
<1>4. ASSUME NEW p \in Procs, NEW n \in Numbers, SetActive(p, n)
      PROVE  DOMAIN rows \subseteq DOMAIN rows'
  BY <1>2, <1>4 DEF SetActive, Activate
<1>5. ASSUME NEW p \in Procs, RollbackCommit(p) PROVE DOMAIN rows \subseteq DOMAIN rows'
  BY <1>2, <1>5 DEF RollbackCommit, RolledBack
<1>6. ASSUME NEW p \in Procs,
             \/ AddVersion(p) \/ LookupFamily(p) \/ AutoCreateFamily(p) \/ TakeNumber(p)
             \/ OpenFile(p) \/ FillFile(p) \/ UpsertFamily(p) \/ RollbackSelect(p) \/ Crash(p)
      PROVE  rows' = rows
  BY <1>6 DEF AddVersion, LookupFamily, AutoCreateFamily, TakeNumber, OpenFile,
              FillFile, UpsertFamily, RollbackSelect, Crash
<1> QED BY <1>3, <1>4, <1>5, <1>6 DEF Next, vars

\* sample_<i>.html and sample_<i>.json are files 2i and 2i + 1 of a golden set.
LEMMA FixtureOrder ==
  /\ \A s, t \in Nat : FixtureAt(s) = FixtureAt(t) => s = t
  /\ \A s \in 0..(2 * MaxSamples - 1) : FixtureAt(s) \in FixtureFiles
  /\ \A k \in Nat : \A i \in 0..(k - 1) : \A kind \in {"html", "json"} :
       \E s \in 0..(2 * k - 1) : FixtureAt(s) = <<i, kind>>
<1>1. \A s \in Nat : s = 2 * (s \div 2) + (s % 2) /\ s % 2 \in {0, 1} /\ s \div 2 \in Nat
  OBVIOUS
<1>2. ASSUME NEW s \in Nat, NEW t \in Nat, FixtureAt(s) = FixtureAt(t)
      PROVE  s = t
  <2>1. s \div 2 = t \div 2 /\ (s % 2 = 0 <=> t % 2 = 0)
    BY <1>2 DEF FixtureAt
  <2> QED BY <1>1, <2>1
<1>3. ASSUME NEW s \in 0..(2 * MaxSamples - 1) PROVE FixtureAt(s) \in FixtureFiles
  <2>1. s \in Nat /\ s \div 2 \in 0..(MaxSamples - 1)
    BY <1>1, PromotionAssumption
  <2> QED BY <2>1 DEF FixtureAt, FixtureFiles, Indices
<1>4. ASSUME NEW k \in Nat, NEW i \in 0..(k - 1)
      PROVE  /\ FixtureAt(2 * i) = <<i, "html">> /\ 2 * i \in 0..(2 * k - 1)
             /\ FixtureAt(2 * i + 1) = <<i, "json">> /\ 2 * i + 1 \in 0..(2 * k - 1)
  <2>1. (2 * i) \div 2 = i /\ (2 * i) % 2 = 0
    OBVIOUS
  <2>2. (2 * i + 1) \div 2 = i /\ (2 * i + 1) % 2 = 1
    OBVIOUS
  <2> QED BY <2>1, <2>2 DEF FixtureAt
<1> QED BY <1>2, <1>3, <1>4

LEMMA InitPInv == PromotionInit => PInv
<1> SUFFICES ASSUME PromotionInit PROVE PInv
  OBVIOUS
<1>1. RInv
  BY InitRInv DEF PromotionInit
<1>2. MaxSamples \in Nat \ {0} /\ 1 \in 1..MaxSamples /\ 0 \in 0..(2 * MaxSamples)
  BY PromotionAssumption
<1>3. audit = <<>> /\ audit \in Seq(Entry) /\ mirror \in Seq(Entry)
  BY DEF PromotionInit
<1>4. PromotionTypeOK
  BY <1>1, <1>2, <1>3, PromotionAssumption DEF PromotionInit, PromotionTypeOK, RInv
<1>5. HoldsRow /\ SlotOK
  BY DEF PromotionInit, HoldsRow, SlotOK, Registered
<1>6. AuditOK
  BY <1>3 DEF AuditOK
<1> QED BY <1>1, <1>4, <1>5, <1>6 DEF PInv

Stages == {"idle", "add", "activate", "open", "fill", "audit", "mirror"}

\* A step of a process that is not past add_version, or leaves promote().
LEMMA OutsidePInv ==
  ASSUME PInv, RInv', [Next]_vars, NEW p \in Procs, NEW to \in {"idle", "add"},
         stage' = [stage EXCEPT ![p] = to],
         \A q \in Procs \ {p} : num'[q] = num[q] /\ count'[q] = count[q],
         count' \in [Procs -> 1..MaxSamples],
         UNCHANGED <<slot, residual, fixtures, audit>>,
         mirror' \in Seq(Entry), crashes' \in 0..MaxCrashes, calm' \in BOOLEAN /\ served' \subseteq 1..MaxVersion
  PROVE  PInv'
<1>1. stage' \in [Procs -> Stages] /\ stage'[p] = to
      /\ \A q \in Procs \ {p} : stage'[q] = stage[q]
  BY DEF PInv, PromotionTypeOK, Stages
<1>2. PromotionTypeOK'
  BY <1>1 DEF PInv, PromotionTypeOK, RInv, Stages
<1>3. DOMAIN rows \subseteq DOMAIN rows'
  BY RowsGrow
<1>4. HoldsRow'
  BY <1>1, <1>3 DEF PInv, HoldsRow, Registered
<1>5. SlotOK'
  BY <1>1 DEF PInv, SlotOK
<1>6. AuditOK'
  BY <1>3 DEF PInv, AuditOK
<1> QED BY <1>2, <1>4, <1>5, <1>6 DEF PInv

\* A step of promote() after add_version: num and count stay.
LEMMA InsidePInv ==
  ASSUME PInv, RInv', [Next]_vars, NEW p \in Procs, NEW to \in Registered,
         stage[p] \in Registered, stage' = [stage EXCEPT ![p] = to],
         UNCHANGED <<num, count, residual, mirror, crashes>>,
         slot' \in [Procs -> 0..(2 * MaxSamples)],
         \A q \in Procs \ {p} : slot'[q] = slot[q],
         to \in {"open", "fill"} => slot'[p] <= 2 * count[p],
         to = "fill" => slot'[p] < 2 * count[p],
         to \in {"audit", "mirror"} => slot'[p] = 2 * count[p],
         fixtures' \in [FixtureFiles -> (1..MaxVersion) \cup {Absent, Torn}],
         audit' \in Seq(Entry), AuditOK', calm' \in BOOLEAN /\ served' \subseteq 1..MaxVersion
  PROVE  PInv'
<1>1. stage' \in [Procs -> Stages] /\ stage'[p] = to
      /\ \A q \in Procs \ {p} : stage'[q] = stage[q]
  BY DEF PInv, PromotionTypeOK, Stages, Registered
<1>2. PromotionTypeOK'
  BY <1>1 DEF PInv, PromotionTypeOK, RInv, Stages
<1>3. DOMAIN rows \subseteq DOMAIN rows'
  BY RowsGrow
<1>4. HoldsRow'
  <2>1. num[p] \in DOMAIN rows
    BY DEF PInv, HoldsRow
  <2> QED BY <1>1, <1>3, <2>1 DEF PInv, HoldsRow
<1>5. SlotOK'
  BY <1>1 DEF PInv, SlotOK
<1> QED BY <1>2, <1>4, <1>5 DEF PInv
LEMMA AddedPInv ==
  ASSUME PInv, RInv', [Next]_vars, NEW p \in Procs, Added(p)
  PROVE  PInv'
<1>1. /\ InsertRow(p) /\ stage[p] \in Stages /\ num[p] \in Numbers
      /\ UNCHANGED <<num, slot, count, fixtures, audit, mirror, crashes, calm, served>>
  BY DEF Added, InsertRow, Step, PInv, RInv, LocalsOK, PromotionTypeOK, Stages
<1>2. CASE num[p] \in DOMAIN rows
  <2>1. stage' = [stage EXCEPT ![p] = "idle"] /\ residual' = residual
    BY <1>2 DEF Added, Move
  <2>2. /\ count' \in [Procs -> 1..MaxSamples] /\ mirror' \in Seq(Entry)
        /\ crashes' \in 0..MaxCrashes /\ calm' \in BOOLEAN /\ served' \subseteq 1..MaxVersion
    BY <1>1 DEF PInv, PromotionTypeOK
  <2> QED BY <1>1, <2>1, <2>2, OutsidePInv
<1>3. CASE num[p] \notin DOMAIN rows
  <2>1. PICK R \in SUBSET Fields :
          /\ stage' = [stage EXCEPT ![p] = "activate"]
          /\ residual' = [residual EXCEPT ![num[p]] = R]
    BY <1>3 DEF Added, Move
  <2>2. /\ stage' \in [Procs -> Stages] /\ stage'[p] = "activate"
        /\ \A q \in Procs \ {p} : stage'[q] = stage[q]
    BY <2>1 DEF PInv, PromotionTypeOK, Stages
  <2>3. residual' \in [1..MaxVersion -> SUBSET Fields]
    BY <2>1 DEF PInv, PromotionTypeOK
  <2>4. PromotionTypeOK'
    BY <1>1, <2>2, <2>3 DEF PInv, PromotionTypeOK, RInv, Stages
  <2>5. DOMAIN rows' = DOMAIN rows \cup {num[p]}
    BY <1>1, <1>3 DEF InsertRow, Inserted
  <2>6. HoldsRow' /\ SlotOK'
    BY <1>1, <2>2, <2>5 DEF PInv, HoldsRow, SlotOK
  <2>7. AuditOK'
    <3> SUFFICES ASSUME NEW i \in DOMAIN audit
                 PROVE  /\ audit[i].to \in DOMAIN rows'
                        /\ audit[i].residual = residual'[audit[i].to]
      BY <1>1 DEF AuditOK
    <3>1. audit[i].to \in DOMAIN rows /\ audit[i].residual = residual[audit[i].to]
      BY DEF PInv, AuditOK
    <3>2. audit[i].to # num[p] /\ audit[i].to \in 1..MaxVersion
      BY <1>3, <3>1 DEF PInv, RInv, TypeOK, Numbers
    <3> QED BY <2>1, <2>5, <3>1, <3>2 DEF PInv, PromotionTypeOK
  <2> QED BY <2>4, <2>6, <2>7 DEF PInv
<1> QED BY <1>2, <1>3

LEMMA WriteAuditRowPInv ==
  ASSUME PInv, RInv', [Next]_vars, NEW p \in Procs, WriteAuditRow(p)
  PROVE  PInv'
<1>1. /\ stage[p] = "audit" /\ stage' = [stage EXCEPT ![p] = "mirror"]
      /\ audit' = Append(audit, EntryOf(p))
      /\ UNCHANGED <<rows, num, slot, count, residual, fixtures, mirror, crashes, calm, served>>
  BY DEF WriteAuditRow, Move, vars
<1>2. num[p] \in DOMAIN rows /\ num[p] \in 1..MaxVersion
  BY <1>1 DEF PInv, HoldsRow, Registered, RInv, TypeOK, Numbers
<1>3. EntryOf(p) \in Entry
  BY <1>2 DEF EntryOf, Entry, PInv, PromotionTypeOK
<1>4. audit' \in Seq(Entry)
  BY <1>1, <1>3 DEF PInv, PromotionTypeOK
<1>5. AuditOK'
  <2>1. audit \in Seq(Entry)
    BY DEF PInv, PromotionTypeOK
  <2>2. ASSUME NEW i \in DOMAIN audit' PROVE audit'[i] = EntryOf(p) \/ (i \in DOMAIN audit /\ audit'[i] = audit[i])
    BY <1>1, <1>3, <2>1
  <2>3. EntryOf(p).to \in DOMAIN rows /\ EntryOf(p).residual = residual[EntryOf(p).to]
    BY <1>2 DEF EntryOf
  <2> QED BY <1>1, <2>2, <2>3 DEF PInv, AuditOK
<1>6. slot' \in [Procs -> 0..(2 * MaxSamples)] /\ slot'[p] = 2 * count[p]
  BY <1>1 DEF PInv, PromotionTypeOK, SlotOK
<1>7. fixtures' \in [FixtureFiles -> (1..MaxVersion) \cup {Absent, Torn}] /\ calm' \in BOOLEAN /\ served' \subseteq 1..MaxVersion
  BY <1>1 DEF PInv, PromotionTypeOK
<1>8. "mirror" \in Registered /\ stage[p] \in Registered
  BY <1>1 DEF Registered
<1> QED BY <1>1, <1>4, <1>5, <1>6, <1>7, <1>8, InsidePInv

LEMMA NextPInv ==
  ASSUME PInv, [PromotionNext]_promotionVars
  PROVE  PInv' /\ [Next]_vars
<1>1. [Next]_vars /\ RInv'
  BY StepImplements, NextRInv DEF PInv, RInv
<1>2. ASSUME NEW p \in Procs, Bootstrap(p) \/ Adding(p) \/ Rollback(p) \/ ProcessDies(p)
      PROVE  PInv'
  <2>1. /\ UNCHANGED <<slot, count, residual, fixtures, audit, mirror>>
        /\ crashes' = crashes \/ (crashes < MaxCrashes /\ crashes' = crashes + 1)
    BY <1>2 DEF Bootstrap, Adding, Rollback, ProcessDies
  <2>2. PICK to \in {"idle", "add"} : stage' = [stage EXCEPT ![p] = to]
    <3>1. stage = [stage EXCEPT ![p] = stage[p]]
      BY DEF PInv, PromotionTypeOK
    <3> QED BY <1>2, <3>1 DEF Bootstrap, Adding, Rollback, ProcessDies
  <2>3. \A q \in Procs \ {p} : num'[q] = num[q]
    <3>1. num' = num \/ \E n : num' = [num EXCEPT ![p] = n]
      BY <1>2 DEF Bootstrap, Adding, Rollback, ProcessDies, UpsertFamily, LookupFamily,
                  AutoCreateFamily, TakeNumber, OpenFile, FillFile, RollbackSelect,
                  RollbackCommit
    <3> QED BY <3>1 DEF PInv, RInv, TypeOK
  <2>4. calm' \in BOOLEAN /\ served' \subseteq 1..MaxVersion
    <3>1. RollbackCommit(p) => num[p] \in 1..MaxVersion
      BY DEF RollbackCommit, Step, PInv, RInv, LocalsOK, TypeOK, Numbers
    <3> QED BY <1>2, <3>1 DEF Bootstrap, Adding, Rollback, ProcessDies, PInv, PromotionTypeOK
  <2>5. count' \in [Procs -> 1..MaxSamples] /\ mirror' \in Seq(Entry) /\ crashes' \in 0..MaxCrashes
    BY <2>1, PromotionAssumption DEF PInv, PromotionTypeOK
  <2> QED BY <1>1, <2>1, <2>2, <2>3, <2>4, <2>5, OutsidePInv
<1>3. ASSUME NEW p \in Procs, Promote(p) PROVE PInv'
  <2>1. /\ UNCHANGED <<num, slot, residual, fixtures, audit, mirror, crashes, calm, served>>
        /\ stage' = [stage EXCEPT ![p] = "add"]
        /\ \E k \in Counts : count' = [count EXCEPT ![p] = k]
    BY <1>3 DEF Promote, Move, AddVersion
  <2>2. /\ count' \in [Procs -> 1..MaxSamples] /\ mirror' \in Seq(Entry)
        /\ crashes' \in 0..MaxCrashes /\ calm' \in BOOLEAN /\ served' \subseteq 1..MaxVersion
        /\ \A q \in Procs \ {p} : num'[q] = num[q] /\ count'[q] = count[q]
    BY <2>1, PromotionAssumption DEF PInv, PromotionTypeOK
  <2> QED BY <1>1, <2>1, <2>2, OutsidePInv
<1>4. ASSUME NEW p \in Procs, MirrorLine(p) PROVE PInv'
  <2>1. /\ UNCHANGED <<num, slot, count, residual, fixtures, audit, crashes, calm, served>>
        /\ stage[p] = "mirror" /\ stage' = [stage EXCEPT ![p] = "idle"]
        /\ mirror' = Append(mirror, EntryOf(p))
    BY <1>4 DEF MirrorLine, Move, vars
  <2>2. num[p] \in 1..MaxVersion
    BY <2>1 DEF PInv, HoldsRow, Registered, RInv, TypeOK, Numbers
  <2>3. EntryOf(p) \in Entry
    BY <2>2 DEF EntryOf, Entry, PInv, PromotionTypeOK
  <2>4. /\ count' \in [Procs -> 1..MaxSamples] /\ mirror' \in Seq(Entry)
        /\ crashes' \in 0..MaxCrashes /\ calm' \in BOOLEAN /\ served' \subseteq 1..MaxVersion
    BY <2>1, <2>3 DEF PInv, PromotionTypeOK
  <2> QED BY <1>1, <2>1, <2>4, OutsidePInv
<1>5. ASSUME NEW p \in Procs,
             Activated(p) \/ OpenFixture(p) \/ FillFixture(p) \/ FixturesSaved(p)
      PROVE  PInv'
  <2>1. /\ UNCHANGED <<num, count, residual, audit, mirror, crashes>>
        /\ stage[p] \in Registered /\ calm' \in BOOLEAN /\ served' \subseteq 1..MaxVersion
    BY <1>5 DEF Activated, SetActive, OpenFixture, FillFixture, FixturesSaved, Move,
                vars, Registered, PInv, PromotionTypeOK, HoldsRow, RInv, TypeOK, Numbers
  <2>2. AuditOK'
    BY <1>1, <2>1, RowsGrow DEF PInv, AuditOK
  <2>3. num[p] \in 1..MaxVersion /\ slot[p] \in Nat /\ count[p] \in 1..MaxSamples /\ MaxSamples \in Nat
    BY <2>1, PromotionAssumption
       DEF PInv, HoldsRow, RInv, TypeOK, Numbers, PromotionTypeOK
  <2>4. /\ fixtures' \in [FixtureFiles -> (1..MaxVersion) \cup {Absent, Torn}]
        /\ audit' \in Seq(Entry)
    BY <1>5, <2>1, <2>3
       DEF Activated, OpenFixture, FillFixture, FixturesSaved, PInv, PromotionTypeOK
  <2>5. CASE Activated(p)
    <3>1. stage' = [stage EXCEPT ![p] = "open"] /\ slot' = [slot EXCEPT ![p] = 0]
      BY <2>5 DEF Activated, Move
    <3>2. /\ slot' \in [Procs -> 0..(2 * MaxSamples)] /\ slot'[p] <= 2 * count[p]
          /\ \A q \in Procs \ {p} : slot'[q] = slot[q]
      BY <2>3, <3>1 DEF PInv, PromotionTypeOK
    <3>3. "open" \in Registered
      BY DEF Registered
    <3> QED BY <1>1, <2>1, <2>2, <2>4, <3>1, <3>2, <3>3, InsidePInv
  <2>6. CASE OpenFixture(p)
    <3>1. /\ stage' = [stage EXCEPT ![p] = "fill"] /\ slot[p] < 2 * count[p]
          /\ slot' = slot
      BY <2>6 DEF OpenFixture, Move
    <3>2. slot' \in [Procs -> 0..(2 * MaxSamples)]
      BY <3>1 DEF PInv, PromotionTypeOK
    <3>3. "fill" \in Registered /\ slot'[p] <= 2 * count[p]
      BY <2>3, <3>1 DEF Registered
    <3> QED BY <1>1, <2>1, <2>2, <2>4, <3>1, <3>2, <3>3, InsidePInv
  <2>7. CASE FillFixture(p)
    <3>1. /\ stage[p] = "fill" /\ stage' = [stage EXCEPT ![p] = "open"]
          /\ slot' = [slot EXCEPT ![p] = @ + 1]
      BY <2>7 DEF FillFixture, Move
    <3>2. slot[p] + 1 <= 2 * count[p] /\ 2 * count[p] <= 2 * MaxSamples
      BY <2>3, <3>1 DEF PInv, SlotOK
    <3>3. slot[p] + 1 \in 0..(2 * MaxSamples)
      BY <2>3, <3>2
    <3>4. /\ slot' \in [Procs -> 0..(2 * MaxSamples)] /\ slot'[p] <= 2 * count[p]
          /\ \A q \in Procs \ {p} : slot'[q] = slot[q]
      BY <3>1, <3>2, <3>3 DEF PInv, PromotionTypeOK
    <3>5. "open" \in Registered
      BY DEF Registered
    <3> QED BY <1>1, <2>1, <2>2, <2>4, <3>1, <3>4, <3>5, InsidePInv
  <2>8. CASE FixturesSaved(p)
    <3>1. /\ stage' = [stage EXCEPT ![p] = "audit"] /\ slot[p] = 2 * count[p]
          /\ slot' = slot
      BY <2>8 DEF FixturesSaved, Move
    <3>2. slot' \in [Procs -> 0..(2 * MaxSamples)]
      BY <3>1 DEF PInv, PromotionTypeOK
    <3>3. "audit" \in Registered
      BY DEF Registered
    <3> QED BY <1>1, <2>1, <2>2, <2>4, <3>1, <3>2, <3>3, InsidePInv
  <2> QED BY <1>5, <2>5, <2>6, <2>7, <2>8
<1>6. CASE UNCHANGED promotionVars
  BY <1>1, <1>6 DEF promotionVars, vars, PInv, PromotionTypeOK, RInv, HoldsRow, SlotOK, AuditOK
<1>7. ASSUME NEW p \in Procs, Added(p) \/ WriteAuditRow(p) PROVE PInv'
  BY <1>1, <1>7, AddedPInv, WriteAuditRowPInv
<1> QED
  BY <1>1, <1>2, <1>3, <1>4, <1>5, <1>6, <1>7 DEF PromotionNext

\* The types of promotions over the registry, whatever crashes and rolls back.
THEOREM PromotionTypeCorrect == PromotionSpec => []PromotionTypeOK
<1>1. PInv => PromotionTypeOK
  BY DEF PInv
<1> QED BY InitPInv, NextPInv, <1>1, PTL DEF PromotionSpec

\* The residual set read for the active version is the one that version was promoted
\* with, or empty: active_residual_fields looks the number up in the audit trail, and
\* no number is ever given to two rows (registry.py:490, hybrid.py).
THEOREM ResidualIsOwn == PromotionSpec => []ResidualIsOwnOrEmpty
<1>1. PInv => ResidualIsOwnOrEmpty
  <2> SUFFICES ASSUME PInv, NEW n \in WithStatus(rows, "active")
               PROVE  ActiveResidualFields \in {residual[n], {}}
    BY DEF ResidualIsOwnOrEmpty
  <2> DEFINE naming == {i \in DOMAIN audit : audit[i].to \in WithStatus(rows, "active")}
  <2>1. CASE naming = {}
    BY <2>1 DEF ActiveResidualFields
  <2>2. CASE naming # {}
    <3>1. Len(audit) \in Nat /\ naming \in SUBSET (0..Len(audit))
      BY DEF PInv, PromotionTypeOK
    <3>2. Max(naming) \in naming
      <4> HIDE DEF naming
      <4> QED BY <2>2, <3>1, MaxProperties
    <3>3. audit[Max(naming)].to = n
      BY <3>2 DEF PInv, RInv, OneActive
    <3>4. audit[Max(naming)].residual = residual[n]
      BY <3>2, <3>3 DEF PInv, AuditOK
    <3>5. ActiveResidualFields = audit[Max(naming)].residual
      BY <2>2 DEF ActiveResidualFields
    <3> QED BY <3>4, <3>5
  <2> QED BY <2>1, <2>2
<1> QED BY InitPInv, NextPInv, <1>1, PTL DEF PromotionSpec
-----------------------------------------------------------------------------
(* The golden set.  Only a writer promotes, and the files below the one it *)
(* writes next hold its version: with one writer nobody overwrites them.   *)

Saving == {"open", "fill", "audit", "mirror"}

WritersPromote == \A p \in Procs : stage[p] # "idle" => p \in Writers

SavedSoFar ==
  \A p \in Procs : stage[p] \in Saving =>
    \A s \in 0..(slot[p] - 1) : fixtures[FixtureAt(s)] = num[p]

GInv == PInv /\ WritersPromote /\ SavedSoFar

LEMMA InitGInv == PromotionInit => GInv
<1> SUFFICES ASSUME PromotionInit PROVE WritersPromote /\ SavedSoFar
  BY InitPInv DEF GInv
<1> QED BY DEF PromotionInit, WritersPromote, SavedSoFar, Saving

\* A step that touches no fixture, and no local of a process that is saving.
LEMMA OtherGInv ==
  ASSUME GInv, PInv', WritersPromote', fixtures' = fixtures,
         \A q \in Procs : stage'[q] \in Saving =>
           \/ slot'[q] = 0
           \/ stage[q] \in Saving /\ slot'[q] = slot[q] /\ num'[q] = num[q]
  PROVE  GInv'
<1>1. SavedSoFar'
  BY DEF GInv, SavedSoFar
<1> QED BY <1>1 DEF GInv

LEMMA NextGInv ==
  ASSUME \A p, q \in Writers : p = q, GInv, [PromotionNext]_promotionVars
  PROVE  GInv'
<1>1. PInv' /\ [Next]_vars
  BY NextPInv DEF GInv
<1>2. ASSUME NEW p \in Procs,
             \/ Bootstrap(p) \/ Promote(p) \/ Adding(p) \/ Added(p) \/ Rollback(p)
             \/ ProcessDies(p) \/ MirrorLine(p)
      PROVE  GInv'
  <2>1. /\ UNCHANGED <<slot, fixtures>>
        /\ stage' = stage \/ \E to \in {"idle", "add", "activate"} : stage' = [stage EXCEPT ![p] = to]
        /\ stage'[p] # "idle" => p \in Writers
    <3>1. stage[p] # "idle" => p \in Writers
      BY DEF GInv, WritersPromote
    <3> QED BY <1>2, <3>1 DEF Bootstrap, Promote, AddVersion, Adding, Added, Rollback, ProcessDies,
                MirrorLine, Move, GInv, PInv, PromotionTypeOK
  <2>2. \A q \in Procs \ {p} : stage'[q] = stage[q] /\ num'[q] = num[q]
    <3>1. num' = num \/ \E n : num' = [num EXCEPT ![p] = n]
      BY <1>2 DEF Bootstrap, Promote, AddVersion, Adding, Added, InsertRow, Rollback, ProcessDies,
                  MirrorLine, vars, UpsertFamily, LookupFamily, AutoCreateFamily, TakeNumber,
                  OpenFile, FillFile, RollbackSelect, RollbackCommit
    <3> QED BY <2>1, <3>1 DEF GInv, PInv, PromotionTypeOK, RInv, TypeOK
  <2>3. stage'[p] \notin Saving
    BY <1>2 DEF Bootstrap, Promote, Adding, Added, Rollback, ProcessDies, MirrorLine, Move,
                Saving, GInv, PInv, PromotionTypeOK
  <2>4. WritersPromote'
    BY <2>1, <2>2 DEF GInv, WritersPromote
  <2> QED BY <1>1, <2>1, <2>2, <2>3, <2>4, OtherGInv
<1>3. ASSUME NEW p \in Procs, Activated(p) \/ FixturesSaved(p) \/ WriteAuditRow(p)
      PROVE  GInv'
  <2>1. /\ UNCHANGED <<num, fixtures>> /\ stage[p] # "idle"
        /\ \E to \in Saving : stage' = [stage EXCEPT ![p] = to]
        /\ slot' = [slot EXCEPT ![p] = 0] \/ (slot' = slot /\ stage[p] \in Saving)
    BY <1>3 DEF Activated, SetActive, FixturesSaved, WriteAuditRow, Move, vars, Saving
  <2>2. WritersPromote'
    BY <2>1 DEF GInv, WritersPromote, PInv, PromotionTypeOK
  <2>3. \A q \in Procs : stage'[q] \in Saving =>
          \/ slot'[q] = 0
          \/ stage[q] \in Saving /\ slot'[q] = slot[q] /\ num'[q] = num[q]
    BY <2>1 DEF GInv, PInv, PromotionTypeOK
  <2> QED BY <1>1, <2>1, <2>2, <2>3, OtherGInv
<1>4. ASSUME NEW p \in Procs, OpenFixture(p) \/ FillFixture(p)
      PROVE  GInv'
  <2>1. /\ num' = num /\ stage[p] \in Saving /\ stage'[p] \in Saving
        /\ \A q \in Procs \ {p} : stage'[q] = stage[q]
    BY <1>4 DEF OpenFixture, FillFixture, Move, vars, Saving, GInv, PInv, PromotionTypeOK
  <2>2. p \in Writers /\ \A q \in Procs \ {p} : stage[q] = "idle"
    BY <2>1 DEF GInv, WritersPromote, Saving
  <2>3. WritersPromote'
    BY <2>1, <2>2 DEF WritersPromote
  <2>4. slot[p] \in Nat /\ slot[p] \in 0..(2 * MaxSamples - 1)
    <3>1. /\ slot[p] \in 0..(2 * MaxSamples) /\ count[p] \in 1..MaxSamples
          /\ slot[p] < 2 * count[p] /\ MaxSamples \in Nat
      BY <1>4, PromotionAssumption
         DEF OpenFixture, FillFixture, Move, GInv, PInv, PromotionTypeOK, SlotOK
    <3> QED BY <3>1
  <2>5. FixtureAt(slot[p]) \in FixtureFiles
    BY <2>4, FixtureOrder
  <2>6. \A s \in 0..(slot[p] - 1) : fixtures'[FixtureAt(s)] = num[p]
    <3> SUFFICES ASSUME NEW s \in 0..(slot[p] - 1)
                 PROVE  fixtures'[FixtureAt(s)] = num[p]
      OBVIOUS
    <3>1. s \in Nat /\ s # slot[p] /\ s \in 0..(2 * MaxSamples - 1)
      BY <2>4, PromotionAssumption
    <3>2. FixtureAt(s) # FixtureAt(slot[p]) /\ FixtureAt(s) \in FixtureFiles
      BY <2>4, <3>1, FixtureOrder
    <3>3. fixtures'[FixtureAt(s)] = fixtures[FixtureAt(s)]
      BY <1>4, <3>2 DEF OpenFixture, FillFixture, GInv, PInv, PromotionTypeOK
    <3> QED BY <2>1, <3>3 DEF GInv, SavedSoFar
  <2>7. CASE OpenFixture(p)
    <3>1. slot' = slot
      BY <2>7 DEF OpenFixture
    <3>2. SavedSoFar'
      BY <2>1, <2>2, <2>6, <3>1 DEF SavedSoFar, Saving
    <3> QED BY <1>1, <2>3, <3>2 DEF GInv
  <2>8. CASE FillFixture(p)
    <3>1. /\ slot'[p] = slot[p] + 1
          /\ fixtures'[FixtureAt(slot[p])] = num[p]
      BY <2>5, <2>8 DEF FillFixture, GInv, PInv, PromotionTypeOK
    <3>2. \A s \in 0..(slot'[p] - 1) : s \in 0..(slot[p] - 1) \/ s = slot[p]
      BY <2>4, <3>1
    <3>3. \A s \in 0..(slot'[p] - 1) : fixtures'[FixtureAt(s)] = num'[p]
      BY <2>1, <2>6, <3>1, <3>2
    <3>4. SavedSoFar'
      BY <2>1, <2>2, <3>3 DEF SavedSoFar, Saving
    <3> QED BY <1>1, <2>3, <3>4 DEF GInv
  <2> QED BY <1>4, <2>7, <2>8
<1>5. CASE UNCHANGED promotionVars
  BY <1>1, <1>5 DEF promotionVars, vars, GInv, WritersPromote, SavedSoFar
<1> QED BY <1>2, <1>3, <1>4, <1>5 DEF PromotionNext

\* While one process promotes, a promotion that has saved its fixtures finds in the
\* golden set every page it was accepted on, whole, whatever crashes left there
\* before (save_fixtures, promote.py:78).
THEOREM GoldenSetIsCurrent ==
  ASSUME \A p, q \in Writers : p = q
  PROVE  PromotionSpec => []GoldenSetCurrent
<1>1. GInv => GoldenSetCurrent
  <2> SUFFICES ASSUME GInv, NEW p \in Procs, stage[p] \in {"audit", "mirror"},
                      NEW i \in 0..(count[p] - 1), NEW kind \in {"html", "json"}
               PROVE  fixtures[<<i, kind>>] = num[p]
    BY DEF GoldenSetCurrent
  <2>1. count[p] \in Nat /\ slot[p] = 2 * count[p]
    BY DEF GInv, PInv, PromotionTypeOK, SlotOK
  <2>2. PICK s \in 0..(2 * count[p] - 1) : FixtureAt(s) = <<i, kind>>
    BY <2>1, FixtureOrder
  <2> QED BY <2>1, <2>2 DEF GInv, SavedSoFar, Saving
<1>2. GInv /\ [PromotionNext]_promotionVars => GInv'
  BY NextGInv
<1> QED BY InitGInv, <1>1, <1>2, PTL DEF PromotionSpec

-----------------------------------------------------------------------------
(* Rollbacks.  While none is disturbed, a fallback that has served is      *)
(* older than the active version, and so is a target in hand that has      *)
(* served; it is also the newest such fallback.                            *)

Older(m) == \A n \in WithStatus(rows, "active") : m < n
New(m) == m \notin served
Aimed(t) ==
  /\ New(t) \/ Older(t)
  /\ \A m \in WithStatus(rows, "fallback") : New(m) \/ m <= t

InHand == {"open", "fill", "insert"}

Places ==
  \A p \in Procs :
    /\ stage[p] = "idle" => pc[p] \in {"idle", "rollback"}
    /\ stage[p] \in Registered => pc[p] = "idle"
    /\ stage[p] = "add" => pc[p] \notin {"idle", "rollback"}

Newest ==
  \A p \in Procs :
    /\ pc[p] \in InHand => \A m \in DOMAIN rows : m < num[p]
    /\ stage[p] = "activate" => \A m \in DOMAIN rows : m <= num[p]

Behind == calm => \A m \in WithStatus(rows, "fallback") : New(m) \/ Older(m)
Targets == calm => \A p \in Procs : pc[p] = "rollback" => Aimed(num[p])

BInv == GInv /\ Places /\ Newest /\ Behind /\ Targets /\ served \subseteq DOMAIN rows

LEMMA InitBInv == PromotionInit => BInv
<1> SUFFICES ASSUME PromotionInit PROVE BInv
  OBVIOUS
<1>1. GInv
  BY InitGInv
<1>2. DOMAIN rows = {} /\ \A p \in Procs : pc[p] = "idle" /\ stage[p] = "idle"
  BY DEF PromotionInit, Init
<1>3. WithStatus(rows, "fallback") = {}
  BY <1>2 DEF WithStatus
<1> QED BY <1>1, <1>2, <1>3
        DEF BInv, Places, Newest, Behind, Targets, Registered, InHand, PromotionInit

\* Where a step of process p leaves it in promote() and in a method.
LEMMA PlacesKept ==
  ASSUME BInv, NEW p \in Procs,
         \/ Bootstrap(p) \/ Promote(p) \/ Adding(p) \/ Added(p) \/ Activated(p)
         \/ OpenFixture(p) \/ FillFixture(p) \/ FixturesSaved(p)
         \/ WriteAuditRow(p) \/ MirrorLine(p) \/ Rollback(p) \/ ProcessDies(p)
  PROVE  /\ Places'
         /\ \A q \in Procs \ {p} : stage'[q] = stage[q] /\ pc'[q] = pc[q] /\ num'[q] = num[q]
<1>1. /\ stage \in [Procs -> Stages] /\ pc \in [Procs -> {"idle", "lookup", "minimal", "number",
                                                 "open", "fill", "insert", "rollback"}]
      /\ num \in [Procs -> 0..MaxVersion]
  BY DEF BInv, GInv, PInv, PromotionTypeOK, TypeOK, Stages
<1>2. /\ stage[p] = "idle" => pc[p] \in {"idle", "rollback"}
      /\ stage[p] \in Registered => pc[p] = "idle"
      /\ stage[p] = "add" => pc[p] \notin {"idle", "rollback"}
  BY DEF BInv, Places
<1>3. /\ stage' = stage \/ \E to : stage' = [stage EXCEPT ![p] = to]
      /\ pc' = pc \/ \E to : pc' = [pc EXCEPT ![p] = to]
      /\ num' = num \/ \E n : num' = [num EXCEPT ![p] = n]
  BY DEF Bootstrap, Promote, Adding, Added, Activated, OpenFixture, FillFixture, FixturesSaved,
         WriteAuditRow, MirrorLine, Rollback, ProcessDies, Move, Step, vars,
         AddVersion, LookupFamily, AutoCreateFamily, TakeNumber, OpenFile, FillFile, InsertRow,
         UpsertFamily, SetActive, RollbackSelect, RollbackCommit
<1>4. \A q \in Procs \ {p} : stage'[q] = stage[q] /\ pc'[q] = pc[q] /\ num'[q] = num[q]
  BY <1>1, <1>3
<1>5. /\ stage'[p] = "idle" => pc'[p] \in {"idle", "rollback"}
      /\ stage'[p] \in Registered => pc'[p] = "idle"
      /\ stage'[p] = "add" => pc'[p] \notin {"idle", "rollback"}
  <2>1. CASE Bootstrap(p) \/ Promote(p) \/ Adding(p)
    BY <1>1, <1>2, <2>1 DEF Bootstrap, Promote, Adding, Move, Step, Registered,
         AddVersion, LookupFamily, AutoCreateFamily, TakeNumber, OpenFile, FillFile, UpsertFamily
  <2>2. CASE Added(p) \/ Activated(p) \/ Rollback(p) \/ ProcessDies(p)
    BY <1>1, <1>2, <2>2 DEF Added, Activated, Rollback, ProcessDies, Move, Step, Registered,
         InsertRow, SetActive, RollbackSelect, RollbackCommit
  <2>3. CASE \/ OpenFixture(p) \/ FillFixture(p) \/ FixturesSaved(p)
             \/ WriteAuditRow(p) \/ MirrorLine(p)
    BY <1>1, <1>2, <2>3 DEF OpenFixture, FillFixture, FixturesSaved, WriteAuditRow, MirrorLine,
         Move, Registered, vars
  <2> QED BY <2>1, <2>2, <2>3
<1>6. Places'
  BY <1>4, <1>5 DEF BInv, Places
<1> QED BY <1>4, <1>6

\* A step that changes no row, and takes only numbers and targets that are right.
LEMMA QuietBInv ==
  ASSUME BInv, GInv', Places', rows' = rows, served' = served, calm' => calm,
         \A q \in Procs :
           /\ pc'[q] \in InHand => \/ pc[q] \in InHand /\ num'[q] = num[q]
                                   \/ \A m \in DOMAIN rows : m < num'[q]
           /\ stage'[q] = "activate" => stage[q] = "activate" /\ num'[q] = num[q]
           /\ calm' /\ pc'[q] = "rollback" => \/ pc[q] = "rollback" /\ num'[q] = num[q]
                                              \/ Aimed(num'[q])
  PROVE  BInv'
<1>1. Newest'
  BY DEF BInv, Newest
<1>2. \A m : New(m) <=> New(m)'
  BY DEF New
<1>3. \A m : Older(m)' <=> Older(m)
  BY DEF Older, WithStatus
<1>4. Behind'
  BY <1>2, <1>3 DEF BInv, Behind, WithStatus
<1>5. ASSUME calm', NEW q \in Procs, pc'[q] = "rollback"
      PROVE  Aimed(num[q])'
  <2>1. Aimed(num'[q])
    BY <1>5 DEF BInv, Targets
  <2> QED BY <1>2, <1>3, <1>5, <2>1 DEF Aimed, WithStatus
<1>6. Targets'
  BY <1>5 DEF Targets
<1> QED BY <1>1, <1>4, <1>6 DEF BInv

\* The INSERT: the number is above every row's, and its row waits to be activated.
LEMMA AddedBInv ==
  ASSUME \A p, q \in Writers : p = q, BInv, GInv', NEW p \in Procs, Added(p)
  PROVE  BInv'
<1> DEFINE n == num[p]
<1>1. /\ Places'
      /\ \A q \in Procs \ {p} : stage'[q] = stage[q] /\ pc'[q] = pc[q] /\ num'[q] = num[q]
  BY PlacesKept
<1>2. /\ pc[p] = "insert" /\ pc' = [pc EXCEPT ![p] = "idle"] /\ num' = num /\ calm' = calm
      /\ n \in Nat /\ \A m \in DOMAIN rows : m \in Nat /\ m < n
  BY DEF Added, InsertRow, Step, BInv, Newest, InHand, GInv, PInv, RInv, TypeOK, Numbers
<1>3. n \notin DOMAIN rows
  BY <1>2
<1>4. /\ DOMAIN rows' = DOMAIN rows \cup {n} /\ rows'[n].status = "fallback"
      /\ \A m \in DOMAIN rows : rows'[m] = rows[m]
  BY <1>3 DEF Added, InsertRow, Inserted
<1>5. stage[p] = "add" /\ stage' = [stage EXCEPT ![p] = "activate"]
  BY <1>3 DEF Added, Move
<1>6. stage'[p] = "activate" /\ pc'[p] = "idle"
  BY <1>2, <1>5 DEF BInv, GInv, PInv, PromotionTypeOK, RInv, TypeOK
<1>7. \A q \in Procs \ {p} : stage[q] = "idle" /\ pc[q] \in {"idle", "rollback"}
  BY <1>5 DEF BInv, GInv, WritersPromote, Places
<1>8. Newest'
  <2>1. \A m \in DOMAIN rows' : m <= n
    BY <1>2, <1>4
  <2> QED BY <1>1, <1>2, <1>6, <1>7, <2>1 DEF Newest, InHand
<1>9. /\ WithStatus(rows', "active") = WithStatus(rows, "active")
      /\ WithStatus(rows', "fallback") = WithStatus(rows, "fallback") \cup {n}
  BY <1>3, <1>4 DEF WithStatus
<1>10. served' = served /\ (\A m : New(m)' <=> New(m)) /\ \A m : m = n => New(m)
  BY <1>3 DEF Added, New, BInv
<1>11. \A m : Older(m)' <=> Older(m)
  BY <1>9 DEF Older
<1> HIDE DEF n
<1>12. Behind'
  <2> SUFFICES ASSUME calm', NEW m \in WithStatus(rows', "fallback")
               PROVE  New(m)' \/ Older(m)'
    BY DEF Behind
  <2>1. m # n => New(m) \/ Older(m)
    BY <1>2, <1>9 DEF BInv, Behind
  <2> QED BY <1>10, <1>11, <2>1
<1>13. Targets'
  <2> SUFFICES ASSUME calm', NEW q \in Procs, pc'[q] = "rollback"
               PROVE  Aimed(num[q])'
    BY DEF Targets
  <2>1. Aimed(num[q])
    BY <1>1, <1>2, <1>6 DEF BInv, Targets
  <2>2. ASSUME NEW m \in WithStatus(rows', "fallback")
        PROVE  New(m)' \/ m <= num[q]
    BY <1>9, <1>10, <2>1 DEF Aimed
  <2>3. New(num[q])' \/ Older(num[q])'
    BY <1>2, <1>10, <1>11, <2>1 DEF Aimed
  <2> QED BY <1>2, <2>2, <2>3 DEF Aimed, New, Older
<1>14. served' \subseteq DOMAIN rows'
  BY <1>4, <1>10 DEF BInv
<1> QED BY <1>1, <1>8, <1>12, <1>13, <1>14 DEF BInv

\* set_active of the newest row: every other is older.
LEMMA ActivatedBInv ==
  ASSUME \A p, q \in Writers : p = q, BInv, GInv', NEW p \in Procs, Activated(p)
  PROVE  BInv'
<1> DEFINE n == num[p]
<1>1. /\ Places'
      /\ \A q \in Procs \ {p} : stage'[q] = stage[q] /\ pc'[q] = pc[q] /\ num'[q] = num[q]
  BY PlacesKept
<1>2. /\ stage[p] = "activate" /\ stage' = [stage EXCEPT ![p] = "open"] /\ pc[p] = "idle"
      /\ pc' = pc /\ num' = num /\ (calm' => Undisturbed(p))
      /\ n \in DOMAIN rows /\ "fallback" \in Statuses
      /\ rows' = PromoteRung(rows, n, "fallback")
  BY DEF Activated, Move, SetActive, Activate, PromoteRung, Statuses
<1>3. RowsOK(rows)
  BY DEF BInv, GInv, PInv, RInv, TypeOK, RowsOK
<1>4. DOMAIN rows' = DOMAIN rows /\ WithStatus(rows', "active") = {n}
  BY <1>2, <1>3, PromoteProperties
<1>5. \A q \in Procs \ {p} : stage[q] = "idle" /\ pc[q] \in {"idle", "rollback"}
  BY <1>2 DEF BInv, GInv, WritersPromote, Places
<1>6. stage'[p] = "open"
  BY <1>2 DEF BInv, GInv, PInv, PromotionTypeOK
<1>7. Newest'
  BY <1>1, <1>2, <1>5, <1>6 DEF Newest, InHand
<1>8. Behind'
  <2> SUFFICES ASSUME NEW m \in WithStatus(rows', "fallback")
               PROVE  Older(m)'
    BY DEF Behind
  <2>1. m \in DOMAIN rows /\ m # n
    <3>1. "fallback" # "active" /\ n \in WithStatus(rows', "active")
      BY <1>4
    <3> QED BY <1>4, <3>1 DEF WithStatus
  <2>2. m <= n /\ m \in Nat /\ n \in Nat
    BY <1>2, <1>3, <2>1 DEF BInv, Newest, RowsOK, Numbers
  <2> QED BY <1>4, <2>1, <2>2 DEF Older
<1>9. Targets'
  BY <1>2 DEF Targets, Undisturbed
<1>10. served' \subseteq DOMAIN rows'
  BY <1>2, <1>4 DEF BInv, Activated
<1> QED BY <1>1, <1>7, <1>8, <1>9, <1>10 DEF BInv

\* rollback's transaction: the target was the newest fallback, the active version
\* is archived.
LEMMA RollbackCommitBInv ==
  ASSUME BInv, GInv', NEW p \in Procs, Rollback(p), RollbackCommit(p)
  PROVE  BInv'
<1> DEFINE t == num[p]
<1>1. /\ Places'
      /\ \A q \in Procs \ {p} : stage'[q] = stage[q] /\ pc'[q] = pc[q] /\ num'[q] = num[q]
  BY PlacesKept
<1>2. /\ pc[p] = "rollback" /\ pc' = [pc EXCEPT ![p] = "idle"] /\ num' = num
      /\ stage[p] = "idle" /\ stage' = stage
      /\ "archived" \in Statuses /\ rows' = PromoteRung(rows, t, "archived")
  BY DEF Rollback, RollbackCommit, Step, RolledBack, PromoteRung, Statuses
<1>3. RowsOK(rows) /\ t \in DOMAIN rows
  BY <1>2 DEF BInv, GInv, PInv, RInv, TypeOK, RowsOK, LocalsOK
<1>4. /\ DOMAIN rows' = DOMAIN rows /\ WithStatus(rows', "active") = {t}
      /\ \A m \in DOMAIN rows \ {t} :
           rows'[m].status = IF rows[m].status = "active" THEN "archived" ELSE rows[m].status
  BY <1>2, <1>3, PromoteProperties
<1>5. pc'[p] = "idle"
  BY <1>2 DEF BInv, GInv, PInv, RInv, TypeOK
<1>6. (calm' => calm /\ Undisturbed(p)) /\ served' = served \cup {t}
  BY <1>2 DEF Rollback, RollbackSelect, Step
<1>7. Newest'
  BY <1>1, <1>2, <1>4, <1>5 DEF BInv, Newest, InHand
<1>8. Behind'
  <2> SUFFICES ASSUME calm', NEW m \in WithStatus(rows', "fallback")
               PROVE  New(m)' \/ Older(m)'
    BY DEF Behind
  <2>1. m \in DOMAIN rows /\ m # t /\ rows'[m].status = "fallback"
    <3>1. "fallback" # "active" /\ t \in WithStatus(rows', "active")
      BY <1>4
    <3> QED BY <1>4, <3>1 DEF WithStatus
  <2>2. m \in WithStatus(rows, "fallback")
    BY <1>4, <2>1 DEF WithStatus
  <2>3. New(m) \/ m <= t
    BY <1>2, <1>6, <2>2 DEF BInv, Targets, Aimed
  <2>4. New(m) => New(m)'
    BY <1>6, <2>1 DEF New
  <2>5. m <= t => Older(m)'
    <3>1. m \in Nat /\ t \in Nat
      BY <1>3, <2>1 DEF RowsOK, Numbers
    <3> QED BY <1>4, <2>1, <3>1 DEF Older
  <2> QED BY <2>3, <2>4, <2>5
<1>9. Targets'
  BY <1>1, <1>5, <1>6 DEF Targets, Undisturbed
<1>10. served' \subseteq DOMAIN rows'
  BY <1>3, <1>4, <1>6 DEF BInv
<1> QED BY <1>1, <1>7, <1>8, <1>9, <1>10 DEF BInv

\* rollback's SELECT: the newest fallback.
LEMMA RollbackSelectBInv ==
  ASSUME BInv, GInv', NEW p \in Procs, Rollback(p), RollbackSelect(p)
  PROVE  BInv'
<1> DEFINE S == WithStatus(rows, "fallback")
           t == RollbackTarget(rows)
<1>1. /\ Places'
      /\ \A q \in Procs \ {p} : stage'[q] = stage[q] /\ pc'[q] = pc[q] /\ num'[q] = num[q]
  BY PlacesKept
<1>2. /\ S # {} /\ pc[p] = "idle" /\ pc' = [pc EXCEPT ![p] = "rollback"]
      /\ num' = [num EXCEPT ![p] = t] /\ rows' = rows
      /\ stage[p] = "idle" /\ stage' = stage
  BY DEF Rollback, RollbackSelect, Step
<1>3. pc'[p] = "rollback" /\ num'[p] = t
  BY <1>2 DEF BInv, GInv, PInv, RInv, TypeOK
<1>4. (calm' => calm) /\ served' = served
  BY <1>2 DEF Rollback, RollbackCommit, Step
<1>5. t \in S /\ \A m \in S : m <= t
  <2>1. MaxVersion \in Nat /\ S \in SUBSET (0..MaxVersion)
    BY RegistryAssumption DEF BInv, GInv, PInv, RInv, TypeOK, Numbers, WithStatus
  <2> HIDE DEF S
  <2>2. Max(S) \in S /\ \A m \in S : Max(S) >= m
    BY <1>2, <2>1, MaxProperties
  <2>3. \A m \in S : m <= Max(S)
    BY <2>1, <2>2
  <2> QED BY <2>2, <2>3 DEF RollbackTarget, S
<1>6. calm' => Aimed(t)
  BY <1>4, <1>5 DEF BInv, Behind, Aimed
<1> HIDE DEF S, t
<1>7. ASSUME NEW q \in Procs
      PROVE  /\ pc'[q] \in InHand => pc[q] \in InHand /\ num'[q] = num[q]
             /\ stage'[q] = "activate" => stage[q] = "activate" /\ num'[q] = num[q]
             /\ calm' /\ pc'[q] = "rollback" => \/ pc[q] = "rollback" /\ num'[q] = num[q]
                                                \/ Aimed(num'[q])
  <2>1. CASE q = p
    BY <1>2, <1>3, <1>6, <2>1 DEF InHand
  <2>2. CASE q # p
    BY <1>1, <2>2
  <2> QED BY <2>1, <2>2
<1> QED BY <1>1, <1>2, <1>4, <1>7, QuietBInv

LEMMA NextBInv ==
  ASSUME \A p, q \in Writers : p = q, BInv, [PromotionNext]_promotionVars
  PROVE  BInv' /\ (calm' => calm)
<1>1. GInv'
  BY NextGInv DEF BInv
<1>2. ASSUME NEW p \in Procs,
             \/ Bootstrap(p) \/ Promote(p) \/ Adding(p) \/ OpenFixture(p) \/ FillFixture(p)
             \/ FixturesSaved(p) \/ WriteAuditRow(p) \/ MirrorLine(p) \/ ProcessDies(p)
      PROVE  BInv' /\ (calm' => calm)
  <2>1. /\ Places'
        /\ \A q \in Procs \ {p} : stage'[q] = stage[q] /\ pc'[q] = pc[q] /\ num'[q] = num[q]
    BY <1>2, PlacesKept
  <2>2. rows' = rows /\ served' = served /\ calm' = calm
    BY <1>2 DEF Bootstrap, Promote, Adding, OpenFixture, FillFixture, FixturesSaved,
                WriteAuditRow, MirrorLine, ProcessDies, vars, AddVersion, LookupFamily,
                AutoCreateFamily, TakeNumber, OpenFile, FillFile, UpsertFamily
  <2>3. stage'[p] # "activate" \/ (stage[p] = "activate" /\ num'[p] = num[p])
    BY <1>2 DEF Bootstrap, Promote, Adding, OpenFixture, FillFixture, FixturesSaved,
                WriteAuditRow, MirrorLine, ProcessDies, Move, vars, UpsertFamily,
                BInv, GInv, PInv, PromotionTypeOK
  <2>4. pc'[p] = "rollback" => pc[p] = "rollback" /\ num'[p] = num[p]
    <3>1. CASE Promote(p) \/ Adding(p)
      BY <3>1 DEF Promote, Adding, Step, AddVersion, LookupFamily, AutoCreateFamily, TakeNumber,
                  OpenFile, FillFile, BInv, GInv, PInv, RInv, TypeOK
    <3>2. CASE ProcessDies(p)
      BY <3>2 DEF ProcessDies, BInv, GInv, PInv, RInv, TypeOK
    <3>3. CASE ~(Promote(p) \/ Adding(p) \/ ProcessDies(p))
      BY <1>2, <3>3 DEF Bootstrap, OpenFixture, FillFixture, FixturesSaved, WriteAuditRow,
                        MirrorLine, vars, UpsertFamily
    <3> QED BY <3>1, <3>2, <3>3
  <2>5. pc'[p] \in InHand => \/ pc[p] \in InHand /\ num'[p] = num[p]
                             \/ \A m \in DOMAIN rows : m < num'[p]
    <3>1. CASE Adding(p) /\ TakeNumber(p)
      <4>1. num'[p] = NextVersion(rows)
        BY <3>1 DEF TakeNumber, BInv, GInv, PInv, RInv, TypeOK
      <4>2. MaxVersion \in Nat /\ DOMAIN rows \subseteq 0..MaxVersion
        BY RegistryAssumption DEF BInv, GInv, PInv, RInv, TypeOK, Numbers
      <4> QED BY <4>1, <4>2, FreshVersion
    <3>2. CASE ~(Adding(p) /\ TakeNumber(p))
      BY <1>2, <3>2
         DEF Bootstrap, Promote, Adding, OpenFixture, FillFixture, FixturesSaved,
             WriteAuditRow, MirrorLine, ProcessDies, Move, Step, vars, InHand,
             AddVersion, LookupFamily, AutoCreateFamily, OpenFile, FillFile, UpsertFamily,
             BInv, GInv, PInv, RInv, TypeOK
    <3> QED BY <3>1, <3>2
  <2>6. ASSUME NEW q \in Procs
        PROVE  /\ pc'[q] \in InHand => \/ pc[q] \in InHand /\ num'[q] = num[q]
                                       \/ \A m \in DOMAIN rows : m < num'[q]
               /\ stage'[q] = "activate" => stage[q] = "activate" /\ num'[q] = num[q]
               /\ calm' /\ pc'[q] = "rollback" => \/ pc[q] = "rollback" /\ num'[q] = num[q]
                                                  \/ Aimed(num'[q])
    <3>1. CASE q = p
      BY <2>2, <2>3, <2>4, <2>5, <3>1
    <3>2. CASE q # p
      BY <2>1, <3>2
    <3> QED BY <3>1, <3>2
  <2> QED BY <1>1, <2>1, <2>2, <2>6, QuietBInv
<1>3. ASSUME NEW p \in Procs, Added(p) PROVE BInv' /\ (calm' => calm)
  BY <1>1, <1>3, AddedBInv DEF Added
<1>4. ASSUME NEW p \in Procs, Activated(p) PROVE BInv' /\ (calm' => calm)
  BY <1>1, <1>4, ActivatedBInv DEF Activated
<1>5. ASSUME NEW p \in Procs, Rollback(p) PROVE BInv' /\ (calm' => calm)
  <2>1. RollbackSelect(p) \/ RollbackCommit(p)
    BY <1>5 DEF Rollback
  <2>2. calm' => calm
    BY <1>5 DEF Rollback
  <2> QED BY <1>1, <1>5, <2>1, <2>2, RollbackSelectBInv, RollbackCommitBInv
<1>6. CASE UNCHANGED promotionVars
  <2>1. UNCHANGED <<rows, pc, num, stage, calm, served>>
    BY <1>6 DEF promotionVars, vars
  <2>2. Places'
    BY <2>1 DEF BInv, Places
  <2> QED BY <1>1, <2>1, <2>2, QuietBInv
<1> QED BY <1>2, <1>3, <1>4, <1>5, <1>6 DEF PromotionNext

\* While one process promotes and no rollback is disturbed, a rollback goes to an
\* older version or to one that was registered and never active, wherever promotions
\* were cut short before (Registry.rollback's choice of the highest fallback): it
\* never returns to a newer version that has served.
THEOREM RollbacksNeverReturn ==
  ASSUME \A p, q \in Writers : p = q
  PROVE  PromotionSpec => RollbackNeverReturns
<1>1. BInv /\ [PromotionNext]_promotionVars => BInv'
  BY NextBInv
<1>2. BInv /\ [PromotionNext]_promotionVars
        => [\A p \in Procs :
              RollbackCommit(p) /\ calm' =>
                \/ num[p] \notin served
                \/ \A n \in WithStatus(rows, "active") : num[p] < n]_promotionVars
  <2> SUFFICES ASSUME BInv, [PromotionNext]_promotionVars,
                      NEW p \in Procs, RollbackCommit(p), calm'
               PROVE  num[p] \notin served \/ \A n \in WithStatus(rows, "active") : num[p] < n
    OBVIOUS
  <2>1. calm
    BY NextBInv
  <2>2. pc[p] = "rollback"
    BY DEF RollbackCommit, Step
  <2> QED BY <2>1, <2>2 DEF BInv, Targets, Aimed, Older, New
<1> QED BY InitBInv, <1>1, <1>2, PTL DEF PromotionSpec, RollbackNeverReturns
=============================================================================

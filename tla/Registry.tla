------------------------------ MODULE Registry ------------------------------
(***************************************************************************)
(* The registry of crawloop (crawloop/registry.py, crawloop/migrations.sql)*)
(* for one page family: the `versions` rows, the crawler files on disk and *)
(* the `families` row, shared by the processes that open the same store.   *)
(*                                                                         *)
(* Every Registry method is synchronous, so inside one process nothing     *)
(* interleaves with it; between two processes (an Engine and a             *)
(* `crawloop loop run`) anything may happen between two of its file or SQL *)
(* steps, and a process may die there.  A method is therefore one action   *)
(* per step that touches the disk or the database.                         *)
(***************************************************************************)
EXTENDS VersionLadder, FiniteSets

CONSTANTS
  Procs,        \* the processes that share the store
  Writers,      \* those that bootstrap families and register versions
  Sources,      \* crawler sources a caller may register
  Safe,         \* the sources the AST gate accepts
  MaxVersion,   \* bound on version numbers
  Absent,       \* no such file
  Torn          \* a file opened for writing and not written yet

ASSUME RegistryAssumption ==
  /\ Writers \subseteq Procs
  /\ Safe \subseteq Sources
  /\ MaxVersion \in Nat
  /\ Absent \notin Sources /\ Torn \notin Sources

VARIABLES
  rows,      \* the versions table: n -> [status, sha]
  files,     \* crawlers_dir/<family_dir>/v<n>.py
  family,    \* the families row: none, minimal (no patterns), or routed
  pc,        \* where each process is inside a method
  src, num   \* its local variables: source, and n or the rollback target

vars == <<rows, files, family, pc, src, num>>

Numbers == 1..MaxVersion
Row == [status : Statuses, sha : Sources]

TypeOK ==
  /\ DOMAIN rows \subseteq Numbers
  /\ \A n \in DOMAIN rows : rows[n] \in Row
  /\ files \in [Numbers -> Sources \cup {Absent, Torn}]
  /\ family \in {"none", "minimal", "routed"}
  /\ pc \in [Procs -> {"idle", "lookup", "minimal", "number", "open", "fill",
                       "insert", "rollback"}]
  /\ src \in [Procs -> Sources]
  /\ num \in [Procs -> 0..MaxVersion]

Init ==
  /\ rows = [n \in {} |-> 0]
  /\ files = [n \in Numbers |-> Absent]
  /\ family = "none"
  /\ pc = [p \in Procs |-> "idle"]
  /\ src \in [Procs -> Sources] /\ \A p, q \in Procs : src[p] = src[q]
  /\ num = [p \in Procs |-> 0]

Step(p, from, to) == pc[p] = from /\ pc' = [pc EXCEPT ![p] = to]

-----------------------------------------------------------------------------
(* add_version, step by step.                                              *)

\* ast_check first: an unsafe source raises and leaves no trace.
AddVersion(p) ==
  /\ p \in Writers
  /\ Step(p, "idle", "lookup")
  /\ src' \in {[src EXCEPT ![p] = s] : s \in Safe}
  /\ UNCHANGED <<rows, files, family, num>>

\* get_family(family) is None ?
LookupFamily(p) ==
  /\ \/ family = "none" /\ Step(p, "lookup", "minimal")
     \/ family # "none" /\ Step(p, "lookup", "number")
  /\ UNCHANGED <<rows, files, family, src, num>>

\* upsert_family(family, [], ""): ON CONFLICT overwrites patterns and schema.
AutoCreateFamily(p) ==
  /\ Step(p, "minimal", "number")
  /\ family' = "minimal"
  /\ UNCHANGED <<rows, files, src, num>>

TakeNumber(p) ==
  /\ NextVersion(rows) <= MaxVersion
  /\ Step(p, "number", "open")
  /\ num' = [num EXCEPT ![p] = NextVersion(rows)]
  /\ UNCHANGED <<rows, files, family, src>>

\* path.write_text truncates the file, then writes it.
OpenFile(p) ==
  /\ Step(p, "open", "fill")
  /\ files' = [files EXCEPT ![num[p]] = Torn]
  /\ UNCHANGED <<rows, family, src, num>>

FillFile(p) ==
  /\ Step(p, "fill", "insert")
  /\ files' = [files EXCEPT ![num[p]] = src[p]]
  /\ UNCHANGED <<rows, family, src, num>>

\* INSERT ... 'fallback' ... commit; the primary key refuses a taken n.
InsertRow(p) ==
  /\ Step(p, "insert", "idle")
  /\ rows' = IF num[p] \in DOMAIN rows THEN rows
             ELSE Inserted(rows, num[p], [status |-> "fallback", sha |-> src[p]])
  /\ UNCHANGED <<files, family, src, num>>

-----------------------------------------------------------------------------
(* The other methods that change the family's state.                       *)

\* The Engine's bootstrap: upsert_family with a URL pattern and a schema.
UpsertFamily(p) ==
  /\ p \in Writers
  /\ pc[p] = "idle"
  /\ family' = "routed"
  /\ UNCHANGED <<rows, files, pc, src, num>>

\* Mutant: the demotion commits on its own, before the promotion.
SetActive_DemotesFirst(p, n) ==
  /\ pc[p] = "idle" /\ n \in DOMAIN rows
  /\ LET active == WithStatus(rows, "active")
     IN  rows' = IF active = {} THEN Activate(rows, n)
                 ELSE Restatus(rows, active, "fallback")
  /\ UNCHANGED <<files, family, pc, src, num>>

\* LookupError when n has no row; demote and promote are one transaction.
SetActive(p, n) ==
  /\ pc[p] = "idle" /\ n \in DOMAIN rows
  /\ rows' = Activate(rows, n)
  /\ UNCHANGED <<files, family, pc, src, num>>

\* rollback selects its target before its transaction begins.
RollbackSelect(p) ==
  /\ WithStatus(rows, "fallback") # {}
  /\ Step(p, "idle", "rollback")
  /\ num' = [num EXCEPT ![p] = RollbackTarget(rows)]
  /\ UNCHANGED <<rows, files, family, src>>

RollbackCommit(p) ==
  /\ Step(p, "rollback", "idle")
  /\ rows' = RolledBack(rows, num[p])
  /\ UNCHANGED <<files, family, src, num>>

\* The process dies, or a step raises (disk full, database is locked): the
\* method is abandoned where it stands.
Crash(p) ==
  /\ pc[p] # "idle"
  /\ pc' = [pc EXCEPT ![p] = "idle"]
  /\ UNCHANGED <<rows, files, family, src, num>>

Next ==
  \E p \in Procs :
    \/ AddVersion(p) \/ LookupFamily(p) \/ AutoCreateFamily(p)
    \/ TakeNumber(p) \/ OpenFile(p) \/ FillFile(p) \/ InsertRow(p)
    \/ UpsertFamily(p) \/ (\E n \in Numbers : SetActive(p, n))
    \/ RollbackSelect(p) \/ RollbackCommit(p) \/ Crash(p)

Spec == Init /\ [][Next]_vars

-----------------------------------------------------------------------------
(* load_crawler: what loading version n yields, in the order of its checks.*)

LoadOutcome(n) ==
  IF n \notin DOMAIN rows THEN "LookupError" ELSE
  IF files[n] = Absent THEN "FileNotFoundError" ELSE
  IF files[n] \notin Safe THEN "ASTViolation" ELSE
  IF files[n] # rows[n].sha THEN "IntegrityError" ELSE "ok"

-----------------------------------------------------------------------------
(* Properties.                                                             *)

\* However calls of several processes interleave, at most one version of the
\* family is active: set_active and rollback each retire every active row in
\* the transaction that promotes another.
AtMostOneActive == Cardinality(WithStatus(rows, "active")) <= 1

\* A family that has an active version never goes back to having none: no
\* failed call, crash or race strands it.
NeverUnserved ==
  [][WithStatus(rows, "active") # {} => WithStatus(rows, "active")' # {}]_vars

\* While one process registers versions, every registered version can be loaded:
\* add_version gates, numbers and writes the file before the row exists, so a
\* crash at any point leaves at worst an orphan file and never a row whose file
\* is missing, torn or changed.
EveryRungLoads == \A n \in DOMAIN rows : LoadOutcome(n) = "ok"

\* One immutable artifact per (family, n), while one process registers: neither the row's hash nor the file
\* of a registered version ever changes, and no row disappears.
ArtifactsImmutable ==
  [][\A n \in DOMAIN rows :
       /\ n \in DOMAIN rows' /\ rows'[n].sha = rows[n].sha
       /\ files'[n] = files[n]]_vars
=============================================================================

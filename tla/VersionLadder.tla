---------------------------- MODULE VersionLadder ----------------------------
(***************************************************************************)
(* The version ladder of one page family as pure operators: the rows of    *)
(* the `versions` table are a function from a version number to a record   *)
(* with a `status`, and each operator is the effect of one SQL statement   *)
(* or transaction of crawloop/registry.py on that table.                   *)
(***************************************************************************)
EXTENDS Ordering, SequencesExt

Statuses == {"active", "fallback", "archived"}

WithStatus(rows, status) == {n \in DOMAIN rows : rows[n].status = status}

\* UPDATE versions SET status = ... WHERE n IN S
Restatus(rows, S, status) ==
  [n \in DOMAIN rows |-> IF n \in S THEN [rows[n] EXCEPT !.status = status]
                                    ELSE rows[n]]

\* The INSERT of add_version: a new row is a fallback until it is promoted.
Inserted(rows, n, row) ==
  [m \in DOMAIN rows \cup {n} |-> IF m = n THEN row ELSE rows[m]]

\* Mutant: archived numbers are reused.
NextVersion_IgnoresArchived(rows) ==
  1 + Max({0} \cup (DOMAIN rows \ WithStatus(rows, "archived")))

NextVersion(rows) == 1 + Max({0} \cup DOMAIN rows)

\* Mutant: the old active rung is not demoted.
Activate_NoDemote(rows, n) == Restatus(rows, {n}, "active")

Activate(rows, n) ==
  Restatus(Restatus(rows, WithStatus(rows, "active"), "fallback"), {n}, "active")

\* Mutant: any inactive rung is a rollback target, archived ones included.
RollbackTarget_AnyRung(rows) == Max(DOMAIN rows \ WithStatus(rows, "active"))

\* Defined only when the family has a fallback (LookupError otherwise).
RollbackTarget(rows) == Max(WithStatus(rows, "fallback"))

RolledBack(rows, target) ==
  Restatus(Restatus(rows, WithStatus(rows, "active"), "archived"),
           {target}, "active")

\* ORDER BY (status = 'active') DESC, n DESC: archived rungs are in the list.
Precedes(rows, m, n) ==
  \/ rows[m].status = "active" /\ rows[n].status # "active"
  \/ (rows[m].status = "active") = (rows[n].status = "active") /\ m > n

LadderOf(rows) ==
  SortedBy(DOMAIN rows, {p \in (DOMAIN rows) \X (DOMAIN rows) : Precedes(rows, p[1], p[2])})
==============================================================================

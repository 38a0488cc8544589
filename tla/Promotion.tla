----------------------------- MODULE Promotion -----------------------------
(***************************************************************************)
(* promote() of crawloop/loop/promote.py over the Registry: register the   *)
(* winning source, make it active, overwrite the family's golden fixtures  *)
(* and write the audit entry with the version's residual fields.           *)
(*                                                                         *)
(* promote() runs without an await, so no task of the same process sees it *)
(* half done; the process can still die between two of its file or SQL     *)
(* steps, and what it leaves is what the next loop starts from.            *)
(*                                                                         *)
(* A fixture's content is the number of the version whose promotion wrote  *)
(* it: that is all the properties tell apart.                              *)
(***************************************************************************)
EXTENDS Registry, Integers

CONSTANTS
  MaxSamples,   \* n_samples
  Counts,       \* how many samples a promotion may come with
  Fields,       \* schema fields a version may leave blank
  MaxCrashes    \* bound on process crashes

ASSUME PromotionAssumption ==
  /\ MaxSamples \in Nat \ {0}
  /\ Counts \subseteq 1..MaxSamples /\ Counts # {}
  /\ MaxCrashes \in Nat

VARIABLES
  stage,      \* where each process is inside promote()
  slot,       \* the fixture file it writes next
  count,      \* len(samples)
  residual,   \* ghost: version -> the residual set its promotion computed
  fixtures,   \* <<index, "html" | "json">> -> content
  audit,      \* the promote rows of the audit table, oldest first
  mirror,     \* audit.jsonl
  crashes,
  calm,       \* history: nothing has changed the active version in the middle of a rollback
  served      \* history: the versions that have been active

promotionVars ==
  <<vars, stage, slot, count, residual, fixtures, audit, mirror, crashes, calm, served>>

Indices == 0..(MaxSamples - 1)
FixtureFiles == Indices \X {"html", "json"}
Entry == [to : 1..MaxVersion, residual : SUBSET Fields]

PromotionTypeOK ==
  /\ TypeOK
  /\ stage \in [Procs -> {"idle", "add", "activate", "open", "fill", "audit", "mirror"}]
  /\ slot \in [Procs -> 0..(2 * MaxSamples)]
  /\ count \in [Procs -> 1..MaxSamples]
  /\ residual \in [1..MaxVersion -> SUBSET Fields]
  /\ fixtures \in [FixtureFiles -> (1..MaxVersion) \cup {Absent, Torn}]
  /\ audit \in Seq(Entry) /\ mirror \in Seq(Entry)
  /\ crashes \in 0..MaxCrashes /\ calm \in BOOLEAN /\ served \subseteq 1..MaxVersion

PromotionInit ==
  /\ Init
  /\ stage = [p \in Procs |-> "idle"]
  /\ slot = [p \in Procs |-> 0]
  /\ count = [p \in Procs |-> 1]
  /\ residual = [n \in 1..MaxVersion |-> {}]
  /\ fixtures = [f \in FixtureFiles |-> Absent]
  /\ audit = <<>> /\ mirror = <<>>
  /\ crashes = 0 /\ calm = TRUE /\ served = {}

Move(p, from, to) == stage[p] = from /\ stage' = [stage EXCEPT ![p] = to]

-----------------------------------------------------------------------------
\* The Engine's bootstrap of the family, between promotions.
Bootstrap(p) ==
  /\ stage[p] = "idle"
  /\ UpsertFamily(p)
  /\ UNCHANGED <<stage, slot, count, residual, fixtures, audit, mirror, crashes, calm, served>>

Promote(p) ==
  /\ NextVersion(rows) <= MaxVersion
  /\ Move(p, "idle", "add")
  /\ AddVersion(p)
  /\ \E k \in Counts : count' = [count EXCEPT ![p] = k]
  /\ UNCHANGED <<slot, residual, fixtures, audit, mirror, crashes, calm, served>>

\* add_version in progress, up to its INSERT.
Adding(p) ==
  /\ stage[p] = "add"
  /\ \/ LookupFamily(p) \/ AutoCreateFamily(p) \/ TakeNumber(p)
     \/ OpenFile(p) \/ FillFile(p)
  /\ UNCHANGED <<stage, slot, count, residual, fixtures, audit, mirror, crashes, calm, served>>

\* The INSERT: add_version returns n, or raises when n was taken meanwhile.
Added(p) ==
  /\ InsertRow(p)
  /\ IF num[p] \in DOMAIN rows
     THEN Move(p, "add", "idle") /\ UNCHANGED residual
     ELSE /\ Move(p, "add", "activate")
          /\ \E R \in SUBSET Fields : residual' = [residual EXCEPT ![num[p]] = R]
  /\ UNCHANGED <<slot, count, fixtures, audit, mirror, crashes, calm, served>>

\* No other process stands between choosing a rollback target and using it.
Undisturbed(p) == \A q \in Procs \ {p} : pc[q] # "rollback"

Activated(p) ==
  /\ Move(p, "activate", "open")
  /\ SetActive(p, num[p])
  /\ slot' = [slot EXCEPT ![p] = 0]
  /\ calm' = (calm /\ Undisturbed(p))
  /\ served' = served \cup {num[p]}
  /\ UNCHANGED <<count, residual, fixtures, audit, mirror, crashes>>

\* save_fixtures writes sample_0.html, sample_0.json, sample_1.html, ...
FixtureAt(s) == <<s \div 2, IF s % 2 = 0 THEN "html" ELSE "json">>

OpenFixture(p) ==
  /\ slot[p] < 2 * count[p]
  /\ Move(p, "open", "fill")
  /\ fixtures' = [fixtures EXCEPT ![FixtureAt(slot[p])] = Torn]
  /\ UNCHANGED <<vars, slot, count, residual, audit, mirror, crashes, calm, served>>

FillFixture(p) ==
  /\ Move(p, "fill", "open")
  /\ fixtures' = [fixtures EXCEPT ![FixtureAt(slot[p])] = num[p]]
  /\ slot' = [slot EXCEPT ![p] = @ + 1]
  /\ UNCHANGED <<vars, count, residual, audit, mirror, crashes, calm, served>>

\* Mutant: an existing golden set is kept.
FixturesSaved_IfMissing(p) ==
  /\ slot[p] = 2 * count[p] \/ (slot[p] = 0 /\ fixtures[<<0, "html">>] # Absent)
  /\ Move(p, "open", "audit")
  /\ UNCHANGED <<vars, slot, count, residual, fixtures, audit, mirror, crashes, calm, served>>

FixturesSaved(p) ==
  /\ slot[p] = 2 * count[p]
  /\ Move(p, "open", "audit")
  /\ UNCHANGED <<vars, slot, count, residual, fixtures, audit, mirror, crashes, calm, served>>

EntryOf(p) == [to |-> num[p], residual |-> residual[num[p]]]

WriteAuditRow(p) ==
  /\ Move(p, "audit", "mirror")
  /\ audit' = Append(audit, EntryOf(p))
  /\ UNCHANGED <<vars, slot, count, residual, fixtures, mirror, crashes, calm, served>>

MirrorLine(p) ==
  /\ Move(p, "mirror", "idle")
  /\ mirror' = Append(mirror, EntryOf(p))
  /\ UNCHANGED <<vars, slot, count, residual, fixtures, audit, crashes, calm, served>>

\* An operator's rollback, from a process that is not promoting.
Rollback(p) ==
  /\ stage[p] = "idle"
  /\ \/ RollbackSelect(p) /\ UNCHANGED <<calm, served>>
     \/ /\ RollbackCommit(p)
        /\ calm' = (calm /\ Undisturbed(p))
        /\ served' = served \cup {num[p]}
  /\ UNCHANGED <<stage, slot, count, residual, fixtures, audit, mirror, crashes>>

ProcessDies(p) ==
  /\ crashes < MaxCrashes
  /\ stage[p] # "idle" \/ pc[p] # "idle"
  /\ crashes' = crashes + 1
  /\ stage' = [stage EXCEPT ![p] = "idle"]
  /\ pc' = [pc EXCEPT ![p] = "idle"]
  /\ UNCHANGED <<rows, files, family, src, num>>
  /\ UNCHANGED <<slot, count, residual, fixtures, audit, mirror, calm, served>>

PromotionNext ==
  \E p \in Procs :
    \/ Bootstrap(p) \/ Promote(p) \/ Adding(p) \/ Added(p) \/ Activated(p)
    \/ OpenFixture(p) \/ FillFixture(p) \/ FixturesSaved(p)
    \/ WriteAuditRow(p) \/ MirrorLine(p) \/ Rollback(p) \/ ProcessDies(p)

PromotionSpec == PromotionInit /\ [][PromotionNext]_promotionVars

-----------------------------------------------------------------------------
(* What readers of the store see.                                          *)

\* Mutant: the newest promote row, whatever version it names.
ActiveResidualFields_Newest == IF audit = <<>> THEN {} ELSE Last(audit).residual

\* active_residual_fields: the newest promote row naming the active version.
ActiveResidualFields ==
  LET active == WithStatus(rows, "active")
      naming == {i \in DOMAIN audit : audit[i].to \in active}
  IN  IF naming = {} THEN {} ELSE audit[Max(naming)].residual

\* load_fixtures pairs an html file with its json file when both exist.
Golden ==
  {i \in Indices : /\ fixtures[<<i, "html">>] # Absent
                   /\ fixtures[<<i, "json">>] # Absent}

-----------------------------------------------------------------------------
(* Properties.                                                             *)

Idle == \A p \in Procs : stage[p] = "idle" /\ pc[p] = "idle"

\* The residual set the runtime reads for the active version is the one that
\* version was promoted with, or empty: crashes, reused numbers and rollbacks
\* never make it another version's.
ResidualIsOwnOrEmpty ==
  \A n \in WithStatus(rows, "active") :
    ActiveResidualFields \in {residual[n], {}}

\* Whatever a crash left behind, a promotion that has saved its fixtures finds
\* the pages it was accepted on in the golden set, all of them and whole.
GoldenSetCurrent ==
  \A p \in Procs : stage[p] \in {"audit", "mirror"} =>
    \A i \in 0..(count[p] - 1) : \A kind \in {"html", "json"} :
      fixtures[<<i, kind>>] = num[p]

\* A finished promotion REPLACES the golden set: what load_fixtures returns is
\* exactly the pages the latest promotion was accepted on.
GoldenSetReplaced ==
  Idle /\ audit # <<>> =>
    \A i \in Golden : \A kind \in {"html", "json"} :
      fixtures[<<i, kind>>] = Last(audit).to

\* A rollback never brings back a newer version that has served before and was left:
\* it goes to an older version than the active one, or to one that has never been
\* active.  The second case is real: a version whose promotion was cut short between
\* add_version and set_active, or has not come to set_active yet, is the highest
\* fallback, and "back one rung" (registry.py:348) is then a step FORWARD, to a version
\* whose fixtures and residual set have not been saved.  The property is about rollbacks
\* up to the first one that another process disturbs: its target, read before its
\* transaction, may have been overtaken, reached or archived by then.
RollbackNeverReturns ==
  [][\A p \in Procs :
       RollbackCommit(p) /\ calm' =>
         \/ num[p] \notin served
         \/ \A n \in WithStatus(rows, "active") : num[p] < n]_promotionVars
=============================================================================

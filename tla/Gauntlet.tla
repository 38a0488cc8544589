------------------------------ MODULE Gauntlet ------------------------------
(***************************************************************************)
(* The acceptance gate of crawloop/loop/gauntlet.py: run_gauntlet scores   *)
(* each candidate of a round page by page (score_candidate) and picks the  *)
(* winner that the driver promotes.                                        *)
(*                                                                         *)
(* run_gauntlet's arguments are variables here (samples, fixtures, cands)  *)
(* that the actions leave alone; FirstRound sets them and says what a      *)
(* candidate of each kind returns.                                         *)
(***************************************************************************)
EXTENDS Validator

CONSTANTS
  Outputs,             \* what a run may return
  Crashed,             \* SandboxError or SandboxTimeout
  BarNum, BarDen,      \* agreement_bar = BarNum / BarDen
  Numeric              \* the fields that hold an amount (used by properties only)

ASSUME GauntletAssumption ==
  /\ Outputs \subseteq Seq(Item) /\ Crashed \notin Seq(Item)
  /\ BarNum \in Nat /\ BarDen \in Nat \ {0} /\ BarNum <= BarDen

VARIABLES
  samples,  \* the usable samples; page.records is the oracle's extraction
  fixtures, \* the golden pages; page.records is what was extracted from them
  cands,    \* the candidates of the round
  page,     \* the page the current candidate runs on next
  outs,     \* history: what each candidate returned on each page so far
  acc,      \* score_candidate's accumulators for the current candidate
  scores,   \* all_scores
  best      \* the index of best_passing; 0 for None

given == <<samples, fixtures, cands>>
scoring == <<page, outs, acc, scores, best>>
vars == <<given, scoring>>

Pages == samples \o fixtures
Candidates == Len(cands)

\* The pages counted in exec_errors, those with a False schema flag, each page's
\* detail, and the sum of the pages' means so far: sum / (pairs * |Fields|).
NoScore == [errors |-> {}, invalid |-> {}, details |-> <<>>, sum |-> 0, pairs |-> 1]

TypeOK ==
  /\ \A i \in DOMAIN Pages : Pages[i].records \in Seq(Item)
  /\ page \in 1..(Len(Pages) + 1)
  /\ \A c \in DOMAIN outs, i \in 1..Len(Pages) :
       i \in DOMAIN outs[c] => outs[c][i] = Crashed \/ outs[c][i] \in Seq(Item)
  /\ acc.sum \in Nat /\ acc.pairs \in Nat \ {0} /\ Len(acc.details) = page - 1
  /\ \A i \in DOMAIN acc.details : acc.details[i].worst \in 0..Cardinality(Fields)
  /\ Len(scores) <= Candidates /\ best \in 0..Candidates

ScoringInit == page = 1 /\ outs = <<<<>>>> /\ acc = NoScore /\ scores = <<>> /\ best = 0

-----------------------------------------------------------------------------
Current == Len(scores) + 1
Scoring == Len(scores) < Candidates /\ page <= Len(Pages)

\* run_in_sandbox: the items of the run, or Crashed.
Returned(out) == outs' = [outs EXCEPT ![Len(outs)] = Append(@, out)]

\* Mutant: the last page's detail stands for all pages.
Recorded_LastPage(detail) ==
  [acc EXCEPT !.details = [i \in 1..page |-> detail],
              !.sum = @ * detail.pairs + detail.sum * acc.pairs, !.pairs = @ * detail.pairs]

\* _record; the means are added over their common denominator.
Recorded(detail) ==
  [acc EXCEPT !.details = Append(@, detail),
              !.sum = @ * detail.pairs + detail.sum * acc.pairs, !.pairs = @ * detail.pairs]

\* Samples pass the schema gate too; fixtures are compared only.
Run(out) ==
  /\ Scoring
  /\ Returned(out)
  /\ acc' = [Recorded(Detail(out, Pages[page].records)) EXCEPT
               !.invalid = @ \cup {i \in {page} : i <= Len(samples) /\ Reason(out) # ""}]
  /\ page' = page + 1
  /\ UNCHANGED <<given, scores, best>>

\* _record_exec_error
NoDetail == [sum |-> 0, pairs |-> 1, worst |-> 0, match |-> FALSE]
Crash ==
  /\ Scoring
  /\ Returned(Crashed)
  /\ acc' = [Recorded(NoDetail) EXCEPT
               !.errors = @ \cup {page},
               !.invalid = @ \cup {i \in {page} : i <= Len(samples)}]
  /\ page' = page + 1
  /\ UNCHANGED <<given, scores, best>>

\* The promotion bar; a round without samples has nothing schema-valid.
Passed(a) ==
  /\ samples # <<>> /\ a.invalid = {} /\ a.errors = {}
  /\ \A i \in DOMAIN a.details :
       /\ a.details[i].match
       /\ BarDen * a.details[i].worst >= BarNum * Cardinality(Fields)
       /\ i > Len(samples) => a.details[i].sum = a.details[i].pairs * Cardinality(Fields)

NextCandidate ==
  /\ Len(scores) < Candidates /\ page > Len(Pages)
  /\ scores' = Append(scores, [passed |-> Passed(acc), sum |-> acc.sum, pairs |-> acc.pairs])
  /\ page' = 1 /\ acc' = NoScore
  /\ outs' = IF Len(outs) < Candidates THEN Append(outs, <<>>) ELSE outs
  /\ UNCHANGED <<given, best>>

\* The higher oracle_agreement, a mean over as many pages for both.
Better(s, t) == s.sum * t.pairs > t.sum * s.pairs

\* The passing candidates of the highest oracle_agreement.
Winners ==
  {i \in DOMAIN scores : scores[i].passed
     /\ \A j \in DOMAIN scores : scores[j].passed => ~Better(scores[j], scores[i])}

\* Mutant: the last of equals.
Pick_Last ==
  /\ Candidates > 0 /\ Len(scores) = Candidates /\ best = 0 /\ Winners # {}
  /\ best' = Max(Winners)
  /\ UNCHANGED <<given, page, outs, acc, scores>>

\* max() keeps the first of equals.
Pick ==
  /\ Candidates > 0 /\ Len(scores) = Candidates /\ best = 0 /\ Winners # {}
  /\ best' = Min(Winners)
  /\ UNCHANGED <<given, page, outs, acc, scores>>

-----------------------------------------------------------------------------
(* Properties.                                                             *)

Equal(x, y) == x = y

\* Two items are the same record: each field missing on both sides, the same
\* amount in a field that holds one, the same cleaned text in any other.
Same(x, y) ==
  \A f \in Fields :
    \/ None \in {x[f], y[f]} /\ x[f] = y[f]
    \/ None \notin {x[f], y[f]}
       /\ IF f \in Numeric THEN Money[x[f]] = Money[y[f]] ELSE Text[x[f]] = Text[y[f]]

\* Up to order: each item as often in one list as in the other.
Reordered(s, t, Eq(_, _)) ==
  \A item \in ToSet(s) \cup ToSet(t) :
    Cardinality({i \in DOMAIN s : Eq(s[i], item)})
      = Cardinality({i \in DOMAIN t : Eq(t[i], item)})

\* Candidate c returned the reference of every page, up to order and Eq.
Reproduces(c, Eq(_, _)) ==
  \A i \in DOMAIN Pages :
    outs[c][i] # Crashed /\ Reordered(outs[c][i], Pages[i].records, Eq)

\* What is promoted reproduces every sample and every stored fixture, record for
\* record: no crash, dropped, added or altered row hides behind a mean.  (Values
\* with digits in fields that hold no amount are outside this: field_equal reads
\* them as amounts too.)  And it would be served: on every sample run_family's
\* validation accepts its extraction.
WinnerReproducesEveryPage ==
  best # 0 =>
    /\ Reproduces(best, Same)
    /\ \A i \in DOMAIN samples :
         outs[best][i] # <<>> /\ \A k \in DOMAIN outs[best][i] : SchemaValid(outs[best][i][k])

\* The order in which a candidate lists its items never matters: if every page's
\* output is the reference up to order, the candidate passes.
OrderIrrelevant ==
  \A c \in DOMAIN scores : Reproduces(c, Equal) => scores[c].passed

\* Ties go to the first: a candidate that reproduces every page is never passed
\* over for a later one, so a free deterministic crawler beats a generated one.
FirstPerfectWins ==
  best # 0 => \A c \in DOMAIN scores : Reproduces(c, Equal) => best <= c
=============================================================================

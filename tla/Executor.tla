------------------------------ MODULE Executor ------------------------------
(***************************************************************************)
(* run_family of crawloop/executor.py for one page family, with the        *)
(* counters and the history it keeps in the registry.                      *)
(*                                                                         *)
(* A walk awaits the crawler page by page, so walks interleave there, and  *)
(* promotions and rollbacks happen in between.  The bookkeeping after a    *)
(* rung has no await: only another process can come in, or a crash.        *)
(***************************************************************************)
EXTENDS VersionLadder, FiniteSets, Integers

CONSTANTS
  Walks,          \* concurrent calls of run_family
  Process,        \* walk -> the process it runs in
  MaxPages,       \* max_pages
  SnapshotEvery,  \* snapshot_every
  MaxVersion, MaxRuns, MaxCrashes   \* bounds on versions, runs, crashes

ASSUME ExecutorAssumption ==
  /\ MaxPages \in Nat \ {0} /\ SnapshotEvery \in Nat \ {0}
  /\ MaxVersion \in Nat \ {0} /\ MaxRuns \in Nat /\ MaxCrashes \in Nat
  /\ Walks = DOMAIN Process /\ IsFiniteSet(Walks)

VARIABLES
  rows,       \* n -> [status, runs, successes]
  walk,       \* the state of each call
  history,    \* version -> rows of run_history it has
  snapshots,  \* history: snapshots taken
  crashes

vars == <<rows, walk, history, snapshots, crashes>>

Walk ==
  [pc : {"idle", "rung", "crawl", "history", "cadence"},
   left : Seq(1..MaxVersion),   \* ladder snapshot, the current rung first
   pages : 0..MaxPages,
   result : {"none", "served", "exhausted", "raised"}]

NewWalk == [pc |-> "idle", left |-> <<>>, pages |-> 0, result |-> "none"]

TypeOK ==
  /\ DOMAIN rows \subseteq 1..MaxVersion
  /\ \A n \in DOMAIN rows : rows[n] \in [status : Statuses, runs : Nat, successes : Nat]
  /\ walk \in [Walks -> Walk]
  /\ history \in [1..MaxVersion -> Nat]
  /\ snapshots \in Nat /\ crashes \in 0..MaxCrashes

NewRow == [status |-> "fallback", runs |-> 0, successes |-> 0]

Init ==
  /\ rows = [n \in {1} |-> [NewRow EXCEPT !.status = "active"]]
  /\ walk = [w \in Walks |-> NewWalk]
  /\ history = [n \in 1..MaxVersion |-> 0]
  /\ snapshots = 0 /\ crashes = 0

\* The sum of a function of naturals: f[x] marks for each x, counted.
Marks(f) == UNION {{x} \X (1..f[x]) : x \in DOMAIN f}
SumOf(f) == Cardinality(Marks(f))

Counts(field) == [n \in DOMAIN rows |-> rows[n][field]]
Total(field) == SumOf(Counts(field))

At(w, pc) == walk[w].pc = pc
InTail(w) == walk[w].pc \in {"history", "cadence"}

\* A process runs its bookkeeping without giving way to its other walks.
Awaits(w) == \A v \in Walks \ {w} : Process[v] = Process[w] => ~InTail(v)

-----------------------------------------------------------------------------
Start(w) ==
  /\ At(w, "idle") /\ Awaits(w)
  /\ Total("runs") < MaxRuns
  /\ walk' = [walk EXCEPT ![w] = [NewWalk EXCEPT !.pc = "rung", !.left = LadderOf(rows)]]
  /\ UNCHANGED <<rows, history, snapshots, crashes>>

\* The next rung is loaded and its first page awaited.
Load(w) ==
  /\ At(w, "rung") /\ Awaits(w) /\ walk[w].left # <<>>
  /\ walk' = [walk EXCEPT ![w].pc = "crawl", ![w].pages = 0]
  /\ UNCHANGED <<rows, history, snapshots, crashes>>

\* AllVersionsFailed
Exhausted(w) ==
  /\ At(w, "rung") /\ Awaits(w) /\ walk[w].left = <<>>
  /\ walk' = [walk EXCEPT ![w].pc = "idle", ![w].result = "exhausted"]
  /\ UNCHANGED <<rows, history, snapshots, crashes>>

\* run_version's cap, tested before each page.
MorePages(w) == walk[w].pages + 1 < MaxPages

\* A page with a next_url; the site may hand one out forever.
Page(w) ==
  /\ At(w, "crawl") /\ Awaits(w) /\ MorePages(w)
  /\ walk' = [walk EXCEPT ![w].pages = @ + 1]
  /\ UNCHANGED <<rows, history, snapshots, crashes>>

Rung(w) == Head(walk[w].left)

\* Mutant: a success is not counted as a run.
CountRun_SuccessOnly(n, ok) ==
  rows' = [rows EXCEPT ![n].runs = @ + (IF ok THEN 0 ELSE 1),
                       ![n].successes = @ + (IF ok THEN 1 ELSE 0)]

\* record_run
CountRun(n, ok) ==
  rows' = [rows EXCEPT ![n].runs = @ + 1, ![n].successes = @ + (IF ok THEN 1 ELSE 0)]

\* The last page, and the items validate.
Validates(w) ==
  /\ At(w, "crawl") /\ Awaits(w)
  /\ CountRun(Rung(w), TRUE)
  /\ walk' = [walk EXCEPT ![w].pc = "history", ![w].pages = @ + 1]
  /\ UNCHANGED <<history, snapshots, crashes>>

\* Mutant: what is left is read back from the ladder, without its first rung.
Fails_Rereads(w) ==
  /\ At(w, "crawl") /\ Awaits(w)
  /\ CountRun(Rung(w), FALSE)
  /\ walk' = [walk EXCEPT ![w].pc = "rung", ![w].left = Tail(LadderOf(rows))]
  /\ UNCHANGED <<history, snapshots, crashes>>

\* They do not: the run is counted and the next rung is next.
Fails(w) ==
  /\ At(w, "crawl") /\ Awaits(w)
  /\ CountRun(Rung(w), FALSE)
  /\ walk' = [walk EXCEPT ![w].pc = "rung", ![w].left = Tail(@)]
  /\ UNCHANGED <<history, snapshots, crashes>>

\* A fetch or the crawler raises: the whole walk is abandoned, uncounted.
Raises(w) ==
  /\ At(w, "crawl") /\ Awaits(w)
  /\ walk' = [walk EXCEPT ![w].pc = "idle", ![w].result = "raised"]
  /\ UNCHANGED <<rows, history, snapshots, crashes>>

\* record_history
RecordHistory(w) ==
  /\ At(w, "history")
  /\ history' = [history EXCEPT ![Rung(w)] = @ + 1]
  /\ walk' = [walk EXCEPT ![w].pc = "cadence"]
  /\ UNCHANGED <<rows, snapshots, crashes>>

\* Mutant: the cadence counts every run, failed ones included.
CadenceHit_AllRuns == Total("runs") % SnapshotEvery = 0

CadenceHit == Total("successes") % SnapshotEvery = 0

\* The total is read back, the pages are kept if it hits the cadence, and the
\* items are returned.
Serve(w) ==
  /\ At(w, "cadence")
  /\ snapshots' = snapshots + (IF CadenceHit THEN 1 ELSE 0)
  /\ walk' = [walk EXCEPT ![w].pc = "idle", ![w].result = "served"]
  /\ UNCHANGED <<rows, history, crashes>>

-----------------------------------------------------------------------------
(* What else happens to the family.                                        *)

\* promote() registers and activates a version, here or in another process.
Promote ==
  /\ NextVersion(rows) <= MaxVersion
  /\ rows' = Activate(Inserted(rows, NextVersion(rows), NewRow), NextVersion(rows))
  /\ UNCHANGED <<walk, history, snapshots, crashes>>

Rollback ==
  /\ WithStatus(rows, "fallback") # {}
  /\ rows' = RolledBack(rows, RollbackTarget(rows))
  /\ UNCHANGED <<walk, history, snapshots, crashes>>

\* A process dies with all its walks.
Crash ==
  /\ crashes < MaxCrashes
  /\ crashes' = crashes + 1
  /\ \E p \in {Process[w] : w \in Walks} :
       walk' = [w \in Walks |-> IF Process[w] = p THEN NewWalk ELSE walk[w]]
  /\ UNCHANGED <<rows, history, snapshots>>

WalkStep(w) ==
  \/ Load(w) \/ Exhausted(w) \/ Page(w) \/ Validates(w) \/ Fails(w) \/ Raises(w)
  \/ RecordHistory(w) \/ Serve(w)

Next == (\E w \in Walks : Start(w) \/ WalkStep(w)) \/ Promote \/ Rollback \/ Crash

Spec == Init /\ [][Next]_vars

-----------------------------------------------------------------------------
(* Properties.                                                             *)

\* The counters add up: every validated extraction is counted as a run and a
\* success of the version it came from, and is in the history, but for those a
\* crash or another process's pause separates from it; nothing is in the history
\* that is not counted.
HistoryFollowsCounters ==
  /\ \A n \in DOMAIN rows :
       history[n] <= rows[n].successes /\ rows[n].successes <= rows[n].runs
  /\ Total("successes") <=
       SumOf([n \in DOMAIN rows |-> history[n]])
         + crashes + Cardinality({w \in Walks : At(w, "history")})

\* The cadence is measured against the running total: in one process, one snapshot
\* for every SnapshotEvery successful runs, whichever walks and versions made
\* them; a crash costs at most the one it prevents.
SnapshotCadence ==
  (\A v, w \in Walks : Process[v] = Process[w] /\ ~InTail(w)) =>
    LET due == Total("successes") \div SnapshotEvery
    IN  snapshots \in (due - crashes)..due

\* What is left of a walk, in steps at most: each rung is loaded, its pages are
\* awaited, and its bookkeeping takes three steps.
RungSteps == MaxPages + 3
Remaining(w) ==
  CASE At(w, "idle") -> 0
    [] At(w, "cadence") -> 1
    [] At(w, "history") -> 2
    [] At(w, "rung") -> 1 + Len(walk[w].left) * RungSteps
    [] At(w, "crawl") -> Len(walk[w].left) * RungSteps - walk[w].pages

\* Every step of a walk brings its end nearer, whatever pages link to, whatever
\* raises and whatever is promoted meanwhile: a walk of L rungs takes at most
\* 1 + L * (MaxPages + 3) steps.
WalkAdvances ==
  [][\A w \in Walks :
       ~At(w, "idle") /\ walk'[w] # walk[w] => Remaining(w)' < Remaining(w)]_vars
=============================================================================

------------------------------- MODULE Engine -------------------------------
(***************************************************************************)
(* One page family under crawloop's Engine (crawloop/engine.py): requests  *)
(* walk the version ladder (executor.run_family), failures are classified  *)
(* (loop/trigger.classify), a drift is served by direct extraction and     *)
(* triggers the regeneration Loop (loop/driver.run_loop), inline or as one *)
(* guarded background task.                                                *)
(*                                                                         *)
(* The process is one asyncio event loop: requests and Loops interleave at *)
(* their awaits only, so each action runs from one await to the next.      *)
(* rows, golden and status are on disk; requests, Loops and the in-flight  *)
(* guard live in memory and a restart forgets them.                        *)
(***************************************************************************)
EXTENDS VersionLadder, FiniteSets

CONSTANTS
  Requests,     \* the concurrent callers of Engine.request
  Layouts,      \* the layouts the site may show
  Modes,        \* the values run_loop_inline may have
  HasStronger,  \* escalation_model(model) is not None
  Raising,      \* may a promoted crawler raise on a layout it does not know?
  MaxRetries, MaxRounds,           \* max_transient_retries, max_rounds
  MaxFaults, MaxDrifts, MaxCrashes \* bounds on the environment

ASSUME EngineAssumption ==
  /\ Modes \in SUBSET BOOLEAN \ {{}} /\ HasStronger \in BOOLEAN /\ Raising \in SUBSET BOOLEAN \ {{}}
  /\ MaxRetries \in Nat /\ MaxRounds \in Nat \ {0}
  /\ MaxFaults \in Nat /\ MaxDrifts \in Nat /\ MaxCrashes \in Nat

VARIABLES
  rows,      \* n -> [status, fits: the layouts it extracts, raises]
  golden,    \* the layouts of the family's golden fixtures
  status,    \* the family row's status; "none" when there is no row
  req,       \* the state of each caller's request
  loop,      \* the Loop each caller's request started, if any
  inflight,  \* family \in _inflight_families
  inline,    \* run_loop_inline, fixed when the Engine is built
  site,      \* the layout the site shows now
  faults, drifts, crashes

store == <<rows, golden, status>>
env == <<inline, site, faults, drifts, crashes>>
vars == <<store, req, loop, inflight, env>>

Row == [status : Statuses, fits : SUBSET Layouts, raises : BOOLEAN]

Request ==
  [pc : {"idle", "walk", "backoff", "recover", "t2", "extract", "bootstrap",
         "register", "healing", "fill"},
   walk : Seq(Nat),                            \* rungs of the snapshot left to try
   mode : {"first", "retry", "recovered"},     \* which call of _run_family it is in
   tries : 0..MaxRetries,
   faulted : BOOLEAN,                          \* history: a fetch of it has failed
   sure : BOOLEAN,                             \* history: see ServedWhenCovered
   answer : {"none", "pending", "registry", "recovered", "fallback", "empty", "raised"}]

Loop ==
  [pc : {"none", "scheduled", "sample", "oracle", "round", "done"},
   tier : 1..2, round : 0..MaxRounds,
   sampled : SUBSET Layouts,                   \* layouts of the usable samples
   fixtures : SUBSET Layouts]                  \* load_fixtures, read before the rounds

NoLoop == [pc |-> "none", tier |-> 1, round |-> 0, sampled |-> {}, fixtures |-> {}]
NoRequest == [pc |-> "idle", walk |-> <<>>, mode |-> "first", tries |-> 0,
              faulted |-> FALSE, sure |-> FALSE, answer |-> "none"]

TypeOK ==
  /\ DOMAIN rows \subseteq Nat /\ \A n \in DOMAIN rows : rows[n] \in Row
  /\ golden \subseteq Layouts
  /\ status \in {"none", "healthy", "regenerating", "escalated"}
  /\ req \in [Requests -> Request]
  /\ loop \in [Requests -> Loop]
  /\ inflight \in BOOLEAN
  /\ inline \in Modes /\ site \in Layouts
  /\ faults \in 0..MaxFaults /\ drifts \in 0..MaxDrifts /\ crashes \in 0..MaxCrashes

Init ==
  /\ rows = [n \in {} |-> 0] /\ golden = {} /\ status = "none"
  /\ req = [r \in Requests |-> NoRequest]
  /\ loop = [r \in Requests |-> NoLoop]
  /\ inflight = FALSE
  /\ inline \in Modes /\ site \in Layouts
  /\ faults = 0 /\ drifts = 0 /\ crashes = 0

Covered == \E n \in DOMAIN rows : site \in rows[n].fits
-----------------------------------------------------------------------------
(* A request.                                                              *)

Answered(r, answer) == [req EXCEPT ![r].pc = "idle", ![r].answer = answer]
At(r, pc) == req[r].pc = pc
Goto(r, pc) == req' = [req EXCEPT ![r].pc = pc]

\* Routing and run_family's version_ladder snapshot happen before any await.
Start(r) ==
  /\ At(r, "idle")
  /\ req' = [req EXCEPT ![r] =
       [NoRequest EXCEPT !.pc = IF status = "none" THEN "bootstrap" ELSE "walk",
                         !.walk = LadderOf(rows), !.sure = Covered,
                         !.answer = "pending"]]
  /\ UNCHANGED <<store, loop, inflight, env>>

\* Mutant: only the active rung is ever tried.
NextRungs_ActiveOnly(r) == <<>>

NextRungs(r) == Tail(req[r].walk)

\* classify, and the handler request() sends each class to.
Outcome == [drift |-> "t2", blocked |-> "recover", transient |-> "backoff", gone |-> "idle"]

\* Mutant: a failure after a recovery is handled like the first.
FailedTo_Reclassified(r, class) ==
  IF req[r].mode = "retry" THEN "backoff" ELSE Outcome[class]

\* Where a failed _run_family leads: classified on the first call, bounded by
\* the retry cap in _serve_transient, given up after a recovery.
FailedTo(r, class) ==
  CASE req[r].mode = "first" -> Outcome[class]
    [] req[r].mode = "retry" -> "backoff"
    [] req[r].mode = "recovered" -> "idle"

Failed(r, class, fault) ==
  req' = [req EXCEPT
    ![r].pc = FailedTo(r, class),
    ![r].answer = IF FailedTo(r, class) = "idle" THEN "empty" ELSE @,
    ![r].faulted = @ \/ fault, ![r].sure = @ /\ ~fault]

\* The rung's output validates: the page is one of its layouts.  The first call
\* may go on to the hybrid tail-fill when the active version has residual fields.
RungServes(r) ==
  /\ At(r, "walk") /\ req[r].walk # <<>> /\ site \in rows[Head(req[r].walk)].fits
  /\ \/ req' = Answered(r, IF req[r].mode = "recovered" THEN "recovered" ELSE "registry")
     \/ req[r].mode = "first" /\ Goto(r, "fill")
  /\ UNCHANGED <<store, loop, inflight, env>>

\* _maybe_hybrid_fill: whatever becomes of its fetch and its model call, the items
\* already extracted are answered.
Fill(r) ==
  /\ At(r, "fill")
  /\ req' = Answered(r, "registry")
  /\ UNCHANGED <<store, loop, inflight, env>>

\* It does not: the next rung, unless the crawler itself raised, which
\* run_family does not catch and classify calls transient.
RungFails(r) ==
  /\ At(r, "walk") /\ req[r].walk # <<>> /\ site \notin rows[Head(req[r].walk)].fits
  /\ IF rows[Head(req[r].walk)].raises
     THEN Failed(r, "transient", FALSE)
     ELSE req' = [req EXCEPT ![r].walk = NextRungs(r)]
  /\ UNCHANGED <<store, loop, inflight, env>>

\* Mutant: a blocked fetch is taken for a drift.
FetchClasses_BlockedIsDrift == {"drift", "transient", "gone"}

\* FetchBlocked, FetchError, FetchError 404/410, as classify names them.
FetchClasses == {"blocked", "transient", "gone"}

RungUnfetched(r) ==
  /\ At(r, "walk") /\ req[r].walk # <<>> /\ faults < MaxFaults
  /\ faults' = faults + 1
  /\ \E class \in FetchClasses : Failed(r, class, TRUE)
  /\ UNCHANGED <<store, loop, inflight, inline, site, drifts, crashes>>

\* AllVersionsFailed, an empty ladder included.
Exhausted(r) ==
  /\ At(r, "walk") /\ req[r].walk = <<>>
  /\ Failed(r, "drift", FALSE)
  /\ UNCHANGED <<store, loop, inflight, env>>

WalkAgain(r, mode, tries) ==
  req' = [req EXCEPT ![r].pc = "walk", ![r].mode = mode, ![r].tries = tries,
                     ![r].walk = LadderOf(rows)]

\* Mutant: the retries are not counted.
Backoff_Uncounted(r) ==
  /\ At(r, "backoff")
  /\ WalkAgain(r, "retry", req[r].tries)
  /\ UNCHANGED <<store, loop, inflight, env>>

\* _serve_transient: sleep, then the whole ladder again, at most MaxRetries times.
Backoff(r) ==
  /\ At(r, "backoff")
  /\ IF req[r].tries < MaxRetries THEN WalkAgain(r, "retry", req[r].tries + 1)
                                  ELSE req' = Answered(r, "empty")
  /\ UNCHANGED <<store, loop, inflight, env>>

\* _serve_blocked: recover_access gets through (walk once more) or does not.
Recover(r) ==
  /\ At(r, "recover")
  /\ WalkAgain(r, "recovered", req[r].tries) \/ req' = Answered(r, "empty")
  /\ UNCHANGED <<store, loop, inflight, env>>

\* _serve_drift's refetch.
Refetch(r) ==
  /\ At(r, "t2")
  /\ Goto(r, "extract")
  /\ UNCHANGED <<store, loop, inflight, env>>

RefetchFails(r) ==
  /\ At(r, "t2") /\ faults < MaxFaults
  /\ faults' = faults + 1
  /\ \/ req' = [req EXCEPT ![r].pc = "recover", ![r].faulted = TRUE]
     \/ req' = [Answered(r, "empty") EXCEPT ![r].faulted = TRUE]
  /\ UNCHANGED <<store, loop, inflight, inline, site, drifts, crashes>>

-----------------------------------------------------------------------------
(* _trigger_loop, in the same step as the extraction that precedes it.     *)

\* Mutants: no in-flight check; the durable status used as the guard.
MayStart_NoGuard == TRUE
MayStart_ByStatus == status # "regenerating"

MayStart == ~inflight

Trigger(r, current) ==
  IF inline
  THEN /\ loop' = [loop EXCEPT ![r] = [NoLoop EXCEPT !.pc = "sample"]]
       /\ status' = "regenerating"
       /\ Goto(r, "healing") /\ UNCHANGED inflight
  ELSE /\ status' = current
       /\ req' = Answered(r, "fallback")
       /\ IF MayStart
          THEN /\ inflight' = TRUE
               /\ loop' = [loop EXCEPT ![r] = [NoLoop EXCEPT !.pc = "scheduled"]]
          ELSE UNCHANGED <<inflight, loop>>

\* direct_extract returns items or raises ExtractionFailed: either way heal.
Extracted(r) ==
  /\ At(r, "extract")
  /\ Trigger(r, status)
  /\ UNCHANGED <<rows, golden, env>>

BootstrapFetch(r) ==
  /\ At(r, "bootstrap")
  /\ Goto(r, "register")
  /\ UNCHANGED <<store, loop, inflight, env>>

\* A family that cannot be fetched is not registered.
BootstrapFails(r) ==
  /\ At(r, "bootstrap") /\ faults < MaxFaults
  /\ faults' = faults + 1
  /\ req' = [Answered(r, "empty") EXCEPT ![r].faulted = TRUE]
  /\ UNCHANGED <<store, loop, inflight, inline, site, drifts, crashes>>

\* Extraction, then upsert_family (which keeps an existing status), then heal.
Register(r) ==
  /\ At(r, "register")
  /\ Trigger(r, IF status = "none" THEN "healthy" ELSE status)
  /\ UNCHANGED <<rows, golden, env>>

\* The completer raises something other than ExtractionFailed (no API key, ...):
\* nothing catches it before request() returns.
CompleterRaises(r) ==
  /\ At(r, "extract") \/ At(r, "register")
  /\ faults < MaxFaults
  /\ faults' = faults + 1
  /\ req' = Answered(r, "raised")
  /\ UNCHANGED <<store, loop, inflight, inline, site, drifts, crashes>>

\* A fetch is redirected off the allowlist: UnauthorizedDomain is never classified
\* or contained.  In "recover" it may also be the FetchError of a rung redirected too
\* often, which recover_access lets through as well (access_recovery.py:142).
OffList(r) ==
  /\ req[r].pc \in {"t2", "recover", "fill", "bootstrap"} \/ (At(r, "walk") /\ req[r].walk # <<>>)
  /\ faults < MaxFaults
  /\ faults' = faults + 1
  /\ req' = [Answered(r, "raised") EXCEPT ![r].faulted = TRUE, ![r].sure = FALSE]
  /\ UNCHANGED <<store, loop, inflight, inline, site, drifts, crashes>>

-----------------------------------------------------------------------------
(* The Loop started by request l.                                          *)

LoopAt(l, pc) == loop[l].pc = pc
Running(l) == loop[l].pc \in {"scheduled", "sample", "oracle", "round"}

\* The task's first step: _run_loop_once marks the family.
LoopBegin(l) ==
  /\ LoopAt(l, "scheduled")
  /\ loop' = [loop EXCEPT ![l].pc = "sample"]
  /\ status' = "regenerating"
  /\ UNCHANGED <<rows, golden, req, inflight, env>>

\* run_loop is over: an inline request returns, a task waits for its callbacks.
LoopEnds(l, answer) ==
  IF inline THEN /\ loop' = [loop EXCEPT ![l] = NoLoop]
                 /\ req' = Answered(l, answer)
            ELSE /\ loop' = [loop EXCEPT ![l] = [NoLoop EXCEPT !.pc = "done"]]
                 /\ UNCHANGED req

Sample(l) ==
  /\ LoopAt(l, "sample")
  /\ loop' = [loop EXCEPT ![l].pc = "oracle", ![l].sampled = {site}]
  /\ UNCHANGED <<store, req, inflight, env>>

\* _escalate
Escalated == status' = "escalated"

\* "no samples" escalates and is never retried with the stronger model.
NoSamples(l) ==
  /\ LoopAt(l, "sample") /\ faults < MaxFaults
  /\ faults' = faults + 1
  /\ Escalated
  /\ LoopEnds(l, "fallback")
  /\ UNCHANGED <<rows, golden, inflight, inline, site, drifts, crashes>>

\* Enough oracles: the golden fixtures are read here, before the rounds.
Oracle(l) ==
  /\ LoopAt(l, "oracle")
  /\ loop' = [loop EXCEPT ![l].pc = "round", ![l].round = 1, ![l].fixtures = golden]
  /\ UNCHANGED <<store, req, inflight, env>>

\* Mutant: the second attempt does not know that it is one.
GivesUp_Forgets(l) ==
  /\ Escalated
  /\ IF loop[l].tier = 1 /\ HasStronger
     THEN loop' = [loop EXCEPT ![l] = [NoLoop EXCEPT !.pc = "sample"]] /\ UNCHANGED req
     ELSE LoopEnds(l, "fallback")

\* _escalate, then once more with the stronger model when there is one.
GivesUp(l) ==
  /\ Escalated
  /\ IF loop[l].tier = 1 /\ HasStronger
     THEN loop' = [loop EXCEPT ![l] = [NoLoop EXCEPT !.pc = "sample", !.tier = 2]]
          /\ UNCHANGED req
     ELSE LoopEnds(l, "fallback")

TooFewOracles(l) ==
  /\ LoopAt(l, "oracle")
  /\ GivesUp(l)
  /\ UNCHANGED <<rows, golden, inflight, env>>

\* Mutant: a failed round samples afresh, so the rounds are never exhausted.
RoundFails_Resamples(l) ==
  /\ LoopAt(l, "round")
  /\ loop' = [loop EXCEPT ![l] = [NoLoop EXCEPT !.pc = "sample"]]
  /\ UNCHANGED <<status, req>>
  /\ UNCHANGED <<rows, golden, inflight, env>>

\* No candidate of the round passes the gauntlet.
RoundFails(l) ==
  /\ LoopAt(l, "round")
  /\ IF loop[l].round < MaxRounds
     THEN loop' = [loop EXCEPT ![l].round = @ + 1] /\ UNCHANGED <<status, req>>
     ELSE GivesUp(l)
  /\ UNCHANGED <<rows, golden, inflight, env>>

\* Mutant: the gate ignores the stored fixtures.
Passes_NoFixtures(l, fits) == loop[l].sampled \subseteq fits

\* The gauntlet: every sample and every stored fixture is reproduced.
Passes(l, fits) == loop[l].sampled \cup loop[l].fixtures \subseteq fits

\* Mutant: promotion replaces the ladder instead of extending it.
Promoted_Replaces(fits, raises) ==
  LET n == NextVersion(rows)
  IN  [m \in {n} |-> [status |-> "active", fits |-> fits, raises |-> raises]]

Promoted(fits, raises) ==
  LET n == NextVersion(rows)
  IN  Activate(Inserted(rows, n, [status |-> "fallback", fits |-> fits,
                                  raises |-> raises]), n)

\* Gauntlet, promote and the final status run without an await.
RoundWins(l) ==
  /\ LoopAt(l, "round")
  /\ \E fits \in SUBSET Layouts, raises \in Raising :
       Passes(l, fits) /\ rows' = Promoted(fits, raises)
  /\ golden' = loop[l].sampled
  /\ status' = "healthy"
  /\ LoopEnds(l, "fallback")
  /\ UNCHANGED <<inflight, env>>

\* An off-list redirect, or an exception of the completer or of load_fixtures:
\* swallowed in a task, propagated to the caller inline; the status stays.
LoopRaises(l) ==
  /\ loop[l].pc \in {"sample", "oracle", "round"}
  /\ faults < MaxFaults
  /\ faults' = faults + 1
  /\ LoopEnds(l, "raised")
  /\ UNCHANGED <<store, inflight, inline, site, drifts, crashes>>

\* Mutant: the guard is cleared only by a promotion.
Callback_OnlyIfHealthy(l) ==
  /\ LoopAt(l, "done")
  /\ loop' = [loop EXCEPT ![l] = NoLoop]
  /\ inflight' = (inflight /\ status # "healthy")
  /\ UNCHANGED <<store, req, env>>

\* The task's done callbacks run on a later turn of the event loop.
Callback(l) ==
  /\ LoopAt(l, "done")
  /\ loop' = [loop EXCEPT ![l] = NoLoop]
  /\ inflight' = FALSE
  /\ UNCHANGED <<store, req, env>>

-----------------------------------------------------------------------------
(* The environment.                                                        *)

Drift ==
  /\ drifts < MaxDrifts
  /\ drifts' = drifts + 1
  /\ site' \in Layouts \ {site}
  /\ req' = [r \in Requests |-> [req[r] EXCEPT !.sure = FALSE]]
  /\ UNCHANGED <<store, loop, inflight, inline, faults, crashes>>

\* The process dies and is restarted on the same store.
Crash ==
  /\ crashes < MaxCrashes
  /\ crashes' = crashes + 1
  /\ req' = [r \in Requests |-> NoRequest]
  /\ loop' = [r \in Requests |-> NoLoop]
  /\ inflight' = FALSE
  /\ UNCHANGED <<store, inline, site, faults, drifts>>

RequestStep(r) ==
  \/ RungServes(r) \/ Fill(r) \/ RungFails(r) \/ RungUnfetched(r) \/ Exhausted(r)
  \/ Backoff(r) \/ Recover(r) \/ Refetch(r) \/ RefetchFails(r)
  \/ Extracted(r) \/ BootstrapFetch(r) \/ BootstrapFails(r) \/ Register(r)
  \/ CompleterRaises(r) \/ OffList(r)

LoopStep(l) ==
  \/ LoopBegin(l) \/ Sample(l) \/ NoSamples(l) \/ Oracle(l) \/ TooFewOracles(l)
  \/ RoundFails(l) \/ RoundWins(l) \/ LoopRaises(l) \/ Callback(l)

Next ==
  \/ \E r \in Requests : Start(r) \/ RequestStep(r) \/ LoopStep(r)
  \/ Drift \/ Crash

Spec == Init /\ [][Next]_vars

\* The event loop runs every ready task, and callers keep asking for the page.
\* Nothing is assumed of the site, of the completer or of crashes.
Fairness ==
  \A r \in Requests :
    WF_vars(Start(r)) /\ WF_vars(RequestStep(r)) /\ WF_vars(LoopStep(r))

FairSpec == Spec /\ Fairness

-----------------------------------------------------------------------------
(* Properties.                                                             *)

\* With background healing, one in-flight Loop per family, however many requests
\* meet the drift (an inline Loop runs in its request and has no guard).
OneLoopPerFamily == ~inline => Cardinality({l \in Requests : Running(l)}) <= 1

\* The guard is held exactly while a task is scheduled, running, or done with
\* its callbacks still to come: it neither leaks nor opens early.
GuardIsTask == ~inline => (inflight <=> \E l \in Requests : loop[l].pc # "none")

\* Only a drift or a bootstrap regenerates: a request any of whose fetches was
\* blocked, failed or found the page gone never starts a Loop.
FaultNeverRegenerates ==
  [][\A r \in Requests :
       loop[r].pc = "none" /\ loop'[r].pc # "none" => ~req'[r].faulted]_vars

\* A promotion never loses a layout: the new active version still extracts
\* every page of the golden set that stood when it was promoted.
NoRegression ==
  [][rows' # rows =>
       \A n \in WithStatus(rows, "active")' : golden \subseteq rows'[n].fits]_vars

\* The ladder absorbs a mix of layouts: a request whose page fits some rung
\* when it starts, and meets no fault and no redesign, is served from the
\* registry, whatever is promoted meanwhile.  That is so while no crawler raises
\* (Raising = {FALSE}): one that raises ends the walk, whatever stands below it.
ServedWhenCovered ==
  \A r \in Requests :
    req[r].sure /\ At(r, "idle") => req[r].answer \in {"registry", "recovered"}

\* The stages of a request, the last first: what a stage leads to is below it.  A
\* first walk is above everything, a retry above the retries that remain.
Retries(q) == MaxRetries - q.tries
WalkStage(q) ==
  CASE q.mode = "first" -> 2 * MaxRetries + 6
    [] q.mode = "retry" -> 2 * Retries(q) + 2
    [] q.mode = "recovered" -> 3
Stage(q) ==
  CASE q.pc = "idle" -> 0
    [] q.pc \in {"healing", "fill"} -> 1
    [] q.pc \in {"extract", "register"} -> 2
    [] q.pc = "bootstrap" -> 3
    [] q.pc = "recover" -> 4
    [] q.pc = "t2" -> 5
    [] q.pc = "backoff" -> 2 * Retries(q) + 1
    [] q.pc = "walk" -> WalkStage(q)

\* q later: at a lower stage or, in the same walk, some rungs on.
Nearer(later, q) ==
  \/ Stage(later) < Stage(q)
  \/ Stage(later) = Stage(q) /\ Len(later.walk) < Len(q.walk)

\* A request never goes back, however classes of failure follow each other: each of
\* its steps takes it to a lower stage or, in a walk, one rung on.  It walks
\* MaxRetries + 2 ladders at most, each as it was when the walk began.
RequestAdvances ==
  [][\A r \in Requests :
       ~At(r, "idle") /\ req'[r] # req[r] =>
         req'[r] = [req[r] EXCEPT !.sure = FALSE] \/ Nearer(req'[r], req[r])]_vars

\* What is left of a Loop, in steps at most: an attempt samples, extracts oracles
\* and has its rounds; the first may be followed by the stronger model's.
Attempt == MaxRounds + 2
StepsLeft(l) ==
  LET after == IF loop[l].tier = 1 THEN Attempt ELSE 0
  IN  CASE LoopAt(l, "none") -> 0
        [] LoopAt(l, "done") -> 1
        [] LoopAt(l, "round") -> after + Attempt - loop[l].round
        [] LoopAt(l, "oracle") -> after + Attempt
        [] LoopAt(l, "sample") -> after + Attempt + 1
        [] LoopAt(l, "scheduled") -> after + Attempt + 2

\* Every step of a Loop brings its end nearer, and no request puts another Loop in
\* its place: regeneration takes at most 2 * (MaxRounds + 3) steps.
LoopAdvances ==
  [][\A l \in Requests :
       ~LoopAt(l, "none") /\ loop'[l] # loop[l] => StepsLeft(l)' < StepsLeft(l)]_vars

\* Every request is answered (or lost in a crash).
RequestsAnswered == \A r \in Requests : ~At(r, "idle") ~> At(r, "idle")

\* A redesign is healed or reported: while no rung fits the page, the family
\* becomes covered or escalated, and an escalated family is tried again.
HealsOrEscalates ==
  /\ ~Covered /\ status # "escalated" ~> Covered \/ status = "escalated"
  /\ ~Covered /\ status = "escalated" ~> Covered \/ status # "escalated"

\* What the Engine promises its operator, as HealContract states it: layouts are
\* only ever added, by one Loop at a time, and every Loop ends.
Contract == INSTANCE HealContract
  WITH covered <- UNION {rows[n].fits : n \in DOMAIN rows},
       healing <- \E l \in Requests : Running(l)
HonoursContract == Contract!Spec
HonoursContractLive == Contract!FairSpec
=============================================================================

--------------------------- MODULE AccessRecovery ---------------------------
(***************************************************************************)
(* Fetching from one domain: RealFetchContext.fetch tries one strategy,    *)
(* the saved winner or the first configured one (crawloop/access.py); on a *)
(* block the Engine has recover_access walk the whole strategy ladder      *)
(* (crawloop/loop/access_recovery.py) and retries once.  The registry's    *)
(* domain_access row is shared by every request and survives a restart.    *)
(*                                                                         *)
(* A strategy is awaited, so requests interleave at every attempt, and the *)
(* site may change what it lets through in between.                        *)
(*                                                                         *)
(* The site answers a strategy with a page (ok), a refusal (auth, rate), an *)
(* error, or a redirect chain that GuardedClient does not follow to its    *)
(* end: it is too long (FetchError, access.py:325) or leaves the allowlist *)
(* (UnauthorizedDomain, access.py:317).  That last answer is RAISED: a     *)
(* strategy that fetches through GuardedClient does not catch it, neither  *)
(* does recover_access, and a browser turns it into an error.              *)
(***************************************************************************)
EXTENDS Ordering, SequencesExt

CONSTANTS
  Requests,     \* concurrent requests for pages of the domain
  Configured,   \* DomainConfig.access_strategies, in order
  Retrying,     \* the strategies BackoffRetry wraps
  Disabled,     \* the strategies that raise NotEnabled
  Rendering,    \* the strategies of a browser
  Reactions,    \* how the site may answer a strategy
  Tries,        \* BackoffRetry.tries
  MaxRounds,    \* recover_access max_rounds
  MaxShifts,    \* bound on the site's changes of behaviour
  NoStrategy    \* no working strategy is saved

Strategies == ToSet(Configured)

ASSUME AccessAssumption ==
  /\ Configured \in Seq(Strategies) /\ Configured # <<>>
  /\ {Retrying, Disabled, Rendering} \subseteq SUBSET Strategies
  /\ Configured[1] \notin Disabled
  /\ Reactions \subseteq {"ok", "auth", "rate", "error", "redirect"}
  /\ {Tries, MaxRounds} \subseteq Nat \ {0} /\ MaxShifts \in Nat
  /\ NoStrategy \notin Strategies

VARIABLES
  saved,    \* domain_access.working_strategy
  state,    \* domain_access.status
  task,     \* each request
  site,     \* the site's reaction to each strategy
  shifts

recoveryVars == <<saved, state, task, site, shifts>>

Task ==
  [pc : {"idle", "fetch", "ladder"},
   mode : {"first", "recovered"},       \* which call of _run_family fetches
   using : Strategies,                  \* the strategy of the inline fetch
   left : Seq(Strategies),              \* rungs of this round still to try
   full : Seq(Strategies),              \* the ladder, built once per recovery
   round : 1..MaxRounds,
   attempt : 1..Tries,                  \* attempt of a retrying strategy
   fetches : Nat,                       \* history: attempts made so far
   steady : BOOLEAN,                    \* history: no shift since the recovery began
   answer : {"none", "served", "recovered", "failed", "escalated", "error", "raised"}]

\* A disabled strategy asks the site nothing.
Sites ==
  {f \in [Strategies -> Reactions] : /\ \A s \in Rendering : f[s] # "redirect"
                                     /\ \A s \in Disabled : f[s] = "error"}

RecoveryTypeOK ==
  /\ saved \in Strategies \cup {NoStrategy}
  /\ state \in {"unseen", "escalated"}
  /\ task \in [Requests -> Task]
  /\ site \in Sites
  /\ shifts \in 0..MaxShifts

NewTask == [pc |-> "idle", mode |-> "first", using |-> Configured[1],
            left |-> <<>>, full |-> <<>>, round |-> 1, attempt |-> 1,
            fetches |-> 0, steady |-> FALSE, answer |-> "none"]

RecoveryInit ==
  /\ saved = NoStrategy /\ state = "unseen"
  /\ task = [r \in Requests |-> NewTask]
  /\ site \in Sites
  /\ shifts = 0

-----------------------------------------------------------------------------
\* Mutant: the saved winner is ignored.
FastStrategy_First == Configured[1]

\* _fast_strategy of a domain without render_js.
FastStrategy == IF saved # NoStrategy THEN saved ELSE Configured[1]

\* Mutant: a domain with a saved winner is recovered with that winner alone.
BuildLadder_SavedOnly == IF saved # NoStrategy THEN <<saved>> ELSE Configured

\* The configured rungs other than the saved one, each where it is first listed.
NewRungs ==
  {i \in DOMAIN Configured : /\ Configured[i] # saved
                             /\ \A j \in 1..(i - 1) : Configured[j] # Configured[i]}

\* _build_ladder: the saved winner, then the configured rungs, without repeats.
BuildLadder ==
  (IF saved # NoStrategy THEN <<saved>> ELSE <<>>) \o Kept(Configured, NewRungs)

\* BackoffRetry goes again on an error or a 429, with the same strategy.
ShouldRetry(r, s) ==
  s \in Retrying /\ site[s] \in {"error", "rate"} /\ task[r].attempt < Tries

SetWorkingStrategy(s) == saved' = s
MarkEscalated == state' = "escalated"

Fetched(r) == [task EXCEPT ![r].fetches = @ + 1]
AttemptAgain(r) == task' = [Fetched(r) EXCEPT ![r].attempt = @ + 1]
Return(r, answer) ==
  task' = [Fetched(r) EXCEPT ![r].pc = "idle", ![r].answer = answer]

-----------------------------------------------------------------------------
(* The inline fetch.                                                       *)

\* The strategy is chosen before the await.
Fetch(r) ==
  /\ task[r].pc = "idle"
  /\ task' = [task EXCEPT ![r] = [NewTask EXCEPT !.pc = "fetch", !.using = FastStrategy]]
  /\ UNCHANGED <<saved, state, site, shifts>>

FetchRetry(r) ==
  /\ task[r].pc = "fetch" /\ ShouldRetry(r, task[r].using)
  /\ AttemptAgain(r)
  /\ UNCHANGED <<saved, state, site, shifts>>

FetchOk(r) ==
  /\ task[r].pc = "fetch" /\ site[task[r].using] = "ok"
  /\ Return(r, IF task[r].mode = "first" THEN "served" ELSE "recovered")
  /\ UNCHANGED <<saved, state, site, shifts>>

\* FetchError: classified transient, never recovered.
FetchErrs(r) ==
  /\ task[r].pc = "fetch" /\ ~ShouldRetry(r, task[r].using)
  /\ site[task[r].using] \in {"error", "redirect"}
  /\ Return(r, IF task[r].mode = "first" THEN "error" ELSE "failed")
  /\ UNCHANGED <<saved, state, site, shifts>>

\* UnauthorizedDomain: propagates out of the request, whichever call fetched.
FetchIsOffList(r) ==
  /\ task[r].pc = "fetch" /\ site[task[r].using] = "redirect"
  /\ Return(r, "raised")
  /\ UNCHANGED <<saved, state, site, shifts>>

\* FetchBlocked: recover_access starts, unless this was the one retry after it.
FetchIsBlocked(r) ==
  /\ task[r].pc = "fetch" /\ ~ShouldRetry(r, task[r].using)
  /\ site[task[r].using] \in {"auth", "rate"}
  /\ IF task[r].mode = "first"
     THEN task' = [Fetched(r) EXCEPT ![r].pc = "ladder", ![r].left = BuildLadder,
                     ![r].full = BuildLadder, ![r].attempt = 1, ![r].steady = TRUE]
     ELSE Return(r, "failed")
  /\ UNCHANGED <<saved, state, site, shifts>>

-----------------------------------------------------------------------------
(* recover_access.                                                         *)

AtRung(r, s) == task[r].pc = "ladder" /\ task[r].left # <<>> /\ Head(task[r].left) = s

\* NotEnabled: as if the rung were absent.
SkipRung(r) ==
  \E s \in Disabled :
    /\ AtRung(r, s)
    /\ task' = [task EXCEPT ![r].left = Tail(@)]
    /\ UNCHANGED <<saved, state, site, shifts>>

RetryRung(r) ==
  \E s \in Strategies \ Disabled :
    /\ AtRung(r, s) /\ ShouldRetry(r, s)
    /\ AttemptAgain(r)
    /\ UNCHANGED <<saved, state, site, shifts>>

\* Mutant: the winner is not persisted, so the retry takes the old strategy.
WinRung_NotSaved(r) ==
  \E s \in Strategies \ Disabled :
    /\ AtRung(r, s) /\ site[s] = "ok"
    /\ task' = [Fetched(r) EXCEPT ![r].pc = "fetch", ![r].mode = "recovered",
                                  ![r].using = FastStrategy, ![r].attempt = 1]
    /\ UNCHANGED <<saved, state, site, shifts>>

\* The winner is persisted, and the retry that follows reads it back at once.
WinRung(r) ==
  \E s \in Strategies \ Disabled :
    /\ AtRung(r, s) /\ site[s] = "ok"
    /\ SetWorkingStrategy(s)
    /\ task' = [Fetched(r) EXCEPT ![r].pc = "fetch", ![r].mode = "recovered",
                                  ![r].using = s, ![r].attempt = 1]
    /\ UNCHANGED <<state, site, shifts>>

LoseRung(r) ==
  \E s \in Strategies \ Disabled :
    /\ AtRung(r, s) /\ ~ShouldRetry(r, s) /\ site[s] \notin {"ok", "redirect"}
    /\ task' = [Fetched(r) EXCEPT ![r].left = Tail(@), ![r].attempt = 1]
    /\ UNCHANGED <<saved, state, site, shifts>>

\* The rung raises and only NotEnabled is caught: the recovery is abandoned with its
\* request, the rungs behind it untried, nothing saved and nothing escalated.
RungRaises(r) ==
  \E s \in Strategies \ Disabled :
    /\ AtRung(r, s) /\ site[s] = "redirect"
    /\ Return(r, "raised")
    /\ UNCHANGED <<saved, state, site, shifts>>

\* Mutant: rounds are not counted.
RoundsLeft_Always(r) == TRUE

RoundsLeft(r) == task[r].round < MaxRounds

NextRound(r) ==
  /\ task[r].pc = "ladder" /\ task[r].left = <<>> /\ RoundsLeft(r)
  /\ task' = [task EXCEPT ![r].round = IF @ < MaxRounds THEN @ + 1 ELSE @,
                          ![r].left = task[r].full]
  /\ UNCHANGED <<saved, state, site, shifts>>

Escalate(r) ==
  /\ task[r].pc = "ladder" /\ task[r].left = <<>> /\ ~RoundsLeft(r)
  /\ MarkEscalated
  /\ task' = [task EXCEPT ![r].pc = "idle", ![r].answer = "escalated"]
  /\ UNCHANGED <<saved, site, shifts>>

-----------------------------------------------------------------------------
\* The site changes what it lets through.
Shift ==
  /\ shifts < MaxShifts
  /\ shifts' = shifts + 1
  /\ site' \in Sites
  /\ task' = [r \in Requests |-> [task[r] EXCEPT !.steady = FALSE]]
  /\ UNCHANGED <<saved, state>>

Step(r) ==
  \/ Fetch(r) \/ FetchRetry(r) \/ FetchOk(r) \/ FetchErrs(r) \/ FetchIsOffList(r)
  \/ FetchIsBlocked(r)
  \/ SkipRung(r) \/ RetryRung(r) \/ WinRung(r) \/ LoseRung(r) \/ RungRaises(r)
  \/ NextRound(r) \/ Escalate(r)

RecoveryNext == Shift \/ \E r \in Requests : Step(r)

RecoverySpec == RecoveryInit /\ [][RecoveryNext]_recoveryVars

\* Requests keep coming and every await returns (httpx has a timeout).
FairRecoverySpec == RecoverySpec /\ \A r \in Requests : WF_recoveryVars(Step(r))

-----------------------------------------------------------------------------
(* Properties.                                                             *)

\* A block never becomes a storm: one request makes at most the attempts of its
\* inline fetch, of MaxRounds walks of the ladder, and of the one retry.
FetchesBounded ==
  \A r \in Requests :
    task[r].fetches <= Tries * (2 + MaxRounds * Len(Configured))

\* After a recovery the page is served: if the site stays as it was since the
\* recovery began, the request that won is answered, whoever else recovers.
RecoveryServes ==
  \A r \in Requests :
    task[r].mode = "recovered" /\ task[r].steady /\ task[r].pc = "idle" =>
      task[r].answer = "recovered"

\* A domain is escalated only when nothing gets through: if the site stays as
\* it was during a failed recovery, none of the enabled strategies works.  (A
\* recovery that a rung aborts does not escalate.)
EscalatesWhenNothingWorks ==
  \A r \in Requests :
    task[r].answer = "escalated" /\ task[r].steady =>
      \A s \in Strategies \ Disabled : site[s] # "ok"

\* A climb from the bottom of the configured ladder meets a rung that gets through
\* before one that raises.
Climbable ==
  \E i \in DOMAIN Configured :
    /\ Configured[i] \notin Disabled /\ site[Configured[i]] = "ok"
    /\ \A j \in 1..(i - 1) :
         Configured[j] \in Disabled \/ site[Configured[j]] # "redirect"

\* While the ladder is climbable, the inline path ends up on a strategy that gets
\* through: the ladder is climbed again when the saved strategy is blocked.  The code
\* recovers no further.  A rung that raises ends every recovery that meets it, and the
\* working rungs behind it are never reached; and a saved strategy that errors (a
\* timeout, a 5xx) or raises is transient to the Engine, or ends the request, and
\* nothing climbs the ladder again.
FastPathRecovers ==
  Climbable ~> (site[FastStrategy] \in {"ok", "error", "redirect"} \/ ~Climbable)
=============================================================================

---------------------------- MODULE EngineProofs ----------------------------
(***************************************************************************)
(* The regeneration Loops of a family, for any number of callers, layouts, *)
(* retries and rounds, and any number of faults, drifts and crashes: every *)
(* step is first reduced to what it does to the Loops and to the ladder,   *)
(* and the theorems are proved of those few effects.                       *)
(***************************************************************************)
EXTENDS Engine, OrderingProofs

Live == {"scheduled", "sample", "oracle", "round"}

RowsOK == \E b \in Nat : DOMAIN rows \subseteq 0..b /\ \A n \in DOMAIN rows : rows[n] \in Row

LInv ==
  /\ inline \in Modes /\ site \in Layouts
  /\ RowsOK /\ golden \subseteq Layouts
  /\ loop \in [Requests -> Loop]
  /\ ~inline =>
       /\ inflight <=> \E l \in Requests : loop[l].pc # "none"
       /\ \A l, m \in Requests : loop[l].pc # "none" /\ loop[m].pc # "none" => l = m
       /\ \A l \in Requests : loop[l].pc = "round" => loop[l].fixtures = golden

-----------------------------------------------------------------------------
(* The effects of a step.                                                  *)

Quiet == UNCHANGED <<rows, golden, loop, inflight, inline>>

Starts(r) ==
  /\ UNCHANGED <<rows, golden, inline>>
  /\ \E pc \in {"scheduled", "sample"} : loop' = [loop EXCEPT ![r] = [NoLoop EXCEPT !.pc = pc]]
  /\ ~inline => ~inflight /\ inflight'

Goes(l) ==
  /\ UNCHANGED <<rows, golden, inflight, inline>>
  /\ loop[l].pc \in Live
  /\ \E new \in Loop :
       /\ new.pc \in Live /\ loop' = [loop EXCEPT ![l] = new]
       /\ new.pc = "round" =>
            new.fixtures = IF loop[l].pc = "round" THEN loop[l].fixtures ELSE golden

Ended(l) == loop' = [loop EXCEPT ![l] = [NoLoop EXCEPT !.pc = IF inline THEN "none" ELSE "done"]]

Fails(l) ==
  /\ UNCHANGED <<rows, golden, inflight, inline>>
  /\ loop[l].pc \in Live /\ Ended(l)

Wins(l) ==
  /\ UNCHANGED <<inflight, inline>>
  /\ LoopAt(l, "round") /\ Ended(l)
  /\ golden' = loop[l].sampled
  /\ \E fits \in SUBSET Layouts, raises \in Raising :
       Passes(l, fits) /\ rows' = Promoted(fits, raises)

Clears(l) ==
  /\ UNCHANGED <<rows, golden, inline>>
  /\ LoopAt(l, "done") /\ loop' = [loop EXCEPT ![l] = NoLoop] /\ inflight' = FALSE

Dies ==
  /\ UNCHANGED <<rows, golden, inline>>
  /\ loop' = [r \in Requests |-> NoLoop] /\ inflight' = FALSE

Effects ==
  \/ Quiet \/ Dies
  \/ \E l \in Requests : Starts(l) \/ Goes(l) \/ Fails(l) \/ Wins(l) \/ Clears(l)

LEMMA NoLoopType ==
  /\ NoLoop \in Loop
  /\ \A pc \in Live \cup {"none", "done"} :
       [NoLoop EXCEPT !.pc = pc] \in Loop /\ [NoLoop EXCEPT !.pc = pc].pc = pc
  BY EngineAssumption DEF NoLoop, Loop, Live

\* A request leaves the Loops alone, or starts one for a page that matches no
\* version or has no family yet.
LEMMA RequestEffects ==
  ASSUME LInv, NEW r \in Requests, Start(r) \/ RequestStep(r)
  PROVE  /\ Quiet \/ Starts(r)
         /\ ~Quiet => Extracted(r) \/ Register(r)
         /\ site' = site
<1>1. CASE Extracted(r) \/ Register(r)
  <2>1. UNCHANGED <<rows, golden, env>> /\ \E current : Trigger(r, current)
    BY <1>1 DEF Extracted, Register
  <2>2. Quiet \/ Starts(r)
    BY <2>1 DEF Trigger, MayStart, Quiet, Starts, env, NoLoop
  <2> QED BY <1>1, <2>1, <2>2 DEF env
<1>2. CASE \/ Start(r) \/ RungServes(r) \/ Fill(r) \/ RungFails(r) \/ RungUnfetched(r)
           \/ Exhausted(r) \/ Backoff(r) \/ Recover(r)
  BY <1>2 DEF Start, RungServes, Fill, RungFails, RungUnfetched, Exhausted, Backoff,
              Recover, Quiet, store, env
<1>3. CASE \/ Refetch(r) \/ RefetchFails(r) \/ BootstrapFetch(r) \/ BootstrapFails(r)
           \/ CompleterRaises(r) \/ OffList(r)
  BY <1>3 DEF Refetch, RefetchFails, BootstrapFetch, BootstrapFails, CompleterRaises,
              OffList, Quiet, store, env
<1> QED BY <1>1, <1>2, <1>3 DEF RequestStep

LEMMA EndsEffect ==
  ASSUME NEW l \in Requests, NEW answer, LoopEnds(l, answer)
  PROVE  Ended(l)
<1>1. NoLoop = [NoLoop EXCEPT !.pc = "none"]
  BY DEF NoLoop
<1> QED BY <1>1 DEF LoopEnds, Ended

LEMMA GivesUpEffect ==
  ASSUME LInv, NEW l \in Requests, GivesUp(l), loop[l].pc \in Live,
         UNCHANGED <<rows, golden, inflight, env>>
  PROVE  Goes(l) \/ Fails(l)
<1>1. CASE loop[l].tier = 1 /\ HasStronger
  <2> DEFINE new == [NoLoop EXCEPT !.pc = "sample", !.tier = 2]
  <2>1. loop' = [loop EXCEPT ![l] = new]
    BY <1>1 DEF GivesUp
  <2>2. new \in Loop /\ new.pc = "sample"
    <3> DEFINE fresh == [NoLoop EXCEPT !.pc = "sample"]
    <3>1. fresh \in Loop /\ fresh.pc = "sample" /\ new = [fresh EXCEPT !.tier = 2]
      BY NoLoopType DEF Live
    <3> HIDE DEF fresh, new
    <3> QED BY <3>1 DEF Loop
  <2> HIDE DEF new
  <2> QED BY <2>1, <2>2 DEF Goes, env, Live
<1>2. CASE ~(loop[l].tier = 1 /\ HasStronger)
  BY <1>2, EndsEffect DEF GivesUp, Fails, env
<1> QED BY <1>1, <1>2

LEMMA LoopEffects ==
  ASSUME LInv, NEW l \in Requests, LoopStep(l)
  PROVE  (Goes(l) \/ Fails(l) \/ Wins(l) \/ Clears(l)) /\ site' = site
<1> USE DEF Live
<1>0. loop[l] \in Loop /\ MaxRounds \in Nat /\ 1 \in 0..MaxRounds
  BY EngineAssumption DEF LInv
<1>1. CASE LoopBegin(l)
  <2> DEFINE new == [loop[l] EXCEPT !.pc = "sample"]
  <2>1. new \in Loop /\ new.pc = "sample"
    BY <1>0 DEF Loop
  <2> QED BY <1>1, <2>1 DEF LoopBegin, LoopAt, Goes, env
<1>2. CASE Sample(l)
  <2> DEFINE new == [loop[l] EXCEPT !.pc = "oracle", !.sampled = {site}]
  <2>1. new \in Loop /\ new.pc = "oracle"
    BY <1>0 DEF Loop, LInv
  <2> QED BY <1>2, <2>1 DEF Sample, LoopAt, Goes, env, store
<1>3. CASE NoSamples(l)
  BY <1>3, EndsEffect DEF NoSamples, LoopAt, Fails
<1>4. CASE Oracle(l)
  <2> DEFINE new == [loop[l] EXCEPT !.pc = "round", !.round = 1, !.fixtures = golden]
  <2>1. new \in Loop /\ new.pc = "round" /\ new.fixtures = golden
    BY <1>0 DEF Loop, LInv
  <2> QED BY <1>4, <2>1 DEF Oracle, LoopAt, Goes, env, store
<1>5. CASE TooFewOracles(l)
  BY <1>5, GivesUpEffect DEF TooFewOracles, LoopAt, env
<1>6. CASE RoundFails(l)
  <2>1. CASE loop[l].round < MaxRounds
    <3> DEFINE new == [loop[l] EXCEPT !.round = @ + 1]
    <3>1. new \in Loop /\ new.pc = loop[l].pc /\ new.fixtures = loop[l].fixtures
      BY <1>0, <2>1 DEF Loop
    <3> QED BY <1>6, <2>1, <3>1 DEF RoundFails, LoopAt, Goes, env
  <2>2. CASE ~(loop[l].round < MaxRounds)
    BY <1>6, <2>2, GivesUpEffect DEF RoundFails, LoopAt, env
  <2> QED BY <2>1, <2>2
<1>7. CASE RoundWins(l)
  BY <1>7, EndsEffect DEF RoundWins, Wins, env
<1>8. CASE LoopRaises(l)
  BY <1>8, EndsEffect DEF LoopRaises, Fails, store
<1>9. CASE Callback(l)
  BY <1>9 DEF Callback, Clears, store, env
<1> QED BY <1>1, <1>2, <1>3, <1>4, <1>5, <1>6, <1>7, <1>8, <1>9 DEF LoopStep

LEMMA StepEffects ==
  ASSUME LInv, [Next]_vars
  PROVE  Effects /\ site' \in Layouts
<1>1. ASSUME NEW r \in Requests, Start(r) \/ RequestStep(r) PROVE Effects /\ site' = site
  BY <1>1, RequestEffects DEF Effects
<1>2. ASSUME NEW l \in Requests, LoopStep(l) PROVE Effects /\ site' = site
  BY <1>2, LoopEffects DEF Effects
<1>3. CASE Drift
  BY <1>3 DEF Drift, Effects, Quiet, store
<1>4. CASE Crash
  BY <1>4 DEF Crash, Effects, Dies, store, LInv
<1>5. CASE UNCHANGED vars
  BY <1>5 DEF vars, store, env, Effects, Quiet, LInv
<1> QED BY <1>1, <1>2, <1>3, <1>4, <1>5 DEF Next, LInv

-----------------------------------------------------------------------------
(* The Loops: at most one, when they run in the background.                *)

\* One Loop of the family at most changes in a step.
LEMMA OthersKept ==
  ASSUME LInv, NEW l \in Requests, Starts(l) \/ Goes(l) \/ Fails(l) \/ Wins(l) \/ Clears(l)
  PROVE  /\ loop' \in [Requests -> Loop]
         /\ \A m \in Requests \ {l} : loop'[m] = loop[m]
<1>1. \E new \in Loop : loop' = [loop EXCEPT ![l] = new]
  BY NoLoopType DEF Starts, Goes, Fails, Ended, Wins, Clears, Live
<1> QED BY <1>1 DEF LInv

\* A promotion adds one version, and only it is active.
LEMMA PromotedProperties ==
  ASSUME RowsOK, NEW fits \in SUBSET Layouts, NEW raises \in Raising, rows' = Promoted(fits, raises)
  PROVE  /\ RowsOK'
         /\ \A n \in WithStatus(rows', "active") : rows'[n].fits = fits
         /\ \E n : /\ DOMAIN rows' = DOMAIN rows \cup {n}
                   /\ rows'[n].fits = fits /\ rows'[n].raises = raises
                   /\ \A m \in DOMAIN rows : /\ rows'[m].fits = rows[m].fits
                                             /\ rows'[m].raises = rows[m].raises
<1> DEFINE n == NextVersion(rows)
           row == [status |-> "fallback", fits |-> fits, raises |-> raises]
           more == Inserted(rows, n, row)
<1>1. PICK b \in Nat : DOMAIN rows \subseteq 0..b /\ \A m \in DOMAIN rows : rows[m] \in Row
  BY DEF RowsOK
<1>2. n \in 1..(b + 1) /\ n \notin DOMAIN rows
  BY <1>1, FreshVersion
<1>3. row \in Row /\ row.fits = fits /\ row.raises = raises
  BY EngineAssumption DEF Row, Statuses
<1>4. rows' = Activate(more, n)
  BY DEF Promoted
<1> HIDE DEF n, row
<1>5. /\ DOMAIN more = DOMAIN rows \cup {n} /\ more[n] = row
      /\ \A m \in DOMAIN rows : more[m] = rows[m]
      /\ \A m \in DOMAIN more : more[m] \in Row
  BY <1>1, <1>2, <1>3 DEF Inserted
<1> HIDE DEF more
<1>6. \A m \in DOMAIN more : DOMAIN more[m] = {"status", "fits", "raises"}
  BY <1>5 DEF Row
<1>7. /\ DOMAIN rows' = DOMAIN more /\ WithStatus(rows', "active") = {n}
      /\ \A m \in DOMAIN more :
           /\ rows'[m].fits = more[m].fits /\ rows'[m].raises = more[m].raises
  BY <1>4, <1>5, <1>6, ActivateProperties
<1>8. RowsOK'
  <2>1. \A m \in DOMAIN more : rows'[m] \in Row
    BY <1>4, <1>5 DEF Activate, Restatus, Row, Statuses
  <2>2. b + 1 \in Nat /\ DOMAIN rows' \subseteq 0..(b + 1)
    BY <1>1, <1>2, <1>5, <1>7
  <2> QED BY <1>7, <2>1, <2>2 DEF RowsOK
<1> QED BY <1>3, <1>5, <1>7, <1>8

LEMMA InitLInv == Init => LInv
<1> SUFFICES ASSUME Init PROVE LInv
  OBVIOUS
<1>1. RowsOK
  BY DEF Init, RowsOK
<1>2. \A l \in Requests : loop[l] = NoLoop /\ loop[l].pc = "none"
  BY DEF Init, NoLoop
<1> QED BY <1>1, <1>2, NoLoopType DEF Init, LInv

LEMMA NextLInv ==
  ASSUME LInv, [Next]_vars
  PROVE  LInv'
<1>1. Effects /\ site' \in Layouts
  BY StepEffects
<1>2. CASE Quiet
  BY <1>1, <1>2 DEF Quiet, LInv, RowsOK
<1>3. CASE Dies
  <2>1. \A l \in Requests : loop'[l] = NoLoop /\ loop'[l].pc = "none"
    BY <1>3 DEF Dies, NoLoop
  <2> QED BY <1>1, <1>3, <2>1, NoLoopType DEF Dies, LInv, RowsOK
<1>4. ASSUME NEW l \in Requests, Starts(l) \/ Goes(l) \/ Fails(l) \/ Wins(l) \/ Clears(l)
      PROVE  LInv'
  <2>1. /\ loop' \in [Requests -> Loop] /\ inline' = inline
        /\ \A m \in Requests \ {l} : loop'[m] = loop[m]
    BY <1>4, OthersKept DEF Starts, Goes, Fails, Wins, Clears
  <2>2. RowsOK' /\ golden' \subseteq Layouts
    <3>1. CASE UNCHANGED <<rows, golden>>
      BY <3>1 DEF LInv, RowsOK
    <3>2. CASE Wins(l)
      BY <3>2, PromotedProperties DEF Wins, LInv, Loop
    <3> QED BY <1>4, <3>1, <3>2 DEF Starts, Goes, Fails, Clears
  <2>3. ASSUME ~inline
        PROVE  /\ inflight' <=> loop'[l].pc # "none"
               /\ \A m \in Requests \ {l} : loop'[m].pc = "none"
               /\ loop'[l].pc = "round" => loop'[l].fixtures = golden'
    <3>1. CASE Starts(l)
      BY <2>1, <2>3, <3>1, NoLoopType DEF Starts, LInv, Live
    <3>2. CASE Goes(l)
      BY <2>1, <2>3, <3>2 DEF Goes, LInv, Live
    <3>3. CASE Fails(l) \/ Wins(l)
      BY <2>1, <2>3, <3>3, NoLoopType DEF Fails, Wins, Ended, LoopAt, LInv, Live
    <3>4. CASE Clears(l)
      BY <2>1, <2>3, <3>4, NoLoopType DEF Clears, LoopAt, LInv, NoLoop
    <3> QED BY <1>4, <3>1, <3>2, <3>3, <3>4
  <2> QED BY <1>1, <2>1, <2>2, <2>3 DEF LInv
<1> QED BY <1>1, <1>2, <1>3, <1>4 DEF Effects

\* The in-flight guard is exactly the background task, from the request that
\* schedules it to its callback (_trigger_loop, _inflight_families).
THEOREM GuardNeverLeaks == Spec => []GuardIsTask
<1>1. LInv => GuardIsTask
  BY DEF LInv, GuardIsTask
<1> QED BY InitLInv, NextLInv, <1>1, PTL DEF Spec

\* However many requests meet a drift, one background Loop regenerates the family.
THEOREM LoopsDoNotOverlap == Spec => []OneLoopPerFamily
<1>1. LInv => OneLoopPerFamily
  <2> SUFFICES ASSUME LInv, ~inline
               PROVE  Cardinality({l \in Requests : Running(l)}) <= 1
    BY DEF OneLoopPerFamily
  <2> DEFINE L == {l \in Requests : Running(l)}
  <2>1. CASE L = {}
    BY <2>1, FS_EmptySet
  <2>2. CASE L # {}
    <3>1. PICK l : l \in L
      BY <2>2
    <3>2. L = {l}
      BY <3>1 DEF LInv, Running
    <3> QED BY <3>2, FS_Singleton
  <2> QED BY <2>1, <2>2
<1> QED BY InitLInv, NextLInv, <1>1, PTL DEF Spec

\* A background Loop reads the golden fixtures before its rounds, and they are
\* still the family's when it promotes: what it promotes reproduces them all.
THEOREM PromotionNeverRegresses ==
  ASSUME Modes = {FALSE}
  PROVE  Spec => NoRegression
<1>1. LInv /\ [Next]_vars =>
        [rows' # rows =>
           \A n \in WithStatus(rows, "active")' : golden \subseteq rows'[n].fits]_vars
  <2> SUFFICES ASSUME LInv, [Next]_vars, rows' # rows
               PROVE  \A n \in WithStatus(rows', "active") : golden \subseteq rows'[n].fits
    BY DEF WithStatus
  <2>1. PICK l \in Requests : Wins(l)
    BY StepEffects DEF Effects, Quiet, Dies, Starts, Goes, Fails, Clears
  <2>2. loop[l].fixtures = golden
    BY <2>1 DEF LInv, Wins, LoopAt
  <2>3. PICK fits \in SUBSET Layouts, raises \in Raising :
           loop[l].sampled \cup loop[l].fixtures \subseteq fits /\ rows' = Promoted(fits, raises)
    BY <2>1 DEF Wins, Passes
  <2>4. \A n \in WithStatus(rows', "active") : rows'[n].fits = fits
    BY <2>3, PromotedProperties DEF LInv
  <2> QED BY <2>2, <2>3, <2>4
<1> QED BY InitLInv, NextLInv, <1>1, PTL DEF Spec, NoRegression

-----------------------------------------------------------------------------
(* The contract: layouts are only added, by one Loop at a time.            *)

Covers == UNION {rows[n].fits : n \in DOMAIN rows}
Healing == \E l \in Requests : Running(l)

LEMMA StepHonours ==
  ASSUME LInv, [Next]_vars, Modes = {FALSE}
  PROVE  Contract!Next \/ (Covers' = Covers /\ Healing' = Healing)
<1> USE DEF Running, Live
<1>1. Effects /\ ~inline
  BY StepEffects DEF LInv
<1>2. CASE Quiet
  BY <1>2 DEF Quiet, Covers, Healing
<1>3. CASE Dies
  <2>1. \A l \in Requests : loop'[l].pc = "none"
    BY <1>3 DEF Dies, NoLoop
  <2>2. ~Healing' /\ Covers' = Covers
    BY <1>3, <2>1 DEF Dies, Healing, Covers
  <2> QED BY <2>2 DEF Contract!Next, Contract!GiveUp, Covers, Healing
<1>4. ASSUME NEW l \in Requests, Starts(l) \/ Goes(l) \/ Fails(l) \/ Wins(l) \/ Clears(l)
      PROVE  Contract!Next \/ (Covers' = Covers /\ Healing' = Healing)
  <2>1. /\ \A m \in Requests \ {l} : loop'[m] = loop[m]
        /\ loop \in [Requests -> Loop]
    BY <1>4, OthersKept DEF LInv
  <2>2. CASE Starts(l)
    <3>1. ~Healing
      BY <1>1, <2>2 DEF Starts, LInv, Healing
    <3>2. Healing' /\ Covers' = Covers
      BY <2>1, <2>2, NoLoopType DEF Starts, Healing, Covers
    <3> QED BY <3>1, <3>2 DEF Contract!Next, Contract!Begin, Covers, Healing
  <2>3. CASE Goes(l)
    <3>1. Healing /\ Healing' /\ Covers' = Covers
      BY <2>1, <2>3 DEF Goes, Healing, Covers
    <3> QED BY <3>1
  <2>4. ASSUME Fails(l) \/ Wins(l) PROVE Healing /\ ~Healing'
    <3>1. loop[l].pc \in Live /\ loop'[l].pc = "done"
      BY <1>1, <2>1, <2>4, NoLoopType DEF Fails, Wins, Ended, LoopAt
    <3>2. \A m \in Requests \ {l} : loop'[m].pc = "none"
      BY <1>1, <2>1, <3>1 DEF LInv
    <3> QED BY <3>1, <3>2 DEF Healing
  <2>5. CASE Fails(l)
    <3>1. Covers' = Covers
      BY <2>5 DEF Fails, Covers
    <3> QED BY <2>4, <2>5, <3>1 DEF Contract!Next, Contract!GiveUp, Covers, Healing
  <2>6. CASE Wins(l)
    <3>1. PICK fits \in SUBSET Layouts, raises \in Raising : rows' = Promoted(fits, raises)
      BY <2>6 DEF Wins
    <3>2. PICK n : /\ DOMAIN rows' = DOMAIN rows \cup {n} /\ rows'[n].fits = fits
                   /\ \A m \in DOMAIN rows : rows'[m].fits = rows[m].fits
      BY <3>1, PromotedProperties DEF LInv
    <3>3. Covers' = Covers \cup fits
      BY <3>2 DEF Covers
    <3> QED BY <2>4, <2>6, <3>3 DEF Contract!Next, Contract!Succeed, Covers, Healing
  <2>7. CASE Clears(l)
    <3>1. Covers' = Covers /\ Healing' = Healing
      BY <2>1, <2>7 DEF Clears, LoopAt, Healing, Covers, NoLoop
    <3> QED BY <3>1
  <2> QED BY <1>4, <2>2, <2>3, <2>5, <2>6, <2>7
<1> QED BY <1>1, <1>2, <1>3, <1>4 DEF Effects

\* With background healing the Engine implements HealContract: what the versions
\* extract only grows, by one regeneration at a time.
THEOREM ImplementsContract ==
  ASSUME Modes = {FALSE}
  PROVE  Spec => HonoursContract
<1>1. Init => Contract!Init
  <2> SUFFICES ASSUME Init PROVE Contract!Init
    OBVIOUS
  <2>1. DOMAIN rows = {} /\ \A l \in Requests : loop[l].pc = "none"
    BY DEF Init, NoLoop
  <2> QED BY <2>1 DEF Contract!Init, Running
<1>2. LInv /\ [Next]_vars => [Contract!Next]_(Contract!vars)
  BY StepHonours DEF Contract!vars, Covers, Healing
<1> QED BY InitLInv, NextLInv, <1>1, <1>2, PTL DEF Spec, HonoursContract, Contract!Spec

-----------------------------------------------------------------------------
(* Faults.  A request one of whose fetches failed is answered, or on a way *)
(* that leads to retries and recovery only.                                *)

RequestOK(q) ==
  /\ DOMAIN q = {"pc", "walk", "mode", "tries", "faulted", "sure", "answer"}
  /\ q.mode \in {"first", "retry", "recovered"} /\ q.faulted \in BOOLEAN
  /\ q.faulted => \/ q.pc \in {"idle", "backoff", "recover"}
                  \/ q.pc = "walk" /\ q.mode # "first"

FInv == DOMAIN req = Requests /\ \A r \in Requests : RequestOK(req[r])

LEMMA NoRequestOK == RequestOK(NoRequest) /\ ~NoRequest.faulted
  BY DEF NoRequest, RequestOK

\* One request moves.
LEMMA OneMoves ==
  ASSUME FInv, NEW r \in Requests, NEW new, RequestOK(new), req' = [req EXCEPT ![r] = new]
  PROVE  FInv'
  BY DEF FInv

LEMMA AnsweredOK ==
  ASSUME FInv, NEW r \in Requests, NEW answer, req' = Answered(r, answer)
  PROVE  FInv' /\ req'[r].faulted = req[r].faulted
  BY DEF FInv, RequestOK, Answered

\* A request that goes on to work a faulted one does not reach.
LEMMA GotoOK ==
  ASSUME FInv, NEW r \in Requests, NEW pc, ~req[r].faulted, Goto(r, pc)
  PROVE  FInv' /\ ~req'[r].faulted
  BY DEF FInv, RequestOK, Goto

LEMMA WalkAgainOK ==
  ASSUME FInv, NEW r \in Requests, NEW mode \in {"retry", "recovered"}, NEW tries,
         WalkAgain(r, mode, tries)
  PROVE  FInv'
  BY DEF FInv, RequestOK, WalkAgain

LEMMA FailedOK ==
  ASSUME FInv, NEW r \in Requests, NEW class \in {"drift", "blocked", "transient", "gone"},
         NEW fault \in BOOLEAN, At(r, "walk"), class = "drift" => ~fault, Failed(r, class, fault)
  PROVE  FInv'
<1>1. RequestOK(req[r]) /\ req[r].pc = "walk"
  BY DEF FInv, At
<1>2. /\ FailedTo(r, class) \in {"backoff", "idle", "t2", "recover"}
      /\ FailedTo(r, class) = "t2" => ~req[r].faulted /\ ~fault
  BY <1>1 DEF FailedTo, Outcome, RequestOK
<1> QED BY <1>1, <1>2 DEF FInv, RequestOK, Failed

LEMMA RequestFInv ==
  ASSUME FInv, NEW r \in Requests, Start(r) \/ RequestStep(r)
  PROVE  FInv' /\ (Extracted(r) \/ Register(r) => ~req'[r].faulted)
<1>0. RequestOK(req[r]) /\ DOMAIN req = Requests
  BY DEF FInv
<1>1. CASE Start(r)
  <2> DEFINE new == [NoRequest EXCEPT !.pc = IF status = "none" THEN "bootstrap" ELSE "walk",
                       !.walk = LadderOf(rows), !.sure = Covered, !.answer = "pending"]
  <2>1. RequestOK(new)
    BY DEF NoRequest, RequestOK
  <2>2. req' = [req EXCEPT ![r] = new] /\ At(r, "idle")
    BY <1>1 DEF Start
  <2> HIDE DEF new
  <2> QED BY <2>1, <2>2, OneMoves DEF Extracted, Register, At
<1>2. CASE Extracted(r) \/ Register(r)
  <2>1. ~req[r].faulted /\ \E current : Trigger(r, current)
    BY <1>0, <1>2 DEF Extracted, Register, At, RequestOK
  <2>2. Goto(r, "healing") \/ req' = Answered(r, "fallback")
    BY <2>1 DEF Trigger
  <2> QED BY <2>1, <2>2, GotoOK, AnsweredOK
<1>3. ASSUME ~(Extracted(r) \/ Register(r)), RequestStep(r) PROVE FInv'
  <2>1. CASE RungServes(r)
    <3>1. req[r].mode = "first" => ~req[r].faulted
      BY <1>0, <2>1 DEF RungServes, At, RequestOK
    <3> QED BY <2>1, <3>1, AnsweredOK, GotoOK DEF RungServes
  <2>2. CASE Fill(r) \/ CompleterRaises(r)
    BY <2>2, AnsweredOK DEF Fill, CompleterRaises
  <2>3. CASE RungFails(r)
    <3>1. CASE rows[Head(req[r].walk)].raises
      BY <2>3, <3>1, FailedOK DEF RungFails
    <3>2. CASE ~rows[Head(req[r].walk)].raises
      BY <1>0, <2>3, <3>2 DEF RungFails, FInv, RequestOK
    <3> QED BY <3>1, <3>2
  <2>4. CASE RungUnfetched(r)
    BY <2>4, FailedOK DEF RungUnfetched, FetchClasses
  <2>5. CASE Exhausted(r)
    BY <2>5, FailedOK DEF Exhausted
  <2>6. CASE Backoff(r) \/ Recover(r)
    BY <2>6, WalkAgainOK, AnsweredOK DEF Backoff, Recover
  <2>7. CASE Refetch(r) \/ BootstrapFetch(r)
    <3>1. ~req[r].faulted
      BY <1>0, <2>7 DEF Refetch, BootstrapFetch, At, RequestOK
    <3> QED BY <2>7, <3>1, GotoOK DEF Refetch, BootstrapFetch
  <2>8. CASE RefetchFails(r) \/ BootstrapFails(r) \/ OffList(r)
    BY <1>0, <2>8 DEF RefetchFails, BootstrapFails, OffList, Answered, FInv, RequestOK
  <2> QED BY <1>3, <2>1, <2>2, <2>3, <2>4, <2>5, <2>6, <2>7, <2>8 DEF RequestStep
<1> QED BY <1>1, <1>2, <1>3

LEMMA LoopFInv ==
  ASSUME FInv, NEW l \in Requests, LoopStep(l)
  PROVE  FInv'
<1>1. req' = req \/ \E answer : req' = Answered(l, answer)
  BY DEF LoopStep, LoopBegin, Sample, NoSamples, Oracle, TooFewOracles, RoundFails,
         RoundWins, LoopRaises, Callback, GivesUp, LoopEnds
<1> QED BY <1>1, AnsweredOK DEF FInv

LEMMA NextFInv ==
  ASSUME FInv, [Next]_vars
  PROVE  FInv'
<1>1. CASE Drift
  BY <1>1 DEF Drift, FInv, RequestOK
<1>2. CASE Crash
  BY <1>2, NoRequestOK DEF Crash, FInv
<1>3. CASE UNCHANGED vars
  BY <1>3 DEF vars, FInv
<1> QED BY <1>1, <1>2, <1>3, RequestFInv, LoopFInv DEF Next

\* Only a drift or a bootstrap regenerates: a request any of whose fetches was
\* blocked, failed or found the page gone never starts a Loop (classify and
\* _handle_failure; access failures are not the extractor's).
THEOREM FaultsDoNotRegenerate == Spec => FaultNeverRegenerates
<1>1. LInv /\ FInv /\ [Next]_vars =>
        [\A r \in Requests :
           loop[r].pc = "none" /\ loop'[r].pc # "none" => ~req'[r].faulted]_vars
  <2> SUFFICES ASSUME LInv, FInv, [Next]_vars, NEW r \in Requests,
                      loop[r].pc = "none", loop'[r].pc # "none"
               PROVE  ~req'[r].faulted
    OBVIOUS
  <2>1. ASSUME NEW q \in Requests, Start(q) \/ RequestStep(q) PROVE ~req'[r].faulted
    <3>1. Extracted(q) \/ Register(q)
      BY <2>1, RequestEffects DEF Quiet
    <3>2. q = r
      BY <2>1, RequestEffects DEF Quiet, Starts, LInv
    <3> QED BY <2>1, <3>1, <3>2, RequestFInv
  <2>2. ASSUME NEW l \in Requests, LoopStep(l) PROVE FALSE
    BY <2>2, LoopEffects, OthersKept DEF Goes, Fails, Wins, Clears, LoopAt, Live
  <2>3. CASE Drift \/ UNCHANGED vars
    BY <2>3 DEF Drift, vars
  <2>4. CASE Crash
    BY <2>4 DEF Crash, NoLoop
  <2> QED BY <2>1, <2>2, <2>3, <2>4 DEF Next
<1>2. Init => FInv
  BY NoRequestOK DEF Init, FInv
<1>3. FInv /\ [Next]_vars => FInv'
  BY NextFInv
<1> QED BY InitLInv, NextLInv, <1>1, <1>2, <1>3, PTL DEF Spec, FaultNeverRegenerates

-----------------------------------------------------------------------------
(* Service.  While the page of a request fits a rung, and no fetch of it   *)
(* fails and the site is not redesigned, that rung is still ahead on its   *)
(* walk, or it has been served: promotions only add rungs, and keep what   *)
(* the others extract.  It needs crawlers that do not raise.               *)

SureOK(q) ==
  q.sure =>
    \/ /\ q.pc = "walk" /\ q.mode = "first" /\ q.walk \in Seq(DOMAIN rows)
       /\ \E i \in 1..Len(q.walk) : site \in rows[q.walk[i]].fits
    \/ q.pc = "fill"
    \/ q.pc = "idle" /\ q.answer \in {"registry", "recovered"}

SInv ==
  /\ status = "none" => DOMAIN rows = {}
  /\ \A n \in DOMAIN rows : rows[n].raises \in Raising
  /\ inline => \A l \in Requests : loop[l].pc # "none" => At(l, "healing")
  /\ \A r \in Requests : SureOK(req[r])

\* A rung is never lost, nor a layout it extracts.
LEMMA RungsStay ==
  ASSUME LInv, [Next]_vars, \A n \in DOMAIN rows : rows[n].raises \in Raising
  PROVE  /\ \A n \in DOMAIN rows : n \in DOMAIN rows' /\ rows'[n].fits = rows[n].fits
         /\ \A n \in DOMAIN rows' : rows'[n].raises \in Raising
<1>1. CASE rows' = rows
  BY <1>1
<1>2. ASSUME NEW l \in Requests, Wins(l)
      PROVE  /\ \A n \in DOMAIN rows : n \in DOMAIN rows' /\ rows'[n].fits = rows[n].fits
             /\ \A n \in DOMAIN rows' : rows'[n].raises \in Raising
  <2>1. PICK fits \in SUBSET Layouts, raises \in Raising : rows' = Promoted(fits, raises)
    BY <1>2 DEF Wins
  <2>2. RowsOK
    BY DEF LInv
  <2>3. PICK n : /\ DOMAIN rows' = DOMAIN rows \cup {n}
                 /\ rows'[n].fits = fits /\ rows'[n].raises = raises
                 /\ \A m \in DOMAIN rows : /\ rows'[m].fits = rows[m].fits
                                           /\ rows'[m].raises = rows[m].raises
    BY <2>1, <2>2, PromotedProperties
  <2> QED BY <2>3
<1> QED BY <1>1, <1>2, StepEffects DEF Effects, Quiet, Dies, Starts, Goes, Fails, Clears

\* A walk only loses its head.
LEMMA WalkOn ==
  ASSUME NEW T, NEW s \in Seq(T), s # <<>>
  PROVE  /\ Head(s) \in T /\ Tail(s) \in Seq(T)
         /\ \A i \in 1..Len(s) : s[i] = Head(s) \/ \E j \in 1..Len(Tail(s)) : Tail(s)[j] = s[i]
<1>1. /\ Len(s) \in Nat /\ Len(s) # 0 /\ Head(s) = s[1] /\ Head(s) \in T
      /\ Tail(s) \in Seq(T) /\ Len(Tail(s)) = Len(s) - 1
      /\ \A j \in 1..Len(Tail(s)) : Tail(s)[j] = s[j + 1]
  BY HeadTailProperties, LenProperties, EmptySeq
<1>2. ASSUME NEW i \in 1..Len(s), s[i] # Head(s)
      PROVE  \E j \in 1..Len(Tail(s)) : Tail(s)[j] = s[i]
  <2>1. i - 1 \in 1..Len(Tail(s)) /\ (i - 1) + 1 = i
    BY <1>1, <1>2
  <2> QED BY <1>1, <2>1
<1> QED BY <1>1, <1>2

\* What is ahead on a walk stays ahead when rungs are added.
LEMMA SureStays ==
  ASSUME NEW q, SureOK(q), site' = site,
         \A n \in DOMAIN rows : n \in DOMAIN rows' /\ rows'[n].fits = rows[n].fits
  PROVE  SureOK(q)'
<1>1. SUFFICES ASSUME q.sure PROVE SureOK(q)'
  BY DEF SureOK
<1>2. CASE /\ q.pc = "walk" /\ q.mode = "first" /\ q.walk \in Seq(DOMAIN rows)
           /\ \E i \in 1..Len(q.walk) : site \in rows[q.walk[i]].fits
  <2>1. PICK i \in 1..Len(q.walk) : site \in rows[q.walk[i]].fits
    BY <1>2
  <2> DEFINE n == Len(q.walk)
  <2>2. n \in Nat /\ q.walk \in [1..n -> DOMAIN rows]
    BY <1>2, LenProperties
  <2> HIDE DEF n
  <2>3. q.walk \in [1..n -> DOMAIN rows']
    BY <2>2
  <2>4. q.walk \in Seq(DOMAIN rows')
    BY <2>2, <2>3
  <2>5. site' \in rows'[q.walk[i]].fits
    BY <2>1, <2>2 DEF n
  <2> QED BY <1>2, <2>1, <2>4, <2>5 DEF SureOK
<1> QED BY <1>1, <1>2 DEF SureOK

\* A new walk has every rung ahead.
LEMMA LadderAhead ==
  ASSUME LInv
  PROVE  /\ LadderOf(rows) \in Seq(DOMAIN rows)
         /\ Covered => \E i \in 1..Len(LadderOf(rows)) : site \in rows[LadderOf(rows)[i]].fits
<1>1. PICK b \in Nat : DOMAIN rows \subseteq 0..b
  BY DEF LInv, RowsOK
<1>2. /\ LadderOf(rows) \in Seq(DOMAIN rows)
      /\ \A n \in DOMAIN rows : \E i \in 1..Len(LadderOf(rows)) : LadderOf(rows)[i] = n
  BY <1>1, LadderProperties
<1> QED BY <1>2 DEF Covered

\* A rung that does not fit is not the one that is ahead.
LEMMA RungFailsSure ==
  ASSUME LInv, FInv, SInv, Raising = {FALSE}, NEW r \in Requests, RungFails(r)
  PROVE  SureOK(req[r])'
<1> DEFINE q == req[r]
<1>1. /\ q.pc = "walk" /\ q.walk # <<>> /\ site \notin rows[Head(q.walk)].fits
      /\ RequestOK(q) /\ DOMAIN req = Requests /\ SureOK(q) /\ rows' = rows /\ site' = site
  BY DEF RungFails, At, FInv, SInv, store, env
<1>2. CASE ~q.sure
  <2>1. ~req'[r].sure
    BY <1>1, <1>2 DEF RungFails, Failed, RequestOK
  <2> QED BY <2>1 DEF SureOK
<1>3. CASE q.sure
  <2>1. /\ q.mode = "first" /\ q.walk \in Seq(DOMAIN rows)
        /\ \E i \in 1..Len(q.walk) : site \in rows[q.walk[i]].fits
    BY <1>1, <1>3 DEF SureOK
  <2>2. /\ Head(q.walk) \in DOMAIN rows /\ Tail(q.walk) \in Seq(DOMAIN rows)
        /\ \A i \in 1..Len(q.walk) :
             q.walk[i] = Head(q.walk) \/ \E j \in 1..Len(Tail(q.walk)) : Tail(q.walk)[j] = q.walk[i]
    BY <1>1, <2>1, WalkOn
  <2>3. \E j \in 1..Len(Tail(q.walk)) : site \in rows[Tail(q.walk)[j]].fits
    BY <1>1, <2>1, <2>2
  <2>4. rows[Head(q.walk)].raises = FALSE
    BY <2>2 DEF SInv
  <2>5. req' = [req EXCEPT ![r].walk = Tail(q.walk)]
    BY <2>4 DEF RungFails, NextRungs
  <2>6. /\ req'[r].pc = "walk" /\ req'[r].mode = "first" /\ req'[r].walk = Tail(q.walk)
    BY <1>1, <2>1, <2>5 DEF RequestOK
  <2> QED BY <1>1, <2>2, <2>3, <2>6 DEF SureOK
<1> QED BY <1>2, <1>3

LEMMA RequestSure ==
  ASSUME LInv, FInv, SInv, Raising = {FALSE}, NEW r \in Requests, Start(r) \/ RequestStep(r)
  PROVE  SureOK(req[r])'
<1> DEFINE q == req[r]
<1>1. /\ RequestOK(q) /\ DOMAIN req = Requests /\ SureOK(q)
  BY DEF FInv, SInv
<1>2. rows' = rows /\ site' = site
  BY RequestEffects DEF Quiet, Starts
<1>3. CASE Start(r)
  <2> DEFINE new == [NoRequest EXCEPT !.pc = IF status = "none" THEN "bootstrap" ELSE "walk",
                       !.walk = LadderOf(rows), !.sure = Covered, !.answer = "pending"]
  <2>1. req' = [req EXCEPT ![r] = new]
    BY <1>3 DEF Start
  <2>2. /\ new.walk = LadderOf(rows) /\ new.sure = Covered /\ new.mode = "first"
        /\ new.pc = IF status = "none" THEN "bootstrap" ELSE "walk"
    BY DEF NoRequest
  <2> HIDE DEF new
  <2>3. Covered => new.pc = "walk"
    BY <2>2 DEF SInv, Covered
  <2>4. req'[r] = new
    BY <1>1, <2>1
  <2> QED BY <1>2, <2>2, <2>3, <2>4, LadderAhead DEF SureOK
<1>4. CASE RungServes(r)
  <2>1. q.pc = "walk" /\ (q.sure => q.mode = "first")
    BY <1>1, <1>4 DEF RungServes, At, SureOK
  <2>2. \/ /\ req' = Answered(r, IF q.mode = "recovered" THEN "recovered" ELSE "registry")
        \/ Goto(r, "fill")
    BY <1>4 DEF RungServes
  <2> QED BY <1>1, <2>1, <2>2 DEF Answered, Goto, RequestOK, SureOK
<1>5. CASE Fill(r)
  BY <1>1, <1>5 DEF Fill, Answered, RequestOK, SureOK
<1>6. CASE RungFails(r)
  BY <1>6, RungFailsSure
<1>7. CASE RungUnfetched(r) \/ OffList(r)
  <2>1. CASE RungUnfetched(r)
    <3>1. PICK class \in FetchClasses : Failed(r, class, TRUE)
      BY <2>1 DEF RungUnfetched
    <3>2. (q.sure /\ ~TRUE) = FALSE
      OBVIOUS
    <3>3. req'[r].sure = (q.sure /\ ~TRUE)
      BY <1>1, <3>1 DEF Failed, RequestOK
    <3>4. req'[r].sure = FALSE
      BY <3>2, <3>3
    <3> QED BY <3>4 DEF SureOK
  <2>2. CASE OffList(r)
    <3>1. req' = [Answered(r, "raised") EXCEPT ![r].faulted = TRUE, ![r].sure = FALSE]
      BY <2>2 DEF OffList
    <3>2. req'[r] = [[q EXCEPT !.pc = "idle", !.answer = "raised"]
                       EXCEPT !.faulted = TRUE, !.sure = FALSE]
      BY <1>1, <3>1 DEF Answered
    <3>3. req'[r].sure = FALSE
      BY <1>1, <3>2 DEF RequestOK
    <3> QED BY <3>3 DEF SureOK
  <2> QED BY <1>7, <2>1, <2>2
<1>8. CASE Exhausted(r)
  <2>1. ~q.sure
    <3>1. q.pc = "walk" /\ q.walk = <<>> /\ Len(q.walk) = 0
      BY <1>8 DEF Exhausted, At
    <3> QED BY <1>1, <3>1 DEF SureOK
  <2>2. ~req'[r].sure
    BY <1>1, <1>8, <2>1 DEF Exhausted, Failed, RequestOK
  <2> QED BY <2>2 DEF SureOK
<1>9. CASE \/ Backoff(r) \/ Recover(r) \/ Refetch(r) \/ RefetchFails(r) \/ Extracted(r)
           \/ BootstrapFetch(r) \/ BootstrapFails(r) \/ Register(r) \/ CompleterRaises(r)
  <2>1. q.pc \in {"backoff", "recover", "t2", "extract", "bootstrap", "register"}
    BY <1>9 DEF Backoff, Recover, Refetch, RefetchFails, Extracted, BootstrapFetch,
                BootstrapFails, Register, CompleterRaises, At
  <2>2. ~q.sure
    BY <1>1, <2>1 DEF SureOK
  <2>3. ~req'[r].sure
    <3>1. CASE Backoff(r) \/ Recover(r)
      BY <1>1, <2>2, <3>1 DEF Backoff, Recover, WalkAgain, Answered, RequestOK
    <3>2. CASE Extracted(r) \/ Register(r)
      BY <1>1, <2>2, <3>2 DEF Extracted, Register, Trigger, Goto, Answered, RequestOK
    <3>3. CASE Refetch(r) \/ BootstrapFetch(r) \/ CompleterRaises(r)
      BY <1>1, <2>2, <3>3 DEF Refetch, BootstrapFetch, CompleterRaises, Goto, Answered, RequestOK
    <3>4. CASE RefetchFails(r) \/ BootstrapFails(r)
      BY <1>1, <2>2, <3>4 DEF RefetchFails, BootstrapFails, Answered, RequestOK
    <3> QED BY <1>9, <3>1, <3>2, <3>3, <3>4
  <2> QED BY <2>3 DEF SureOK
<1> QED BY <1>3, <1>4, <1>5, <1>6, <1>7, <1>8, <1>9 DEF RequestStep

\* A request moves alone, and not while it waits for its inline Loop.
LEMMA RequestAlone ==
  ASSUME FInv, NEW r \in Requests, Start(r) \/ RequestStep(r)
  PROVE  /\ ~At(r, "healing") /\ \A m \in Requests \ {r} : req'[m] = req[m]
         /\ inline /\ loop' # loop => At(r, "healing")'
         /\ status' = "none" => status = "none"
<1>1. RequestOK(req[r]) /\ DOMAIN req = Requests
  BY DEF FInv
<1>2. CASE Extracted(r) \/ Register(r)
  <2>1. PICK current : Trigger(r, current) /\ (current = "none" => status = "none")
    BY <1>2 DEF Extracted, Register
  <2>2. /\ ~At(r, "healing")
    BY <1>2 DEF Extracted, Register, At
  <2>3. \A m \in Requests \ {r} : req'[m] = req[m]
    BY <1>1, <2>1 DEF Trigger, Goto, Answered
  <2>4. status' = "none" => status = "none"
    BY <2>1 DEF Trigger
  <2>5. inline => At(r, "healing")'
    BY <1>1, <2>1 DEF Trigger, Goto, At, RequestOK
  <2> QED BY <2>2, <2>3, <2>4, <2>5
<1>3. ASSUME ~(Extracted(r) \/ Register(r))
      PROVE  ~At(r, "healing") /\ status' = status /\ loop' = loop
  BY <1>3 DEF RequestStep, Start, RungServes, Fill, RungFails, RungUnfetched, Exhausted, Backoff,
              Recover, Refetch, RefetchFails, BootstrapFetch, BootstrapFails, CompleterRaises,
              OffList, store, At
<1>4. ASSUME ~(Extracted(r) \/ Register(r)), NEW m \in Requests \ {r}
      PROVE  req'[m] = req[m]
  <2>1. CASE Start(r)
    BY <1>1, <2>1 DEF Start
  <2>2. CASE RungServes(r) \/ Fill(r) \/ RungFails(r) \/ RungUnfetched(r) \/ Exhausted(r)
    BY <1>1, <2>2 DEF RungServes, Fill, RungFails, RungUnfetched, Exhausted, Failed, Answered, Goto
  <2>3. CASE \/ Backoff(r) \/ Recover(r) \/ Refetch(r) \/ RefetchFails(r) \/ BootstrapFetch(r)
             \/ BootstrapFails(r) \/ CompleterRaises(r) \/ OffList(r)
    BY <1>1, <2>3 DEF Backoff, Recover, WalkAgain, Refetch, RefetchFails, BootstrapFetch,
                      BootstrapFails, CompleterRaises, OffList, Answered, Goto
  <2> QED BY <1>4, <2>1, <2>2, <2>3 DEF RequestStep
<1> QED BY <1>2, <1>3, <1>4

\* A Loop answers its own request, which was waiting for it, when it is inline.
LEMMA LoopSure ==
  ASSUME LInv, FInv, SInv, NEW l \in Requests, LoopStep(l)
  PROVE  /\ \A r \in Requests : req'[r] = req[r] \/ (inline /\ ~req'[r].sure /\ loop'[r].pc = "none")
         /\ \A r \in Requests : loop[r].pc = "none" => loop'[r].pc = "none"
         /\ status' = "none" => status = "none" /\ rows' = rows
<1>1. RequestOK(req[l]) /\ DOMAIN req = Requests /\ SureOK(req[l]) /\ loop \in [Requests -> Loop]
  BY DEF FInv, SInv, LInv
<1>2. loop[l].pc # "none"
  BY LoopEffects DEF Goes, Fails, Wins, Clears, LoopAt, Live
<1>3. \A r \in Requests : loop[r].pc = "none" => loop'[r].pc = "none"
  BY <1>2, LoopEffects, OthersKept
<1>4. ASSUME NEW answer, LoopEnds(l, answer)
      PROVE  \A r \in Requests :
               req'[r] = req[r] \/ (inline /\ ~req'[r].sure /\ loop'[r].pc = "none")
  <2>1. CASE inline
    <3>1. ~req[l].sure
      BY <1>1, <1>2, <2>1 DEF SInv, At, SureOK
    <3>2. /\ \A r \in Requests \ {l} : req'[r] = req[r]
          /\ req'[l].sure = req[l].sure /\ loop'[l].pc = "none"
      BY <1>1, <1>4, <2>1 DEF LoopEnds, Answered, RequestOK, NoLoop
    <3> QED BY <2>1, <3>1, <3>2
  <2>2. CASE ~inline
    BY <1>4, <2>2 DEF LoopEnds
  <2> QED BY <2>1, <2>2
<1>5. CASE LoopBegin(l) \/ Sample(l) \/ Oracle(l) \/ Callback(l)
  BY <1>3, <1>5 DEF LoopBegin, Sample, Oracle, Callback, store
<1>6. CASE NoSamples(l) \/ RoundWins(l) \/ LoopRaises(l)
  <2>1. \E answer : LoopEnds(l, answer)
    BY <1>6 DEF NoSamples, RoundWins, LoopRaises
  <2>2. status' = "none" => status = "none" /\ rows' = rows
    BY <1>6 DEF NoSamples, RoundWins, LoopRaises, Escalated, store
  <2> QED BY <1>3, <1>4, <2>1, <2>2
<1>7. CASE TooFewOracles(l) \/ RoundFails(l)
  <2>1. req' = req \/ \E answer : LoopEnds(l, answer)
    BY <1>7 DEF TooFewOracles, RoundFails, GivesUp
  <2>2. rows' = rows /\ (status' = "none" => status = "none")
    BY <1>7 DEF TooFewOracles, RoundFails, GivesUp, Escalated
  <2> QED BY <1>3, <1>4, <2>1, <2>2
<1> QED BY <1>5, <1>6, <1>7 DEF LoopStep

LEMMA InitSInv == Init => SInv
  BY DEF Init, SInv, NoRequest, NoLoop, SureOK

LEMMA NextSInv ==
  ASSUME LInv, FInv, SInv, [Next]_vars, Raising = {FALSE}
  PROVE  SInv'
<1>1. /\ \A n \in DOMAIN rows : n \in DOMAIN rows' /\ rows'[n].fits = rows[n].fits
      /\ \A n \in DOMAIN rows' : rows'[n].raises \in Raising
  BY RungsStay DEF SInv
<1>2. \A r \in Requests : RequestOK(req[r]) /\ SureOK(req[r])
  BY DEF FInv, SInv
<1>3. ASSUME NEW r \in Requests, Start(r) \/ RequestStep(r) PROVE SInv'
  <2>1. rows' = rows /\ site' = site /\ inline' = inline
    BY <1>3, RequestEffects DEF Quiet, Starts
  <2>2. /\ ~At(r, "healing") /\ \A m \in Requests \ {r} : req'[m] = req[m]
        /\ inline /\ loop' # loop => At(r, "healing")'
        /\ status' = "none" => status = "none"
    BY <1>3, RequestAlone
  <2>3. \A m \in Requests \ {r} : SureOK(req[m])'
    BY <1>2, <2>1, <2>2 DEF SureOK
  <2>4. SureOK(req[r])'
    BY <1>3, RequestSure
  <2>5. ASSUME inline, NEW m \in Requests, loop'[m].pc # "none" PROVE At(m, "healing")'
    <3>1. CASE m = r
      BY <2>2, <2>5, <3>1 DEF SInv
    <3>2. CASE m # r
      <4>1. loop'[m] = loop[m]
        BY <1>3, <3>2, RequestEffects DEF Quiet, Starts, LInv
      <4> QED BY <2>2, <2>5, <3>2, <4>1 DEF SInv, At
    <3> QED BY <3>1, <3>2
  <2>6. /\ status' = "none" => DOMAIN rows' = {}
        /\ inline' => \A m \in Requests : loop'[m].pc # "none" => At(m, "healing")'
        /\ \A m \in Requests : SureOK(req[m])'
    BY <2>1, <2>2, <2>3, <2>4, <2>5 DEF SInv
  <2> QED BY <1>1, <2>6 DEF SInv
<1>4. ASSUME NEW l \in Requests, LoopStep(l) PROVE SInv'
  <2>1. /\ \A r \in Requests : req'[r] = req[r] \/ (inline /\ ~req'[r].sure /\ loop'[r].pc = "none")
        /\ \A r \in Requests : loop[r].pc = "none" => loop'[r].pc = "none"
        /\ status' = "none" => status = "none" /\ rows' = rows
    BY <1>4, LoopSure
  <2>2. site' = site /\ inline' = inline
    BY <1>4, LoopEffects DEF Goes, Fails, Wins, Clears
  <2>3. ASSUME NEW r \in Requests PROVE SureOK(req[r])'
    <3>1. CASE req'[r] = req[r]
      <4> DEFINE q == req[r]
      <4>1. SureOK(q)
        BY <1>2
      <4>2. q.sure =>
              \/ /\ q.pc = "walk" /\ q.mode = "first" /\ q.walk \in Seq(DOMAIN rows')
                 /\ \E i \in 1..Len(q.walk) : site' \in rows'[q.walk[i]].fits
              \/ q.pc = "fill"
              \/ q.pc = "idle" /\ q.answer \in {"registry", "recovered"}
        BY <1>1, <2>2, <4>1, SureStays DEF SureOK
      <4> QED BY <3>1, <4>2 DEF SureOK
    <3>2. CASE ~req'[r].sure
      BY <3>2 DEF SureOK
    <3> QED BY <2>1, <3>1, <3>2
  <2>4. /\ status' = "none" => DOMAIN rows' = {}
        /\ inline' => \A r \in Requests : loop'[r].pc # "none" => At(r, "healing")'
    BY <2>1, <2>2 DEF SInv, At
  <2> QED BY <1>1, <2>3, <2>4 DEF SInv
<1>5. CASE Drift
  <2>1. \A r \in Requests : ~req'[r].sure /\ req'[r].pc = req[r].pc
    BY <1>2, <1>5 DEF Drift, RequestOK
  <2> QED BY <1>1, <1>5, <2>1 DEF Drift, SInv, SureOK, At, store
<1>6. CASE Crash
  <2>1. \A r \in Requests : ~req'[r].sure /\ loop'[r].pc = "none"
    BY <1>6 DEF Crash, NoRequest, NoLoop
  <2> QED BY <1>1, <1>6, <2>1 DEF Crash, SInv, SureOK, store
<1>7. CASE UNCHANGED vars
  BY <1>7 DEF vars, store, env, SInv, SureOK, At
<1> QED BY <1>3, <1>4, <1>5, <1>6, <1>7 DEF Next

\* The ladder absorbs a mix of layouts (run_family): whatever is promoted while a
\* request is under way, a page some rung fits is served from the registry, when
\* no crawler raises on a layout it does not know.
THEOREM CoveredIsServed ==
  ASSUME Raising = {FALSE}
  PROVE  Spec => []ServedWhenCovered
<1>1. LInv /\ FInv /\ SInv /\ [Next]_vars => SInv'
  BY NextSInv
<1>2. SInv => ServedWhenCovered
  BY DEF SInv, SureOK, ServedWhenCovered, At
<1>3. Init => FInv
  BY NoRequestOK DEF Init, FInv
<1>4. FInv /\ [Next]_vars => FInv'
  BY NextFInv
<1> QED BY InitLInv, NextLInv, InitSInv, <1>1, <1>2, <1>3, <1>4, PTL DEF Spec

-----------------------------------------------------------------------------
(* Progress.  What the liveness properties say of fair schedules rests on  *)
(* two measures that every step lowers, whatever the schedule: the stage   *)
(* of a request and the steps left of a Loop.                              *)

\* Types, and of an inline Loop that its request waits for it: no request has two.
TInv ==
  /\ req \in [Requests -> Request] /\ inflight \in BOOLEAN
  /\ status \in {"none", "healthy", "regenerating", "escalated"}
  /\ faults \in 0..MaxFaults /\ drifts \in 0..MaxDrifts /\ crashes \in 0..MaxCrashes
  /\ inline => \A l \in Requests : loop[l].pc # "none" => req[l].pc = "healing"

LEMMA NoRequestType == NoRequest \in Request /\ NoRequest.pc = "idle"
<1>1. 0 \in 0..MaxRetries /\ <<>> \in Seq(Nat)
  BY EngineAssumption
<1> QED BY <1>1 DEF NoRequest, Request

LEMMA LadderType == ASSUME LInv PROVE LadderOf(rows) \in Seq(Nat)
<1>1. PICK b \in Nat : DOMAIN rows \subseteq 0..b
  BY DEF LInv, RowsOK
<1>2. LadderOf(rows) \in Seq(DOMAIN rows) /\ DOMAIN rows \subseteq Nat
  BY <1>1, LadderProperties
<1> QED BY <1>2, SeqMonotonic

LEMMA StageBounds ==
  ASSUME NEW q \in Request
  PROVE  /\ Retries(q) \in 0..MaxRetries
         /\ q.pc # "idle" => Stage(q) \in Nat \ {0}
         /\ q.pc = "idle" => Stage(q) = 0
         /\ q.pc \in {"healing", "fill"} => Stage(q) = 1
         /\ q.pc \in {"extract", "register"} => Stage(q) = 2
         /\ q.pc = "bootstrap" => Stage(q) = 3
         /\ q.pc = "recover" => Stage(q) = 4
         /\ q.pc = "t2" => Stage(q) = 5
         /\ q.pc = "backoff" => Stage(q) = 2 * Retries(q) + 1
         /\ q.pc = "walk" =>
              /\ q.mode = "first" => Stage(q) = 2 * MaxRetries + 6
              /\ q.mode = "retry" => Stage(q) = 2 * Retries(q) + 2
              /\ q.mode = "recovered" => Stage(q) = 3
<1>1. MaxRetries \in Nat /\ q.tries \in 0..MaxRetries
  BY EngineAssumption DEF Request
<1>2. Retries(q) \in 0..MaxRetries
  BY <1>1 DEF Retries
<1>3. /\ q.pc = "idle" => Stage(q) = 0
      /\ q.pc \in {"healing", "fill"} => Stage(q) = 1
      /\ q.pc \in {"extract", "register"} => Stage(q) = 2
      /\ q.pc = "bootstrap" => Stage(q) = 3
      /\ q.pc = "recover" => Stage(q) = 4
      /\ q.pc = "t2" => Stage(q) = 5
      /\ q.pc = "backoff" => Stage(q) = 2 * Retries(q) + 1
      /\ q.pc = "walk" => Stage(q) = WalkStage(q)
  BY DEF Stage
<1>4. /\ q.mode = "first" => WalkStage(q) = 2 * MaxRetries + 6
      /\ q.mode = "retry" => WalkStage(q) = 2 * Retries(q) + 2
      /\ q.mode = "recovered" => WalkStage(q) = 3
  BY DEF WalkStage
<1>5. /\ q.pc \in {"idle", "walk", "backoff", "recover", "t2", "extract", "bootstrap",
                   "register", "healing", "fill"}
      /\ q.mode \in {"first", "retry", "recovered"}
  BY DEF Request
<1> HIDE DEF Retries
<1> QED BY <1>1, <1>2, <1>3, <1>4, <1>5

\* A request that is answered, or goes on to another place with the same ladder.
LEMMA LowerPlace ==
  ASSUME NEW q \in Request, NEW new \in Request, q.pc # "idle",
         new.mode = q.mode, new.tries = q.tries, new.walk = q.walk,
         \/ new.pc = "idle"
         \/ new.pc \in {"healing", "fill"} /\ Stage(q) > 1
         \/ new.pc \in {"extract", "register"} /\ Stage(q) > 2
         \/ new.pc = "recover" /\ Stage(q) > 4
         \/ new.pc = "t2" /\ Stage(q) > 5
         \/ new.pc = "backoff" /\ Stage(q) > 2 * Retries(q) + 1
  PROVE  Nearer(new, q)
<1>1. Retries(new) = Retries(q)
  BY DEF Retries
<1>2. /\ Stage(q) \in Nat \ {0} /\ 2 * Retries(q) \in Nat
      /\ new.pc = "idle" => Stage(new) = 0
      /\ new.pc \in {"healing", "fill"} => Stage(new) = 1
      /\ new.pc \in {"extract", "register"} => Stage(new) = 2
      /\ new.pc = "recover" => Stage(new) = 4
      /\ new.pc = "t2" => Stage(new) = 5
      /\ new.pc = "backoff" => Stage(new) = 2 * Retries(q) + 1
  <2>1. Retries(q) \in Nat
    BY StageBounds, EngineAssumption
  <2> QED BY <1>1, <2>1, StageBounds
<1>3. Stage(new) < Stage(q)
  BY <1>2
<1> QED BY <1>3 DEF Nearer

\* The ladder again, from a place above that walk.
LEMMA LowerWalk ==
  ASSUME NEW q \in Request, NEW mode \in {"retry", "recovered"}, NEW tries \in 0..MaxRetries,
         NEW ladder \in Seq(Nat),
         \/ mode = "retry" /\ q.pc = "backoff" /\ tries = q.tries + 1
         \/ mode = "recovered" /\ q.pc = "recover",
         NEW new, new = [q EXCEPT !.pc = "walk", !.mode = mode, !.tries = tries, !.walk = ladder]
  PROVE  new \in Request /\ Nearer(new, q)
<1>1. new \in Request /\ new.pc = "walk" /\ new.mode = mode /\ new.tries = tries
  BY DEF Request
<1>2. MaxRetries \in Nat /\ q.tries \in Nat
  BY EngineAssumption DEF Request
<1>3. tries = q.tries + 1 => Retries(new) = Retries(q) - 1
  BY <1>1, <1>2 DEF Retries
<1>4. /\ Retries(q) \in Int
      /\ mode = "recovered" => Stage(q) = 4 /\ Stage(new) = 3
      /\ mode = "retry" => Stage(q) = 2 * Retries(q) + 1 /\ Stage(new) = 2 * Retries(new) + 2
  <2>1. Retries(q) \in Int
    BY StageBounds, EngineAssumption
  <2> QED BY <1>1, <2>1, StageBounds
<1>5. Stage(new) < Stage(q)
  BY <1>3, <1>4
<1> QED BY <1>1, <1>5 DEF Nearer

Moves(r) == \E new \in Request : req' = [req EXCEPT ![r] = new] /\ Nearer(new, req[r])

LEMMA AnsweredMoves ==
  ASSUME TInv, NEW r \in Requests, ~At(r, "idle"),
         NEW answer \in {"registry", "recovered", "fallback", "empty", "raised"},
         req' = Answered(r, answer)
  PROVE  Moves(r)
<1> DEFINE new == [req[r] EXCEPT !.pc = "idle", !.answer = answer,
                     !.faulted = req[r].faulted, !.sure = req[r].sure]
<1>1. req[r] \in Request /\ req[r].pc # "idle"
  BY DEF TInv, At
<1>2. req' = [req EXCEPT ![r] = new]
  BY <1>1 DEF Answered, Request, TInv
<1>3. /\ new \in Request /\ new.pc = "idle"
      /\ new.mode = req[r].mode /\ new.tries = req[r].tries /\ new.walk = req[r].walk
  BY <1>1 DEF Request
<1> HIDE DEF new
<1>4. Nearer(new, req[r])
  BY <1>1, <1>3, LowerPlace
<1> QED BY <1>2, <1>3, <1>4 DEF Moves

LEMMA GotoMoves ==
  ASSUME TInv, NEW r \in Requests,
         NEW pc, \/ pc \in {"healing", "fill"} /\ Stage(req[r]) > 1
                 \/ pc \in {"extract", "register"} /\ Stage(req[r]) > 2,
         Goto(r, pc)
  PROVE  Moves(r)
<1> DEFINE new == [req[r] EXCEPT !.pc = pc, !.answer = req[r].answer,
                     !.faulted = req[r].faulted, !.sure = req[r].sure]
<1>1. req[r] \in Request /\ req[r].pc # "idle"
  BY StageBounds DEF TInv
<1>2. req' = [req EXCEPT ![r] = new]
  BY <1>1 DEF Goto, Request, TInv
<1>3. /\ new \in Request /\ new.pc = pc
      /\ new.mode = req[r].mode /\ new.tries = req[r].tries /\ new.walk = req[r].walk
  BY <1>1 DEF Request
<1> HIDE DEF new
<1>4. Nearer(new, req[r])
  BY <1>1, <1>3, LowerPlace
<1> QED BY <1>2, <1>3, <1>4 DEF Moves

LEMMA FaultMoves ==
  ASSUME TInv, NEW r \in Requests, ~At(r, "idle"), NEW answer \in {"empty", "raised"},
         NEW sure \in BOOLEAN, 
         req' = [Answered(r, answer) EXCEPT ![r].faulted = TRUE, ![r].sure = sure]
  PROVE  Moves(r)
<1> DEFINE new == [req[r] EXCEPT !.pc = "idle", !.answer = answer,
                     !.faulted = TRUE, !.sure = sure]
<1>1. req[r] \in Request /\ req[r].pc # "idle"
  BY DEF TInv, At
<1>2. req' = [req EXCEPT ![r] = new]
  BY <1>1 DEF Answered, Request, TInv
<1>3. /\ new \in Request /\ new.pc = "idle"
      /\ new.mode = req[r].mode /\ new.tries = req[r].tries /\ new.walk = req[r].walk
  BY <1>1 DEF Request
<1> HIDE DEF new
<1>4. Nearer(new, req[r])
  BY <1>1, <1>3, LowerPlace
<1> QED BY <1>2, <1>3, <1>4 DEF Moves

\* A failed walk: what it is classified as is below it.
LEMMA FailedMoves ==
  ASSUME TInv, NEW r \in Requests, At(r, "walk"),
         NEW class \in {"drift", "blocked", "transient", "gone"},
         NEW fault \in BOOLEAN, Failed(r, class, fault)
  PROVE  Moves(r)
<1> DEFINE pc == FailedTo(r, class)
           answer == IF pc = "idle" THEN "empty" ELSE req[r].answer
           faulted == req[r].faulted \/ fault
           sure == req[r].sure /\ ~fault
           new == [req[r] EXCEPT !.pc = pc, !.answer = answer, !.faulted = faulted, !.sure = sure]
<1>1. req[r] \in Request /\ req[r].pc = "walk" /\ req \in [Requests -> Request]
  BY DEF TInv, At
<1>2. req' = [req EXCEPT ![r] = new]
  BY <1>1 DEF Failed, Request
<1>3. /\ faulted \in BOOLEAN /\ sure \in BOOLEAN
      /\ req[r].mode \in {"first", "retry", "recovered"}
  BY <1>1 DEF Request
<1>4. \/ pc = "idle"
      \/ pc = "recover" /\ req[r].mode = "first"
      \/ pc = "t2" /\ req[r].mode = "first"
      \/ pc = "backoff" /\ req[r].mode \in {"first", "retry"}
  BY <1>3 DEF FailedTo, Outcome
<1> HIDE DEF pc
<1>5. MaxRetries \in Nat
  BY EngineAssumption
<1>6. \/ pc = "idle"
      \/ pc = "recover" /\ Stage(req[r]) > 4
      \/ pc = "t2" /\ Stage(req[r]) > 5
      \/ pc = "backoff" /\ Stage(req[r]) > 2 * Retries(req[r]) + 1
  BY <1>1, <1>4, <1>5, StageBounds
<1> HIDE DEF faulted, sure
<1>7. pc \in {"idle", "recover", "t2", "backoff"} /\ answer \in {"empty", req[r].answer}
  BY <1>4
<1> HIDE DEF answer
<1>8. /\ new \in Request /\ new.pc = pc
      /\ new.mode = req[r].mode /\ new.tries = req[r].tries /\ new.walk = req[r].walk
  BY <1>1, <1>3, <1>7 DEF Request
<1> HIDE DEF new
<1>9. Nearer(new, req[r])
  BY <1>1, <1>6, <1>8, LowerPlace
<1> QED BY <1>2, <1>8, <1>9 DEF Moves

LEMMA RequestMoves ==
  ASSUME LInv, TInv, NEW r \in Requests, RequestStep(r)
  PROVE  Moves(r)
<1>0. req[r] \in Request /\ req \in [Requests -> Request]
  BY DEF TInv
<1>1. CASE RungServes(r)
  <2>1. At(r, "walk") /\ Stage(req[r]) > 1
    BY <1>0, <1>1, EngineAssumption, StageBounds DEF RungServes, At, Request
  <2>2. ~At(r, "idle")
    BY <2>1 DEF At
  <2> QED BY <1>1, <2>1, <2>2, AnsweredMoves, GotoMoves DEF RungServes
<1>2. CASE RungFails(r)
  <2>1. CASE rows[Head(req[r].walk)].raises
    BY <1>2, <2>1, FailedMoves DEF RungFails
  <2>2. CASE ~rows[Head(req[r].walk)].raises
    <3> DEFINE new == [req[r] EXCEPT !.walk = Tail(req[r].walk)]
    <3>1. /\ req' = [req EXCEPT ![r] = new]
          /\ req[r].walk \in Seq(Nat) /\ req[r].walk # <<>>
      BY <1>0, <1>2, <2>2 DEF RungFails, NextRungs, Request
    <3>2. Tail(req[r].walk) \in Seq(Nat) /\ Len(Tail(req[r].walk)) < Len(req[r].walk)
      BY <3>1
    <3>3. /\ new \in Request /\ new.walk = Tail(req[r].walk)
          /\ new.pc = req[r].pc /\ new.mode = req[r].mode /\ new.tries = req[r].tries
      BY <1>0, <3>2 DEF Request
    <3>4. Stage(new) = Stage(req[r])
      BY <3>3 DEF Stage, WalkStage, Retries
    <3> QED BY <3>1, <3>2, <3>3, <3>4 DEF Moves, Nearer
  <2> QED BY <2>1, <2>2
<1>3. CASE RungUnfetched(r)
  BY <1>3, FailedMoves DEF RungUnfetched, FetchClasses
<1>4. CASE Exhausted(r)
  BY <1>4, FailedMoves DEF Exhausted
<1>5. CASE Backoff(r) \/ Recover(r)
  <2>1. ~At(r, "idle")
    BY <1>5 DEF Backoff, Recover, At
  <2>2. CASE req' = Answered(r, "empty")
    BY <2>1, <2>2, AnsweredMoves
  <2>3. ASSUME NEW mode \in {"retry", "recovered"}, NEW tries \in 0..MaxRetries,
               WalkAgain(r, mode, tries),
               \/ mode = "retry" /\ At(r, "backoff") /\ tries = req[r].tries + 1
               \/ mode = "recovered" /\ At(r, "recover")
        PROVE  Moves(r)
    <3> DEFINE new == [req[r] EXCEPT !.pc = "walk", !.mode = mode, !.tries = tries,
                         !.walk = LadderOf(rows)]
    <3>1. req' = [req EXCEPT ![r] = new]
      BY <1>0, <2>3 DEF WalkAgain, Request
    <3>2. new \in Request /\ Nearer(new, req[r])
      BY <1>0, <2>3, LadderType, LowerWalk DEF At
    <3> QED BY <3>1, <3>2 DEF Moves
  <2>4. MaxRetries \in Nat /\ req[r].tries \in 0..MaxRetries
    BY <1>0, EngineAssumption DEF Request
  <2> QED BY <1>5, <2>2, <2>3, <2>4 DEF Backoff, Recover
<1>6. CASE Fill(r)
  BY <1>6, AnsweredMoves DEF Fill, At
<1>7. CASE Refetch(r) \/ BootstrapFetch(r)
  <2>1. Stage(req[r]) > 2
    BY <1>0, <1>7, StageBounds DEF Refetch, BootstrapFetch, At
  <2> QED BY <1>7, <2>1, GotoMoves DEF Refetch, BootstrapFetch
<1>8. CASE Extracted(r) \/ Register(r)
  <2>1. Stage(req[r]) > 1 /\ ~At(r, "idle")
    BY <1>0, <1>8, StageBounds DEF Extracted, Register, At
  <2>2. Goto(r, "healing") \/ req' = Answered(r, "fallback")
    BY <1>8 DEF Extracted, Register, Trigger
  <2> QED BY <2>1, <2>2, GotoMoves, AnsweredMoves
<1>9. CASE CompleterRaises(r)
  BY <1>9, AnsweredMoves DEF CompleterRaises, At
<1>10. CASE RefetchFails(r) /\ req' = [req EXCEPT ![r].pc = "recover", ![r].faulted = TRUE]
  <2> DEFINE new == [req[r] EXCEPT !.pc = "recover", !.answer = req[r].answer,
                       !.faulted = TRUE, !.sure = req[r].sure]
  <2>1. req' = [req EXCEPT ![r] = new]
    BY <1>0, <1>10 DEF Request
  <2>2. Stage(req[r]) > 4 /\ req[r].pc # "idle"
    BY <1>0, <1>10, StageBounds DEF RefetchFails, At
  <2>3. /\ new \in Request /\ new.pc = "recover"
        /\ new.mode = req[r].mode /\ new.tries = req[r].tries /\ new.walk = req[r].walk
    BY <1>0 DEF Request
  <2> HIDE DEF new
  <2>4. Nearer(new, req[r])
    BY <1>0, <2>2, <2>3, LowerPlace
  <2> QED BY <2>1, <2>3, <2>4 DEF Moves
<1>11. CASE \/ RefetchFails(r) /\ req' = [Answered(r, "empty") EXCEPT ![r].faulted = TRUE]
            \/ BootstrapFails(r)
  <2>1. ~At(r, "idle") /\ req' = [Answered(r, "empty") EXCEPT ![r].faulted = TRUE]
    BY <1>11 DEF RefetchFails, BootstrapFails, At
  <2>2. req' = [Answered(r, "empty") EXCEPT ![r].faulted = TRUE, ![r].sure = req[r].sure]
    BY <1>0, <2>1 DEF Answered, Request
  <2> QED BY <1>0, <2>1, <2>2, FaultMoves DEF Request
<1>12. CASE OffList(r)
  BY <1>12, FaultMoves DEF OffList, At
<1>13. RefetchFails(r) =>
         \/ req' = [req EXCEPT ![r].pc = "recover", ![r].faulted = TRUE]
         \/ req' = [Answered(r, "empty") EXCEPT ![r].faulted = TRUE]
  BY DEF RefetchFails
<1> QED BY <1>1, <1>2, <1>3, <1>4, <1>5, <1>6, <1>7, <1>8, <1>9, <1>10, <1>11, <1>12,
           <1>13 DEF RequestStep
\* What a step of a Loop does to the requests: its own, inline, is answered with it.
LEMMA LoopAnswers ==
  ASSUME NEW l \in Requests, LoopStep(l)
  PROVE  \/ req' = req
         \/ /\ inline /\ loop' = [loop EXCEPT ![l] = NoLoop]
            /\ \E answer \in {"fallback", "raised"} : req' = Answered(l, answer)
<1>1. ASSUME NEW answer \in {"fallback", "raised"}, LoopEnds(l, answer)
      PROVE  \/ req' = req
             \/ /\ inline /\ loop' = [loop EXCEPT ![l] = NoLoop]
                /\ req' = Answered(l, answer)
  BY <1>1 DEF LoopEnds
<1>2. \/ req' = req
      \/ \E answer \in {"fallback", "raised"} : LoopEnds(l, answer)
  BY DEF LoopStep, LoopBegin, Sample, NoSamples, Oracle, TooFewOracles, RoundFails,
         RoundWins, LoopRaises, Callback, GivesUp
<1> QED BY <1>1, <1>2

LEMMA InitTInv == Init => TInv
<1>1. /\ \A l \in Requests : [r \in Requests |-> NoLoop][l].pc = "none"
      /\ 0 \in 0..MaxFaults /\ 0 \in 0..MaxDrifts /\ 0 \in 0..MaxCrashes
  BY EngineAssumption DEF NoLoop
<1> QED BY <1>1, NoRequestType DEF Init, TInv

LEMMA Meters ==
  ASSUME TInv, [Next]_vars
  PROVE  /\ status' \in {"none", "healthy", "regenerating", "escalated"}
         /\ inflight' \in BOOLEAN
         /\ faults' \in 0..MaxFaults /\ drifts' \in 0..MaxDrifts /\ crashes' \in 0..MaxCrashes
<1> DEFINE Named(s) == s \in {"none", "healthy", "regenerating", "escalated"}
           Meter == /\ Named(status') /\ inflight' \in BOOLEAN
                    /\ faults' \in 0..MaxFaults /\ drifts' \in 0..MaxDrifts
                    /\ crashes' \in 0..MaxCrashes
<1> SUFFICES Meter
  OBVIOUS
<1>0. /\ Named(status) /\ inflight \in BOOLEAN
      /\ faults \in 0..MaxFaults /\ drifts \in 0..MaxDrifts /\ crashes \in 0..MaxCrashes
      /\ MaxFaults \in Nat /\ MaxDrifts \in Nat /\ MaxCrashes \in Nat
  BY EngineAssumption DEF TInv
<1>1. ASSUME faults < MaxFaults, faults' = faults + 1 PROVE faults' \in 0..MaxFaults
  BY <1>0, <1>1
<1>2. ASSUME NEW r \in Requests, Extracted(r) \/ Register(r) PROVE Meter
  <2>1. UNCHANGED env /\ \E current : Named(current) /\ Trigger(r, current)
    BY <1>0, <1>2 DEF Extracted, Register
  <2> QED BY <1>0, <2>1 DEF Trigger, env
<1>3. ASSUME NEW r \in Requests, \/ Start(r) \/ RungServes(r) \/ Fill(r) \/ RungFails(r) \/ Exhausted(r)
                                 \/ Backoff(r) \/ Recover(r) \/ Refetch(r) \/ BootstrapFetch(r)
      PROVE  Meter
  BY <1>0, <1>3 DEF Start, RungServes, Fill, RungFails, Exhausted, Backoff, Recover, Refetch,
                    BootstrapFetch, store, env
<1>4. ASSUME NEW r \in Requests, \/ RungUnfetched(r) \/ RefetchFails(r) \/ BootstrapFails(r)
                                 \/ CompleterRaises(r) \/ OffList(r)
      PROVE  Meter
  BY <1>0, <1>1, <1>4 DEF RungUnfetched, RefetchFails, BootstrapFails, CompleterRaises,
                          OffList, store
<1>5. ASSUME NEW l \in Requests, \/ LoopBegin(l) \/ Sample(l) \/ Oracle(l) \/ TooFewOracles(l)
                                 \/ RoundFails(l) \/ RoundWins(l) \/ Callback(l)
      PROVE  Meter
  BY <1>0, <1>5 DEF LoopBegin, Sample, Oracle, TooFewOracles, RoundFails, RoundWins,
                    Callback, GivesUp, Escalated, store, env
<1>6. ASSUME NEW l \in Requests, NoSamples(l) \/ LoopRaises(l) PROVE Meter
  BY <1>0, <1>1, <1>6 DEF NoSamples, LoopRaises, Escalated, store
<1>7. CASE Drift
  BY <1>0, <1>7 DEF Drift, store
<1>8. CASE Crash
  <2>1. UNCHANGED <<status, faults, drifts>> /\ inflight' = FALSE
        /\ crashes < MaxCrashes /\ crashes' = crashes + 1
    BY <1>8 DEF Crash, store
  <2>2. inflight' \in BOOLEAN
    BY <2>1
  <2>3. crashes' \in 0..MaxCrashes
    BY <1>0, <2>1
  <2> QED BY <1>0, <2>1, <2>2, <2>3
<1>9. CASE UNCHANGED vars
  BY <1>0, <1>9 DEF vars, store, env
<1> HIDE DEF Meter
<1>10. ASSUME NEW r \in Requests, RequestStep(r) PROVE Meter
  BY <1>2, <1>3, <1>4, <1>10 DEF RequestStep
<1>11. ASSUME NEW l \in Requests, LoopStep(l) PROVE Meter
  BY <1>5, <1>6, <1>11 DEF LoopStep
<1> QED BY <1>3, <1>7, <1>8, <1>9, <1>10, <1>11 DEF Next

LEMMA NextTInv ==
  ASSUME LInv, FInv, TInv, [Next]_vars
  PROVE  TInv'
<1> DEFINE Waits(r) == loop[r].pc # "none" => req[r].pc = "healing"
           WaitsNext(r) == loop'[r].pc # "none" => req'[r].pc = "healing"
           Held == /\ req' \in [Requests -> Request]
                   /\ inline' => \A r \in Requests : WaitsNext(r)
<1> SUFFICES Held
  BY Meters DEF TInv
<1>0. /\ req \in [Requests -> Request] /\ loop \in [Requests -> Loop]
      /\ inline => \A r \in Requests : Waits(r)
  BY DEF TInv, LInv
<1>1. ASSUME NEW r \in Requests, Start(r) PROVE Held
  <2> DEFINE new == [NoRequest EXCEPT !.pc = IF status = "none" THEN "bootstrap" ELSE "walk",
                       !.walk = LadderOf(rows), !.sure = Covered, !.answer = "pending"]
  <2>1. new \in Request
    BY NoRequestType, LadderType DEF Request, NoRequest, Covered
  <2>2. /\ req' = [req EXCEPT ![r] = new] /\ loop' = loop /\ inline' = inline
        /\ req[r].pc = "idle"
    BY <1>1 DEF Start, At, env
  <2> HIDE DEF new
  <2> QED BY <1>0, <2>1, <2>2
<1>2. ASSUME NEW r \in Requests, RequestStep(r) PROVE Held
  <2>1. req' \in [Requests -> Request]
    BY <1>0, <1>2, RequestMoves DEF Moves
  <2>2. /\ inline' = inline
        /\ \A m \in Requests \ {r} : loop'[m] = loop[m]
    BY <1>0, <1>2, RequestEffects DEF Quiet, Starts
  <2>3. /\ ~At(r, "healing") /\ \A m \in Requests \ {r} : req'[m] = req[m]
        /\ inline /\ loop' # loop => At(r, "healing")'
    BY <1>2, RequestAlone
  <2>4. inline => WaitsNext(r)
    BY <1>0, <2>3 DEF At
  <2> QED BY <1>0, <2>1, <2>2, <2>3, <2>4
<1>3. ASSUME NEW l \in Requests, LoopStep(l) PROVE Held
  <2>1. inline' = inline /\ \A m \in Requests \ {l} : loop'[m] = loop[m]
    BY <1>3, LoopEffects, OthersKept DEF Goes, Fails, Wins, Clears
  <2>2. loop[l].pc # "none"
    BY <1>3, LoopEffects DEF Goes, Fails, Wins, Clears, LoopAt, Live
  <2>3. CASE req' = req
    BY <1>0, <2>1, <2>2, <2>3
  <2>4. ASSUME inline, loop' = [loop EXCEPT ![l] = NoLoop],
               NEW answer \in {"fallback", "raised"}, req' = Answered(l, answer)
        PROVE  Held
    <3>1. ~At(l, "idle")
      BY <1>0, <2>2, <2>4 DEF At
    <3>2. Moves(l)
      BY <2>4, <3>1, AnsweredMoves
    <3>3. PICK new \in Request : req' = [req EXCEPT ![l] = new]
      BY <3>2 DEF Moves
    <3>4. loop'[l].pc = "none"
      BY <1>0, <2>4 DEF NoLoop
    <3> QED BY <1>0, <2>1, <3>3, <3>4
  <2> QED BY <1>3, <2>3, <2>4, LoopAnswers
<1>4. CASE Drift
  <2>1. \A r \in Requests : [req[r] EXCEPT !.sure = FALSE] \in Request
                            /\ [req[r] EXCEPT !.sure = FALSE].pc = req[r].pc
    BY <1>0 DEF Request
  <2>2. /\ req' = [r \in Requests |-> [req[r] EXCEPT !.sure = FALSE]]
        /\ loop' = loop /\ inline' = inline
    BY <1>4 DEF Drift
  <2>3. req' \in [Requests -> Request]
    BY <2>1, <2>2
  <2>4. \A r \in Requests : req'[r].pc = req[r].pc
    BY <2>1, <2>2
  <2> QED BY <1>0, <2>2, <2>3, <2>4
<1>5. CASE Crash
  <2>1. \A r \in Requests : loop'[r].pc = "none"
    BY <1>5 DEF Crash, NoLoop
  <2>2. req' \in [Requests -> Request]
    BY <1>5, NoRequestType DEF Crash
  <2> QED BY <2>1, <2>2
<1>6. CASE UNCHANGED vars
  <2>1. req' = req /\ loop' = loop /\ inline' = inline
    BY <1>6 DEF vars, env
  <2> QED BY <1>0, <2>1
<1> HIDE DEF Held
<1> QED BY <1>1, <1>2, <1>3, <1>4, <1>5, <1>6 DEF Next

LEMMA InitFInv == Init => FInv
  BY NoRequestOK DEF Init, FInv

\* Types: of the store, of each request and its Loop, and of the bounded meters.
THEOREM EngineTypeCorrect == Spec => []TypeOK
<1>1. LInv /\ TInv => TypeOK
  BY DEF LInv, RowsOK, TInv, TypeOK
<1>2. LInv /\ FInv /\ TInv /\ [Next]_vars => TInv'
  BY NextTInv
<1>3. FInv /\ [Next]_vars => FInv'
  BY NextFInv
<1> QED BY InitLInv, NextLInv, InitFInv, InitTInv, <1>1, <1>2, <1>3, PTL DEF Spec

\* A request never goes back, however classes of failure follow each other
\* (_handle_failure, _serve_transient, _serve_blocked): at most MaxRetries + 2 walks.
THEOREM RequestsAdvance == Spec => RequestAdvances
<1>1. LInv /\ FInv /\ TInv /\ [Next]_vars =>
        [\A r \in Requests :
           ~At(r, "idle") /\ req'[r] # req[r] =>
             req'[r] = [req[r] EXCEPT !.sure = FALSE] \/ Nearer(req'[r], req[r])]_vars
  <2> SUFFICES ASSUME LInv, FInv, TInv, [Next]_vars,
                      NEW r \in Requests, ~At(r, "idle"), req'[r] # req[r]
               PROVE  req'[r] = [req[r] EXCEPT !.sure = FALSE] \/ Nearer(req'[r], req[r])
    OBVIOUS
  <2>0. req \in [Requests -> Request]
    BY DEF TInv
  <2>1. ASSUME NEW q \in Requests, Moves(q) PROVE Nearer(req'[r], req[r])
    <3>1. PICK new \in Request : req' = [req EXCEPT ![q] = new] /\ Nearer(new, req[q])
      BY <2>1 DEF Moves
    <3>2. q = r
      BY <2>0, <3>1
    <3> QED BY <2>0, <3>1, <3>2
  <2>2. ASSUME NEW q \in Requests, Start(q) PROVE FALSE
    BY <2>0, <2>2, RequestAlone DEF Start
  <2>3. ASSUME NEW q \in Requests, RequestStep(q) PROVE Nearer(req'[r], req[r])
    BY <2>1, <2>3, RequestMoves
  <2>4. ASSUME NEW l \in Requests, LoopStep(l) PROVE Nearer(req'[r], req[r])
    <3>1. PICK answer \in {"fallback", "raised"} : req' = Answered(l, answer)
      BY <2>4, LoopAnswers
    <3>2. l = r
      BY <2>0, <3>1 DEF Answered
    <3> QED BY <2>1, <3>1, <3>2, AnsweredMoves
  <2>5. CASE Drift
    BY <2>5 DEF Drift
  <2>6. CASE Crash
    <3>1. req'[r] = NoRequest
      BY <2>6 DEF Crash
    <3>2. Stage(NoRequest) = 0 /\ Stage(req[r]) \in Nat \ {0}
      BY <2>0, NoRequestType, StageBounds DEF At
    <3>3. Stage(NoRequest) < Stage(req[r])
      BY <3>2
    <3> QED BY <3>1, <3>3 DEF Nearer
  <2>7. CASE UNCHANGED vars
    BY <2>7 DEF vars
  <2> QED BY <2>2, <2>3, <2>4, <2>5, <2>6, <2>7 DEF Next
<1>2. LInv /\ FInv /\ TInv /\ [Next]_vars => TInv'
  BY NextTInv
<1>3. FInv /\ [Next]_vars => FInv'
  BY NextFInv
<1> QED BY InitLInv, NextLInv, InitFInv, InitTInv, <1>1, <1>2, <1>3, PTL
        DEF Spec, RequestAdvances
\* StepsLeft, of the value of a Loop.
Left(k) ==
  LET after == IF k.tier = 1 THEN Attempt ELSE 0
  IN  CASE k.pc = "none" -> 0
        [] k.pc = "done" -> 1
        [] k.pc = "round" -> after + Attempt - k.round
        [] k.pc = "oracle" -> after + Attempt
        [] k.pc = "sample" -> after + Attempt + 1
        [] k.pc = "scheduled" -> after + Attempt + 2

LEMMA LeftBounds ==
  ASSUME NEW k \in Loop
  PROVE  \E after \in {0, Attempt} :
           /\ after = IF k.tier = 1 THEN Attempt ELSE 0
           /\ Attempt \in Nat /\ Attempt > MaxRounds + 1 /\ MaxRounds \in Nat
           /\ k.round \in 0..MaxRounds /\ k.tier \in 1..2
           /\ k.pc \in Live \cup {"none", "done"} /\ Left(k) \in Nat
           /\ k.pc = "none" => Left(k) = 0
           /\ k.pc = "done" => Left(k) = 1
           /\ k.pc = "round" => Left(k) = after + Attempt - k.round
           /\ k.pc = "oracle" => Left(k) = after + Attempt
           /\ k.pc = "sample" => Left(k) = after + Attempt + 1
           /\ k.pc = "scheduled" => Left(k) = after + Attempt + 2
<1> DEFINE after == IF k.tier = 1 THEN Attempt ELSE 0
<1>1. MaxRounds \in Nat /\ k.round \in 0..MaxRounds /\ k.tier \in 1..2
      /\ k.pc \in Live \cup {"none", "done"}
  BY EngineAssumption DEF Loop, Live
<1>2. Attempt \in Nat /\ Attempt > MaxRounds + 1
  BY <1>1 DEF Attempt
<1>3. after \in {0, Attempt}
  OBVIOUS
<1>4. /\ k.pc = "none" => Left(k) = 0
      /\ k.pc = "done" => Left(k) = 1
      /\ k.pc = "round" => Left(k) = after + Attempt - k.round
      /\ k.pc = "oracle" => Left(k) = after + Attempt
      /\ k.pc = "sample" => Left(k) = after + Attempt + 1
      /\ k.pc = "scheduled" => Left(k) = after + Attempt + 2
  BY DEF Left
<1>5. Left(k) \in Nat
  BY <1>1, <1>2, <1>3, <1>4 DEF Live
<1> QED BY <1>1, <1>2, <1>3, <1>4, <1>5

LEMMA LeftAlive ==
  ASSUME NEW k \in Loop
  PROVE  /\ k.pc # "none" => Left(k) > 0
         /\ k.pc \in Live => Left(k) > 1
<1>1. PICK after \in {0, Attempt} :
           /\ Attempt \in Nat /\ Attempt > MaxRounds + 1 /\ MaxRounds \in Nat
           /\ k.round \in 0..MaxRounds
           /\ k.pc \in Live \cup {"none", "done"} /\ Left(k) \in Nat
           /\ k.pc = "done" => Left(k) = 1
           /\ k.pc = "round" => Left(k) = after + Attempt - k.round
           /\ k.pc = "oracle" => Left(k) = after + Attempt
           /\ k.pc = "sample" => Left(k) = after + Attempt + 1
           /\ k.pc = "scheduled" => Left(k) = after + Attempt + 2
  BY LeftBounds
<1> QED BY <1>1 DEF Live

\* A Loop moves on within its attempt.
LEMMA OnwardShrinks ==
  ASSUME NEW k \in Loop, NEW new \in Loop, new.tier = k.tier,
         \/ k.pc = "scheduled" /\ new.pc = "sample"
         \/ k.pc = "sample" /\ new.pc = "oracle"
         \/ k.pc = "oracle" /\ new.pc = "round" /\ new.round = 1
         \/ k.pc = "round" /\ new.pc = "round" /\ new.round = k.round + 1
  PROVE  Left(new) < Left(k)
<1> DEFINE after == IF k.tier = 1 THEN Attempt ELSE 0
<1>1. /\ Attempt \in Nat /\ k.round \in Nat /\ Left(k) \in Nat
      /\ k.pc = "round" => Left(k) = after + Attempt - k.round
      /\ k.pc = "oracle" => Left(k) = after + Attempt
      /\ k.pc = "sample" => Left(k) = after + Attempt + 1
      /\ k.pc = "scheduled" => Left(k) = after + Attempt + 2
  BY LeftBounds
<1>2. /\ new.pc = "round" => Left(new) = after + Attempt - new.round
      /\ new.pc = "oracle" => Left(new) = after + Attempt
      /\ new.pc = "sample" => Left(new) = after + Attempt + 1
  BY LeftBounds
<1>3. after \in Nat
  BY <1>1
<1> HIDE DEF after
<1> QED BY <1>1, <1>2, <1>3

LEMMA OverShrinks ==
  ASSUME LInv, NEW l \in Requests, loop[l].pc \in Live, Ended(l)
  PROVE  Left(loop'[l]) < Left(loop[l])
<1> DEFINE new == [NoLoop EXCEPT !.pc = IF inline THEN "none" ELSE "done"]
<1>1. new \in Loop /\ new.pc \in {"none", "done"}
  BY NoLoopType
<1>2. loop[l] \in Loop /\ loop'[l] = new
  BY DEF LInv, Ended
<1> HIDE DEF new
<1>3. Left(new) \in {0, 1}
  BY <1>1, LeftBounds
<1>4. Left(loop[l]) \in Nat /\ Left(loop[l]) > 1
  BY <1>2, LeftBounds, LeftAlive
<1> QED BY <1>2, <1>3, <1>4

LEMMA GivesUpShrinks ==
  ASSUME LInv, NEW l \in Requests, GivesUp(l), loop[l].pc \in {"oracle", "round"}
  PROVE  Left(loop'[l]) < Left(loop[l])
<1> DEFINE k == loop[l]
           new == [NoLoop EXCEPT !.pc = "sample", !.tier = 2]
<1>1. CASE k.tier = 1 /\ HasStronger
  <2>1. loop'[l] = new /\ k \in Loop
    BY <1>1 DEF GivesUp, LInv
  <2>2. new \in Loop /\ new.pc = "sample" /\ new.tier = 2
    <3> DEFINE fresh == [NoLoop EXCEPT !.pc = "sample"]
    <3>1. fresh \in Loop /\ fresh.pc = "sample" /\ new = [fresh EXCEPT !.tier = 2]
      BY NoLoopType DEF Live
    <3> HIDE DEF fresh, new
    <3> QED BY <3>1 DEF Loop
  <2> HIDE DEF new, k
  <2>3. Left(new) = Attempt + 1
    BY <2>2, LeftBounds
  <2>4. /\ Attempt \in Nat /\ Attempt > MaxRounds + 1 /\ MaxRounds \in Nat
        /\ k.round \in 0..MaxRounds
        /\ k.pc = "round" => Left(k) = Attempt + Attempt - k.round
        /\ k.pc = "oracle" => Left(k) = Attempt + Attempt
    BY <1>1, <2>1, LeftBounds
  <2>5. k.pc \in {"oracle", "round"}
    BY DEF k
  <2>6. Left(new) < Left(k)
    BY <2>3, <2>4, <2>5
  <2> QED BY <2>1, <2>6 DEF k
<1>2. CASE ~(k.tier = 1 /\ HasStronger)
  BY <1>2, EndsEffect, OverShrinks DEF GivesUp, Live
<1> QED BY <1>1, <1>2

LEMMA LoopShrinks ==
  ASSUME LInv, NEW l \in Requests, LoopStep(l)
  PROVE  Left(loop'[l]) < Left(loop[l])
<1>0. /\ loop[l] \in Loop /\ loop \in [Requests -> Loop] /\ golden \subseteq Layouts
      /\ site \in Layouts /\ MaxRounds \in Nat /\ 1 \in 0..MaxRounds
  BY EngineAssumption DEF LInv
<1> DEFINE k == loop[l]
<1>1. ASSUME NEW new \in Loop, loop' = [loop EXCEPT ![l] = new], new.tier = k.tier,
             \/ k.pc = "scheduled" /\ new.pc = "sample"
             \/ k.pc = "sample" /\ new.pc = "oracle"
             \/ k.pc = "oracle" /\ new.pc = "round" /\ new.round = 1
             \/ k.pc = "round" /\ new.pc = "round" /\ new.round = k.round + 1
      PROVE  Left(loop'[l]) < Left(loop[l])
  BY <1>0, <1>1, OnwardShrinks
<1>2. CASE LoopBegin(l)
  <2> DEFINE new == [k EXCEPT !.pc = "sample"]
  <2>1. /\ new \in Loop /\ new.tier = k.tier /\ new.pc = "sample" /\ k.pc = "scheduled"
        /\ loop' = [loop EXCEPT ![l] = new]
    BY <1>0, <1>2 DEF LoopBegin, LoopAt, Loop
  <2> HIDE DEF new
  <2> QED BY <1>1, <2>1
<1>3. CASE Sample(l)
  <2> DEFINE new == [k EXCEPT !.pc = "oracle", !.sampled = {site}]
  <2>1. /\ new \in Loop /\ new.tier = k.tier /\ new.pc = "oracle" /\ k.pc = "sample"
        /\ loop' = [loop EXCEPT ![l] = new]
    BY <1>0, <1>3 DEF Sample, LoopAt, Loop
  <2> HIDE DEF new
  <2> QED BY <1>1, <2>1
<1>4. CASE Oracle(l)
  <2> DEFINE new == [k EXCEPT !.pc = "round", !.round = 1, !.fixtures = golden]
  <2>1. /\ new \in Loop /\ new.tier = k.tier /\ new.pc = "round" /\ new.round = 1
        /\ k.pc = "oracle" /\ loop' = [loop EXCEPT ![l] = new]
    BY <1>0, <1>4 DEF Oracle, LoopAt, Loop
  <2> HIDE DEF new
  <2> QED BY <1>1, <2>1
<1>5. CASE RoundFails(l) /\ k.round < MaxRounds
  <2> DEFINE new == [k EXCEPT !.round = @ + 1]
  <2>1. /\ new \in Loop /\ new.tier = k.tier /\ new.pc = "round" /\ new.round = k.round + 1
        /\ k.pc = "round" /\ loop' = [loop EXCEPT ![l] = new]
    BY <1>0, <1>5 DEF RoundFails, LoopAt, Loop
  <2> HIDE DEF new
  <2> QED BY <1>1, <2>1
<1>6. CASE TooFewOracles(l) \/ (RoundFails(l) /\ ~(k.round < MaxRounds))
  BY <1>6, GivesUpShrinks DEF TooFewOracles, RoundFails, LoopAt
<1>7. CASE NoSamples(l) \/ RoundWins(l) \/ LoopRaises(l)
  BY <1>7, EndsEffect, OverShrinks DEF NoSamples, RoundWins, LoopRaises, LoopAt, Live
<1>8. CASE Callback(l)
  <2>1. loop'[l] = NoLoop /\ k.pc = "done" /\ NoLoop.pc = "none"
    BY <1>0, <1>8 DEF Callback, LoopAt, NoLoop
  <2>2. Left(NoLoop) = 0 /\ Left(k) = 1
    BY <1>0, <2>1, NoLoopType, LeftBounds
  <2> QED BY <2>1, <2>2
<1> QED BY <1>2, <1>3, <1>4, <1>5, <1>6, <1>7, <1>8 DEF LoopStep

\* Every step of a Loop brings its end nearer, and no request puts another in its
\* place (run_loop's rounds and its one retry with the stronger model; the in-flight
\* guard, or the request itself waiting): at most 2 * (MaxRounds + 3) steps.
THEOREM LoopsAdvance == Spec => LoopAdvances
<1>1. LInv /\ FInv /\ TInv /\ [Next]_vars =>
        [\A l \in Requests :
           ~LoopAt(l, "none") /\ loop'[l] # loop[l] => StepsLeft(l)' < StepsLeft(l)]_vars
  <2> SUFFICES ASSUME LInv, FInv, TInv, [Next]_vars,
                      NEW l \in Requests, loop[l].pc # "none", loop'[l] # loop[l]
               PROVE  Left(loop'[l]) < Left(loop[l])
    BY DEF StepsLeft, Left, LoopAt
  <2>0. loop \in [Requests -> Loop]
    BY DEF LInv
  <2>1. ASSUME NEW r \in Requests, Start(r) \/ RequestStep(r) PROVE FALSE
    <3>1. Starts(r) /\ r = l
      BY <2>0, <2>1, RequestEffects DEF Quiet, Starts
    <3>2. inline
      BY <3>1 DEF Starts, LInv
    <3>3. ~At(l, "healing")
      BY <2>1, <3>1, RequestAlone
    <3> QED BY <3>2, <3>3 DEF TInv, At
  <2>2. ASSUME NEW m \in Requests, LoopStep(m) PROVE Left(loop'[l]) < Left(loop[l])
    <3>1. m = l
      BY <2>2, LoopEffects, OthersKept
    <3> QED BY <2>2, <3>1, LoopShrinks
  <2>3. CASE Drift \/ UNCHANGED vars
    BY <2>3 DEF Drift, vars
  <2>4. CASE Crash
    <3>1. loop'[l] = NoLoop /\ NoLoop.pc = "none"
      BY <2>4 DEF Crash, NoLoop
    <3>2. Left(NoLoop) = 0 /\ Left(loop[l]) > 0
      BY <2>0, <3>1, NoLoopType, LeftBounds, LeftAlive
    <3> QED BY <3>1, <3>2
  <2> QED BY <2>1, <2>2, <2>3, <2>4 DEF Next
<1>2. LInv /\ FInv /\ TInv /\ [Next]_vars => TInv'
  BY NextTInv
<1>3. FInv /\ [Next]_vars => FInv'
  BY NextFInv
<1> QED BY InitLInv, NextLInv, InitFInv, InitTInv, <1>1, <1>2, <1>3, PTL
        DEF Spec, LoopAdvances
=============================================================================

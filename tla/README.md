# Crawloop in TLA+

Crawloop serves structured records from web pages.  Each *family* of pages has a
ladder of crawler versions; a request runs them without a model, and when none
yields a valid extraction (the site was redesigned) the page is extracted by a
language model once and a Loop regenerates the crawler: sample pages, extract
oracles, generate candidates, run them through the gauntlet, promote the winner.
This directory holds TLA+ modules of that machinery, the TLC configurations that
model-check them and theorems that TLAPS checks.  Paths below are relative to
`src/crawloop/` unless they say otherwise.

## 1. The system and what makes it correct

| component | state | operations | hard behaviour | correct when |
|---|---|---|---|---|
| registry (`registry.py`, `migrations.sql`) | SQLite rows, crawler files, `audit.jsonl` | `add_version`, `upsert_family`, `set_active`, `rollback`, `load_crawler`, `write_audit`, `record_run`, `record_history` | several processes on one store; a crash between file and row; target read before its transaction | never two active versions, never none again; a registered version loads and never changes |
| promotion (`loop/promote.py`) | golden fixtures on disk | `promote`, `save_fixtures`, `load_fixtures` | four unprotected writes in a row, died in anywhere | the golden set is the promoted version's pages; its residual fields are its own |
| engine (`engine.py`, `loop/trigger.py`) | in-flight guard, background tasks, family status | `request` and its `_serve_*`, `_bootstrap`, `_trigger_loop`, `_run_loop_guarded` | requests and Loops interleave at awaits; faults look like redesigns; done callbacks run later; restarts | one Loop per family, a fault never regenerates, a redesign is healed or escalated, every request is answered |
| loop driver (`loop/driver.py`) | one Loop's samples, oracles, candidates, round, tier | `run_loop`, `_run_loop_once`, `_value_path_candidate`, `_path_map_candidate`, `_escalate` | minutes of awaiting between reading fixtures and promoting | bounded; a promotion never loses a layout; free candidates lead |
| value paths, path maps (`loop/jsonpath.py`, `loop/pathmap.py`) | none | `discover_paths`, `emit_crawler`, `propose_fieldmap`, `apply_fieldmap` | discovery and the emitted crawler read a page differently; scales and zeros | what is discovered in the samples is what the crawler reads there |
| gauntlet (`loop/gauntlet.py`), validator (`validator.py`) | scores of a candidate | `score_candidate`, `run_gauntlet`, `agreement_detail`, `validate` | alignment of rows, floors against means | the winner reproduces every page record by record |
| executor (`executor.py`) | a walk of the ladder; counters, history | `run_family`, `run_version` | awaits between load, run and count; modulo cadence | counters and history agree; every walk ends |
| sampler (`loop/sampler.py`) | collected pages, attempted URLs | `collect_samples` | dead links, budgets, two stop rules | distinct URLs of the host, none asked twice, short only when nothing is left |
| access (`access.py`, `loop/access_recovery.py`) | locks and stamps per host; a client's redirect chain; saved strategy and domain status | `RateLimiter.acquire`, `GuardedClient.get`, `RealFetchContext.fetch`, `recover_access` | queueing and cancellation at the lock; hops of many callers on many hosts; strategies raced by requests | every hop authorised and spaced, every call ends; recovery bounded and believed |
| browser (`browser.py`) | driver, browser and context of one runner | `render`, `_ensure_context`, `aclose` | a cache tested before three awaits and set after them | one browser, closed at the end |
| hybrid (`hybrid.py`, `fallback.py`) | residual field set | `direct_extract`, `compute_residual_fields`, `fill_residual`, `merge_record` | an unreliable model between validation and answer | extracted values stand; what is filled in has the field's type |
| others | | router, code generation, sandboxed runner and AST gate, schemas, `cli.py` | | see section 7 |

Interactions.  `Engine.request` calls `executor.run_family`, which reads the
registry's ladder and fetches through the access layer.  Its failure is
classified (`loop/trigger.classify`) and leads to a retry, to `recover_access`,
or to direct extraction plus a Loop; the Loop calls the sampler, `fallback`,
the gauntlet and `promote`, which writes the registry the next request reads.
Within a process everything runs on one asyncio loop, so code between two
awaits is atomic; the store is shared with other processes (`crawloop loop run`
beside a server), where every file or SQL step may interleave.

## 2. Modules

| module | models | how its state corresponds |
|---|---|---|
| `Ordering` | what `ORDER BY`, `sorted()` and a filtering comprehension return | pure operators, functions on `1..n` |
| `VersionLadder` | the SQL of the `versions` table for one family: next number, promotion, rollback target, ladder order | pure operators on `rows : n -> [status, ...]` |
| `Registry` | the registry's methods for one family, one action per file or SQL step | `rows`, `files`, `family`; `pc`, `src`, `num` are where a process is in a method and its locals |
| `Promotion` | `promote()` and the bootstrap's upsert over `Registry` (EXTENDS), for all the processes of a store | `stage`, `slot`, `count` are where a process is in `promote()`; fixtures, the audit table and its mirror; a fixture's content is the version whose promotion wrote it |
| `Engine` | requests, classification, retries, triggering, the driver's Loop | `req[r]`, `loop[r]` (the Loop that request started), `inflight` = the guard set, `status` = the family row; a version is the set of layouts it extracts |
| `HealContract` | the promise of self-healing, with nothing of how | refined by `Engine`: `covered`, `healing` |
| `RateLimiter` | `RateLimiter.acquire` for one host | `holder`, `queue` = the asyncio lock; `age` = time since the stamp, `timer` = what is left of a sleep |
| `Egress` | `GuardedClient.get` over `RateLimiter` (EXTENDS): the hops of all callers, one host's limiter in full, the others' as a wait that ends | `get[t]` = where a call is, at which host, on which hop; `gap` = time since a request was last sent to the host |
| `Browser` | the lifecycle of `PlaywrightBrowserRunner` | its three attributes; `drivers`, `browsers` = what runs, by the launch that started it |
| `Throttle` | two grants are `Interval` apart | refined by `RateLimiter` (grants) and by `Egress` (requests) |
| `AccessRecovery` | inline strategy, `BackoffRetry`, `recover_access`, the persisted winner | `saved`, `state` = the `domain_access` row; `task[r]` = a request; `site` = how the site answers each strategy, an endless or off-list redirect among the answers |
| `Validator` | comparison of records, alignment, agreement, `validate` | pure operators; a score is the set or the number of agreeing fields, never a float |
| `Gauntlet` | `score_candidate` page by page and `run_gauntlet` | its arguments (`samples`, `fixtures`, `cands`), the accumulators of the current candidate (the detail of each page, the pages in error, the pages invalid, the sum of the means), the scores so far; a mean is kept as `sum / pairs` |
| `ValuePath` | `discover_paths`, `_value_path_candidate` and what the emitted crawler does | pure operators on islands: path -> leaf |
| `PathMap` | `propose_fieldmap`, its trial on the first sample, `apply_fieldmap` | pure operators on maps: field -> place and transform |
| `FirstRound` | the first round of `_run_loop_once`: deterministic candidates, then generated ones, through `Gauntlet` | the state of `Gauntlet` |
| `Hybrid` | `direct_extract` with repairs, the residual set, the tail-fill | `oracles`, `residual`, one request at a time; a field has the values its schema accepts (`Typed`) and those its bare annotation does (`Bare`) |
| `Executor` | `run_family`, `run_version`, counters, history, cadence | `walk[w]`; the store's counters and history rows |
| `Sampler` | `collect_samples` on any small site | its locals `collected`, `seen`, `attempts`, the harvest index `page`; a URL is its text, fragment included |
| `OrderingProofs`, `PromotionProofs`, `EngineProofs`, `AccessProofs`, `SamplerProofs`, `GauntletProofs`, `HybridProofs`, `ExecutorProofs` | theorems (section 5) | |

`MC*` modules give the constants values.  Operators whose comment begins with
"Mutant" are deliberate bugs: putting one in place of the operator it is named
after makes the property it is listed with in `PROJECT.json` fail.  Every
stateful module states its types in `TypeOK`; those of the modules with proofs are
theorems, and the runs spend their properties on behaviour.

## 3. Runs

| run | question | instance |
|---|---|---|
| `store` | does the store survive promotions, rollbacks and deaths? | 2 processes, one of which promotes, with 1 or 2 samples each time, and either rolls back; 2 sources, 3 versions, a crash between any two steps |
| `promotion_stale` | is the golden set replaced? (no) | 1 process, 2 versions, no crash |
| `engine_background` | safety of self-healing; does a request ever go back? | 2 callers, 2 layouts, 1 fault, 1 redesign, 1 crash, background Loops |
| `engine_heals` | does it heal, answer, release, with every step of a Loop nearer its end? | 1 caller who keeps asking, both Loop modes, 2 rounds, 1 fault, 1 redesign, 1 crash |
| `engine_raising` | does a redesign heal when the crawler raises? (no) | no fault, no crash |
| `egress` | is every hop authorised and spaced, does every call end? | 3 coroutines, 2 authorised hosts and one off the list, 3 hops, interval of 2 ticks, cancellations at any await |
| `browser` | is there one browser? (no) | 2 coroutines, 3 launches |
| `access` | is recovery bounded, believed, complete? | 2 requests, a configured list of 4 rungs over 3 strategies (one repeated and retrying, one disabled, one of a browser), 2 rounds, 1 change of the site |
| `first_round` | what does a pass mean, and do the free candidates earn theirs? | every pair of 11 kinds of page, a golden page or none, 4 replies of the model, a generated candidate with 5 outputs, crashes of any run |
| `hybrid` | does the tail-fill stay within its bounds and do its job? | 2 samples, 3 fields, one with a constraint its bare type lacks, 8 answers, 3 pages, every reply over two fields |
| `executor` | do counters, history and cadence agree, and does each step bring a walk nearer its end? | 2 walks of one process, 2 versions, 2 pages, 3 runs, 1 crash |
| `sampler` | are the samples of distinct URLs, each asked for once, and complete? | every site of 5 URLs (one off the host), 3 samples, 3 fetches |

Why the bounds are enough.  Two processes, or two callers, are the smallest
number that race, and the third adds only another copy of a race; three versions
let a version be active, retired and archived while another is registered, which
is every status a ladder distinguishes; one fault, redesign and crash each may
fall between any two steps, including between two steps of a Loop.  Three
coroutines give a holder, one queued to be cancelled and a late comer; three hops
give a chain that returns to the host, one that leaves it, and one cut at the
limit.  Eleven kinds of page are one for each way a page's JSON can relate to its
record (other unit, zero, own unit, text, two places, a broken script in front, no
script, null, listing, two parts, unreadable amount), and discovery intersects
samples pairwise, so pairs of them are enough; `Scale` is 2 where the code has
10000, and only its being neither 0 nor 1 matters.  Two pages and a modulus of two make the cadence hit, miss and wrap.  The
theorems of section 5 remove the bounds where it matters most.  `MCFirstRound` assumes
of its instance what the gauntlet's theorems assume (`InstanceAssumption`), so TLC
checks on every run that some instance satisfies it.

A bound that is not the code's is named in the module: `MaxVersion`,
`MaxCrashes`, `MaxFaults`, `MaxDrifts`, `MaxShifts`, `MaxRuns`, `MaxLaunches`.  Those that are the code's
are parameters of its functions: `MaxRetries`, `MaxRounds`, `MaxRepairs`,
`Tries`, `MaxPages`, `MaxFetch`, `SnapshotEvery`, `MaxSamples` (`n_samples`), `MaxHops`
(`_MAX_REDIRECTS + 1`), `Generated` (`k`).

Deadlock is checked except where the model ends on purpose: a `first_round` or a
`sampler` run returns, and `executor` stops after `MaxRuns` counted runs.

## 4. What the runs show

* `AtMostOneActive`, `NeverUnserved`: however two processes promote, roll back and
  die, a family has at most one active version and never loses its last.
  `EveryRungLoads`, `ArtifactsImmutable` hold with one writer, after its crashes.
  With two writers, which no run has, they do not: both may take one number, the second
  overwrites the first's file, and the primary key refuses its row only afterwards
  (`migrations.sql:17`, `registry.py:255`).  Nor does the family row stand two: the
  minimal one of `add_version` may land on a family that another process has just
  routed (`registry.py:251`).
* `ResidualIsOwnOrEmpty`, `GoldenSetCurrent`: after any crash and race the residual
  set read for the active version is its own or empty, and a promotion that saved
  its fixtures finds them whole.  In between, a crash leaves torn or mixed pairs.
* `RollbackNeverReturns`: a rollback never brings back a newer version that has served
  before: it moves to an older version or to one that has never been active.  The
  second happens with nobody else on the ladder: a crash between `add_version` and
  `set_active` (`loop/promote.py:128`) leaves the new version as the highest fallback,
  and the next rollback steps forward to it, without fixtures or residual fields of its
  own, although `registry.py:348` says "back one rung".  The property holds up to the
  first rollback that another process disturbs: the target is read before the
  transaction (`registry.py:355`), so by the commit a promotion may have overtaken or
  reached it, or another rollback archived it.
* `GoldenSetReplaced` is what `loop/promote.py:74-75` says; `promotion_stale`
  refutes it: surplus fixtures of a larger promotion stay.
* `OneLoopPerFamily`, `GuardIsTask`: the guard is held exactly from the trigger
  to the done callback.  `FaultNeverRegenerates`: no blocked, gone or failed
  fetch starts a Loop.  `ServedWhenCovered`: a request whose page some version
  extracts is served from the registry whatever is promoted meanwhile, while no crawler
  raises (`Raising = {FALSE}`).
  `NoRegression`, `HonoursContract`: a promotion only adds layouts.
* `RequestAdvances`: a request never goes back, however its failures follow each other.
  Its stages are ordered (`Stage`: a first walk, then the handlers of a failure, each
  retry below the one before, the answer last), so it walks at most `MaxRetries + 2`
  ladders.  `LoopAdvances`: every step of a Loop leaves it fewer steps (`StepsLeft`),
  and no request puts another in its place.
* `HealsOrEscalates`, `HonoursContractLive`, `RequestsAnswered`: the live side.  `engine_raising` shows the exception: a
  crawler that raises on a new layout, rather than returning invalid items, is
  classified transient (`loop/trigger.py:128`), so nothing is ever healed or
  escalated, against `src/README.md:19`.
* `OnlyAuthorized`, `RequestsSpaced`, `EveryGetEnds`: whatever a
  site redirects to, no hop waits for or is sent to a host off the allowlist, the
  requests to one host are spaced whoever's hops they are, under queueing, late
  wake-ups and cancellation, and every call ends.
* `OneBrowser` is what `browser.py:129` and `:93-94` say; `browser` refutes it: renders
  that start together launch a browser each (`browser.py:131`), and so does a render
  after a launch whose `new_context` failed.  `aclose` closes the last only.
* `FetchesBounded`, `RecoveryServes`, `EscalatesWhenNothingWorks`,
  `FastPathRecovers`.  The last says how far recovery goes, which is not all the way.
  A saved strategy that errors stays, since only a block makes the ladder be climbed
  again (`access.py:704`).  And a rung that is redirected too often (`access.py:325`) or
  off the allowlist (`access.py:317`) raises through the strategy and through
  `recover_access`, which catches `NotEnabled` only (`loop/access_recovery.py:142`): the
  request ends, the working rungs behind are never tried, nothing is saved and nothing
  escalated, however often the domain is blocked.  So the property asks for a working
  rung in front of every rung that raises (`Climbable`).
* `WinnerReproducesEveryPage`, `OrderIrrelevant`, `FirstPerfectWins`; equality of texts
  that contain a number is equality of the number (`validator.py:219`), and the
  property is stated with that equality.  Two records of one page with the same
  alignment key, or none, make the order of rows matter (the sort is stable and only
  looks at the key, `validator.py:259`): `OrderIrrelevant` and `FirstPerfectWins` are
  checked and proved of pages whose records differ in it (`KeysApart`).
* `DiscoveryGeneralises`: a place found in the samples holds in each of them, scale
  included, when the emitted crawler runs there.  It excepts a sample whose first
  marked script does not parse: discovery takes the first that parses
  (`loop/driver.py:280`), the crawler only the first, although `loop/driver.py:270`
  calls them the same island.  And an oracle text "None", which `str()` of a null
  leaf equals (`loop/jsonpath.py:212`).
* `JsonSiteNeedsNoModel`: where discovery covers the oracles of single-record pages,
  its crawler passes and is what the round promotes, unless a run of it crashes;
  leading the list is what makes it win ties (`loop/driver.py:508`).
* `DeterministicStands`, `OnlyConstraintsEscape`, `GapClosed`: the tail never changes
  an extracted value, and closes the gap it was computed for where the records of a
  page agree on the field, because the one tail is merged into every record of the page
  (`engine.py:287`).  It can make an accepted extraction unacceptable, in one way: a
  value is held to its field's bare annotation (`hybrid.py:182`), so that "gbp" is filled
  into `Product.currency`, whose pattern (`schemas/product.py:10`) nothing checks again.
  The run has such a field, and such records are answered.
* `HistoryFollowsCounters`, `SnapshotCadence`: history lags behind the counters by the
  successes about to be recorded and one for every crash; across two
  processes a snapshot may be skipped or repeated, since the count and the
  total are two statements (`executor.py:230`).  `WalkAdvances`: each step
  of a walk lowers `Remaining`, so a walk ends though pages link on for ever.
* `SampledOnceOnSite`, `NeverAskedTwice`, `ShortOnlyWhenExhausted`, `Terminates`.  They
  speak of URLs, which is what the sampler compares, and not of pages: `absolutize`
  keeps the fragment (`contract.py:17`), so that a page with a link to one of its own
  sections is collected a second time, and a redirect may show a page twice or one of
  another authorised host.  The oracles that must agree may then be of one page.

Other facts met while modelling that no run carries.  Two that a document denies: an
archived version is still tried (`version_ladder` leaves no row out, `registry.py:323`,
and `run_family` tries each, `executor.py:220`), so that after a rollback the version
that was rolled back is the second rung, though `migrations.sql:20` and
`docs/design.html:383` call it rollback-only; and an off-list navigation of the browser raises `UnauthorizedDomain` inside a strategy that turns any
exception into an error outcome, though `access.py:613` says it is never caught.
The rest no document denies: an inline Loop (`run_loop_inline`) has no guard, so two requests may
run two Loops of a family and the later promotion may lose the earlier one's
layout; the second-tier attempt runs while the row says `escalated`
(`loop/driver.py:358`) until it promotes; a domain stays `escalated` after a later
recovery; renders by the browser pass no rate limiter.

## 5. What is proved

For every value of the constants that satisfies the modules' assumptions
(`RegistryAssumption`, `PromotionAssumption`, `EngineAssumption`,
`RateLimiterAssumption`, `EgressAssumption`, `AccessAssumption`, `SamplerAssumption`,
`ValidatorAssumption`, `ValuePathAssumption`, `GauntletAssumption`,
`FirstRoundAssumption`, `HybridAssumption`, `ExecutorAssumption`).  Most of what they say is that constants
are subsets and naturals and that the special values are not members.  The rest is
about the code: equal cleaned texts hold the same amount, because `parse_money` reads
the first number of the text whatever the spacing (`ValidatorAssumption`); equal
stripped texts are equal cleaned texts, and a number `float()` reads is the amount
`parse_money` reads (`ValuePathAssumption`); the bar is at most 1, and `agreement_bar`
is 0.98 (`GauntletAssumption`); a round has at least one usable sample, whose oracle
passes the gates, because `run_loop` returns before it otherwise
(`FirstRoundAssumption`); the first configured strategy is enabled
(`AccessAssumption`); a crawler's records pass the gates (`HybridAssumption`).  What a
theorem needs beyond them it states itself, in its `ASSUME`.

* `OrderingProofs` has what every other proof needs of lists in an order.  `SortedBy`
  puts at place `k` the element with `k - 1` below it, so that nothing about it needs
  an induction: `BelowProperties` shows that two elements never have equally many
  below them, hence each place has one element and each element one place
  (`SortedByProperties`).  On it rest the ladder (`LadderProperties`: every row once,
  the active one first), `KeptProperties` (a filter keeps order and members) and the
  sort of the records by key.  `FreshVersion`: a number taken is above every row's.
* `AccessProofs`, the limiter: `TypeCorrect`, `LockDisciplined`, `GrantsAreSpaced`, for
  any set of coroutines and any interval.  The inductive invariant adds to
  `TypeOK` and `LockDiscipline` that a sleeper's timer covers the rest of the
  interval (`SleepCoversGap`): without it a wake-up could follow a grant too
  soon, so `GrantsAreSpaced`, the refinement of `Throttle`, is not inductive by
  itself.  Cancellation needs the queue to have no duplicates, or removing one
  occurrence would leave another.
* `AccessProofs`, the calls, any hosts, any allowlist, any bound on hops:
  `EgressImplementsLimiter`, every step of a call is a step of the limiter or
  leaves it alone, so the limiter's invariant carries over.  `EInv` adds that a
  call is in the limiter exactly while its hop waits (`InStep`), that calls under
  way have hops left, and that the request leaves at its grant (`gap = age`).  From
  it: `AllowlistKept`, `EgressLockDisciplined` and `RequestsAreSpaced`.
* `PromotionProofs`, the registry, any processes, any sources, any number of versions:
  `TypeCorrect`; `OneActiveVersion` and `AlwaysServed`.  The invariant `RInv`
  adds that a process in `rollback` holds a target that is still a row (rows
  never disappear), without which its commit would retire the active version
  and promote nothing, and that a process about to write holds a number in
  range.  `PromoteProperties` says once what both promoting transactions do.
* `RungsLoad`, `ArtifactsKept` assume at most one writer
  (`\A p, q \in Writers : p = q`), any number of other processes that
  activate and roll back.  Their invariant `FInv` says that a row's file is
  the registered source, that the source in hand passed the AST gate, and that
  the number in hand has no row: the last is what a second writer breaks.
* `PromotionProofs`, the promotions: `PromotionImplementsRegistry`, each step of `promote()` is one
  step of one registry method or leaves the registry alone, so the four theorems
  above hold of the processes that promote, roll back and crash
  (`PromotionOneActive`, `PromotionServed`, `PromotionRungsLoad`,
  `PromotionKeepsArtifacts`).  `ResidualIsOwn` holds with
  any number of writers: `PInv` says that an audit row names a row of the versions
  table and has its residual set, which the next promotion cannot change because
  its number had no row (`RowsGrow`).  `GoldenSetIsCurrent` assumes one writer:
  `GInv` says that the files below the next to write hold the version being
  promoted, and that only a writer promotes; `FixtureOrder` says that the files of
  `k` samples are exactly the first `2k`, each once.  `RollbacksNeverReturn` assumes one
  writer too: `BInv` says that, while no rollback has been disturbed, every fallback
  that has served is older than the active version (`Behind`), that the version being
  promoted is the newest row (`Newest`), and that a target in hand has never served or
  is older than the active version, and is no older than any fallback that has served
  (`Targets`).  A second writer may activate a number below one that is active already,
  and then breaks it.
* `EngineProofs`, any callers, layouts, retries and rounds, and any number of
  faults, drifts and crashes.  `StepEffects` first reduces the 27 actions to six
  effects on the Loops and the ladder: nothing, a Loop starts, goes on, ends without
  or with a promotion, is cleared, or all are lost.  `LInv` says of a family whose
  Loops run in the background that the guard is held exactly while some request has
  a Loop, that there is one at most, and that a Loop in its rounds holds the family's
  present golden set.  The last rests on the second: another Loop's promotion would
  change that set under it.  From it: `GuardNeverLeaks`, `LoopsDoNotOverlap`, and,
  where every Loop is in the background (`Modes = {FALSE}`), `PromotionNeverRegresses`
  and `ImplementsContract`, the refinement of `HealContract`.  An inline Loop has no
  guard, so two of them overlap and neither theorem holds with them.
  `FaultsDoNotRegenerate` needs a second invariant, `FInv`: a request that met a fault
  is answered, backing off, recovering, or walking in a retry or after a recovery.
  `CoveredIsServed` needs a third, `SInv`: while a request's page fits a version and it
  meets neither fault nor redesign, such a version is still ahead on its walk.  A walk
  is a snapshot of the ladder, and what the snapshot's rows extract stays
  (`RungsStay`).  It assumes `Raising = {FALSE}`, that crawlers do not raise: one that
  does ends the walk (`executor.py:224`), whatever stands below it.
* `EngineProofs`, progress, with background and inline Loops alike: `EngineTypeCorrect`,
  `RequestsAdvance`, `LoopsAdvance`.  `TInv` adds to the types that the request of an
  inline Loop waits for it: that is what keeps a second Loop from taking the place of
  one under way where there is no guard, as `LInv` does where there is.  `StageBounds`
  gives the place of every stage, `LowerPlace` and `LowerWalk` compare the two ends of a
  step, and `LeftBounds` does the same for a Loop.  The two theorems are what
  `RequestsAnswered` and the contract's "every Loop ends" need besides fairness: a
  measure that no step raises.  That some step is always possible is left to TLC.
* `AccessProofs`, the recovery, any requests, configured list, repeated rungs included,
  attempts and rounds: `FetchesAreBounded`, `RecoveredIsServed`,
  `EscalatesOnlyWhenNothingWorks`.  `AInv` follows a request through its recovery:
  what it fetched is covered by the rungs behind it (`Spent`), a strategy that gets
  through is ahead of it on the rest of the ladder (`Ahead`), and what won the recovery
  gets through in the retry (`Winning`); the last two only while the site stays as it
  was.  `BuildLadderProperties`: the ladder of a recovery holds every configured
  strategy and is no longer than the configuration.
* `HybridProofs`, any schema, pages, replies and number of samples:
  `DeterministicCoreStands` and `FillEscapesByConstraint`.  `HInv` says of an answered
  request that its result keeps every value extracted (`Stands`) and, if the extraction
  was valid, differs from it by values of the bare type in residual fields, which alone
  can spoil it (`MayEscape`); `MergeProperties` is what merging does to that.  `GapIsClosed` assumes `CoercionKept`,
  a type dumps a value it accepts as an equal one: `GapInv` joins the residual set of
  the promotion, which has every field the crawler never extracts, to the request
  that fills it.  `HybridTypeCorrect`: the records of a request stay records of the
  schema whatever the model answers, and one tail call at most is made for it.
* `ExecutorProofs`, any walks, processes, versions, pages, cadence and crashes:
  `CountersAndHistory`, `CadenceKept`, `WalksAdvance`.  The first two compare sums over
  the rows of a ladder.  A sum is kept as a set of marks, `f[x]` of them for each `x`
  (`Marks`), and counted; adding one to a counter adds one mark (`SumRaised`), a new row
  adds none (`SumExtended`), so nothing needs an induction.  `Inv` says that the
  rungs of a walk are rows of the table (`Sound`), that one walk of a process at most is
  in the bookkeeping, which has no await (`OneTail`), that what was counted for a
  version and not recorded is about to be, or was lost (`Books`), at most one success
  for every crash over all versions (`Balance`), and, in one process, that the snapshots
  follow the successes whose bookkeeping is over (`Cadence`).  `Books` alone is not
  enough: it bounds the lag of a version from below only, and a crash cuts short a
  success of any of them.
* `SamplerProofs`, any site, seeds and budget: `AskedOnce`, whose invariant adds that
  the URLs seen are a finite set, and its cardinality grows by one with each;
  `OnceAndOnSite`; `ShortWhenExhausted`.  The last needs both directions:
  nothing is collected but what the seeds lead to (`Sound`), and while pages are
  lacking and budget is left every URL found so far is seen or still in hand
  (`Complete`).  When the sampler ends, what was seen is then closed under the links
  of what was collected, and the least such set is `Reachable`.
* `GauntletProofs`, any schema, pages, number of candidates and of rows.  `Inv` says of
  the candidate under way that the accumulators tally what it returned so far
  (`TallyInv`), of each scored one that its score is what accumulators that tally its
  outputs hold (`ScoreInv`), and that the best is the first of the highest mean
  (`BestInv`).  The means are sums of fractions over different denominators;
  `MeansAdded` shows that such a sum is at most the number of pages, and is that number
  when every page agrees in full, so a perfect candidate is never outscored.
  `DetailProperties`: the worst pair is perfect and the counts match exactly when the
  sorted lists agree field by field (`Aligned`).
  - `WinnerReproduces` assumes `FewFields` (one wrong field puts an item below the bar:
    below 50 fields at 0.98) and `AmountsApart` (no amounts in text fields, which
    `field_equal` would compare as amounts).  `AlignedCounts` turns agreement at each
    place of two sorted lists into equal counts of each record, along the two
    permutations.
  - `RowOrderIsIrrelevant` and `FirstPerfectIsBest` assume `KeysApart`:
    `ReorderedSortsAlike` shows that two lists with the same records, which differ in
    the key, are sorted into one list, because an element's place is the number of
    elements below it.
  - `DiscoveryIsSound`: a place that `discover_paths` keeps holds in every sample
    (`Discovered`), and the emitted crawler reads there what it matched
    (`ReadsTheTarget`), whatever the scale.  `JsonNeedsNoModel` joins the two halves: on
    the pages it is about that crawler's only record agrees with the reference, so it
    is accepted, passes, and is the first of the best.

Every invariant and every action property that a passing run checks is a theorem;
`LockDiscipline` is a theorem that no run repeats.
Only model-checked: `Browser`, whose one run refutes what its comments say;
`PathMap`, whose maps enter the properties only through the candidates made of them;
and all liveness
(`HealsOrEscalates`, `HonoursContractLive`, `RequestsAnswered`, `EveryGetEnds`,
`FastPathRecovers`, `Terminates`), which it does not treat.

## 6. Fairness

Weak fairness only.  `Egress`: time passes, a coroutine whose slot has come is run,
the waits at other hosts' limiters end, and a request is answered, redirected or
raises (httpx has a timeout, `access.py:246`); nobody must call or be cancelled.
`Engine`: callers keep asking, and the event
loop runs every ready request and Loop; each has at least one step enabled
wherever it stands, because fetches and model calls have timeouts or raise.
Nothing is assumed of the site, the model or crashes: a round may always fail.
`AccessRecovery`: requests keep coming and awaits return (httpx has a timeout,
`access.py:246`).  `Sampler`: it is one coroutine.

## 7. What is not modelled, and why

* Partly: the registry's connection (a method that raises between its first
  statement and its commit leaves SQLite's implicit transaction open, and other
  processes are refused the lock); the validator's volatile tolerance and
  `history_crosscheck`, which is advisory; the browser's page content and its three
  navigation guards; in value paths and path maps arrays and the `list` transform,
  flags as values, fractional amounts and the text of the emitted modules.
* Not yet: routing between two families.
* Left out: code generation and the model itself, any answer of which the
  modules allow; the runner and the AST gate, whose verdicts are constants;
  prompts, schemas, HTML trimming, the command line, examples and tests.

Abstractions worth knowing.  A site shows one layout at a time, and a Loop's
samples are of the layout shown when it sampled.  Gauntlet and promotion are one
step of `Engine`, because nothing is awaited between them (`Promotion` opens it
up).  A candidate blocks the event loop while it runs, which is that same
atomicity; how long it takes is not modelled.  `Hybrid` has one request and one
promotion at a time.  A failed `golden` load shows as `LoopRaises` in `Engine`.
`Rank` gives a record without its alignment key the first place; the code gives a
missing key the empty text and an explicit null the text "None" (`validator.py:259`),
which `Validator` does not tell apart.  Neither does `SchemaValid`: there None is a
missing key, while an explicit null for a field with a default that is not optional
(`Product.currency`) fails the schema in the code; only a generated candidate would
return one.  A `record_history` that raises is not an action of `Executor`.  `Egress` follows one host's limiter; the others' are waits that end.  The wait for a
connection of httpx's pool is left out: a request leaves at its grant.

## 8. Plan

Order of the modules: `VersionLadder`, `Registry`, `Promotion`, `Engine` with
`HealContract`, `RateLimiter` with `Throttle`, `Egress`, `Browser`, `AccessRecovery`,
`Validator`, `Gauntlet`, `ValuePath` and `PathMap` with `FirstRound`, `Executor`, `Sampler`,
`Hybrid`, and the proofs of all but `Browser` and `PathMap`.  All of these
are here.  Next:

1. `SqliteTxn`: the implicit transaction of a connection under exceptions.
2. A composition of two families behind the router.
3. Arrays and the `list` transform in `PathMap`.

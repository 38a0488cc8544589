------------------------------- MODULE Browser -------------------------------
(***************************************************************************)
(* PlaywrightBrowserRunner of crawloop/browser.py: coroutines that render  *)
(* pages share one runner, whose driver, browser and context are started   *)
(* by the first render and kept in three attributes until aclose().        *)
(*                                                                         *)
(* Every call to Playwright is awaited, so renders interleave with one     *)
(* another and with aclose() at each of them, and each may raise.  What    *)
(* one launch starts is known by the number of the launch; a page's        *)
(* content is left out.                                                    *)
(***************************************************************************)
EXTENDS Naturals, SequencesExt

CONSTANTS
  Tasks,         \* the coroutines that render
  MaxLaunches,   \* bound on launches
  None           \* an attribute that is not set

VARIABLES
  driver, browser, context,   \* self._playwright, self._browser, self._context
  drivers, browsers,          \* the launches whose driver, whose browser runs
  launches,                   \* launches begun so far
  pc,                         \* where each render is
  mine,                       \* the launch it makes, or whose context it uses
  closing                     \* the attribute aclose() is at, and its object

runner == <<driver, browser, context>>
vars == <<runner, drivers, browsers, launches, pc, mine, closing>>

Launch == 1..MaxLaunches

TypeOK ==
  /\ {driver, browser, context} \subseteq Launch \cup {None}
  /\ drivers \subseteq Launch /\ browsers \subseteq Launch
  /\ launches \in 0..MaxLaunches
  /\ pc \in [Tasks -> {"idle", "start", "launch", "context", "page", "load", "close"}]
  /\ mine \in [Tasks -> Launch \cup {None}]
  /\ closing \in {"no", "context", "browser", "driver"} \X (Launch \cup {None})

Init ==
  /\ driver = None /\ browser = None /\ context = None
  /\ drivers = {} /\ browsers = {} /\ launches = 0
  /\ pc = [t \in Tasks |-> "idle"] /\ mine = [t \in Tasks |-> None]
  /\ closing = <<"no", None>>

Step(t, from, to) == pc[t] = from /\ pc' = [pc EXCEPT ![t] = to]
Uses(t, launch) == mine' = [mine EXCEPT ![t] = launch]

-----------------------------------------------------------------------------
(* render and _ensure_context.                                             *)

\* The cached context is tested once, before the first await.
Render(t) ==
  /\ IF context # None
     THEN Step(t, "idle", "page") /\ Uses(t, context) /\ UNCHANGED launches
     ELSE /\ launches < MaxLaunches
          /\ launches' = launches + 1
          /\ Step(t, "idle", "start") /\ Uses(t, launches + 1)
  /\ UNCHANGED <<runner, drivers, browsers, closing>>

Started(t) ==
  /\ Step(t, "start", "launch")
  /\ driver' = mine[t] /\ drivers' = drivers \cup {mine[t]}
  /\ UNCHANGED <<browser, context, browsers, launches, mine, closing>>

\* The launch raises if its driver was stopped meanwhile.
Launched(t) ==
  /\ mine[t] \in drivers
  /\ Step(t, "launch", "context")
  /\ browser' = mine[t] /\ browsers' = browsers \cup {mine[t]}
  /\ UNCHANGED <<driver, context, drivers, launches, mine, closing>>

ContextMade(t) ==
  /\ mine[t] \in browsers
  /\ Step(t, "context", "page")
  /\ context' = mine[t]
  /\ UNCHANGED <<driver, browser, drivers, browsers, launches, mine, closing>>

PageMade(t) ==
  /\ mine[t] \in browsers
  /\ Step(t, "page", "load")
  /\ UNCHANGED <<runner, drivers, browsers, launches, mine, closing>>

\* goto, the wait for a selector and content(), or an exception of one of them,
\* an off-list navigation included: `finally` closes the page.
Loaded(t) ==
  /\ Step(t, "load", "close")
  /\ UNCHANGED <<runner, drivers, browsers, launches, mine, closing>>

PageClosed(t) ==
  /\ Step(t, "close", "idle") /\ Uses(t, None)
  /\ UNCHANGED <<runner, drivers, browsers, launches, closing>>

\* start, launch, new_context or new_page raises, or the caller is cancelled there:
\* what was started is not stopped.
Raises(t) ==
  /\ \E from \in {"start", "launch", "context", "page"} : Step(t, from, "idle")
  /\ Uses(t, None)
  /\ UNCHANGED <<runner, drivers, browsers, launches, closing>>

-----------------------------------------------------------------------------
(* aclose: each attribute that is set has its object closed, then is reset. *)

Attribute == [context |-> context, browser |-> browser, driver |-> driver]

\* The first of `rest` that is set is closed next; its object is read now, and
\* the attribute is reset after the await, whatever it holds by then.
CloseNext(rest) ==
  LET set == SelectSeq(rest, LAMBDA a : Attribute'[a] # None)
  IN  closing' = IF set = <<>> THEN <<"no", None>>
                 ELSE <<set[1], Attribute'[set[1]]>>

Aclose ==
  /\ closing[1] = "no"
  /\ UNCHANGED <<runner, drivers, browsers, launches, pc, mine>>
  /\ CloseNext(<<"context", "browser", "driver">>)

ContextClosed ==
  /\ closing[1] = "context"
  /\ context' = None
  /\ UNCHANGED <<driver, browser, drivers, browsers, launches, pc, mine>>
  /\ CloseNext(<<"browser", "driver">>)

BrowserClosed ==
  /\ closing[1] = "browser"
  /\ browser' = None /\ browsers' = browsers \ {closing[2]}
  /\ UNCHANGED <<driver, context, drivers, launches, pc, mine>>
  /\ CloseNext(<<"driver">>)

\* Stopping a driver ends the browser it launched.
DriverStopped ==
  /\ closing[1] = "driver"
  /\ driver' = None
  /\ drivers' = drivers \ {closing[2]} /\ browsers' = browsers \ {closing[2]}
  /\ UNCHANGED <<browser, context, launches, pc, mine>>
  /\ CloseNext(<<>>)

Next ==
  \/ \E t \in Tasks :
       \/ Render(t) \/ Started(t) \/ Launched(t) \/ ContextMade(t)
       \/ PageMade(t) \/ Loaded(t) \/ PageClosed(t) \/ Raises(t)
  \/ Aclose \/ ContextClosed \/ BrowserClosed \/ DriverStopped

Spec == Init /\ [][Next]_vars

-----------------------------------------------------------------------------
(* Properties.                                                             *)

\* The browser is launched once and reused: at any time at most one browser the
\* runner launched is running.  (_ensure_context: "Launch the browser + context
\* once, then reuse".)
OneBrowser == Cardinality(browsers) <= 1
=============================================================================

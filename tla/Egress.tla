------------------------------- MODULE Egress -------------------------------
(***************************************************************************)
(* GuardedClient.get of crawloop/access.py over the RateLimiter of one     *)
(* host: every hop of a request, the URL asked for and each redirect       *)
(* target, is checked against the allowlist, waits for its host's slot and *)
(* is sent; a chain of redirects is cut after _MAX_REDIRECTS.              *)
(*                                                                         *)
(* A URL is its host.  Each host has a limiter of its own, so one host,    *)
(* Here, has the limiter in full; at any other authorized host a hop waits *)
(* for some time.                                                          *)
(***************************************************************************)
EXTENDS RateLimiter

CONSTANTS
  Hosts,        \* where URLs and redirects may point
  Authorized,   \* the allowlist
  Here,         \* the host of the modelled limiter
  MaxHops       \* _MAX_REDIRECTS + 1

ASSUME EgressAssumption ==
  Authorized \subseteq Hosts /\ Here \in Authorized /\ MaxHops \in Nat \ {0}

VARIABLES
  get,   \* each coroutine's call: step, host of the hop, hops before it
  gap    \* history: ticks since a request was sent to Here, up to Interval

egressVars == <<vars, get, gap>>

Steps == {"done", "throttled", "elsewhere", "sent"}
Call == [step : Steps, at : Hosts, hop : 0..MaxHops]

EgressTypeOK ==
  /\ TypeOK
  /\ get \in [Tasks -> Call]
  /\ gap \in 0..Interval

EgressInit ==
  /\ Init
  /\ get = [t \in Tasks |-> [step |-> "done", at |-> Here, hop |-> 0]]
  /\ gap = Interval

-----------------------------------------------------------------------------
Become(t, step, h, n) ==
  get' = [get EXCEPT ![t] = [step |-> step, at |-> h, hop |-> n]]

Proceed(t, step) == Become(t, step, get[t].at, get[t].hop)

\* From the return of acquire() to the request no coroutine runs in between.
Granted(t) == pc'[t] = "idle"

SendOrWait(t, h, n) ==
  IF Granted(t) THEN Become(t, "sent", h, n) /\ gap' = 0
                ELSE Become(t, "throttled", h, n) /\ UNCHANGED gap

\* Mutant: only the first URL is checked.
Allowed_FirstHop(h, n) == n = 0 => h \in Authorized

\* assert_authorized
Allowed(h, n) == h \in Authorized

\* Mutant: only the first hop asks the limiter.
Throttled_FirstHop(t, h, n) ==
  IF n = 0 THEN Acquire(t) /\ SendOrWait(t, h, n)
           ELSE UNCHANGED vars /\ Become(t, "sent", h, n) /\ gap' = 0

\* The hop waits for its host's slot, every time.
Throttled(t, h, n) == Acquire(t) /\ SendOrWait(t, h, n)

\* One iteration of the loop up to its first await; it ends the call when the
\* hops are used up or the target is not on the list.
Hop(t, h, n) ==
  \/ /\ n < MaxHops /\ Allowed(h, n) /\ h = Here
     /\ Throttled(t, h, n)
  \/ /\ n < MaxHops /\ Allowed(h, n) /\ h # Here
     /\ Become(t, "elsewhere", h, n)
     /\ UNCHANGED <<vars, gap>>
  \/ /\ n = MaxHops \/ ~Allowed(h, n)
     /\ Become(t, "done", h, n)
     /\ UNCHANGED <<vars, gap>>

Begin(t) == get[t].step = "done" /\ \E h \in Hosts : Hop(t, h, 0)

\* The slot arrives: at Here by the limiter's own steps.
Slot(t) ==
  /\ TakeLock(t) \/ Wake(t)
  /\ SendOrWait(t, get[t].at, get[t].hop)

SlotElsewhere(t) ==
  /\ get[t].step = "elsewhere"
  /\ Proceed(t, "sent")
  /\ UNCHANGED <<vars, gap>>

\* Mutant: redirects are not counted.
NextHop_Uncounted(n) == n

NextHop(n) == n + 1

\* A 30x with a Location starts the next iteration; any other response is
\* returned, and an httpx error raised.
Redirected(t) ==
  /\ get[t].step = "sent"
  /\ \E h \in Hosts : Hop(t, h, NextHop(get[t].hop))

Answered(t) ==
  /\ get[t].step = "sent"
  /\ Proceed(t, "done")
  /\ UNCHANGED <<vars, gap>>

\* The caller is cancelled at whichever await it stands.
Abandon(t) ==
  /\ get[t].step # "done"
  /\ Proceed(t, "done")
  /\ IF pc[t] = "idle" THEN UNCHANGED vars ELSE Cancel(t)
  /\ UNCHANGED gap

Pass ==
  /\ Tick
  /\ gap' = IF gap < Interval THEN gap + 1 ELSE gap
  /\ UNCHANGED get

EgressNext ==
  \/ Pass
  \/ \E t \in Tasks :
       \/ Begin(t) \/ Slot(t) \/ SlotElsewhere(t)
       \/ Redirected(t) \/ Answered(t) \/ Abandon(t)

EgressSpec == EgressInit /\ [][EgressNext]_egressVars

\* Time passes, ready coroutines run, another host's limiter starves nobody and
\* httpx gives up on a response after its timeout.  Nobody has to ask for a page.
EgressFairness ==
  /\ WF_egressVars(Pass)
  /\ \A t \in Tasks :
       /\ WF_egressVars(Slot(t)) /\ WF_egressVars(SlotElsewhere(t))
       /\ WF_egressVars(Redirected(t) \/ Answered(t))

FairEgressSpec == EgressSpec /\ EgressFairness

-----------------------------------------------------------------------------
(* Properties.                                                             *)

\* A call is in the limiter exactly while its hop waits for Here.
InStep == \A t \in Tasks : get[t].step = "throttled" <=> pc[t] # "idle"

\* Two requests to one host are at least Interval apart, whether they are first
\* URLs, redirects of any chain or retries, of calls that queue or are cancelled.
SentTo == INSTANCE Throttle WITH age <- gap
RequestsSpaced == SentTo!Spec

\* Whatever a site redirects to, no hop waits for or is sent to a host that is not
\* on the allowlist: the gate is passed by every hop before anything else.
OnlyAuthorized ==
  \A t \in Tasks : get[t].step # "done" => get[t].at \in Authorized

\* Every call ends, though sites redirect in cycles, other calls hold the lock and
\* callers are cancelled while they hold it.
EveryGetEnds == \A t \in Tasks : get[t].step # "done" ~> get[t].step = "done"
=============================================================================

----------------------------- MODULE RateLimiter -----------------------------
(***************************************************************************)
(* RateLimiter.acquire of crawloop/access.py for one host: coroutines      *)
(* queue on the host's asyncio.Lock, its holder sleeps out the interval    *)
(* since the last grant, stamps the time and releases the lock.            *)
(*                                                                         *)
(* Time is counted in ticks and kept relative: `age` is the time since the *)
(* last grant up to Interval, `timer` what is left of a sleep.  A sleeper  *)
(* may wake late, never early.  A waiter may be cancelled (a request that  *)
(* times out) while it queues or sleeps.                                   *)
(***************************************************************************)
EXTENDS Integers, SequencesExt

CONSTANTS
  Tasks,      \* the coroutines that fetch from the host
  Interval,   \* 1 / max_rps, in ticks
  None        \* nobody holds the lock

ASSUME RateLimiterAssumption == Interval \in Nat /\ None \notin Tasks

VARIABLES
  pc,       \* where each coroutine is in acquire()
  timer,    \* ticks left of its sleep
  holder,   \* the coroutine that holds the lock, or None
  queue,    \* the lock's waiters, oldest first
  age

vars == <<pc, timer, holder, queue, age>>

TypeOK ==
  /\ pc \in [Tasks -> {"idle", "queued", "sleeping"}]
  /\ timer \in [Tasks -> 0..Interval]
  /\ holder \in Tasks \cup {None}
  /\ queue \in Seq(Tasks)
  /\ age \in 0..Interval

Init ==
  /\ pc = [t \in Tasks |-> "idle"]
  /\ timer = [t \in Tasks |-> 0]
  /\ holder = None /\ queue = <<>>
  /\ age = Interval

-----------------------------------------------------------------------------
\* wait = min_interval - (now - last)
WaitFor == Interval - age

\* The holder's code up to its await: grant at once, or sleep.  A grant stamps
\* `last` and leaves the `async with`, which frees the lock.
Enter(t) ==
  IF WaitFor > 0
  THEN /\ pc' = [pc EXCEPT ![t] = "sleeping"]
       /\ timer' = [timer EXCEPT ![t] = WaitFor]
       /\ holder' = t
       /\ UNCHANGED age
  ELSE /\ pc' = [pc EXCEPT ![t] = "idle"]
       /\ age' = 0
       /\ holder' = None
       /\ UNCHANGED timer

\* asyncio.Lock grants at once only if it is free and nobody waits for it.
LockFree == holder = None /\ queue = <<>>

Acquire(t) ==
  /\ pc[t] = "idle"
  /\ IF LockFree
     THEN Enter(t) /\ UNCHANGED queue
     ELSE /\ pc' = [pc EXCEPT ![t] = "queued"]
          /\ queue' = Append(queue, t)
          /\ UNCHANGED <<timer, holder, age>>

\* The lock is free and t is its oldest waiter.
TakeLock(t) ==
  /\ holder = None /\ queue # <<>> /\ Head(queue) = t
  /\ queue' = Tail(queue)
  /\ Enter(t)

Slept(t) == timer[t] = 0

Wake(t) ==
  /\ pc[t] = "sleeping" /\ Slept(t)
  /\ pc' = [pc EXCEPT ![t] = "idle"]
  /\ age' = 0
  /\ holder' = None
  /\ UNCHANGED <<timer, queue>>

\* `async with` frees the lock on cancellation too; the stamp is not taken.
HolderAfterCancel(t) == IF holder = t THEN None ELSE holder

\* A cancelled waiter leaves the queue from wherever it stands.
LeavesQueue(t) ==
  \E i \in DOMAIN queue : queue[i] = t /\ queue' = RemoveAt(queue, i)

Cancel(t) ==
  /\ pc[t] # "idle"
  /\ pc' = [pc EXCEPT ![t] = "idle"]
  /\ timer' = [timer EXCEPT ![t] = 0]
  /\ holder' = HolderAfterCancel(t)
  /\ IF pc[t] = "queued" THEN LeavesQueue(t) ELSE UNCHANGED queue
  /\ UNCHANGED age

Tick ==
  /\ age < Interval \/ \E t \in Tasks : timer[t] > 0
  /\ age' = IF age < Interval THEN age + 1 ELSE age
  /\ timer' = [t \in Tasks |-> IF timer[t] > 0 THEN timer[t] - 1 ELSE 0]
  /\ UNCHANGED <<pc, holder, queue>>

Next ==
  \/ \E t \in Tasks : Acquire(t) \/ TakeLock(t) \/ Wake(t) \/ Cancel(t)
  \/ Tick

Spec == Init /\ [][Next]_vars

-----------------------------------------------------------------------------
(* Properties.                                                             *)

\* Only the holder sleeps, and everyone who waits is in the lock's queue, once.
LockDiscipline ==
  /\ \A t \in Tasks : pc[t] = "sleeping" <=> holder = t
  /\ \A t \in Tasks :
       pc[t] = "queued" <=> \E i \in DOMAIN queue : queue[i] = t
  /\ \A i, j \in DOMAIN queue : queue[i] = queue[j] => i = j

\* A sleeper's timer covers what is missing of the interval.
SleepCoversGap ==
  \A t \in Tasks : pc[t] = "sleeping" => timer[t] + age >= Interval

\* Two grants for one host are at least Interval apart, whatever queues, is
\* cancelled or wakes late: acquire implements the abstract throttle.
Spaced == INSTANCE Throttle
ImplementsThrottle == Spaced!Spec
=============================================================================

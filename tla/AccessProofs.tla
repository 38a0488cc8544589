----------------------------- MODULE AccessProofs -----------------------------
(***************************************************************************)
(* Theorems about the access layer: its rate limiter, the client that      *)
(* sends through it, and the recovery of a blocked domain.                 *)
(*                                                                         *)
(* First the limiter alone: Inv is inductive, and acquire() implements the *)
(* abstract throttle.  Then GuardedClient.get: every step of a call is a   *)
(* step of the limiter or leaves it alone, so Inv carries over; on top of  *)
(* it the calls and the limiter agree on who waits (InStep), and a request *)
(* leaves exactly when a slot is granted (gap = age).                      *)
(*                                                                         *)
(* Then fetching from one domain.  AInv follows a request through its      *)
(* recovery: what it has fetched is covered by the rungs behind it         *)
(* (Spent), and what still gets through, if anything does, is ahead of it  *)
(* (Ahead) or is what the retry uses (Winning).                            *)
(***************************************************************************)
EXTENDS Egress, AccessRecovery, OrderingProofs

-----------------------------------------------------------------------------
(* The limiter.                                                            *)

\* What list.remove does to the waiters: one is gone, the others keep their order.
LEMMA RemoveAtProperties ==
  ASSUME NEW S, NEW s \in Seq(S), NEW i \in 1..Len(s)
  PROVE  /\ RemoveAt(s, i) \in Seq(S)
         /\ Len(RemoveAt(s, i)) = Len(s) - 1
         /\ \A j \in 1..(Len(s) - 1) :
              RemoveAt(s, i)[j] = IF j < i THEN s[j] ELSE s[j + 1]
<1> DEFINE left == SubSeq(s, 1, i - 1)
           right == SubSeq(s, i + 1, Len(s))
<1>1. Len(s) \in Nat /\ \A j \in 1..Len(s) : s[j] \in S
  BY LenProperties, ElementOfSeq
<1>2. /\ left \in Seq(S) /\ Len(left) = i - 1
      /\ \A j \in 1..(i - 1) : left[j] = s[j]
  <2>1. \A j \in 1..(i - 1) : s[j] \in S
    BY <1>1
  <2>2. /\ left \in Seq(S)
        /\ Len(left) = IF 1 <= i - 1 THEN (i - 1) - 1 + 1 ELSE 0
        /\ \A j \in 1..((i - 1) - 1 + 1) : left[j] = s[1 + j - 1]
    BY <1>1, <2>1, SubSeqProperties
  <2> QED BY <1>1, <2>2
<1>3. /\ right \in Seq(S) /\ Len(right) = Len(s) - i
      /\ \A j \in 1..(Len(s) - i) : right[j] = s[i + j]
  <2>1. \A j \in (i + 1)..Len(s) : s[j] \in S
    BY <1>1
  <2>2. /\ right \in Seq(S)
        /\ Len(right) = IF i + 1 <= Len(s) THEN Len(s) - (i + 1) + 1 ELSE 0
        /\ \A j \in 1..(Len(s) - (i + 1) + 1) : right[j] = s[(i + 1) + j - 1]
    BY <1>1, <2>1, SubSeqProperties
  <2> QED BY <1>1, <2>2
<1>4. /\ left \o right \in Seq(S)
      /\ Len(left \o right) = Len(left) + Len(right)
      /\ \A j \in 1..(Len(left) + Len(right)) :
           (left \o right)[j] = IF j <= Len(left) THEN left[j] ELSE right[j - Len(left)]
  BY <1>2, <1>3, ConcatProperties
<1>5. RemoveAt(s, i) = left \o right
  BY DEF RemoveAt
<1> HIDE DEF left, right
<1>6. Len(left \o right) = Len(s) - 1
  BY <1>1, <1>2, <1>3, <1>4
<1>7. ASSUME NEW j \in 1..(Len(s) - 1)
      PROVE  (left \o right)[j] = IF j < i THEN s[j] ELSE s[j + 1]
  <2>1. CASE j < i
    BY <1>1, <1>2, <1>3, <1>4, <2>1
  <2>2. CASE ~(j < i)
    <3>1. (left \o right)[j] = right[j - (i - 1)]
      BY <1>1, <1>2, <1>3, <1>4, <2>2
    <3>2. j - (i - 1) \in 1..(Len(s) - i) /\ i + (j - (i - 1)) = j + 1
      BY <1>1, <2>2
    <3> QED BY <1>3, <2>2, <3>1, <3>2
  <2> QED BY <2>1, <2>2
<1> QED BY <1>4, <1>5, <1>6, <1>7

-----------------------------------------------------------------------------

Inv == TypeOK /\ LockDiscipline /\ SleepCoversGap

LEMMA InitInv == Init => Inv
<1> SUFFICES ASSUME Init PROVE Inv
  OBVIOUS
<1>1. Interval \in Nat
  BY RateLimiterAssumption
<1>2. TypeOK
  BY <1>1, EmptySeq DEF Init, TypeOK
<1>3. LockDiscipline
  BY RateLimiterAssumption, EmptySeq DEF Init, LockDiscipline
<1>4. SleepCoversGap
  BY DEF Init, SleepCoversGap
<1> QED BY <1>2, <1>3, <1>4 DEF Inv

LEMMA StutterInv == Inv /\ UNCHANGED vars => Inv'
BY DEF Inv, TypeOK, LockDiscipline, SleepCoversGap, vars

\* The lock goes to t, who sleeps or is granted at once: nobody else sleeps then.
LEMMA EnterInv ==
  ASSUME Inv, NEW t \in Tasks, holder = None, Enter(t)
  PROVE  /\ pc' \in [Tasks -> {"idle", "queued", "sleeping"}]
         /\ timer' \in [Tasks -> 0..Interval]
         /\ holder' \in Tasks \cup {None}
         /\ age' \in 0..Interval
         /\ \A u \in Tasks : pc'[u] = "sleeping" <=> holder' = u
         /\ \A u \in Tasks : pc'[u] = "queued" <=> u # t /\ pc[u] = "queued"
         /\ SleepCoversGap'
<1>1. Interval \in Nat /\ None \notin Tasks
  BY RateLimiterAssumption
<1>2. \A u \in Tasks : pc[u] # "sleeping"
  BY <1>1 DEF Inv, LockDiscipline
<1>3. CASE WaitFor > 0
  <2>1. /\ pc' = [pc EXCEPT ![t] = "sleeping"] /\ age' = age
        /\ timer' = [timer EXCEPT ![t] = Interval - age] /\ holder' = t
    BY <1>3 DEF Enter, WaitFor
  <2>2. /\ pc \in [Tasks -> {"idle", "queued", "sleeping"}]
        /\ timer \in [Tasks -> 0..Interval] /\ age \in 0..Interval
        /\ Interval - age \in 0..Interval
    BY <1>1 DEF Inv, TypeOK
  <2>3. \A u \in Tasks : pc'[u] = IF u = t THEN "sleeping" ELSE pc[u]
    BY <2>1, <2>2
  <2>4. timer'[t] = Interval - age
    BY <2>1, <2>2
  <2>5. SleepCoversGap'
    BY <1>1, <1>2, <2>1, <2>2, <2>3, <2>4 DEF SleepCoversGap
  <2>6. timer' \in [Tasks -> 0..Interval]
    BY <2>1, <2>2
  <2>7. pc' \in [Tasks -> {"idle", "queued", "sleeping"}]
    BY <2>1, <2>2
  <2> QED BY <1>2, <2>1, <2>2, <2>3, <2>5, <2>6, <2>7
<1>4. CASE ~(WaitFor > 0)
  BY <1>1, <1>2, <1>4 DEF Enter, WaitFor, Inv, TypeOK, SleepCoversGap
<1> QED BY <1>3, <1>4

LEMMA AcquireInv == ASSUME Inv, NEW t \in Tasks, Acquire(t) PROVE Inv'
<1>1. CASE LockFree
  <2>1. holder = None /\ queue' = queue /\ Enter(t) /\ pc[t] = "idle"
    BY <1>1 DEF LockFree, Acquire
  <2>2. \A u \in Tasks : pc'[u] = "queued" <=> pc[u] = "queued"
    BY <2>1, EnterInv
  <2> QED BY <2>1, <2>2, EnterInv DEF Inv, TypeOK, LockDiscipline
<1>2. CASE ~LockFree
  <2>1. /\ pc' = [pc EXCEPT ![t] = "queued"] /\ queue' = Append(queue, t)
        /\ timer' = timer /\ holder' = holder /\ age' = age /\ pc[t] = "idle"
    BY <1>2 DEF Acquire
  <2>2. /\ pc \in [Tasks -> {"idle", "queued", "sleeping"}] /\ queue \in Seq(Tasks)
    BY DEF Inv, TypeOK
  <2>3. \A u \in Tasks : pc'[u] = IF u = t THEN "queued" ELSE pc[u]
    BY <2>1, <2>2
  <2>4. /\ queue' \in Seq(Tasks) /\ Len(queue') = Len(queue) + 1 /\ Len(queue) \in Nat
        /\ DOMAIN queue = 1..Len(queue) /\ DOMAIN queue' = 1..(Len(queue) + 1)
        /\ \A i \in 1..Len(queue) : queue'[i] = queue[i]
        /\ queue'[Len(queue) + 1] = t
    BY <2>1, <2>2, AppendProperties, LenProperties
  <2>5. TypeOK'
    BY <2>1, <2>2, <2>4 DEF Inv, TypeOK
  <2>6. \A u \in Tasks : pc'[u] = "sleeping" <=> holder' = u
    BY <2>1, <2>3 DEF Inv, LockDiscipline
  <2>7. \A i \in 1..Len(queue) : queue[i] # t
    BY <2>1, <2>4 DEF Inv, LockDiscipline
  <2>8. \A u \in Tasks : pc'[u] = "queued" <=> \E i \in DOMAIN queue' : queue'[i] = u
    <3> SUFFICES ASSUME NEW u \in Tasks
                 PROVE  pc'[u] = "queued" <=> \E i \in DOMAIN queue' : queue'[i] = u
      OBVIOUS
    <3>1. CASE u = t
      BY <2>3, <2>4, <3>1
    <3>2. CASE u # t
      <4>1. pc'[u] = "queued" <=> \E i \in 1..Len(queue) : queue[i] = u
        BY <2>3, <2>4, <3>2 DEF Inv, LockDiscipline
      <4> QED BY <2>4, <3>2, <4>1
    <3> QED BY <3>1, <3>2
  <2>9. \A i, j \in DOMAIN queue' : queue'[i] = queue'[j] => i = j
    BY <2>4, <2>7 DEF Inv, LockDiscipline
  <2>10. SleepCoversGap'
    BY <2>1, <2>3 DEF Inv, SleepCoversGap
  <2> QED BY <2>5, <2>6, <2>8, <2>9, <2>10 DEF Inv, LockDiscipline
<1> QED BY <1>1, <1>2

LEMMA TakeLockInv == ASSUME Inv, NEW t \in Tasks, TakeLock(t) PROVE Inv'
<1>1. /\ holder = None /\ queue # <<>> /\ Head(queue) = t /\ queue' = Tail(queue)
      /\ Enter(t) /\ queue \in Seq(Tasks)
  BY DEF TakeLock, Inv, TypeOK
<1>2. /\ queue' \in Seq(Tasks) /\ Len(queue) \in Nat \ {0} /\ Len(queue') = Len(queue) - 1
      /\ DOMAIN queue = 1..Len(queue) /\ DOMAIN queue' = 1..(Len(queue) - 1)
      /\ \A i \in 1..(Len(queue) - 1) : queue'[i] = queue[i + 1]
      /\ queue[1] = t
  BY <1>1, HeadTailProperties, LenProperties, EmptySeq
<1>3. TypeOK'
  BY <1>1, <1>2, EnterInv DEF TypeOK
<1>4. \A u \in Tasks : pc'[u] = "queued" <=> \E i \in DOMAIN queue' : queue'[i] = u
  <2> SUFFICES ASSUME NEW u \in Tasks
               PROVE  pc'[u] = "queued" <=> \E i \in 1..(Len(queue) - 1) : queue[i + 1] = u
    BY <1>2
  <2>1. pc'[u] = "queued" <=> u # t /\ \E i \in 1..Len(queue) : queue[i] = u
    BY <1>1, <1>2, EnterInv DEF Inv, LockDiscipline
  <2>2. \A i \in 1..Len(queue) : queue[i] = t <=> i = 1
    BY <1>2 DEF Inv, LockDiscipline
  <2>3. ASSUME u # t, NEW i \in 1..Len(queue), queue[i] = u
        PROVE  \E k \in 1..(Len(queue) - 1) : queue[k + 1] = u
    <3>1. i - 1 \in 1..(Len(queue) - 1) /\ (i - 1) + 1 = i
      BY <1>2, <2>2, <2>3
    <3> QED BY <2>3, <3>1
  <2>4. ASSUME NEW i \in 1..(Len(queue) - 1), queue[i + 1] = u
        PROVE  u # t /\ \E k \in 1..Len(queue) : queue[k] = u
    <3>1. i + 1 \in 1..Len(queue) /\ i + 1 # 1
      BY <1>2
    <3> QED BY <2>2, <2>4, <3>1
  <2> QED BY <2>1, <2>3, <2>4
<1>5. \A i, j \in DOMAIN queue' : queue'[i] = queue'[j] => i = j
  <2> SUFFICES ASSUME NEW i \in 1..(Len(queue) - 1), NEW j \in 1..(Len(queue) - 1),
                      queue[i + 1] = queue[j + 1]
               PROVE  i = j
    BY <1>2
  <2>1. i + 1 \in DOMAIN queue /\ j + 1 \in DOMAIN queue
    BY <1>2
  <2>2. i + 1 = j + 1
    BY <2>1 DEF Inv, LockDiscipline
  <2> QED BY <2>2
<1> QED BY <1>1, <1>3, <1>4, <1>5, EnterInv DEF Inv, LockDiscipline

LEMMA WakeInv == ASSUME Inv, NEW t \in Tasks, Wake(t) PROVE Inv' /\ age = Interval
<1>1. /\ pc[t] = "sleeping" /\ timer[t] = 0 /\ pc' = [pc EXCEPT ![t] = "idle"]
      /\ age' = 0 /\ holder' = None /\ timer' = timer /\ queue' = queue
  BY DEF Wake, Slept
<1>2. /\ pc \in [Tasks -> {"idle", "queued", "sleeping"}] /\ holder = t
      /\ Interval \in Nat /\ None \notin Tasks
  BY <1>1, RateLimiterAssumption DEF Inv, TypeOK, LockDiscipline
<1>3. age = Interval
  BY <1>1, <1>2 DEF Inv, TypeOK, SleepCoversGap
<1>4. \A u \in Tasks : pc'[u] = IF u = t THEN "idle" ELSE pc[u]
  BY <1>1, <1>2
<1>5. TypeOK'
  BY <1>1, <1>2 DEF Inv, TypeOK
<1>6. \A u \in Tasks : pc'[u] # "sleeping"
  BY <1>2, <1>4 DEF Inv, LockDiscipline
<1>7. LockDiscipline'
  BY <1>1, <1>2, <1>4, <1>6 DEF Inv, LockDiscipline
<1>8. SleepCoversGap'
  BY <1>6 DEF SleepCoversGap
<1> QED BY <1>3, <1>5, <1>7, <1>8 DEF Inv

LEMMA CancelInv == ASSUME Inv, NEW t \in Tasks, Cancel(t) PROVE Inv'
<1>1. /\ pc' = [pc EXCEPT ![t] = "idle"] /\ timer' = [timer EXCEPT ![t] = 0]
      /\ holder' = (IF holder = t THEN None ELSE holder) /\ age' = age
  BY DEF Cancel, HolderAfterCancel
<1>2. /\ pc \in [Tasks -> {"idle", "queued", "sleeping"}]
      /\ timer \in [Tasks -> 0..Interval] /\ queue \in Seq(Tasks)
      /\ Interval \in Nat /\ None \notin Tasks
      /\ Len(queue) \in Nat /\ DOMAIN queue = 1..Len(queue)
  BY RateLimiterAssumption, LenProperties DEF Inv, TypeOK
<1>3. /\ \A u \in Tasks : pc'[u] = IF u = t THEN "idle" ELSE pc[u]
      /\ \A u \in Tasks : u # t => timer'[u] = timer[u]
      /\ timer' \in [Tasks -> 0..Interval]
      /\ pc' \in [Tasks -> {"idle", "queued", "sleeping"}]
  BY <1>1, <1>2
<1>4. \A u \in Tasks : pc'[u] = "sleeping" <=> holder' = u
  BY <1>1, <1>2, <1>3 DEF Inv, LockDiscipline
<1>5. SleepCoversGap'
  BY <1>1, <1>3 DEF Inv, SleepCoversGap
<1>6. CASE pc[t] # "queued"
  <2>1. queue' = queue
    BY <1>6 DEF Cancel
  <2>2. LockDiscipline'
    BY <1>3, <1>4, <1>6, <2>1 DEF Inv, LockDiscipline
  <2> QED BY <1>1, <1>3, <1>5, <2>1, <2>2 DEF Inv, TypeOK
<1>7. CASE pc[t] = "queued"
  <2>1. PICK k \in DOMAIN queue : queue[k] = t /\ queue' = RemoveAt(queue, k)
    BY <1>7 DEF Cancel, LeavesQueue
  <2>2. /\ queue' \in Seq(Tasks) /\ Len(queue') = Len(queue) - 1
        /\ \A j \in 1..(Len(queue) - 1) :
             queue'[j] = IF j < k THEN queue[j] ELSE queue[j + 1]
    BY <1>2, <2>1, RemoveAtProperties
  <2>3. DOMAIN queue' = 1..(Len(queue) - 1)
    BY <2>2, LenProperties
  <2>4. \A i, j \in DOMAIN queue : queue[i] = queue[j] => i = j
    BY DEF Inv, LockDiscipline
  <2>5. \A u \in Tasks : pc'[u] = "queued" <=> \E j \in DOMAIN queue' : queue'[j] = u
    <3> SUFFICES ASSUME NEW u \in Tasks
                 PROVE  pc'[u] = "queued" <=> \E j \in DOMAIN queue' : queue'[j] = u
      OBVIOUS
    <3>1. pc'[u] = "queued" <=> u # t /\ \E i \in DOMAIN queue : queue[i] = u
      BY <1>3 DEF Inv, LockDiscipline
    <3>2. ASSUME u # t, NEW i \in DOMAIN queue, queue[i] = u
          PROVE  \E j \in DOMAIN queue' : queue'[j] = u
      <4>1. CASE i < k
        <5>1. i \in 1..(Len(queue) - 1)
          BY <1>2, <2>1, <4>1
        <5> QED BY <2>2, <2>3, <3>2, <4>1, <5>1
      <4>2. CASE i > k
        <5>1. i - 1 \in 1..(Len(queue) - 1) /\ ~(i - 1 < k) /\ (i - 1) + 1 = i
          BY <1>2, <2>1, <4>2
        <5> QED BY <2>2, <2>3, <3>2, <5>1
      <4>3. i # k
        BY <2>1, <3>2
      <4> QED BY <1>2, <2>1, <4>1, <4>2, <4>3
    <3>3. ASSUME NEW j \in DOMAIN queue', queue'[j] = u
          PROVE  u # t /\ \E i \in DOMAIN queue : queue[i] = u
      <4>1. j \in 1..(Len(queue) - 1)
        BY <2>3
      <4>2. CASE j < k
        <5>1. j \in DOMAIN queue /\ j # k
          BY <1>2, <4>1, <4>2
        <5>2. queue[j] = u
          BY <2>2, <3>3, <4>1, <4>2
        <5> QED BY <2>1, <2>4, <5>1, <5>2
      <4>3. CASE ~(j < k)
        <5>1. queue[j + 1] = u /\ j + 1 \in DOMAIN queue /\ j + 1 # k
          BY <1>2, <2>1, <2>2, <3>3, <4>1, <4>3
        <5> QED BY <2>1, <2>4, <5>1
      <4> QED BY <4>2, <4>3
    <3> QED BY <3>1, <3>2, <3>3
  <2>6. \A i, j \in DOMAIN queue' : queue'[i] = queue'[j] => i = j
    <3> SUFFICES ASSUME NEW i \in 1..(Len(queue) - 1), NEW j \in 1..(Len(queue) - 1),
                        queue'[i] = queue'[j]
                 PROVE  i = j
      BY <2>3
    <3> DEFINE at(n) == IF n < k THEN n ELSE n + 1
    <3>1. at(i) \in DOMAIN queue /\ at(j) \in DOMAIN queue
      BY <1>2, <2>1
    <3>2. queue[at(i)] = queue[at(j)]
      BY <2>2
    <3>3. at(i) = at(j)
      BY <2>4, <3>1, <3>2
    <3> QED BY <1>2, <2>1, <3>3
  <2>7. LockDiscipline'
    BY <1>4, <2>5, <2>6 DEF LockDiscipline
  <2> QED BY <1>1, <1>3, <1>5, <2>2, <2>7 DEF Inv, TypeOK
<1> QED BY <1>6, <1>7

LEMMA TickInv == ASSUME Inv, Tick PROVE Inv' /\ (age' = age \/ (age < Interval /\ age' = age + 1))
<1>1. /\ age' = (IF age < Interval THEN age + 1 ELSE age)
      /\ timer' = [u \in Tasks |-> IF timer[u] > 0 THEN timer[u] - 1 ELSE 0]
      /\ pc' = pc /\ holder' = holder /\ queue' = queue
  BY DEF Tick
<1>2. timer \in [Tasks -> 0..Interval] /\ age \in 0..Interval /\ Interval \in Nat
  BY RateLimiterAssumption DEF Inv, TypeOK
<1>3. TypeOK'
  BY <1>1, <1>2 DEF Inv, TypeOK
<1>4. LockDiscipline'
  BY <1>1 DEF Inv, LockDiscipline
<1>5. SleepCoversGap'
  <2> SUFFICES ASSUME NEW u \in Tasks, pc[u] = "sleeping"
               PROVE  timer'[u] + age' >= Interval
    BY <1>1 DEF SleepCoversGap
  <2>1. timer[u] + age >= Interval /\ timer[u] \in 0..Interval
    BY <1>2 DEF Inv, SleepCoversGap
  <2>2. timer'[u] = IF timer[u] > 0 THEN timer[u] - 1 ELSE 0
    BY <1>1
  <2> QED BY <1>1, <1>2, <2>1, <2>2
<1> QED BY <1>1, <1>3, <1>4, <1>5 DEF Inv

LEMMA NextInv == Inv /\ [Next]_vars => Inv'
<1> SUFFICES ASSUME Inv, [Next]_vars PROVE Inv'
  OBVIOUS
<1>1. ASSUME NEW t \in Tasks, Acquire(t) PROVE Inv'
  BY <1>1, AcquireInv
<1>2. ASSUME NEW t \in Tasks, TakeLock(t) PROVE Inv'
  BY <1>2, TakeLockInv
<1>3. ASSUME NEW t \in Tasks, Wake(t) PROVE Inv'
  BY <1>3, WakeInv
<1>4. ASSUME NEW t \in Tasks, Cancel(t) PROVE Inv'
  BY <1>4, CancelInv
<1>5. CASE Tick
  BY <1>5, TickInv
<1>6. CASE UNCHANGED vars
  BY <1>6, StutterInv
<1> QED BY <1>1, <1>2, <1>3, <1>4, <1>5, <1>6 DEF Next

-----------------------------------------------------------------------------
(* Theorems.                                                               *)

\* The inductive invariant holds in every state of every instance: types, the
\* lock held by the one sleeper and queued for in order, timers that cover the gap.
THEOREM Invariance == Spec => []Inv
<1>1. Init => Inv
  BY InitInv
<1>2. Inv /\ [Next]_vars => Inv'
  BY NextInv
<1> QED BY <1>1, <1>2, PTL DEF Spec

\* Types are kept, whatever the coroutines and the interval.
THEOREM TypeCorrect == Spec => []TypeOK
<1>1. Inv => TypeOK
  BY DEF Inv
<1> QED BY <1>1, Invariance, PTL

\* Only the holder of the lock sleeps and every waiter is queued exactly once.
THEOREM LockDisciplined == Spec => []LockDiscipline
<1>1. Inv => LockDiscipline
  BY DEF Inv
<1> QED BY <1>1, Invariance, PTL

\* Two grants for one host are at least Interval apart: acquire() implements the
\* abstract throttle for any number of coroutines and any interval.
THEOREM GrantsAreSpaced == Spec => ImplementsThrottle
<1>1. Init => Spaced!Init
  BY DEF Init, Spaced!Init
<1>2. Inv /\ [Next]_vars => [Spaced!Grant \/ Spaced!Pass]_age
  <2> SUFFICES ASSUME Inv, [Next]_vars
               PROVE  age' = age \/ (age = Interval /\ age' = 0)
                        \/ (age < Interval /\ age' = age + 1)
    BY DEF Spaced!Grant, Spaced!Pass
  <2>1. ASSUME NEW t \in Tasks, Enter(t)
        PROVE  age' = age \/ (age = Interval /\ age' = 0)
    BY <2>1, RateLimiterAssumption DEF Enter, WaitFor, Inv, TypeOK
  <2>2. ASSUME NEW t \in Tasks, Acquire(t)
        PROVE  age' = age \/ (age = Interval /\ age' = 0)
    BY <2>1, <2>2 DEF Acquire
  <2>3. ASSUME NEW t \in Tasks, TakeLock(t)
        PROVE  age' = age \/ (age = Interval /\ age' = 0)
    BY <2>1, <2>3 DEF TakeLock
  <2>4. ASSUME NEW t \in Tasks, Wake(t) PROVE age = Interval /\ age' = 0
    BY <2>4, WakeInv DEF Wake
  <2>5. ASSUME NEW t \in Tasks, Cancel(t) PROVE age' = age
    BY <2>5 DEF Cancel
  <2>6. CASE Tick
    BY <2>6, TickInv
  <2>7. CASE UNCHANGED vars
    BY <2>7 DEF vars
  <2> QED BY <2>2, <2>3, <2>4, <2>5, <2>6, <2>7 DEF Next
<1> QED BY <1>1, <1>2, Invariance, PTL DEF Spec, ImplementsThrottle, Spaced!Spec

-----------------------------------------------------------------------------
(* The client.                                                             *)

\* A call under way has hops left.
HopsLeft == \A t \in Tasks : get[t].step # "done" => get[t].hop < MaxHops

EInv ==
  /\ Inv /\ get \in [Tasks -> Call] /\ InStep
  /\ OnlyAuthorized /\ HopsLeft /\ gap = age

LEMMA InitEInv == EgressInit => EInv
<1> SUFFICES ASSUME EgressInit PROVE EInv
  OBVIOUS
<1>1. Inv /\ age = Interval /\ \A t \in Tasks : pc[t] = "idle"
  BY InitInv DEF EgressInit, Init
<1>2. Here \in Hosts /\ 0 \in 0..MaxHops /\ "done" \in Steps
  BY EgressAssumption DEF Steps
<1> QED BY <1>1, <1>2 DEF EgressInit, EInv, Call, InStep, OnlyAuthorized, HopsLeft

\* A step of the limiter by t grants t its slot or leaves the last grant alone.
LEMMA GrantStamps ==
  ASSUME Inv, NEW t \in Tasks, Acquire(t) \/ TakeLock(t) \/ Wake(t)
  PROVE  /\ Inv' /\ Next
         /\ IF Granted(t) THEN age' = 0 ELSE age' = age
         /\ \A u \in Tasks \ {t} : pc'[u] = pc[u]
<1>1. pc \in [Tasks -> {"idle", "queued", "sleeping"}]
  BY DEF Inv, TypeOK
<1>2. CASE Acquire(t)
  BY <1>1, <1>2, AcquireInv DEF Acquire, Enter, Granted, Next
<1>3. CASE TakeLock(t)
  BY <1>1, <1>3, TakeLockInv DEF TakeLock, Enter, Granted, Next
<1>4. CASE Wake(t)
  BY <1>1, <1>4, WakeInv DEF Wake, Granted, Next
<1> QED BY <1>2, <1>3, <1>4

\* The call follows the limiter: t waits at h, or its request is on its way.
LEMMA SendOrWaitEInv ==
  ASSUME EInv, NEW t \in Tasks, NEW h \in Authorized,
         NEW n \in 0..MaxHops, n < MaxHops,
         Acquire(t) \/ TakeLock(t) \/ Wake(t), SendOrWait(t, h, n)
  PROVE  EInv'
<1>1. /\ Inv' /\ gap' = age'
      /\ \A u \in Tasks \ {t} : pc'[u] = pc[u]
  BY GrantStamps DEF EInv, SendOrWait
<1>2. \E s \in {"sent", "throttled"} :
        /\ s = "throttled" <=> pc'[t] # "idle"
        /\ get' = [get EXCEPT ![t] = [step |-> s, at |-> h, hop |-> n]]
  BY DEF SendOrWait, Become, Granted
<1>3. PICK s \in {"sent", "throttled"} :
        /\ s = "throttled" <=> pc'[t] # "idle"
        /\ get' = [get EXCEPT ![t] = [step |-> s, at |-> h, hop |-> n]]
  BY <1>2
<1>4. h \in Hosts
  BY EgressAssumption
<1>5. get \in [Tasks -> Call] /\ [step |-> s, at |-> h, hop |-> n] \in Call
  BY <1>3, <1>4 DEF EInv, Call, Steps
<1>6. get' \in [Tasks -> Call]
  BY <1>3, <1>5
<1>7. /\ get'[t].step = s /\ get'[t].at = h /\ get'[t].hop = n
      /\ \A u \in Tasks \ {t} : get'[u] = get[u]
  BY <1>3, <1>5
<1>8. InStep'
  BY <1>1, <1>3, <1>7 DEF EInv, InStep
<1>9. OnlyAuthorized' /\ HopsLeft'
  BY <1>7 DEF EInv, OnlyAuthorized, HopsLeft
<1> QED BY <1>1, <1>6, <1>8, <1>9 DEF EInv

\* A step that leaves the limiter alone, by a call that is not waiting there.
LEMMA QuietEInv ==
  ASSUME EInv, NEW t \in Tasks, pc[t] = "idle", UNCHANGED <<vars, gap>>,
         NEW c \in Call, c.step \in {"done", "elsewhere", "sent"},
         c.step # "done" => c.at \in Authorized /\ c.hop < MaxHops,
         get' = [get EXCEPT ![t] = c]
  PROVE  EInv'
<1>1. Inv' /\ pc' = pc /\ gap' = age'
  BY StutterInv DEF EInv, vars
<1>2. get \in [Tasks -> Call]
  BY DEF EInv
<1>3. get' \in [Tasks -> Call]
  BY <1>2
<1>4. get'[t] = c /\ \A u \in Tasks \ {t} : get'[u] = get[u]
  BY <1>2
<1>5. InStep'
  BY <1>1, <1>4 DEF EInv, InStep
<1>6. OnlyAuthorized' /\ HopsLeft'
  BY <1>4 DEF EInv, OnlyAuthorized, HopsLeft
<1> QED BY <1>1, <1>3, <1>5, <1>6 DEF EInv

LEMMA HopEInv ==
  ASSUME EInv, NEW t \in Tasks, pc[t] = "idle", NEW h \in Hosts,
         NEW n \in 0..MaxHops, Hop(t, h, n)
  PROVE  EInv' /\ [Next]_vars
<1>1. CASE n < MaxHops /\ Allowed(h, n) /\ h = Here /\ Throttled(t, h, n)
  <2>1. Acquire(t) /\ SendOrWait(t, h, n) /\ h \in Authorized /\ n < MaxHops
    BY <1>1 DEF Throttled, Allowed
  <2> QED BY <2>1, SendOrWaitEInv, GrantStamps DEF EInv
<1>2. CASE /\ n < MaxHops /\ Allowed(h, n) /\ h # Here
           /\ Become(t, "elsewhere", h, n) /\ UNCHANGED <<vars, gap>>
  <2> DEFINE c == [step |-> "elsewhere", at |-> h, hop |-> n]
  <2>1. c \in Call /\ c.step = "elsewhere" /\ c.at \in Authorized /\ c.hop < MaxHops
    BY <1>2 DEF Call, Steps, Allowed
  <2>2. get' = [get EXCEPT ![t] = c]
    BY <1>2 DEF Become
  <2> HIDE DEF c
  <2> QED BY <1>2, <2>1, <2>2, QuietEInv
<1>3. CASE Become(t, "done", h, n) /\ UNCHANGED <<vars, gap>>
  <2> DEFINE c == [step |-> "done", at |-> h, hop |-> n]
  <2>1. c \in Call /\ c.step = "done"
    BY DEF Call, Steps
  <2>2. get' = [get EXCEPT ![t] = c]
    BY <1>3 DEF Become
  <2> HIDE DEF c
  <2> QED BY <1>3, <2>1, <2>2, QuietEInv
<1> QED BY <1>1, <1>2, <1>3 DEF Hop

LEMMA NextEInv ==
  ASSUME EInv, [EgressNext]_egressVars
  PROVE  EInv' /\ [Next]_vars
<1>0. /\ get \in [Tasks -> Call]
      /\ pc \in [Tasks -> {"idle", "queued", "sleeping"}]
  BY DEF EInv, Inv, TypeOK
<1>1. ASSUME NEW t \in Tasks, Begin(t) PROVE EInv' /\ [Next]_vars
  <2>1. pc[t] = "idle"
    BY <1>1 DEF Begin, EInv, InStep
  <2>2. PICK h \in Hosts : Hop(t, h, 0)
    BY <1>1 DEF Begin
  <2>3. 0 \in 0..MaxHops
    BY EgressAssumption
  <2> QED BY <2>1, <2>2, <2>3, HopEInv
<1>2. ASSUME NEW t \in Tasks, Slot(t) PROVE EInv' /\ [Next]_vars
  <2>1. /\ TakeLock(t) \/ Wake(t)
        /\ SendOrWait(t, get[t].at, get[t].hop)
    BY <1>2 DEF Slot
  <2>2. pc[t] # "idle"
    <3>1. CASE Wake(t)
      BY <3>1 DEF Wake
    <3>2. CASE TakeLock(t)
      <4>1. queue \in Seq(Tasks) /\ queue # <<>> /\ Head(queue) = t
        BY <3>2 DEF TakeLock, EInv, Inv, TypeOK
      <4>2. 1 \in DOMAIN queue /\ queue[1] = t
        BY <4>1
      <4> QED BY <4>2 DEF EInv, Inv, LockDiscipline
    <3> QED BY <2>1, <3>1, <3>2
  <2>3. get[t].at \in Authorized /\ get[t].hop \in 0..MaxHops /\ get[t].hop < MaxHops
    BY <1>0, <2>2 DEF EInv, InStep, OnlyAuthorized, HopsLeft, Call
  <2> QED BY <2>1, <2>3, SendOrWaitEInv, GrantStamps DEF EInv
<1>3. ASSUME NEW t \in Tasks, Redirected(t) PROVE EInv' /\ [Next]_vars
  <2>1. pc[t] = "idle" /\ get[t].hop \in 0..MaxHops /\ get[t].hop < MaxHops
    BY <1>0, <1>3 DEF Redirected, EInv, InStep, HopsLeft, Call
  <2>2. PICK h \in Hosts : Hop(t, h, get[t].hop + 1)
    BY <1>3 DEF Redirected, NextHop
  <2>3. get[t].hop + 1 \in 0..MaxHops
    BY <2>1, EgressAssumption
  <2> QED BY <2>1, <2>2, <2>3, HopEInv
<1>4. ASSUME NEW t \in Tasks, SlotElsewhere(t) \/ Answered(t)
      PROVE  EInv' /\ [Next]_vars
  <2>1. PICK s \in {"sent", "done"} :
          /\ Become(t, s, get[t].at, get[t].hop) /\ UNCHANGED <<vars, gap>>
          /\ get[t].step \in {"elsewhere", "sent"}
    BY <1>4 DEF SlotElsewhere, Answered, Proceed
  <2> DEFINE c == [step |-> s, at |-> get[t].at, hop |-> get[t].hop]
  <2>2. /\ c \in Call /\ c.step = s /\ c.at = get[t].at /\ c.hop = get[t].hop
        /\ get' = [get EXCEPT ![t] = c]
    <3>1. c \in Call
      BY <1>0 DEF Call, Steps
    <3>2. get' = [get EXCEPT ![t] = c]
      BY <2>1 DEF Become
    <3> QED BY <3>1, <3>2
  <2>3. pc[t] = "idle" /\ c.at \in Authorized /\ c.hop < MaxHops
    BY <2>1, <2>2 DEF EInv, InStep, OnlyAuthorized, HopsLeft
  <2> HIDE DEF c
  <2> QED BY <2>1, <2>2, <2>3, QuietEInv
<1>5. ASSUME NEW t \in Tasks, Abandon(t) PROVE EInv' /\ [Next]_vars
  <2> DEFINE c == [step |-> "done", at |-> get[t].at, hop |-> get[t].hop]
  <2>1. c \in Call /\ c.step = "done"
    BY <1>0 DEF Call, Steps
  <2>2. get' = [get EXCEPT ![t] = c] /\ gap' = gap
    BY <1>5 DEF Abandon, Proceed, Become
  <2> HIDE DEF c
  <2>3. CASE pc[t] = "idle"
    <3>1. UNCHANGED <<vars, gap>>
      BY <1>5, <2>3 DEF Abandon
    <3> QED BY <2>1, <2>2, <2>3, <3>1, QuietEInv
  <2>4. CASE pc[t] # "idle"
    <3>1. Cancel(t)
      BY <1>5, <2>4 DEF Abandon
    <3>2. Inv' /\ age' = age /\ pc' = [pc EXCEPT ![t] = "idle"]
      BY <3>1, CancelInv DEF Cancel, EInv
    <3>3. get' \in [Tasks -> Call]
      BY <1>0, <2>1, <2>2
    <3>4. get'[t].step = "done" /\ \A u \in Tasks \ {t} : get'[u] = get[u]
      BY <1>0, <2>1, <2>2
    <3>5. InStep' /\ OnlyAuthorized' /\ HopsLeft'
      BY <1>0, <3>2, <3>4 DEF EInv, InStep, OnlyAuthorized, HopsLeft
    <3> QED BY <2>2, <3>1, <3>2, <3>3, <3>5 DEF EInv, Next
  <2> QED BY <2>3, <2>4
<1>6. ASSUME Pass PROVE EInv' /\ [Next]_vars
  <2>1. Tick /\ get' = get /\ gap' = IF gap < Interval THEN gap + 1 ELSE gap
    BY <1>6 DEF Pass
  <2>2. Inv' /\ pc' = pc /\ age' = IF age < Interval THEN age + 1 ELSE age
    BY <2>1, TickInv DEF Tick, EInv
  <2> QED BY <2>1, <2>2 DEF EInv, InStep, OnlyAuthorized, HopsLeft, Next
<1>7. ASSUME UNCHANGED egressVars PROVE EInv' /\ [Next]_vars
  <2>1. Inv' /\ pc' = pc /\ age' = age /\ UNCHANGED vars
    BY <1>7, StutterInv DEF EInv, egressVars, vars
  <2> QED BY <1>7, <2>1 DEF EInv, InStep, OnlyAuthorized, HopsLeft, egressVars
<1> QED BY <1>1, <1>2, <1>3, <1>4, <1>5, <1>6, <1>7 DEF EgressNext

\* The calls use the limiter only through acquire(), cancelled or not.
THEOREM EgressImplementsLimiter == EgressSpec => Spec
<1>1. EgressInit => Init
  BY DEF EgressInit
<1>2. EInv /\ [EgressNext]_egressVars => EInv' /\ [Next]_vars
  BY NextEInv
<1> QED BY <1>1, <1>2, InitEInv, PTL DEF EgressSpec, Spec

THEOREM EgressInvariance == EgressSpec => []EInv
<1>1. EInv /\ [EgressNext]_egressVars => EInv'
  BY NextEInv
<1> QED BY <1>1, InitEInv, PTL DEF EgressSpec

\* The types of the calls, over those of the limiter.
THEOREM EgressTypeCorrect == EgressSpec => []EgressTypeOK
<1>1. EInv => EgressTypeOK
  BY DEF EInv, Inv, TypeOK, EgressTypeOK
<1> QED BY <1>1, EgressInvariance, PTL

\* No hop of any call, first or redirected, waits for or is sent to a host that is
\* not on the allowlist.
THEOREM AllowlistKept == EgressSpec => []OnlyAuthorized
<1>1. EInv => OnlyAuthorized
  BY DEF EInv
<1> QED BY <1>1, EgressInvariance, PTL

\* Only the lock holder sleeps and everyone who waits is queued once, whatever
\* redirects and cancellations bring callers to the host.
THEOREM EgressLockDisciplined == EgressSpec => []LockDiscipline
  BY EgressImplementsLimiter, LockDisciplined

\* Two requests to one host are at least Interval apart, over all hops of all calls.
THEOREM RequestsAreSpaced == EgressSpec => RequestsSpaced
<1>1. EgressInit => SentTo!Init
  BY DEF EgressInit, SentTo!Init
<1>2. EgressSpec => ImplementsThrottle
  BY EgressImplementsLimiter, GrantsAreSpaced
<1>3. EInv /\ EInv' /\ [Spaced!Grant \/ Spaced!Pass]_age
        => [SentTo!Grant \/ SentTo!Pass]_gap
  BY DEF EInv, Spaced!Grant, Spaced!Pass, SentTo!Grant, SentTo!Pass
<1>4. ImplementsThrottle => [][Spaced!Grant \/ Spaced!Pass]_age
  BY PTL DEF ImplementsThrottle, Spaced!Spec
<1>5. RequestsSpaced <=> SentTo!Init /\ [][SentTo!Grant \/ SentTo!Pass]_gap
  BY PTL DEF RequestsSpaced, SentTo!Spec
<1> QED BY <1>1, <1>2, <1>3, <1>4, <1>5, EgressInvariance, PTL DEF EgressSpec

-----------------------------------------------------------------------------
(* Recovery of a blocked domain, for any ladder, any requests, any site    *)
(* and any number of attempts, rounds and changes of behaviour.            *)

PosNat == Nat \ {0}

LEMMA Constants ==
  /\ Tries \in PosNat /\ MaxRounds \in PosNat /\ MaxShifts \in Nat
  /\ Configured \in Seq(Strategies) /\ Len(Configured) \in PosNat
  /\ Configured \in [1..Len(Configured) -> Strategies]
  /\ \A s \in Strategies : \E i \in 1..Len(Configured) : Configured[i] = s
  /\ Configured[1] \in Strategies /\ NoStrategy \notin Strategies
<1>1. Configured \in Seq(Strategies) /\ Configured # <<>>
  BY AccessAssumption
<1>2. Len(Configured) \in Nat /\ Configured \in [1..Len(Configured) -> Strategies]
  BY <1>1, LenProperties
<1>3. Len(Configured) # 0
  BY <1>1, EmptySeq
<1>4. \A s \in Strategies : \E i \in 1..Len(Configured) : Configured[i] = s
  BY <1>2 DEF Strategies, ToSet
<1> QED BY <1>1, <1>2, <1>3, <1>4, AccessAssumption DEF PosNat

\* The ladder of a recovery holds every strategy and is no longer than the
\* configuration.
LEMMA BuildLadderProperties ==
  ASSUME saved \in Strategies \cup {NoStrategy}
  PROVE  /\ BuildLadder \in Seq(Strategies) /\ Len(BuildLadder) <= Len(Configured)
         /\ \A s \in Strategies : \E i \in 1..Len(BuildLadder) : BuildLadder[i] = s
<1> DEFINE L == Len(Configured)
           rest == Kept(Configured, NewRungs)
           front == IF saved # NoStrategy THEN <<saved>> ELSE <<>>
<1>1. /\ L \in PosNat /\ Configured \in [1..L -> Strategies]
      /\ Configured \in Seq(Strategies)
      /\ \A s \in Strategies : \E i \in 1..L : Configured[i] = s
  BY Constants
<1>2. NewRungs \in SUBSET (1..L)
  BY <1>1 DEF NewRungs
<1>3. /\ rest \in Seq(Strategies) /\ Len(rest) = Cardinality(NewRungs)
      /\ \A k \in NewRungs : \E i \in 1..Len(rest) : rest[i] = Configured[k]
  BY <1>1, <1>2, KeptProperties
<1> HIDE DEF rest
<1>4. Len(front) \in {0, 1} /\ front \in Seq(Strategies) /\ (Len(front) = 1 <=> saved # NoStrategy)
  OBVIOUS
<1>5. BuildLadder = front \o rest
  BY DEF BuildLadder, rest
<1> HIDE DEF front
<1>6. /\ BuildLadder \in Seq(Strategies) /\ Len(BuildLadder) = Len(front) + Len(rest)
      /\ \A i \in 1..Len(BuildLadder) :
           BuildLadder[i] = IF i <= Len(front) THEN front[i] ELSE rest[i - Len(front)]
  <2>1. /\ front \o rest \in Seq(Strategies)
        /\ Len(front \o rest) = Len(front) + Len(rest)
        /\ \A i \in 1..(Len(front) + Len(rest)) :
             (front \o rest)[i] = IF i <= Len(front) THEN front[i] ELSE rest[i - Len(front)]
    BY <1>3, <1>4, ConcatProperties
  <2> QED BY <1>5, <2>1
<1>7. Len(rest) \in Nat /\ IsFiniteSet(1..L) /\ Cardinality(1..L) = L
  <2>1. /\ Cardinality(1..L) = (IF 1 > L THEN 0 ELSE L - 1 + 1)
        /\ IsFiniteSet(1..L)
    BY <1>1, FS_Interval DEF PosNat
  <2>2. Len(rest) \in Nat
    BY <1>3, LenProperties
  <2> QED BY <1>1, <2>1, <2>2 DEF PosNat
<1>8. Len(BuildLadder) <= L
  <2>1. CASE saved = NoStrategy
    <3>1. Cardinality(NewRungs) <= L
      BY <1>2, <1>7, FS_Subset
    <3> QED BY <1>1, <1>3, <1>4, <1>6, <1>7, <2>1, <3>1 DEF PosNat
  <2>2. CASE saved # NoStrategy
    <3>1. PICK k \in 1..L : Configured[k] = saved
      BY <1>1, <2>2
    <3>2. NewRungs \in SUBSET ((1..L) \ {k})
      BY <1>2, <3>1 DEF NewRungs
    <3>3. IsFiniteSet((1..L) \ {k}) /\ Cardinality((1..L) \ {k}) = L - 1
      BY <1>7, <3>1, FS_RemoveElement
    <3> DEFINE others == (1..L) \ {k}
    <3> HIDE DEF others
    <3>4. Cardinality(NewRungs) <= L - 1
      <4>1. Cardinality(NewRungs) <= Cardinality(others)
        BY <3>2, <3>3, FS_Subset DEF others
      <4> QED BY <3>3, <4>1 DEF others
    <3>5. Len(BuildLadder) = 1 + Cardinality(NewRungs) /\ Cardinality(NewRungs) \in Nat
      BY <1>3, <1>4, <1>6, <1>7, <2>2
    <3> QED BY <1>1, <3>4, <3>5 DEF PosNat
  <2> QED BY <2>1, <2>2
<1>9. ASSUME NEW s \in Strategies
      PROVE  \E i \in 1..Len(BuildLadder) : BuildLadder[i] = s
  <2>1. CASE s = saved
    <3>1. Len(front) = 1 /\ front[1] = s
      BY <1>4, <2>1, Constants DEF front
    <3>2. 1 \in 1..Len(BuildLadder) /\ BuildLadder[1] = s
      BY <1>6, <1>7, <3>1
    <3> QED BY <3>2
  <2>2. CASE s # saved
    <3> DEFINE at == {i \in 1..L : Configured[i] = s}
    <3>1. at \in SUBSET Nat /\ at # {}
      BY <1>1
    <3>2. PICK k \in at : \A j \in at : k <= j
      BY <3>1, LeastElement
    <3>3. \A j \in 1..(k - 1) : Configured[j] # Configured[k]
      <4> SUFFICES ASSUME NEW j \in 1..(k - 1), Configured[j] = s PROVE FALSE
        BY <3>2
      <4>1. j \in at /\ j < k
        BY <1>1, <3>2 DEF PosNat
      <4> QED BY <1>1, <3>2, <4>1
    <3>4. k \in NewRungs
      BY <1>1, <2>2, <3>2, <3>3 DEF NewRungs
    <3>5. PICK i \in 1..Len(rest) : rest[i] = s
      BY <1>3, <3>2, <3>4
    <3>6. Len(front) + i \in 1..Len(BuildLadder) /\ BuildLadder[Len(front) + i] = s
      BY <1>4, <1>6, <1>7, <3>5
    <3> QED BY <3>6
  <2> QED BY <2>1, <2>2
<1> QED BY <1>6, <1>8, <1>9

-----------------------------------------------------------------------------
(* The inductive invariant.                                                *)

Rungs == Len(Configured)
Works(s) == s \in Strategies \ Disabled /\ site[s] = "ok"

\* The rungs a recovery has left behind, earlier rounds included.
Walked(t) == (t.round - 1) * Rungs + (Rungs - Len(t.left))
WholeWalk == MaxRounds * Rungs

Laddered(t) ==
  t.pc = "ladder" =>
    /\ t.mode = "first" /\ Len(t.left) <= Rungs /\ Len(t.full) <= Rungs
    /\ \A s \in Strategies : \E i \in 1..Len(t.full) : t.full[i] = s

Spent(t) ==
  /\ t.pc = "fetch" /\ t.mode = "first" => t.fetches < t.attempt
  /\ t.pc = "ladder" => t.fetches < Tries * (1 + Walked(t)) + t.attempt
  /\ t.pc = "fetch" /\ t.mode = "recovered" =>
       t.fetches < Tries * (1 + WholeWalk) + t.attempt
  /\ t.fetches <= Tries * (2 + WholeWalk)

Ahead(t) ==
  t.pc = "ladder" /\ t.steady =>
    \A s \in Strategies : Works(s) => \E i \in 1..Len(t.left) : t.left[i] = s

Winning(t) ==
  t.mode = "recovered" /\ t.steady =>
    /\ t.pc = "fetch" => site[t.using] = "ok"
    /\ t.pc = "idle" => t.answer = "recovered"

Escalated(t) ==
  t.answer = "escalated" =>
    t.pc = "idle" /\ (t.steady => \A s \in Strategies : ~Works(s))

Good(t) ==
  t \in Task /\ Laddered(t) /\ Spent(t) /\ Ahead(t) /\ Winning(t) /\ Escalated(t)

AInv == RecoveryTypeOK /\ \A r \in Requests : Good(task[r])

\* Products of bounds: all the arithmetic the invariant needs.
LEMMA Budget ==
  ASSUME NEW a \in Nat, NEW b \in Nat, a <= b
  PROVE  /\ Tries * a \in Nat /\ Tries * a <= Tries * b
         /\ Tries * (a + 1) = Tries * a + Tries
         /\ a * Rungs \in Nat /\ a * Rungs <= b * Rungs
         /\ (a + 1) * Rungs = a * Rungs + Rungs
<1>1. Tries \in PosNat /\ Rungs \in PosNat
  BY Constants DEF Rungs
<1>2. PICK d \in Nat : b = a + d
  <2>1. b - a \in Nat /\ b = a + (b - a)
    OBVIOUS
  <2> QED BY <2>1
<1>3. /\ Tries * b = Tries * a + Tries * d /\ b * Rungs = a * Rungs + d * Rungs
      /\ {Tries * a, Tries * d, a * Rungs, d * Rungs} \subseteq Nat
  BY <1>1, <1>2, SMT DEF PosNat
<1>4. Tries * (a + 1) = Tries * a + Tries /\ (a + 1) * Rungs = a * Rungs + Rungs
  BY <1>1, SMT DEF PosNat
<1> QED BY <1>1, <1>3, <1>4 DEF PosNat

\* A step that changes one request's state leaves the others good.
LEMMA TaskStep ==
  ASSUME AInv, NEW r \in Requests, NEW new, Good(new),
         task' = [task EXCEPT ![r] = new],
         saved' \in Strategies \cup {NoStrategy}, state' \in {"unseen", "escalated"},
         UNCHANGED <<site, shifts>>
  PROVE  AInv'
<1>1. RecoveryTypeOK'
  BY DEF AInv, RecoveryTypeOK, Good
<1>2. ASSUME NEW q \in Requests
      PROVE  Good(task'[q])
  BY <1>2 DEF AInv, RecoveryTypeOK
<1>3. ASSUME NEW q \in Requests
      PROVE  Good(task[q])'
  BY <1>2, <1>3 DEF Good, Laddered, Spent, Ahead, Winning, Escalated, Works, Walked,
                    WholeWalk, Rungs
<1> QED BY <1>1, <1>3 DEF AInv

LEMMA WalkBudget == WholeWalk \in Nat /\ Tries * (2 + WholeWalk) \in Nat
<1>1. MaxRounds \in Nat /\ MaxRounds <= MaxRounds
  BY Constants DEF PosNat
<1>2. WholeWalk \in Nat
  BY <1>1, Budget DEF WholeWalk
<1>3. 2 + WholeWalk \in Nat /\ 2 + WholeWalk <= 2 + WholeWalk
  BY <1>2
<1>4. Tries * (2 + WholeWalk) \in Nat
  BY <1>3, Budget
<1> QED BY <1>2, <1>4

LEMMA NewTaskProperties ==
  /\ NewTask \in Task /\ NewTask.pc = "idle" /\ NewTask.mode = "first"
  /\ NewTask.fetches = 0 /\ NewTask.attempt = 1 /\ NewTask.answer = "none"
<1>1. 1 \in 1..MaxRounds /\ 1 \in 1..Tries /\ Configured[1] \in Strategies
  BY Constants DEF PosNat
<1> QED BY <1>1 DEF NewTask, Task

LEMMA InitAInv == RecoveryInit => AInv
<1> SUFFICES ASSUME RecoveryInit PROVE AInv
  OBVIOUS
<1>1. NewTask \in Task /\ NewTask.pc = "idle" /\ NewTask.mode = "first"
      /\ NewTask.fetches = 0 /\ NewTask.attempt = 1 /\ NewTask.answer = "none"
  BY NewTaskProperties
<1>2. 0 <= Tries * (2 + WholeWalk)
  BY WalkBudget
<1>3. Good(NewTask)
  BY <1>1, <1>2 DEF Good, Laddered, Spent, Ahead, Winning, Escalated
<1>4. RecoveryTypeOK
  BY <1>1, Constants DEF RecoveryInit, RecoveryTypeOK, PosNat
<1> QED BY <1>3, <1>4 DEF RecoveryInit, AInv

-----------------------------------------------------------------------------
(* One request's steps.                                                    *)

LEMMA FetchAInv == ASSUME AInv, NEW r \in Requests, Fetch(r) PROVE AInv'
<1> DEFINE new == [NewTask EXCEPT !.pc = "fetch", !.using = FastStrategy]
<1>1. FastStrategy \in Strategies
  BY Constants DEF FastStrategy, AInv, RecoveryTypeOK
<1>2. /\ new \in Task /\ new.pc = "fetch" /\ new.mode = "first" /\ new.fetches = 0
      /\ new.attempt = 1 /\ new.answer = "none"
  BY <1>1, NewTaskProperties DEF Task
<1>3. 0 <= Tries * (2 + WholeWalk)
  BY WalkBudget
<1>4. Good(new)
  <2> HIDE DEF new
  <2> QED BY <1>2, <1>3 DEF Good, Laddered, Spent, Ahead, Winning, Escalated
<1>5. task' = [task EXCEPT ![r] = new] /\ UNCHANGED <<saved, state, site, shifts>>
  BY DEF Fetch
<1> HIDE DEF new
<1> QED BY <1>4, <1>5, TaskStep DEF AInv, RecoveryTypeOK

\* What is behind a request on the ladder, and what it may have cost.
LEMMA WalkedBudget ==
  ASSUME NEW t \in Task, Len(t.left) <= Rungs
  PROVE  /\ Walked(t) \in Nat /\ Walked(t) + Len(t.left) <= WholeWalk
         /\ Walked(t) <= WholeWalk
         /\ Tries * (1 + Walked(t)) \in Nat /\ Tries * (1 + Walked(t)) >= Tries
<1>1. /\ t.round \in 1..MaxRounds /\ Len(t.left) \in Nat
      /\ Tries \in PosNat /\ Rungs \in PosNat /\ MaxRounds \in PosNat /\ WholeWalk \in Nat
  BY Constants, WalkBudget, LenProperties DEF Rungs, Task
<1> DEFINE before == (t.round - 1) * Rungs
           after == t.round * Rungs
<1>2. before \in Nat /\ after = before + Rungs
  <2>1. t.round - 1 \in Nat /\ (t.round - 1) + 1 = t.round
    BY <1>1 DEF PosNat
  <2> QED BY <2>1, Budget
<1>3. after <= WholeWalk
  BY <1>1, Budget DEF WholeWalk, PosNat
<1>4. Walked(t) = before + (Rungs - Len(t.left))
  BY DEF Walked
<1> HIDE DEF before, after
<1>5. /\ Walked(t) \in Nat /\ Walked(t) + Len(t.left) <= WholeWalk
      /\ Walked(t) <= WholeWalk
  BY <1>1, <1>2, <1>3, <1>4 DEF PosNat
<1>6. /\ Tries * (Walked(t) + 1) = Tries * Walked(t) + Tries
      /\ Tries * Walked(t) \in Nat /\ Walked(t) + 1 = 1 + Walked(t)
  <2> DEFINE w == Walked(t)
  <2>1. w \in Nat /\ w <= w /\ w + 1 = 1 + w
    BY <1>5
  <2> HIDE DEF w
  <2>2. Tries * (w + 1) = Tries * w + Tries /\ Tries * w \in Nat
    BY <2>1, Budget
  <2> QED BY <2>1, <2>2 DEF w
<1> QED BY <1>1, <1>5, <1>6 DEF PosNat

\* What one attempt costs is what it is allowed: the totals under which it ends.
LEMMA AttemptBudget ==
  ASSUME AInv, NEW r \in Requests, task[r].pc \in {"fetch", "ladder"}
  PROVE  /\ task[r] \in Task /\ task[r].fetches + 1 \in Nat
         /\ Tries \in PosNat /\ Rungs \in PosNat
         /\ task[r].fetches + 1 <= Tries * (2 + WholeWalk)
         /\ task[r].pc = "ladder" =>
              /\ Walked(task[r]) \in Nat /\ Walked(task[r]) <= WholeWalk
              /\ task[r].fetches + 1 <= Tries * (1 + Walked(task[r])) + Tries
              /\ task[r].fetches < Tries * (1 + WholeWalk) + task[r].attempt
<1> DEFINE t == task[r]
<1>1. /\ t \in Task /\ t.fetches \in Nat /\ t.attempt \in 1..Tries
      /\ t.round \in 1..MaxRounds /\ t.mode \in {"first", "recovered"}
      /\ t.left \in Seq(Strategies)
      /\ Laddered(t) /\ Spent(t) /\ t.pc \in {"fetch", "ladder"}
  BY DEF AInv, RecoveryTypeOK, Good, Task
<1> HIDE DEF t
<1>2. /\ Tries \in PosNat /\ Rungs \in PosNat /\ MaxRounds \in PosNat
      /\ Len(t.left) \in Nat
  BY <1>1, Constants, LenProperties DEF Rungs
<1>3. WholeWalk \in Nat
  BY WalkBudget
<1>4. /\ Tries * (1 + WholeWalk) \in Nat /\ Tries * WholeWalk \in Nat
      /\ Tries * (2 + WholeWalk) = Tries * (1 + WholeWalk) + Tries
      /\ Tries * (1 + WholeWalk) >= Tries
  <2>1. Tries * (1 + WholeWalk) = Tries * WholeWalk + Tries /\ Tries * WholeWalk \in Nat
    BY <1>3, Budget
  <2>2. Tries * ((1 + WholeWalk) + 1) = Tries * (1 + WholeWalk) + Tries
    BY <1>3, Budget
  <2>3. (1 + WholeWalk) + 1 = 2 + WholeWalk
    BY <1>3
  <2> QED BY <1>2, <2>1, <2>2, <2>3 DEF PosNat
<1>5. CASE t.pc = "ladder"
  <2>1. Walked(t) \in Nat /\ Walked(t) <= WholeWalk
    BY <1>1, <1>5, WalkedBudget DEF Laddered
  <2>2. /\ Tries * (1 + Walked(t)) \in Nat
        /\ Tries * (1 + Walked(t)) <= Tries * (1 + WholeWalk)
    <3>1. 1 + Walked(t) \in Nat /\ 1 + WholeWalk \in Nat /\ 1 + Walked(t) <= 1 + WholeWalk
      BY <1>3, <2>1
    <3> HIDE DEF Walked, WholeWalk
    <3> QED BY <3>1, Budget
  <2>3. t.fetches < Tries * (1 + Walked(t)) + t.attempt
    BY <1>1, <1>5 DEF Spent
  <2> DEFINE sofar == Tries * (1 + Walked(t))
             all == Tries * (1 + WholeWalk)
  <2>4. /\ sofar \in Nat /\ all \in Nat /\ sofar <= all /\ t.fetches < sofar + t.attempt
        /\ Tries * (2 + WholeWalk) = all + Tries
    BY <1>4, <2>2, <2>3
  <2> HIDE DEF sofar, all
  <2>5. /\ t.fetches + 1 <= sofar + Tries /\ t.fetches < all + t.attempt
        /\ t.fetches + 1 <= all + Tries
    BY <1>1, <1>2, <2>4 DEF PosNat
  <2>6. /\ t.fetches + 1 <= Tries * (2 + WholeWalk) /\ t.fetches + 1 \in Nat
        /\ t.fetches + 1 <= Tries * (1 + Walked(t)) + Tries
        /\ t.fetches < Tries * (1 + WholeWalk) + t.attempt
    BY <1>1, <2>4, <2>5 DEF sofar, all
  <2> QED BY <1>1, <1>2, <2>1, <2>6 DEF t
<1>6. CASE t.pc = "fetch"
  BY <1>1, <1>2, <1>4, <1>6 DEF Spent, t, PosNat
<1> QED BY <1>1, <1>5, <1>6

\* An inline fetch that goes again, on an error or a 429.
LEMMA FetchRetryAInv == ASSUME AInv, NEW r \in Requests, FetchRetry(r) PROVE AInv'
<1> DEFINE t == task[r]
           new == [t EXCEPT !.fetches = @ + 1, !.attempt = @ + 1]
<1>1. /\ t.pc = "fetch" /\ t.attempt < Tries /\ site[t.using] # "ok"
      /\ task' = [task EXCEPT ![r] = new] /\ UNCHANGED <<saved, state, site, shifts>>
  BY DEF FetchRetry, ShouldRetry, AttemptAgain, Fetched, AInv, RecoveryTypeOK
<1>2. /\ t \in Task /\ t.fetches + 1 \in Nat /\ Tries \in PosNat
      /\ t.fetches + 1 <= Tries * (2 + WholeWalk)
  BY <1>1, AttemptBudget
<1>3. Good(t)
  BY DEF AInv
<1> HIDE DEF t
<1>4. /\ new \in Task /\ new.pc = "fetch" /\ new.mode = t.mode /\ new.using = t.using
      /\ new.fetches = t.fetches + 1 /\ new.attempt = t.attempt + 1
      /\ new.answer = t.answer /\ new.steady = t.steady
  <2>1. t.attempt + 1 \in 1..Tries
    BY <1>1, <1>2 DEF Task, PosNat
  <2> QED BY <1>1, <1>2, <2>1 DEF Task
<1> HIDE DEF new
<1>5. Spent(new)
  <2>1. CASE t.mode = "first"
    BY <1>1, <1>2, <1>3, <1>4, <2>1 DEF Good, Spent, Task, PosNat
  <2>2. CASE t.mode = "recovered"
    <3> DEFINE all == Tries * (1 + WholeWalk)
    <3>1. t.fetches < all + t.attempt /\ all \in Nat
      <4>1. 1 + WholeWalk \in Nat /\ 1 + WholeWalk <= 1 + WholeWalk
        BY WalkBudget
      <4>2. all \in Nat
        BY <4>1, Budget
      <4> QED BY <1>1, <1>3, <2>2, <4>2 DEF Good, Spent
    <3> HIDE DEF all
    <3>2. new.fetches < all + new.attempt
      BY <1>2, <1>4, <3>1 DEF Task
    <3> QED BY <1>2, <1>4, <2>2, <3>2 DEF Spent, all
  <2> QED BY <1>2, <2>1, <2>2 DEF Task
<1>6. Laddered(new) /\ Ahead(new)
  BY <1>4 DEF Laddered, Ahead
<1>7. Winning(new)
  BY <1>1, <1>3, <1>4 DEF Good, Winning
<1>8. Escalated(new)
  BY <1>1, <1>3, <1>4 DEF Good, Escalated
<1>9. Good(new)
  BY <1>4, <1>5, <1>6, <1>7, <1>8 DEF Good
<1> QED BY <1>1, <1>9, TaskStep DEF AInv, RecoveryTypeOK

\* A fetch that ends the request, whatever it returns or raises.
LEMMA ReturnAInv ==
  ASSUME AInv, NEW r \in Requests, task[r].pc \in {"fetch", "ladder"},
         NEW answer \in {"served", "recovered", "failed", "error", "raised"}, Return(r, answer),
         task[r].mode = "recovered" /\ site[task[r].using] = "ok" => answer = "recovered",
         UNCHANGED <<saved, state, site, shifts>>
  PROVE  AInv'
<1> DEFINE t == task[r]
           new == [t EXCEPT !.fetches = @ + 1, !.pc = "idle", !.answer = answer]
<1>1. task' = [task EXCEPT ![r] = new]
  BY DEF Return, Fetched, AInv, RecoveryTypeOK
<1>2. /\ t \in Task /\ t.fetches + 1 \in Nat
      /\ t.fetches + 1 <= Tries * (2 + WholeWalk)
  BY AttemptBudget
<1>3. Good(t)
  BY DEF AInv
<1>4. /\ new \in Task /\ new.pc = "idle" /\ new.mode = t.mode /\ new.using = t.using
      /\ new.fetches = t.fetches + 1 /\ new.answer = answer /\ new.steady = t.steady
  BY <1>2 DEF Task
<1>5. Winning(new)
  BY <1>3, <1>4 DEF Good, Winning, Laddered
<1> HIDE DEF new
<1>6. Good(new)
  BY <1>2, <1>4, <1>5 DEF Good, Laddered, Spent, Ahead, Escalated
<1> QED BY <1>1, <1>6, TaskStep DEF AInv, RecoveryTypeOK

LEMMA FetchOkAInv == ASSUME AInv, NEW r \in Requests, FetchOk(r) PROVE AInv'
  BY ReturnAInv DEF FetchOk

LEMMA FetchErrsAInv == ASSUME AInv, NEW r \in Requests, FetchErrs(r) PROVE AInv'
  BY ReturnAInv DEF FetchErrs

LEMMA FetchIsOffListAInv == ASSUME AInv, NEW r \in Requests, FetchIsOffList(r) PROVE AInv'
  BY ReturnAInv DEF FetchIsOffList

\* A block of the first fetch starts the recovery, at the top of the ladder.
LEMMA FetchIsBlockedAInv == ASSUME AInv, NEW r \in Requests, FetchIsBlocked(r) PROVE AInv'
<1> DEFINE t == task[r]
           new == [t EXCEPT !.fetches = @ + 1, !.pc = "ladder", !.left = BuildLadder,
                            !.full = BuildLadder, !.attempt = 1, !.steady = TRUE]
<1>1. t.pc = "fetch" /\ site[t.using] # "ok" /\ UNCHANGED <<saved, state, site, shifts>>
  BY DEF FetchIsBlocked
<1>2. CASE t.mode = "first"
  <2>1. task' = [task EXCEPT ![r] = new]
    BY <1>2 DEF FetchIsBlocked, Fetched, AInv, RecoveryTypeOK
  <2>2. /\ t \in Task /\ t.fetches + 1 \in Nat /\ Tries \in PosNat /\ Rungs \in PosNat
        /\ t.fetches + 1 <= Tries * (2 + WholeWalk)
    BY <1>1, AttemptBudget
  <2>3. Good(t)
    BY DEF AInv
  <2>4. /\ BuildLadder \in Seq(Strategies) /\ Len(BuildLadder) <= Rungs
        /\ \A s \in Strategies : \E i \in 1..Len(BuildLadder) : BuildLadder[i] = s
    BY BuildLadderProperties DEF AInv, RecoveryTypeOK, Rungs
  <2> HIDE DEF t
  <2>5. /\ new \in Task /\ new.pc = "ladder" /\ new.mode = t.mode /\ new.round = t.round
        /\ new.fetches = t.fetches + 1 /\ new.attempt = 1
        /\ new.answer = t.answer /\ new.left = BuildLadder /\ new.full = BuildLadder
    <3>1. 1 \in 1..Tries
      BY <2>2 DEF PosNat
    <3> QED BY <1>2, <2>2, <2>4, <3>1 DEF Task
  <2> HIDE DEF new
  <2>6. t.answer # "escalated"
    BY <2>3, <1>1 DEF Good, Escalated, t
  <2>7. Spent(new)
    <3>1. t.fetches + 1 <= Tries
      BY <1>1, <1>2, <2>2, <2>3 DEF t, Good, Spent, Task, PosNat
    <3>2. Tries * (1 + Walked(new)) \in Nat /\ Tries * (1 + Walked(new)) >= Tries
      BY <2>4, <2>5, WalkedBudget
    <3> DEFINE paid == Tries * (1 + Walked(new))
    <3>3. t.fetches + 1 < paid + 1
      BY <2>2, <3>1, <3>2 DEF PosNat
    <3> QED BY <2>2, <2>5, <3>1, <3>3 DEF Spent, PosNat
  <2>8. Laddered(new) /\ Ahead(new) /\ Winning(new)
    BY <1>2, <2>4, <2>5 DEF t, Laddered, Ahead, Winning
  <2>9. Good(new)
    BY <2>5, <2>6, <2>7, <2>8 DEF Good, Escalated
  <2> QED BY <1>1, <2>1, <2>9, TaskStep DEF AInv, RecoveryTypeOK
<1>3. CASE t.mode # "first"
  BY <1>1, <1>3, ReturnAInv DEF FetchIsBlocked
<1> QED BY <1>2, <1>3

-----------------------------------------------------------------------------
(* The ladder.                                                             *)

\* A rung that is absent or has failed is left behind: the walk goes on.
LEMMA WalksOn ==
  ASSUME AInv, NEW r \in Requests, NEW new \in Task,
         task' = [task EXCEPT ![r] = new], UNCHANGED <<saved, state, site, shifts>>,
         task[r].pc = "ladder", task[r].left # <<>>, ~Works(Head(task[r].left)),
         new.pc = "ladder", new.mode = task[r].mode, new.left = Tail(task[r].left),
         new.full = task[r].full, new.round = task[r].round,
         new.steady = task[r].steady, new.answer = task[r].answer,
         \/ new.fetches = task[r].fetches /\ new.attempt = task[r].attempt
         \/ new.fetches = task[r].fetches + 1 /\ new.attempt = 1
  PROVE  AInv'
<1> DEFINE t == task[r]
<1>1. /\ t \in Task /\ t.left \in Seq(Strategies) /\ Good(t)
      /\ Tries \in PosNat /\ Rungs \in PosNat /\ t.attempt \in 1..Tries
      /\ t.fetches \in Nat /\ Laddered(t)
      /\ t.fetches + 1 <= Tries * (2 + WholeWalk)
      /\ t.fetches + 1 <= Tries * (1 + Walked(t)) + Tries
      /\ Walked(t) \in Nat
  BY AttemptBudget DEF AInv, Task, Good
<1>2. /\ Tail(t.left) \in Seq(Strategies) /\ Len(Tail(t.left)) = Len(t.left) - 1
      /\ Len(t.left) \in PosNat /\ t.left[1] = Head(t.left)
      /\ \A i \in 1..Len(Tail(t.left)) : Tail(t.left)[i] = t.left[i + 1]
  BY <1>1, HeadTailProperties, LenProperties, EmptySeq DEF PosNat
<1>3. Laddered(new)
  BY <1>1, <1>2 DEF Laddered, PosNat
<1>4. Ahead(new)
  <2> SUFFICES ASSUME t.steady, NEW s \in Strategies, Works(s)
               PROVE  \E i \in 1..Len(new.left) : new.left[i] = s
    BY DEF Ahead
  <2>1. PICK i \in 1..Len(t.left) : t.left[i] = s
    BY <1>1 DEF Good, Ahead
  <2>2. i # 1
    BY <1>2, <2>1
  <2>3. i - 1 \in 1..Len(new.left) /\ (i - 1) + 1 = i
    BY <1>2, <2>2 DEF PosNat
  <2> QED BY <1>2, <2>1, <2>3
<1>5. Walked(new) = Walked(t) + 1
  <2> DEFINE before == (t.round - 1) * Rungs
  <2>1. Walked(t) = before + (Rungs - Len(t.left))
        /\ Walked(new) = before + (Rungs - (Len(t.left) - 1))
    BY <1>2 DEF Walked
  <2>2. before \in Nat
    <3>1. t.round \in 1..MaxRounds /\ MaxRounds \in PosNat
      BY <1>1, Constants DEF Task
    <3>2. t.round - 1 \in Nat /\ t.round - 1 <= t.round - 1
      BY <3>1 DEF PosNat
    <3> QED BY <3>2, Budget
  <2> HIDE DEF before
  <2> QED BY <1>1, <1>2, <2>1, <2>2 DEF PosNat
<1>6. Tries * (1 + Walked(new)) = Tries * (1 + Walked(t)) + Tries
  <2> DEFINE w == 1 + Walked(t)
  <2>1. w \in Nat /\ w <= w /\ w + 1 = 1 + Walked(new)
    BY <1>1, <1>5
  <2> HIDE DEF w
  <2>2. Tries * (w + 1) = Tries * w + Tries
    BY <2>1, Budget
  <2> QED BY <2>1, <2>2 DEF w
<1>7. Spent(new)
  <2>1. new.fetches <= t.fetches + 1 /\ new.fetches \in Nat /\ new.attempt \in 1..Tries
    BY <1>1 DEF Task
  <2> DEFINE total == Tries * (2 + WholeWalk)
             paid == Tries * (1 + Walked(new))
  <2>2. /\ t.fetches + 1 <= total /\ t.fetches + 1 <= paid
        /\ total \in Nat /\ paid \in Nat
    BY <1>1, <1>6, WalkBudget, <1>3, WalkedBudget DEF Laddered
  <2> HIDE DEF total, paid
  <2>3. new.fetches < paid + new.attempt /\ new.fetches <= total
    BY <1>1, <2>1, <2>2
  <2> QED BY <2>3 DEF Spent, total, paid
<1>8. Winning(new) /\ Escalated(new)
  BY <1>1 DEF Good, Laddered, Winning, Escalated
<1>9. Good(new)
  BY <1>3, <1>4, <1>7, <1>8 DEF Good
<1> QED BY <1>9, TaskStep DEF AInv, RecoveryTypeOK

LEMMA SkipRungAInv == ASSUME AInv, NEW r \in Requests, SkipRung(r) PROVE AInv'
<1> DEFINE t == task[r]
           new == [t EXCEPT !.left = Tail(@)]
<1>1. /\ t.pc = "ladder" /\ t.left # <<>> /\ Head(t.left) \in Disabled
      /\ task' = [task EXCEPT ![r] = new] /\ UNCHANGED <<saved, state, site, shifts>>
  BY DEF SkipRung, AtRung, AInv, RecoveryTypeOK
<1>2. t \in Task /\ Tail(t.left) \in Seq(Strategies)
  BY <1>1, HeadTailProperties DEF AInv, RecoveryTypeOK, Task
<1>3. /\ new \in Task /\ new.pc = t.pc /\ new.mode = t.mode /\ new.left = Tail(t.left)
      /\ new.full = t.full /\ new.round = t.round /\ new.steady = t.steady
      /\ new.answer = t.answer /\ new.fetches = t.fetches /\ new.attempt = t.attempt
  BY <1>2 DEF Task
<1> HIDE DEF new
<1> QED BY <1>1, <1>3, WalksOn DEF Works

LEMMA LoseRungAInv == ASSUME AInv, NEW r \in Requests, LoseRung(r) PROVE AInv'
<1> DEFINE t == task[r]
           new == [t EXCEPT !.fetches = @ + 1, !.left = Tail(@), !.attempt = 1]
<1>1. /\ t.pc = "ladder" /\ t.left # <<>> /\ site[Head(t.left)] # "ok"
      /\ task' = [task EXCEPT ![r] = new] /\ UNCHANGED <<saved, state, site, shifts>>
  <2>1. task' = [Fetched(r) EXCEPT ![r].left = Tail(@), ![r].attempt = 1]
    BY DEF LoseRung
  <2>2. task' = [task EXCEPT ![r] = new]
    BY <2>1 DEF Fetched, AInv, RecoveryTypeOK
  <2> QED BY <2>2 DEF LoseRung, AtRung
<1>2. /\ t \in Task /\ Tail(t.left) \in Seq(Strategies)
      /\ t.fetches + 1 \in Nat /\ 1 \in 1..Tries
  BY <1>1, HeadTailProperties, Constants DEF AInv, RecoveryTypeOK, Task, PosNat
<1>3. /\ new \in Task /\ new.pc = t.pc /\ new.mode = t.mode /\ new.left = Tail(t.left)
      /\ new.full = t.full /\ new.round = t.round /\ new.steady = t.steady
      /\ new.answer = t.answer /\ new.fetches = t.fetches + 1 /\ new.attempt = 1
  BY <1>2 DEF Task
<1> HIDE DEF new
<1> QED BY <1>1, <1>3, WalksOn DEF Works

\* A rung that raises ends the request, which has won nothing and escalates nothing.
LEMMA RungRaisesAInv == ASSUME AInv, NEW r \in Requests, RungRaises(r) PROVE AInv'
<1>1. /\ task[r].pc = "ladder" /\ Return(r, "raised")
      /\ UNCHANGED <<saved, state, site, shifts>>
  BY DEF RungRaises, AtRung
<1>2. task[r].mode = "first"
  BY <1>1 DEF AInv, Good, Laddered
<1> QED BY <1>1, <1>2, ReturnAInv

LEMMA RetryRungAInv == ASSUME AInv, NEW r \in Requests, RetryRung(r) PROVE AInv'
<1> DEFINE t == task[r]
           new == [t EXCEPT !.fetches = @ + 1, !.attempt = @ + 1]
<1>1. /\ t.pc = "ladder" /\ t.attempt < Tries
      /\ task' = [task EXCEPT ![r] = new] /\ UNCHANGED <<saved, state, site, shifts>>
  <2>1. task' = [Fetched(r) EXCEPT ![r].attempt = @ + 1]
    BY DEF RetryRung, AttemptAgain
  <2>2. task' = [task EXCEPT ![r] = new]
    BY <2>1 DEF Fetched, AInv, RecoveryTypeOK
  <2> QED BY <2>2 DEF RetryRung, AtRung, ShouldRetry
<1>2. /\ t \in Task /\ t.fetches + 1 \in Nat /\ Tries \in PosNat
      /\ t.fetches + 1 <= Tries * (2 + WholeWalk)
      /\ t.attempt \in 1..Tries /\ t.fetches \in Nat
  BY <1>1, AttemptBudget DEF Task
<1>3. Good(t)
  BY DEF AInv
<1> HIDE DEF t
<1>4. /\ new \in Task /\ new.pc = "ladder" /\ new.mode = t.mode /\ new.left = t.left
      /\ new.full = t.full /\ new.round = t.round
      /\ new.fetches = t.fetches + 1 /\ new.attempt = t.attempt + 1
      /\ new.answer = t.answer /\ new.steady = t.steady
  <2>1. t.attempt + 1 \in 1..Tries
    BY <1>1, <1>2 DEF PosNat
  <2> QED BY <1>1, <1>2, <2>1 DEF Task
<1> HIDE DEF new
<1>5. Laddered(new) /\ Ahead(new) /\ Winning(new) /\ Escalated(new)
  BY <1>1, <1>3, <1>4 DEF Good, Laddered, Ahead, Winning, Escalated
<1>6. Spent(new)
  <2> DEFINE paid == Tries * (1 + Walked(t))
  <2>1. t.fetches < paid + t.attempt /\ Walked(new) = Walked(t)
    BY <1>1, <1>3, <1>4 DEF Good, Spent, Walked
  <2>2. paid \in Nat
    BY <1>1, <1>2, <1>3, WalkedBudget DEF Good, Laddered
  <2> HIDE DEF paid
  <2>3. new.fetches < paid + new.attempt
    BY <1>2, <1>4, <2>1, <2>2
  <2> QED BY <1>2, <1>4, <2>1, <2>3 DEF Spent, paid
<1>7. Good(new)
  BY <1>4, <1>5, <1>6 DEF Good
<1> QED BY <1>1, <1>7, TaskStep DEF AInv, RecoveryTypeOK

\* The winner gets through, and the retry that follows uses it.
LEMMA WinRungAInv == ASSUME AInv, NEW r \in Requests, WinRung(r) PROVE AInv'
<1> DEFINE t == task[r]
<1>1. PICK s \in Strategies \ Disabled :
        /\ AtRung(r, s) /\ site[s] = "ok" /\ saved' = s
        /\ task' = [Fetched(r) EXCEPT ![r].pc = "fetch", ![r].mode = "recovered",
                                      ![r].using = s, ![r].attempt = 1]
        /\ UNCHANGED <<state, site, shifts>>
  BY DEF WinRung, SetWorkingStrategy
<1> DEFINE new == [t EXCEPT !.fetches = @ + 1, !.pc = "fetch", !.mode = "recovered",
                            !.using = s, !.attempt = 1]
<1>2. t.pc = "ladder" /\ task' = [task EXCEPT ![r] = new]
  BY <1>1 DEF AtRung, Fetched, AInv, RecoveryTypeOK
<1>3. /\ t \in Task /\ t.fetches + 1 \in Nat /\ Tries \in PosNat
      /\ t.fetches + 1 <= Tries * (2 + WholeWalk)
      /\ t.fetches + 1 <= Tries * (1 + Walked(t)) + Tries
      /\ t.fetches < Tries * (1 + WholeWalk) + t.attempt
  BY <1>2, AttemptBudget
<1>4. Good(t)
  BY DEF AInv
<1> HIDE DEF t
<1>5. /\ new \in Task /\ new.pc = "fetch" /\ new.mode = "recovered" /\ new.using = s
      /\ new.fetches = t.fetches + 1 /\ new.attempt = 1
      /\ new.answer = t.answer /\ new.steady = t.steady
  <2>1. 1 \in 1..Tries
    BY <1>3 DEF PosNat
  <2> QED BY <1>3, <2>1 DEF Task
<1> HIDE DEF new
<1>6. Laddered(new) /\ Ahead(new) /\ Winning(new) /\ Escalated(new)
  BY <1>1, <1>2, <1>4, <1>5 DEF Good, Laddered, Ahead, Winning, Escalated
<1>7. Spent(new)
  <2> DEFINE w == Walked(t)
             paid == Tries * (1 + w)
             all == Tries * (1 + WholeWalk)
             total == Tries * (2 + WholeWalk)
  <2>1. w \in Nat /\ w + 1 <= WholeWalk /\ WholeWalk \in Nat
    <3>1. Len(t.left) \in Nat /\ Len(t.left) # 0
      BY <1>1, <1>3, EmptySeq, LenProperties DEF AtRung, Task, t
    <3>2. w \in Nat /\ w + Len(t.left) <= WholeWalk
      BY <1>2, <1>3, <1>4, WalkedBudget DEF Good, Laddered, t
    <3> HIDE DEF w
    <3> QED BY <3>1, <3>2, WalkBudget
  <2>2. paid + Tries <= all
    <3> HIDE DEF w
    <3>1. 1 + w \in Nat /\ 1 + w <= 1 + w /\ (1 + w) + 1 = 2 + w
      BY <2>1
    <3>2. Tries * (2 + w) = paid + Tries
      BY <3>1, Budget
    <3>3. 2 + w \in Nat /\ 1 + WholeWalk \in Nat /\ 2 + w <= 1 + WholeWalk
      BY <2>1
    <3>4. Tries * (2 + w) <= all
      BY <3>3, Budget
    <3> QED BY <3>2, <3>4
  <2>3. t.fetches + 1 <= paid + Tries /\ t.fetches + 1 <= total /\ all \in Nat /\ paid \in Nat
    <3>1. 1 + WholeWalk \in Nat /\ 1 + WholeWalk <= 1 + WholeWalk
          /\ 1 + w \in Nat /\ 1 + w <= 1 + w
      BY <2>1
    <3> HIDE DEF w
    <3>2. all \in Nat /\ paid \in Nat
      BY <3>1, Budget
    <3> QED BY <1>3, <3>2 DEF w
  <2> HIDE DEF paid, all, total
  <2>4. new.fetches < all + new.attempt /\ new.fetches <= total
    BY <1>3, <1>5, <2>2, <2>3 DEF PosNat
  <2> QED BY <1>5, <2>4 DEF Spent, all, total
<1>8. Good(new)
  BY <1>5, <1>6, <1>7 DEF Good
<1> QED BY <1>1, <1>2, <1>8, TaskStep DEF AInv, RecoveryTypeOK

LEMMA NextRoundAInv == ASSUME AInv, NEW r \in Requests, NextRound(r) PROVE AInv'
<1> DEFINE t == task[r]
           new == [t EXCEPT !.round = @ + 1, !.left = t.full]
<1>1. /\ t.pc = "ladder" /\ t.left = <<>> /\ t.round < MaxRounds
      /\ task' = [task EXCEPT ![r] = new] /\ UNCHANGED <<saved, state, site, shifts>>
  BY DEF NextRound, RoundsLeft, AInv, RecoveryTypeOK
<1>2. /\ t \in Task /\ t.round \in 1..MaxRounds /\ MaxRounds \in PosNat
      /\ t.attempt \in 1..Tries /\ t.fetches \in Nat
      /\ t.full \in Seq(Strategies) /\ t.fetches + 1 <= Tries * (2 + WholeWalk)
      /\ Rungs \in PosNat /\ Tries \in PosNat
  BY <1>1, AttemptBudget, Constants DEF Task
<1>3. Good(t)
  BY DEF AInv
<1> HIDE DEF t
<1>4. /\ new \in Task /\ new.pc = "ladder" /\ new.mode = t.mode /\ new.left = t.full
      /\ new.full = t.full /\ new.round = t.round + 1
      /\ new.fetches = t.fetches /\ new.attempt = t.attempt
      /\ new.answer = t.answer /\ new.steady = t.steady
  <2>1. t.round + 1 \in 1..MaxRounds
    BY <1>1, <1>2 DEF PosNat
  <2> QED BY <1>1, <1>2, <2>1 DEF Task
<1> HIDE DEF new
<1>5. Laddered(new) /\ Ahead(new) /\ Winning(new) /\ Escalated(new)
  BY <1>1, <1>3, <1>4 DEF Good, Laddered, Ahead, Winning, Escalated
<1>6. Walked(t) \in Nat /\ Walked(new) \in Nat /\ Walked(t) <= Walked(new)
  <2>1. Len(t.left) = 0 /\ Len(t.full) \in Nat /\ Len(t.full) <= Rungs
    BY <1>1, <1>2, <1>3, LenProperties DEF Good, Laddered
  <2>2. Walked(t) \in Nat /\ Walked(new) \in Nat
    BY <1>1, <1>2, <1>4, <2>1, WalkedBudget DEF PosNat
  <2>3. t.round * Rungs = (t.round - 1) * Rungs + Rungs /\ (t.round - 1) * Rungs \in Nat
    <3>1. t.round - 1 \in Nat /\ t.round - 1 <= t.round - 1 /\ (t.round - 1) + 1 = t.round
      BY <1>2 DEF PosNat
    <3> QED BY <3>1, Budget
  <2>4. (t.round + 1) - 1 = t.round
    BY <1>2 DEF PosNat
  <2>5. Walked(t) = (t.round - 1) * Rungs + Rungs
    <3>1. Walked(t) = (t.round - 1) * Rungs + (Rungs - 0)
      BY <2>1 DEF Walked
    <3> QED BY <1>2, <3>1 DEF PosNat
  <2>6. Walked(new) = t.round * Rungs + (Rungs - Len(t.full))
    BY <1>4, <2>4 DEF Walked
  <2> DEFINE before == t.round * Rungs
  <2>7. Walked(t) = before /\ Walked(new) = before + (Rungs - Len(t.full))
    BY <2>3, <2>5, <2>6
  <2> HIDE DEF before
  <2> QED BY <1>2, <2>1, <2>2, <2>7 DEF PosNat
<1>7. Spent(new)
  <2> DEFINE v == 1 + Walked(t)
             w == 1 + Walked(new)
  <2>1. v \in Nat /\ w \in Nat /\ v <= w
    BY <1>6
  <2>2. t.fetches < Tries * v + t.attempt
    BY <1>1, <1>3 DEF Good, Spent
  <2> HIDE DEF v, w
  <2>3. Tries * v \in Nat /\ Tries * v <= Tries * w
    BY <2>1, Budget
  <2>4. w <= w
    BY <2>1
  <2>5. Tries * w \in Nat
    BY <2>1, <2>4, Budget
  <2> DEFINE paid == Tries * v
             owed == Tries * w
  <2>6. t.fetches < paid + t.attempt /\ paid \in Nat /\ owed \in Nat /\ paid <= owed
    BY <2>2, <2>3, <2>5
  <2> HIDE DEF paid, owed
  <2>7. t.fetches < owed + t.attempt
    BY <1>2, <2>6
  <2>8. new.fetches < Tries * (1 + Walked(new)) + new.attempt
    BY <1>4, <2>7 DEF owed, w
  <2>9. new.fetches <= Tries * (2 + WholeWalk)
    BY <1>3, <1>4 DEF Good, Spent
  <2> QED BY <1>4, <2>8, <2>9 DEF Spent
<1>8. Good(new)
  BY <1>4, <1>5, <1>7 DEF Good
<1> QED BY <1>1, <1>8, TaskStep DEF AInv, RecoveryTypeOK

\* The whole ladder has failed: nothing on it works.
LEMMA EscalateAInv == ASSUME AInv, NEW r \in Requests, Escalate(r) PROVE AInv'
<1> DEFINE t == task[r]
           new == [t EXCEPT !.pc = "idle", !.answer = "escalated"]
<1>1. /\ t.pc = "ladder" /\ t.left = <<>> /\ state' = "escalated"
      /\ task' = [task EXCEPT ![r] = new] /\ UNCHANGED <<saved, site, shifts>>
  BY DEF Escalate, MarkEscalated, AInv, RecoveryTypeOK
<1>2. t \in Task /\ Good(t)
  BY DEF AInv, RecoveryTypeOK
<1> HIDE DEF t
<1>3. /\ new \in Task /\ new.pc = "idle" /\ new.mode = t.mode /\ new.fetches = t.fetches
      /\ new.answer = "escalated" /\ new.steady = t.steady
  BY <1>2 DEF Task
<1> HIDE DEF new
<1>4. Escalated(new)
  <2>1. Len(t.left) = 0
    BY <1>1
  <2> QED BY <1>1, <1>2, <1>3, <2>1 DEF Good, Ahead, Escalated
<1>5. Good(new)
  BY <1>1, <1>2, <1>3, <1>4 DEF Good, Laddered, Spent, Ahead, Winning
<1> QED BY <1>1, <1>5, TaskStep DEF AInv, RecoveryTypeOK

\* After a change of behaviour nothing is claimed of the recoveries under way.
LEMMA ShiftAInv == ASSUME AInv, Shift PROVE AInv'
<1>1. /\ shifts' \in 0..MaxShifts /\ site' \in Sites
      /\ task' = [q \in Requests |-> [task[q] EXCEPT !.steady = FALSE]]
      /\ UNCHANGED <<saved, state>>
  BY Constants DEF Shift, AInv, RecoveryTypeOK
<1>2. ASSUME NEW q \in Requests
      PROVE  Good(task[q])'
  <2> DEFINE t == task[q]
             new == [t EXCEPT !.steady = FALSE]
  <2>1. t \in Task /\ Good(t)
    BY DEF AInv, RecoveryTypeOK
  <2>2. task'[q] = new
    BY <1>1
  <2> HIDE DEF t
  <2>3. /\ new \in Task /\ new.pc = t.pc /\ new.mode = t.mode /\ new.left = t.left
        /\ new.full = t.full /\ new.round = t.round /\ new.fetches = t.fetches
        /\ new.attempt = t.attempt /\ new.answer = t.answer /\ new.steady = FALSE
    BY <2>1 DEF Task
  <2> HIDE DEF new
  <2>4. Laddered(new) /\ Spent(new) /\ (new.answer = "escalated" => new.pc = "idle")
    BY <2>1, <2>3 DEF Good, Laddered, Spent, Walked, Escalated
  <2> QED BY <2>2, <2>3, <2>4 DEF Good, Laddered, Spent, Ahead, Winning, Escalated, Walked,
                                  WholeWalk, Rungs
<1>3. RecoveryTypeOK'
  <2>1. \A q \in Requests : task'[q] \in Task
    BY <1>2 DEF Good
  <2> QED BY <1>1, <2>1 DEF AInv, RecoveryTypeOK
<1> QED BY <1>2, <1>3 DEF AInv

LEMMA NextAInv == AInv /\ [RecoveryNext]_recoveryVars => AInv'
<1> SUFFICES ASSUME AInv, [RecoveryNext]_recoveryVars PROVE AInv'
  OBVIOUS
<1>1. CASE Shift
  BY <1>1, ShiftAInv
<1>2. ASSUME NEW r \in Requests, Step(r) PROVE AInv'
  BY <1>2, FetchAInv, FetchRetryAInv, FetchOkAInv, FetchErrsAInv, FetchIsBlockedAInv,
     FetchIsOffListAInv, SkipRungAInv, RetryRungAInv, WinRungAInv, LoseRungAInv,
     RungRaisesAInv, NextRoundAInv, EscalateAInv
     DEF Step
<1>3. CASE UNCHANGED recoveryVars
  <2>1. \A q \in Requests : Good(task[q])'
    BY <1>3 DEF recoveryVars, AInv, Good, Laddered, Spent, Ahead, Winning, Escalated, Works, Walked,
                WholeWalk, Rungs
  <2> QED BY <1>3, <2>1 DEF recoveryVars, AInv, RecoveryTypeOK
<1> QED BY <1>1, <1>2, <1>3 DEF RecoveryNext

-----------------------------------------------------------------------------
(* Theorems.                                                               *)

\* The inductive invariant holds for every ladder, site and number of requests.
THEOREM RecoveryInvariant == RecoverySpec => []AInv
  BY InitAInv, NextAInv, PTL DEF RecoverySpec

\* The types of fetches and recoveries, for every value of the constants.
THEOREM RecoveryTypeCorrect == RecoverySpec => []RecoveryTypeOK
<1>1. AInv => RecoveryTypeOK
  BY DEF AInv
<1> QED BY <1>1, RecoveryInvariant, PTL

\* No request makes more than Tries attempts of its inline fetch, of each rung of
\* each round, and of its one retry (fetch, access.py:704; recover_access).
THEOREM FetchesAreBounded == RecoverySpec => []FetchesBounded
<1>1. AInv => FetchesBounded
  <2>1. 2 + WholeWalk = 2 + MaxRounds * Len(Configured)
    BY DEF WholeWalk, Rungs
  <2> QED BY <2>1 DEF AInv, Good, Spent, FetchesBounded
<1> QED BY <1>1, RecoveryInvariant, PTL

\* The request whose recovery won is served by the winner, whatever other requests
\* persist meanwhile, unless the site changes (engine.py, _serve_blocked).
THEOREM RecoveredIsServed == RecoverySpec => []RecoveryServes
<1>1. AInv => RecoveryServes
  BY DEF AInv, Good, Winning, RecoveryServes
<1> QED BY <1>1, RecoveryInvariant, PTL

\* A recovery that escalates has tried every enabled strategy on a site where none
\* works, unless the site changed on the way (recover_access, access_recovery.py).
THEOREM EscalatesOnlyWhenNothingWorks == RecoverySpec => []EscalatesWhenNothingWorks
<1>1. AInv => EscalatesWhenNothingWorks
  BY DEF AInv, Good, Escalated, Works, EscalatesWhenNothingWorks
<1> QED BY <1>1, RecoveryInvariant, PTL
=============================================================================

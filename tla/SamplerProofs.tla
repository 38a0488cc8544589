--------------------------- MODULE SamplerProofs ---------------------------
(***************************************************************************)
(* Theorems about the sampler, for any site, seeds, number of pages and    *)
(* budget.                                                                 *)
(*                                                                         *)
(* SampledOnceOnSite follows the hosts of the list being walked (SameSite) *)
(* and what has been seen (Samples).                                       *)
(* That nothing is left out when the sampler gives up needs two more       *)
(* facts: what is collected or still to do is led to by the seeds (Sound), *)
(* and while it is not satisfied, every link of a harvested page and every *)
(* seed has been asked for or is still to do (Complete).                   *)
(***************************************************************************)
EXTENDS Sampler, OrderingProofs

-----------------------------------------------------------------------------
(* The budget.                                                             *)

\* Cardinalities are numbers of finite sets only.
SInv == IsFiniteSet(seen) /\ NeverAskedTwice

LEMMA InitSInv == Init => SInv
  BY SamplerAssumption, FS_EmptySet DEF Init, SInv, NeverAskedTwice

LEMMA FetchSInv ==
  ASSUME SInv, Fetch
  PROVE  SInv'
<1> DEFINE url == Head(todo)
<1>1. /\ IsFiniteSet(seen) /\ Cardinality(seen) \in Nat
      /\ attempts = Cardinality(seen) /\ MaxFetch \in Nat /\ attempts < MaxFetch
  BY SamplerAssumption, FS_CardinalityType DEF SInv, NeverAskedTwice, Fetch, Satisfied
<1>2. CASE url \in seen
  BY <1>2 DEF Fetch, TryFetch, SInv, NeverAskedTwice
<1>3. CASE url \notin seen
  <2>1. seen' = seen \cup {url} /\ attempts' = attempts + 1
    BY <1>3 DEF Fetch, TryFetch, Remembered
  <2> HIDE DEF url
  <2>2. IsFiniteSet(seen') /\ Cardinality(seen') = Cardinality(seen) + 1
    BY <1>1, <1>3, <2>1, FS_AddElement
  <2> QED BY <1>1, <2>1, <2>2 DEF SInv, NeverAskedTwice
<1> QED BY <1>2, <1>3

\* Each URL is asked for at most once, whatever its outcome, within max_fetch
\* (_try_fetch, sampler.py:91).
THEOREM AskedOnce == Spec => []NeverAskedTwice
<1>1. SInv /\ [Next]_vars => SInv'
  <2> SUFFICES ASSUME SInv, [Next]_vars PROVE SInv'
    OBVIOUS
  <2>1. CASE Fetch
    BY <2>1, FetchSInv
  <2>2. CASE ListDone \/ HarvestNext \/ Return \/ Raise \/ UNCHANGED vars
    <3>1. UNCHANGED <<seen, attempts>>
      BY <2>2 DEF ListDone, HarvestNext, Return, Raise, vars
    <3> QED BY <3>1 DEF SInv, NeverAskedTwice
  <2> QED BY <2>1, <2>2 DEF Next
<1>2. SInv => NeverAskedTwice
  BY DEF SInv
<1> QED BY InitSInv, <1>1, <1>2, PTL DEF Spec

-----------------------------------------------------------------------------
(* Lists of URLs.                                                          *)

\* Walking a list: its head and what is left of it.
LEMMA HeadAndTail ==
  ASSUME NEW T, NEW s \in Seq(T), s # <<>>
  PROVE  /\ Head(s) \in T /\ Tail(s) \in Seq(T)
         /\ \E i \in 1..Len(s) : s[i] = Head(s)
         /\ \A i \in 1..Len(s) : s[i] = Head(s) \/ \E j \in 1..Len(Tail(s)) : Tail(s)[j] = s[i]
         /\ \A j \in 1..Len(Tail(s)) : \E i \in 1..Len(s) : s[i] = Tail(s)[j]
<1>1. /\ Len(s) \in Nat /\ Len(s) # 0 /\ Head(s) = s[1] /\ Head(s) \in T
      /\ Tail(s) \in Seq(T) /\ Len(Tail(s)) = Len(s) - 1
      /\ \A j \in 1..Len(Tail(s)) : Tail(s)[j] = s[j + 1]
  BY HeadTailProperties, LenProperties, EmptySeq
<1>2. 1 \in 1..Len(s)
  BY <1>1
<1>3. ASSUME NEW i \in 1..Len(s), s[i] # Head(s)
      PROVE  \E j \in 1..Len(Tail(s)) : Tail(s)[j] = s[i]
  <2>1. i - 1 \in 1..Len(Tail(s)) /\ (i - 1) + 1 = i
    BY <1>1, <1>3
  <2> QED BY <1>1, <2>1
<1>4. \A j \in 1..Len(Tail(s)) : j + 1 \in 1..Len(s) /\ s[j + 1] = Tail(s)[j]
  BY <1>1
<1> QED BY <1>1, <1>2, <1>3, <1>4

\* The links harvested from a page are those it leads to.
LEMMA HarvestProperties ==
  ASSUME NEW u \in Urls, links \in [Urls -> Pages]
  PROVE  /\ Harvest(u) \in Seq(Urls)
         /\ \A i \in 1..Len(Harvest(u)) : Leads(u, Harvest(u)[i])
         /\ \A v : Leads(u, v) => \E i \in 1..Len(Harvest(u)) : Harvest(u)[i] = v
<1> DEFINE s == links[u]
           K == {k \in DOMAIN s : HostOf[s[k]] = HostOf[u]}
<1>1. s \in Seq(Urls) /\ DOMAIN s = 1..Len(s)
  BY SamplerAssumption, LenProperties
<1> DEFINE q == Harvest(u)
<1>2. q = Kept(s, K)
  BY DEF Harvest
<1>3. /\ K \in SUBSET (1..Len(s)) /\ \A k \in K : Leads(u, s[k])
      /\ \A v : Leads(u, v) => \E k \in K : s[k] = v
  BY <1>1 DEF Leads, ToSet
<1> HIDE DEF s, K, q
<1>4. /\ q \in Seq(Urls)
      /\ \A k \in K : \E i \in 1..Len(q) : q[i] = s[k]
      /\ \A i \in 1..Len(q) : \E k \in K : q[i] = s[k]
  <2>1. s \in Seq(Urls) /\ K \in SUBSET (1..Len(s))
    BY <1>1, <1>3
  <2> DEFINE r == Kept(s, K)
  <2>2. /\ r \in Seq(Urls)
        /\ \A k \in K : \E i \in 1..Len(r) : r[i] = s[k]
        /\ \A i \in 1..Len(r) : \E k \in K : r[i] = s[k]
    BY <2>1, KeptProperties
  <2> QED BY <1>2, <2>2
<1> QED BY <1>3, <1>4 DEF q

-----------------------------------------------------------------------------
(* The inductive invariant.                                                *)

SeedHosts == {HostOf[Seeds[k]] : k \in DOMAIN Seeds}

SameSite ==
  /\ \A i \in 1..Len(todo) : HostOf[todo[i]] \in SeedHosts
  /\ \A i \in 1..Len(collected) : HostOf[collected[i]] \in SeedHosts

\* The samples are the URLs seen that could be fetched, once each.
Samples ==
  /\ \A i, j \in 1..Len(collected) : collected[i] = collected[j] => i = j
  /\ \A u \in Urls : u \in seen \cap reachable <=> \E i \in 1..Len(collected) : collected[i] = u

Sound ==
  /\ \A i \in 1..Len(todo) : todo[i] \in reachable => todo[i] \in Reachable
  /\ \A i \in 1..Len(collected) : collected[i] \in Reachable

Handled(u) ==
  u \in seen \/ (pc \in {"seeds", "links"} /\ \E i \in 1..Len(todo) : todo[i] = u)

Complete ==
  ~Satisfied /\ pc # "raised" =>
    /\ \A k \in DOMAIN Seeds : Handled(Seeds[k])
    /\ \A i \in 1..(page - 1) : \A v : Leads(collected[i], v) => Handled(v)
    /\ pc = "done" => page > Len(collected)

PInv ==
  /\ TypeOK /\ SInv /\ page <= Len(collected) + 1
  /\ SameSite /\ Samples /\ Sound /\ Complete

LEMMA InitPInv == Init => PInv
<1> SUFFICES ASSUME Init PROVE PInv
  OBVIOUS
<1>1. /\ Seeds \in Seq(Urls) /\ Len(Seeds) \in Nat /\ DOMAIN Seeds = 1..Len(Seeds)
      /\ \A k \in 1..Len(Seeds) : Seeds[k] \in Urls
  BY SamplerAssumption, LenProperties
<1>2. /\ todo = Seeds /\ collected = <<>> /\ seen = {} /\ page = 1 /\ pc = "seeds"
      /\ attempts = 0 /\ Len(collected) = 0 /\ <<>> \in Seq(Urls)
  BY DEF Init
<1>3. TypeOK
  BY <1>1, <1>2, SamplerAssumption DEF Init, TypeOK
<1>4. SameSite /\ Samples
  BY <1>1, <1>2 DEF SameSite, SeedHosts, Samples
<1>5. Sound
  <2>1. ASSUME NEW k \in 1..Len(Seeds), Seeds[k] \in reachable
        PROVE  Seeds[k] \in Reachable
    BY <1>1, <2>1 DEF Reachable, Closed, ToSet
  <2> QED BY <1>2, <2>1 DEF Sound
<1>6. Complete
  BY <1>1, <1>2 DEF Complete, Handled
<1> QED BY <1>2, <1>3, <1>4, <1>5, <1>6, InitSInv DEF PInv

\* A URL of the list is asked for, or was before, and leaves the list.
LEMMA FetchPInv == ASSUME PInv, Fetch PROVE PInv'
<1> DEFINE url == Head(todo)
           rest == Tail(todo)
<1>1. /\ pc \in {"seeds", "links"} /\ todo # <<>> /\ ~Satisfied /\ TryFetch(url)
      /\ todo' = rest /\ UNCHANGED <<links, reachable, pc, page>>
  BY DEF Fetch, site
<1>2. /\ todo \in Seq(Urls) /\ collected \in Seq(Urls) /\ seen \subseteq Urls
      /\ reachable \subseteq Urls /\ Len(collected) \in Nat /\ Len(collected) < N
      /\ attempts < MaxFetch /\ attempts \in Nat /\ N \in Nat /\ MaxFetch \in Nat
      /\ page \in 1..(N + 1) /\ page <= Len(collected) + 1
      /\ \A i \in 1..Len(collected) : collected[i] \in Urls
  BY <1>1, SamplerAssumption, LenProperties DEF PInv, TypeOK, Satisfied
<1>3. /\ url \in Urls /\ rest \in Seq(Urls)
      /\ \E i \in 1..Len(todo) : todo[i] = url
      /\ \A i \in 1..Len(todo) : todo[i] = url \/ \E j \in 1..Len(rest) : rest[j] = todo[i]
      /\ \A j \in 1..Len(rest) : \E i \in 1..Len(todo) : todo[i] = rest[j]
  BY <1>1, <1>2, HeadAndTail
<1> HIDE DEF url, rest
<1>4. /\ seen' = seen \cup {url} /\ attempts' \in {attempts, attempts + 1}
      /\ Len(collected') \in {Len(collected), Len(collected) + 1}
      /\ collected' \in Seq(Urls)
      /\ \A i \in 1..Len(collected) : collected'[i] = collected[i]
      /\ IF url \in reachable \ seen
         THEN Len(collected') = Len(collected) + 1 /\ collected'[Len(collected) + 1] = url
         ELSE collected' = collected
  <2>1. CASE url \in seen
    BY <1>1, <1>2, <2>1 DEF TryFetch
  <2>2. CASE url \notin seen /\ url \notin reachable
    BY <1>1, <1>2, <2>2 DEF TryFetch, Remembered
  <2>3. CASE url \notin seen /\ url \in reachable
    <3>1. collected' = Append(collected, url) /\ seen' = seen \cup {url} /\ attempts' = attempts + 1
      BY <1>1, <2>3 DEF TryFetch, Remembered
    <3>2. /\ Append(collected, url) \in Seq(Urls)
          /\ Len(Append(collected, url)) = Len(collected) + 1
          /\ \A i \in 1..Len(collected) : Append(collected, url)[i] = collected[i]
          /\ Append(collected, url)[Len(collected) + 1] = url
      BY <1>2, <1>3, AppendProperties
    <3> QED BY <2>3, <3>1, <3>2
  <2> QED BY <2>1, <2>2, <2>3
<1>5. TypeOK' /\ page' <= Len(collected') + 1
  BY <1>1, <1>2, <1>3, <1>4 DEF PInv, TypeOK
<1>6. SInv'
  BY FetchSInv DEF PInv
<1>7. \A i \in 1..Len(collected') :
        \/ i \in 1..Len(collected) /\ collected'[i] = collected[i]
        \/ i = Len(collected) + 1 /\ collected'[i] = url /\ url \in reachable \ seen
  BY <1>2, <1>4
<1>8. \A i \in 1..Len(collected) : i \in 1..Len(collected') /\ collected'[i] = collected[i]
  BY <1>2, <1>4
<1>9. SameSite'
  BY <1>1, <1>3, <1>7 DEF PInv, SameSite
<1>10. Samples'
  <2>1. ASSUME NEW i \in 1..Len(collected), collected[i] = url PROVE url \in seen
    BY <1>3, <2>1 DEF PInv, Samples
  <2>2. \A i, j \in 1..Len(collected') : collected'[i] = collected'[j] => i = j
    BY <1>7, <2>1 DEF PInv, Samples
  <2>3. ASSUME NEW u \in Urls
        PROVE  u \in seen' \cap reachable <=> \E i \in 1..Len(collected') : collected'[i] = u
    <3>1. ASSUME u \in seen' \cap reachable, u \notin seen
          PROVE  \E i \in 1..Len(collected') : collected'[i] = u
      <4>1. u = url /\ Len(collected) + 1 \in 1..Len(collected')
        BY <1>2, <1>4, <3>1
      <4> QED BY <1>4, <3>1, <4>1
    <3>2. ASSUME u \in seen \cap reachable
          PROVE  \E i \in 1..Len(collected') : collected'[i] = u
      BY <1>8, <3>2 DEF PInv, Samples
    <3>3. ASSUME NEW i \in 1..Len(collected'), collected'[i] = u
          PROVE  u \in seen' \cap reachable
      BY <1>4, <1>7, <3>3 DEF PInv, Samples
    <3> QED BY <3>1, <3>2, <3>3
  <2> QED BY <1>1, <2>2, <2>3 DEF Samples
<1>11. Reachable' = Reachable
  BY <1>1 DEF Reachable, Closed, Leads
<1>12. Sound'
  BY <1>1, <1>3, <1>7, <1>11 DEF PInv, Sound
<1>13. Complete'
  <2>1. ~Satisfied' => ~Satisfied /\ pc' \in {"seeds", "links"} /\ page' = page
    BY <1>1
  <2>2. \A u : Handled(u) => Handled(u)'
    BY <1>1, <1>3, <1>4 DEF Handled
  <2>3. \A u, v : Leads(u, v)' = Leads(u, v)
    BY <1>1 DEF Leads
  <2>4. \A i \in 1..(page - 1) : collected'[i] = collected[i]
    BY <1>2, <1>8
  <2>5. /\ \A k \in DOMAIN Seeds : Handled(Seeds[k])
        /\ \A i \in 1..(page - 1) : \A v : Leads(collected[i], v) => Handled(v)
    BY <1>1 DEF PInv, Complete
  <2> QED BY <1>1, <2>2, <2>3, <2>4, <2>5 DEF Complete
<1> QED BY <1>5, <1>6, <1>9, <1>10, <1>12, <1>13 DEF PInv

\* A list ends because it is empty, and then all of it has been asked for, or
\* because enough is had, and then nothing more is claimed.
LEMMA ListDonePInv == ASSUME PInv, ListDone PROVE PInv'
<1>1. /\ pc \in {"seeds", "links"} /\ (todo = <<>> \/ Satisfied) /\ pc' = "harvest"
      /\ UNCHANGED <<links, reachable, todo, page, seen, attempts, collected>>
  BY DEF ListDone, site
<1>2. TypeOK' /\ SInv' /\ page' <= Len(collected') + 1
  BY <1>1 DEF PInv, TypeOK, SInv, NeverAskedTwice
<1>3. SameSite' /\ Samples'
  BY <1>1 DEF PInv, SameSite, Samples
<1>4. Reachable' = Reachable /\ (\A u, v : Leads(u, v)' = Leads(u, v))
  BY <1>1 DEF Reachable, Closed, Leads
<1>5. Sound'
  BY <1>1, <1>4 DEF PInv, Sound
<1>6. Complete'
  <2>1. SUFFICES ASSUME ~Satisfied PROVE Complete'
    BY <1>1 DEF Complete, Satisfied
  <2>2. todo = <<>> /\ 1..Len(todo) = {}
    BY <1>1, <2>1
  <2>3. \A u : Handled(u) => Handled(u)'
    BY <1>1, <2>2 DEF Handled
  <2>4. /\ \A k \in DOMAIN Seeds : Handled(Seeds[k])
        /\ \A i \in 1..(page - 1) : \A v : Leads(collected[i], v) => Handled(v)
    BY <1>1, <2>1 DEF PInv, Complete
  <2> QED BY <1>1, <1>4, <2>3, <2>4 DEF Complete
<1> QED BY <1>2, <1>3, <1>5, <1>6 DEF PInv

\* The links of a page the seeds lead to are led to by the seeds.
LEMMA HarvestNextPInv == ASSUME PInv, HarvestNext PROVE PInv'
<1> DEFINE url == collected[page]
           q == Harvest(url)
<1>1. /\ pc = "harvest" /\ ~Satisfied /\ page <= Len(collected)
      /\ todo' = q /\ page' = page + 1 /\ pc' = "links"
      /\ UNCHANGED <<links, reachable, seen, attempts, collected>>
  BY DEF HarvestNext, site
<1>2. /\ page \in 1..Len(collected) /\ Len(collected) \in Nat /\ Len(collected) < N
      /\ url \in Urls /\ N \in Nat /\ page \in Nat
  BY <1>1, SamplerAssumption, LenProperties DEF PInv, TypeOK, Satisfied
<1>3. /\ q \in Seq(Urls)
      /\ \A i \in 1..Len(q) : Leads(url, q[i])
      /\ \A v : Leads(url, v) => \E i \in 1..Len(q) : q[i] = v
  BY <1>2, HarvestProperties DEF PInv, TypeOK
<1>4. HostOf[url] \in SeedHosts /\ url \in Reachable
  BY <1>2 DEF PInv, SameSite, Sound
<1> HIDE DEF q
<1>5. TypeOK' /\ SInv' /\ page' <= Len(collected') + 1
  BY <1>1, <1>2, <1>3 DEF PInv, TypeOK, SInv, NeverAskedTwice
<1>6. SameSite' /\ Samples'
  BY <1>1, <1>3, <1>4 DEF PInv, SameSite, Samples, Leads
<1>7. Reachable' = Reachable /\ (\A u, v : Leads(u, v)' = Leads(u, v))
  BY <1>1 DEF Reachable, Closed, Leads
<1>8. ASSUME NEW v \in reachable, Leads(url, v)
      PROVE  v \in Reachable
  <2>1. \A S \in SUBSET reachable : Closed(S) => url \in S
    BY <1>4 DEF Reachable
  <2>2. \A S \in SUBSET reachable : Closed(S) => v \in S
    BY <1>8, <2>1 DEF Closed
  <2> QED BY <2>2 DEF Reachable
<1>9. Sound'
  BY <1>1, <1>3, <1>7, <1>8 DEF PInv, Sound
<1>10. Complete'
  <2>1. /\ \A k \in DOMAIN Seeds : Seeds[k] \in seen
        /\ \A i \in 1..(page - 1) : \A v : Leads(collected[i], v) => v \in seen
    BY <1>1 DEF PInv, Complete, Handled
  <2>2. \A v : Leads(url, v) => Handled(v)'
    BY <1>1, <1>3 DEF Handled
  <2>3. \A u : u \in seen => Handled(u)'
    BY <1>1 DEF Handled
  <2>4. \A i \in 1..(page' - 1) : i = page \/ i \in 1..(page - 1)
    BY <1>1, <1>2
  <2> QED BY <1>1, <1>7, <2>1, <2>2, <2>3, <2>4 DEF Complete
<1> QED BY <1>5, <1>6, <1>9, <1>10 DEF PInv

LEMMA EndPInv == ASSUME PInv, Return \/ Raise \/ UNCHANGED vars PROVE PInv'
<1>1. UNCHANGED <<links, reachable, todo, page, seen, attempts, collected>>
  BY DEF Return, Raise, vars, site
<1>2. pc' \in {"seeds", "harvest", "links", "done", "raised"}
  BY DEF Return, Raise, vars, site, PInv, TypeOK
<1>3. TypeOK' /\ SInv' /\ page' <= Len(collected') + 1
  BY <1>1, <1>2 DEF PInv, TypeOK, SInv, NeverAskedTwice
<1>4. SameSite' /\ Samples'
  BY <1>1 DEF PInv, SameSite, Samples
<1>5. Reachable' = Reachable /\ (\A u, v : Leads(u, v)' = Leads(u, v))
  BY <1>1 DEF Reachable, Closed, Leads
<1>6. Sound'
  BY <1>1, <1>5 DEF PInv, Sound
<1>7. Complete'
  <2>1. CASE Return
    <3>1. /\ pc = "harvest" /\ (Satisfied \/ page > Len(collected))
      BY <2>1 DEF Return
    <3>2. \A u : Handled(u) => Handled(u)'
      BY <1>1, <3>1 DEF Handled
    <3> QED BY <1>1, <1>5, <3>1, <3>2 DEF PInv, Complete, Satisfied
  <2>2. CASE Raise
    BY <2>2 DEF Raise, Complete
  <2>3. CASE UNCHANGED vars
    <3>1. pc' = pc /\ \A u : Handled(u)' = Handled(u)
      BY <1>1, <2>3 DEF vars, Handled
    <3> QED BY <1>1, <1>5, <3>1 DEF PInv, Complete, Satisfied
  <2> QED BY <2>1, <2>2, <2>3
<1> QED BY <1>3, <1>4, <1>6, <1>7 DEF PInv

-----------------------------------------------------------------------------
(* The theorems.                                                           *)

\* What the sampler keeps true at every step, whatever the site.
THEOREM SamplerInvariant == Spec => []PInv
<1>1. PInv /\ [Next]_vars => PInv'
  BY FetchPInv, ListDonePInv, HarvestNextPInv, EndPInv DEF Next
<1> QED BY InitPInv, <1>1, PTL DEF Spec

\* The sampler's variables keep their types: no more than n pages, no more than
\* max_fetch attempts (collect_samples, sampler.py:41).
THEOREM SamplerTypeCorrect == Spec => []TypeOK
<1>1. PInv => TypeOK
  BY DEF PInv
<1> QED BY SamplerInvariant, <1>1, PTL

\* The samples were asked for under distinct URLs, on hosts the seeds name
\* (_try_fetch and _harvest_links, sampler.py); two URLs may show one page.
THEOREM OnceAndOnSite == Spec => []SampledOnceOnSite
<1>1. PInv => SampledOnceOnSite
  <2> SUFFICES ASSUME PInv PROVE SampledOnceOnSite
    OBVIOUS
  <2>1. DOMAIN collected = 1..Len(collected)
    BY LenProperties DEF PInv, TypeOK
  <2> QED BY <2>1 DEF PInv, SameSite, Samples, SampledOnceOnSite, SeedHosts
<1> QED BY SamplerInvariant, <1>1, PTL

\* When it returns too few samples with budget to spare, it has everything the
\* seeds lead to (the two loops of collect_samples).
THEOREM ShortWhenExhausted == Spec => []ShortOnlyWhenExhausted
<1>1. PInv => ShortOnlyWhenExhausted
  <2> SUFFICES ASSUME PInv, pc = "done", Len(collected) < N, attempts < MaxFetch
               PROVE  ToSet(collected) = Reachable
    BY DEF ShortOnlyWhenExhausted
  <2>1. /\ DOMAIN collected = 1..Len(collected) /\ Len(collected) \in Nat /\ attempts \in Nat
        /\ DOMAIN Seeds = 1..Len(Seeds) /\ N \in Nat /\ MaxFetch \in Nat /\ page \in Nat
        /\ \A k \in 1..Len(Seeds) : Seeds[k] \in Urls
        /\ \A i \in 1..Len(collected) : collected[i] \in Urls
    BY SamplerAssumption, LenProperties DEF PInv, TypeOK
  <2>2. /\ \A k \in DOMAIN Seeds : Seeds[k] \in seen
        /\ \A i \in 1..(page - 1) : \A v : Leads(collected[i], v) => v \in seen
        /\ page > Len(collected)
    BY <2>1 DEF PInv, Complete, Handled, Satisfied
  <2>3. \A i \in 1..Len(collected) : i \in 1..(page - 1)
    BY <2>1, <2>2
  <2>4. \A u \in reachable : u \in Urls /\ (u \in seen <=> u \in ToSet(collected))
    BY <2>1 DEF PInv, TypeOK, Samples, ToSet
  <2>5. ToSet(collected) \subseteq Reachable
    BY <2>1 DEF PInv, Sound, ToSet
  <2>6. ToSet(collected) \in SUBSET reachable
    BY <2>5 DEF Reachable
  <2>7. Closed(ToSet(collected))
    <3>1. ToSet(Seeds) \cap reachable \subseteq ToSet(collected)
      BY <2>1, <2>2, <2>4 DEF ToSet
    <3>2. ASSUME NEW u \in ToSet(collected), NEW v \in reachable, Leads(u, v)
          PROVE  v \in ToSet(collected)
      <4>1. PICK i \in 1..Len(collected) : collected[i] = u
        BY <2>1 DEF ToSet
      <4> QED BY <2>2, <2>3, <2>4, <3>2, <4>1
    <3> QED BY <3>1, <3>2 DEF Closed
  <2> QED BY <2>5, <2>6, <2>7 DEF Reachable
<1> QED BY SamplerInvariant, <1>1, PTL
=============================================================================

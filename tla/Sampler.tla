------------------------------ MODULE Sampler ------------------------------
(***************************************************************************)
(* collect_samples of crawloop/loop/sampler.py: the pages a regeneration   *)
(* is built on are the seed URLs, then same-host links harvested breadth-  *)
(* first from the pages already collected, within a budget of attempts.    *)
(*                                                                         *)
(* A URL is the text that is asked for, fragment included: that is all the *)
(* code compares, so two URLs of the model may well show one page (a link  *)
(* "#top" on it, a redirect).  The site is any assignment of links and     *)
(* fetch outcomes to URLs; a URL seen once is never asked for again, so    *)
(* what it shows need not change meanwhile.                                *)
(***************************************************************************)
EXTENDS Ordering, SequencesExt

CONSTANTS
  Urls,       \* URLs as contract.absolutize returns them, fragments kept
  HostOf,     \* url -> the host it names, wherever a redirect leads
  Seeds,      \* seed_urls, duplicates included
  Pages,      \* the link lists of the page a URL may show
  N,          \* n: how many pages are wanted
  MaxFetch    \* max_fetch

ASSUME SamplerAssumption ==
  /\ Seeds \in Seq(Urls) /\ DOMAIN HostOf = Urls /\ Pages \subseteq Seq(Urls)
  /\ N \in Nat /\ MaxFetch \in Nat

VARIABLES
  links,      \* the site: the links of what each URL shows
  reachable,  \* the site: the URLs whose fetch succeeds
  pc,         \* seeds, harvest, links, done, or raised
  todo,       \* what is left of the list being walked
  page,       \* i: the next collected page to harvest
  seen, attempts, collected

site == <<links, reachable>>
vars == <<site, pc, todo, page, seen, attempts, collected>>

TypeOK ==
  /\ links \in [Urls -> Pages] /\ reachable \subseteq Urls
  /\ pc \in {"seeds", "harvest", "links", "done", "raised"}
  /\ todo \in Seq(Urls) /\ page \in 1..(N + 1)
  /\ seen \subseteq Urls /\ attempts \in 0..MaxFetch
  /\ collected \in Seq(Urls) /\ Len(collected) <= N

Init ==
  /\ links \in [Urls -> Pages] /\ reachable \in SUBSET Urls
  /\ pc = "seeds" /\ todo = Seeds /\ page = 1
  /\ seen = {} /\ attempts = 0 /\ collected = <<>>

Satisfied == Len(collected) >= N \/ attempts >= MaxFetch

-----------------------------------------------------------------------------
\* Mutant: a URL that failed is forgotten.
Remembered_Successes(url) == IF url \in reachable THEN seen \cup {url} ELSE seen

\* A URL is seen whatever becomes of it.
Remembered(url) == seen \cup {url}

\* _try_fetch: a seen URL costs nothing; FetchBlocked and FetchError are swallowed.
TryFetch(url) ==
  IF url \in seen
  THEN UNCHANGED <<seen, attempts, collected>>
  ELSE /\ seen' = Remembered(url)
       /\ attempts' = attempts + 1
       /\ collected' = IF url \in reachable THEN Append(collected, url) ELSE collected

\* Both loops: the next URL of the list, until the list ends or enough is had.
Fetch ==
  /\ pc \in {"seeds", "links"} /\ todo # <<>> /\ ~Satisfied
  /\ TryFetch(Head(todo))
  /\ todo' = Tail(todo)
  /\ UNCHANGED <<site, pc, page>>

ListDone ==
  /\ pc \in {"seeds", "links"} /\ (todo = <<>> \/ Satisfied)
  /\ pc' = "harvest"
  /\ UNCHANGED <<site, todo, page, seen, attempts, collected>>

\* Mutant: links to other hosts are followed too.
Harvest_AnyHost(url) == links[url]

\* _harvest_links: same-host links, in order (repeats are caught by seen).
Harvest(url) ==
  Kept(links[url], {k \in DOMAIN links[url] : HostOf[links[url][k]] = HostOf[url]})

\* Mutant: the index is not advanced.
HarvestNext_SamePage ==
  /\ pc = "harvest" /\ ~Satisfied /\ page <= Len(collected)
  /\ todo' = Harvest(collected[page])
  /\ pc' = "links"
  /\ UNCHANGED <<site, page, seen, attempts, collected>>

HarvestNext ==
  /\ pc = "harvest" /\ ~Satisfied /\ page <= Len(collected)
  /\ todo' = Harvest(collected[page])
  /\ page' = page + 1
  /\ pc' = "links"
  /\ UNCHANGED <<site, seen, attempts, collected>>

\* Mutant: the last collected page is not harvested.
Return_Early ==
  /\ pc = "harvest" /\ (Satisfied \/ page >= Len(collected))
  /\ pc' = "done"
  /\ UNCHANGED <<site, todo, page, seen, attempts, collected>>

Return ==
  /\ pc = "harvest" /\ (Satisfied \/ page > Len(collected))
  /\ pc' = "done"
  /\ UNCHANGED <<site, todo, page, seen, attempts, collected>>

\* Any other exception (an off-list redirect, an unauthorized strategy) is not
\* swallowed: the whole Loop fails with it.
Raise ==
  /\ pc \in {"seeds", "links"} /\ todo # <<>> /\ ~Satisfied
  /\ Head(todo) \notin seen \cup reachable
  /\ pc' = "raised"
  /\ UNCHANGED <<site, todo, page, seen, attempts, collected>>

Next == Fetch \/ ListDone \/ HarvestNext \/ Return \/ Raise

Spec == Init /\ [][Next]_vars

\* Every fetch returns (the http client has a timeout).
FairSpec == Spec /\ WF_vars(Next)

-----------------------------------------------------------------------------
(* Properties.                                                             *)

\* No URL stands for two of the oracles that must agree, and none is asked for on a
\* host that no seed names, however the pages link to each other.  Of URLs only: a
\* page linked with a fragment is a second sample of itself (contract.py:17 keeps
\* the fragment), and a redirect may show a page twice, or one of another host.
SampledOnceOnSite ==
  /\ \A i, j \in DOMAIN collected : collected[i] = collected[j] => i = j
  /\ \A i \in DOMAIN collected :
       HostOf[collected[i]] \in {HostOf[Seeds[k]] : k \in DOMAIN Seeds}

\* What the seeds lead to: the URLs of every set that has the reachable seeds and,
\* with a URL, the reachable ones of its host that it links to.
Leads(u, v) == HostOf[u] = HostOf[v] /\ v \in ToSet(links[u])
Closed(S) ==
  /\ ToSet(Seeds) \cap reachable \subseteq S
  /\ \A u \in S, v \in reachable : Leads(u, v) => v \in S
Reachable == {u \in reachable : \A S \in SUBSET reachable : Closed(S) => u \in S}

\* Too few samples is never the sampler's own doing: when it returns fewer than
\* N with budget to spare, it has everything the seeds lead to.
ShortOnlyWhenExhausted ==
  pc = "done" /\ Len(collected) < N /\ attempts < MaxFetch =>
    ToSet(collected) = Reachable

\* Each URL is asked for at most once and counted, whatever its outcome, along
\* circular links and repeated seeds: attempts are the URLs seen, within the budget.
NeverAskedTwice == attempts = Cardinality(seen) /\ attempts <= MaxFetch

\* It never hangs trying to reach an impossible N.
Terminates == <>(pc \in {"done", "raised"})
=============================================================================

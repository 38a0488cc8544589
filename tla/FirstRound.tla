----------------------------- MODULE FirstRound -----------------------------
(***************************************************************************)
(* The first round of a Loop (_run_loop_once of crawloop/loop/driver.py):  *)
(* the deterministic candidates found in the usable samples lead the       *)
(* generated ones, and the gauntlet runs them all.                         *)
(*                                                                         *)
(* A deterministic candidate returns what its emitted module reads on the  *)
(* page, a generated one anything; a sandboxed run of either may crash or  *)
(* time out.                                                               *)
(***************************************************************************)
EXTENDS Gauntlet, PathMap

CONSTANTS
  Sampled,    \* the sequences of usable samples the round may start from
  Golden,     \* the fixture sequences
  Replies,    \* maps the model may propose; Broken is any other answer
  Generated   \* k

\* Pages as the oracle and the parser leave them; a map reads values from them.
Document == UNION {[P -> Leaves \cup {Null}] : P \in SUBSET Paths}
Page == [islands : Seq(Document \cup {Broken}), records : Seq(Item)]

ASSUME FirstRoundAssumption ==
  /\ Broken \notin Document
  /\ Sampled \subseteq Seq(Page) \ {<<>>} /\ Golden \subseteq Seq(Page)
  /\ \A s \in Sampled : \A i \in DOMAIN s : Reason(s[i].records) = ""
  /\ \A reply \in Replies \ {Broken} :
       /\ DOMAIN reply # {} /\ DOMAIN reply \subseteq Fields
       /\ \A s \in Sampled \cup Golden : \A i \in DOMAIN s :
            PathMapCrawl(reply, s[i].islands) \in Seq(Item)
  /\ Generated \in Nat \ {0}

Init ==
  /\ samples \in Sampled /\ fixtures \in Golden /\ cands = <<>>
  /\ ScoringInit

ValuePathCandidate == [kind |-> "paths", reads |-> ValuePathDiscovery(samples)]
PathMapCandidate(reply) == [kind |-> "map", reads |-> ProposeFieldmap(samples[1], reply)]
GeneratedCandidate == [kind |-> "generated", reads |-> <<>>]

\* The strategies that apply.
Emitted(cand) == IF cand.reads = <<>> THEN <<>> ELSE <<cand>>
Deterministic(reply) == Emitted(ValuePathCandidate) \o Emitted(PathMapCandidate(reply))

\* Mutant: the deterministic candidates come last.
Prepare_ModelFirst(reply) ==
  /\ cands = <<>>
  /\ cands' = [i \in 1..Generated |-> GeneratedCandidate] \o Deterministic(reply)
  /\ UNCHANGED <<samples, fixtures, scoring>>

\* The candidates of round 1, deterministic ones first.
Prepare(reply) ==
  /\ cands = <<>>
  /\ cands' = Deterministic(reply) \o [i \in 1..Generated |-> GeneratedCandidate]
  /\ UNCHANGED <<samples, fixtures, scoring>>

\* What a deterministic crawler returns on a page.
Crawl(cand, islands) ==
  IF cand.kind = "paths" THEN ValuePathCrawl(cand.reads, islands)
  ELSE PathMapCrawl(cand.reads, islands)

RunDeterministic ==
  /\ Scoring /\ cands[Current].kind # "generated"
  /\ Run(Crawl(cands[Current], Pages[page].islands))

RunGenerated(out) == Scoring /\ cands[Current].kind = "generated" /\ Run(out)

Next ==
  \/ \E reply \in Replies : Prepare(reply)
  \/ RunDeterministic
  \/ \E out \in Outputs : RunGenerated(out)
  \/ Crash
  \/ NextCandidate
  \/ Pick

Spec == Init /\ [][Next]_vars

-----------------------------------------------------------------------------
(* What some of the theorems assume of the schema and of the pages.        *)

\* One wrong field puts an item below the bar.
FewFields == BarDen * Cardinality(Fields) < BarNum * Cardinality(Fields) + BarDen

\* The records hold amounts in the fields for amounts only.
AmountsApart ==
  \A s \in Sampled \cup Golden : \A i \in DOMAIN s :
    \A k \in DOMAIN s[i].records, f \in Fields \ Numeric :
      LET value == s[i].records[k][f] IN value = None \/ Money[value] = NoMoney

\* The records of a page differ in the alignment key.
KeysApart ==
  \A s \in Sampled \cup Golden : \A i \in DOMAIN s : \A j, k \in DOMAIN s[i].records :
    Rank(s[i].records[j]) = Rank(s[i].records[k]) => j = k

-----------------------------------------------------------------------------
(* Properties.                                                             *)

\* The candidates found by value path: one or none.
ByPaths == {c \in DOMAIN cands : cands[c].kind = "paths"}
Ran(c, i) == c \in DOMAIN outs /\ i \in DOMAIN outs[c] /\ outs[c][i] # Crashed

\* A place discovered in the samples holds in each of them: run on a sample, the
\* emitted crawler reads there a value the gauntlet takes for the oracle's, scale
\* included.  Two things are excepted.  A sample whose first marked script does
\* not parse: discovery takes the first that does, the crawler gives up.  And an
\* oracle text "None", which a null leaf is taken for.
DiscoveryGeneralises ==
  \A c \in ByPaths, i \in DOMAIN samples :
    Ran(c, i) /\ ~Unreadable(samples[i].islands) =>
      \A f \in DOMAIN cands[c].reads :
        LET wanted == FirstRecord(samples[i])[f]
        IN  Stripped[wanted] = Stripped[Null] \/ FieldEqual(outs[c][i][1][f], wanted)

\* The samples show one record each in their first script, typed as the schema
\* wants it, and every field some oracle has was found.
FullyDiscovered(reads) ==
  \A i \in DOMAIN samples :
    /\ Len(samples[i].records) = 1 /\ ~Unreadable(samples[i].islands)
    /\ SchemaValid(ValuePathCrawl(reads, samples[i].islands)[1])
    /\ \A f \in Fields :
         LET wanted == samples[i].records[1][f]
         IN  wanted # None => f \in DOMAIN reads /\ Stripped[wanted] # Stripped[Null]

\* And the golden pages show their records at the same places.
StillThere(reads) ==
  \A i \in DOMAIN fixtures :
    /\ Len(fixtures[i].records) = 1
    /\ LET read == ValuePathCrawl(reads, fixtures[i].islands)
       IN  read # <<>> /\ \A f \in Fields : FieldEqual(read[1][f], fixtures[i].records[1][f])

\* A site that serves its records in JSON is learnt without generated code: once
\* the discovery covers the oracles, the crawler it emits passes the gauntlet
\* unless a run of it crashes, and is what the round promotes.
JsonSiteNeedsNoModel ==
  \A c \in ByPaths :
    /\ FullyDiscovered(cands[c].reads) /\ StillThere(cands[c].reads)
    /\ c \in DOMAIN scores /\ \A i \in DOMAIN Pages : Ran(c, i)
    => scores[c].passed /\ best \in {0, c}
=============================================================================

------------------------------- MODULE Hybrid -------------------------------
(***************************************************************************)
(* The deterministic core with an LLM tail (crawloop/hybrid.py), from the  *)
(* oracles that direct_extract (crawloop/fallback.py) obtains, over the    *)
(* residual set computed when a crawler is promoted, to the tail-fill that *)
(* the Engine runs on a served page (_maybe_hybrid_fill).                  *)
(*                                                                         *)
(* The model is outside the program: an answer of it is any list of items, *)
(* any object, or something that does not parse.  A page stands for the    *)
(* records it shows.                                                       *)
(***************************************************************************)
EXTENDS Validator

CONSTANTS
  Answers,      \* item lists the model may return to an extraction prompt
  Unparsed,     \* an answer that is not a JSON array of objects
  MaxRepairs,   \* max_repairs
  Samples,      \* how many pages a Loop samples
  MinOracles,   \* min_oracles
  Pages,        \* the record lists a served page may show
  Replies,      \* field -> value objects the model may return to a tail prompt
  Bare,         \* field -> the values of its bare annotation, constraints left out
  Coerce        \* field -> value -> the value its TypeAdapter dumps, None if refused

\* TypeAdapter(info.annotation) knows the bare type only (hybrid.py:182): what a
\* Field(...) adds to it, as the pattern of Product.currency, is not checked.
ASSUME HybridAssumption ==
  /\ Answers \subseteq Seq(Item) /\ Unparsed \notin Answers /\ Pages \subseteq Seq(Item)
  /\ \A page \in Pages : Reason(page) = ""
  /\ MaxRepairs \in Nat /\ Samples \in Nat \ {0}
  /\ MinOracles \in 1..Samples
  /\ Coerce \in [Fields -> [Values -> Values \cup {None}]]
  /\ \A f \in Fields : Typed[f] \subseteq Bare[f] /\ Bare[f] \subseteq Values
  /\ \A f \in Fields, v \in Values : Coerce[f][v] \in Bare[f] \cup {None}
  /\ \A reply \in Replies :
       DOMAIN reply \subseteq Fields /\ \A f \in DOMAIN reply : reply[f] \in Values \cup {None}

VARIABLES
  pc,         \* extract, gate, idle, fill, reply, done
  attempt,    \* model calls made for the current extraction
  oracles,    \* the usable extractions; <<>> for a sample that failed
  residual,   \* the active version's residual fields, from its promote audit row
  blind,      \* fields the active version's crawler never extracts
  known,      \* history: the fields some oracle of its promotion populated
  page,       \* what the page showed when it was crawled
  items,      \* what the serving rung extracted, validated
  html,       \* what it showed when it was fetched again
  result,     \* what the request answers
  calls,      \* tail calls made for the request
  faithful    \* history: the active rung served it and nothing changed or lied

vars == <<pc, attempt, oracles, residual, blind, known, page, items, html, result,
          calls, faithful>>

TypeOK ==
  /\ pc \in {"extract", "gate", "idle", "fill", "reply", "done"}
  /\ attempt \in 0..MaxRepairs /\ oracles \in Seq(Answers \cup {<<>>})
  /\ {residual, blind, known} \subseteq SUBSET Fields
  /\ {page, html} \subseteq Pages \cup {<<>>}
  /\ {items, result} \subseteq Seq(Item)
  /\ calls \in 0..1 /\ faithful \in BOOLEAN

Init ==
  /\ pc = "extract" /\ attempt = 0 /\ oracles = <<>>
  /\ residual = {} /\ blind = {} /\ known = {}
  /\ page = <<>> /\ items = <<>> /\ html = <<>> /\ result = <<>>
  /\ calls = 0 /\ faithful = TRUE

Request == <<page, items, html, result, calls, faithful>>

-----------------------------------------------------------------------------
(* Promotion.                                                              *)

\* The oracle of the current sample, or <<>> when the sample has none.
NextOracle(records) ==
  /\ oracles' = Append(oracles, records) /\ attempt' = 0
  /\ pc' = IF Len(oracles) + 1 = Samples THEN "gate" ELSE "extract"

\* What direct_extract accepts: it parses and validates.
Usable(answer) == answer # Unparsed /\ Reason(answer) = ""

RepairsLeft == attempt < MaxRepairs

\* One model call of direct_extract; a bad answer is repaired MaxRepairs times,
\* then ExtractionFailed drops the sample.
Extract(answer) ==
  /\ pc = "extract"
  /\ IF Usable(answer) THEN NextOracle(answer)
     ELSE IF RepairsLeft THEN attempt' = attempt + 1 /\ UNCHANGED <<pc, oracles>>
     ELSE NextOracle(<<>>)
  /\ UNCHANGED <<residual, blind, known, Request>>

Populates(records, f) == \E i \in DOMAIN records : records[i][f] # None

\* Mutant: only a field the oracle has on every page counts.
ResidualFields_Everywhere(outputs) ==
  {f \in Fields : \A i \in DOMAIN oracles :
     Populates(oracles[i], f) /\ ~Populates(outputs[i], f)}

\* compute_residual_fields: the oracle has it somewhere and the crawler nowhere
\* that the oracle has it.
ResidualFields(outputs) ==
  {f \in Fields :
     /\ \E i \in DOMAIN oracles : Populates(oracles[i], f)
     /\ \A i \in DOMAIN oracles :
          Populates(oracles[i], f) => ~Populates(outputs[i], f)}

Blanked(records, fields) ==
  [i \in DOMAIN records |-> [f \in Fields |-> IF f \in fields THEN None ELSE records[i][f]]]

Enough == Cardinality({i \in DOMAIN oracles : oracles[i] # <<>>}) >= MinOracles

\* Too thin a ground truth: the Loop escalates, and a later one starts over.
Escalate ==
  /\ pc = "gate" /\ ~Enough
  /\ pc' = "extract" /\ oracles' = <<>>
  /\ UNCHANGED <<attempt, residual, blind, known, Request>>

\* A passing candidate left some optional fields blank, on some samples.
Promote(missed) ==
  /\ pc = "gate" /\ Enough
  /\ residual' = ResidualFields([i \in DOMAIN oracles |-> Blanked(oracles[i], missed[i])])
  /\ blind' = {f \in Fields : \A i \in DOMAIN oracles : f \in missed[i]}
  /\ known' = {f \in Fields : \E i \in DOMAIN oracles : Populates(oracles[i], f)}
  /\ pc' = "idle" /\ oracles' = <<>>
  /\ UNCHANGED <<attempt, Request>>

-----------------------------------------------------------------------------
(* A request the registry serves.                                          *)

\* The rung that served may be another than the active one, blind elsewhere.
Serve(shown, missed) ==
  /\ pc = "idle"
  /\ page' = shown /\ items' = Blanked(shown, missed)
  /\ html' = <<>> /\ result' = <<>> /\ calls' = 0 /\ faithful' = (missed = blind)
  /\ pc' = "fill"
  /\ UNCHANGED <<attempt, oracles, residual, blind, known>>

\* The request is over.
Forgotten ==
  /\ pc' = "idle"
  /\ page' = <<>> /\ items' = <<>> /\ html' = <<>> /\ result' = <<>>
  /\ calls' = 0 /\ faithful' = TRUE

Answer(records) == result' = records /\ pc' = "done"

\* Nothing to fill, or the page cannot be fetched again: the items stand.
NoFill ==
  /\ pc = "fill"
  /\ \/ residual = {} /\ UNCHANGED faithful
     \/ residual # {} /\ faithful' = FALSE
  /\ Answer(items)
  /\ UNCHANGED <<attempt, oracles, residual, blind, known, page, items, html, calls>>

\* The page may show other records by now.
Refetch(shown) ==
  /\ pc = "fill" /\ residual # {}
  /\ html' = shown /\ faithful' = (faithful /\ shown = page)
  /\ pc' = "reply"
  /\ UNCHANGED <<attempt, oracles, residual, blind, known, page, items, result, calls>>

\* The new fetch was redirected off the allowlist: the request raises.
OffList ==
  /\ pc = "fill" /\ residual # {}
  /\ Forgotten
  /\ UNCHANGED <<attempt, oracles, residual, blind, known>>

\* Mutant: a value is not held to its type.
Tail_Untyped(reply) ==
  [f \in {g \in residual \cap DOMAIN reply : reply[g] # None} |-> reply[f]]

\* fill_residual: asked-for fields whose value is not blank and fits its bare type,
\* in the form that type dumps.
TailOf(reply) ==
  [f \in {g \in residual \cap DOMAIN reply :
            reply[g] # None /\ Coerce[g][reply[g]] # None}
     |-> Coerce[f][reply[f]]]

\* Mutant: the tail wins over the crawler.
Merged_TailWins(item, tail) ==
  [f \in Fields |-> IF f \in DOMAIN tail THEN tail[f] ELSE item[f]]

\* merge_record
Merged(item, tail) ==
  [f \in Fields |-> IF item[f] = None /\ f \in DOMAIN tail THEN tail[f] ELSE item[f]]

\* The page's own values, as far as they are asked for.
Truthful(reply) ==
  /\ DOMAIN reply = residual
  /\ \A f \in residual : reply[f] \in {html[i][f] : i \in DOMAIN html}

\* The one call; the one tail is merged into every item of the page.
Reply(reply) ==
  /\ pc = "reply"
  /\ calls' = calls + 1
  /\ faithful' = (faithful /\ Truthful(reply))
  /\ Answer([i \in DOMAIN items |-> Merged(items[i], TailOf(reply))])
  /\ UNCHANGED <<attempt, oracles, residual, blind, known, page, items, html>>

\* The completer raised, or its answer is not an object.
NoReply ==
  /\ pc = "reply"
  /\ calls' = calls + 1 /\ faithful' = FALSE
  /\ Answer(items)
  /\ UNCHANGED <<attempt, oracles, residual, blind, known, page, items, html>>

Done ==
  /\ pc = "done" /\ Forgotten
  /\ UNCHANGED <<attempt, oracles, residual, blind, known>>

Next ==
  \/ \E answer \in Answers \cup {Unparsed} : Extract(answer)
  \/ Escalate
  \/ \E missed \in [DOMAIN oracles -> SUBSET (Fields \ Required)] : Promote(missed)
  \/ \E shown \in Pages, missed \in SUBSET (Fields \ Required) : Serve(shown, missed)
  \/ NoFill \/ OffList
  \/ \E shown \in Pages : Refetch(shown)
  \/ \E reply \in Replies : Reply(reply)
  \/ NoReply \/ Done

Spec == Init /\ [][Next]_vars

-----------------------------------------------------------------------------
(* Properties.                                                             *)

\* The deterministic record always stands: whatever rung served, whatever version
\* is active and whatever the model says, no extracted value is changed, and no
\* record is added or dropped.
DeterministicStands ==
  pc = "done" =>
    /\ Len(result) = Len(items)
    /\ \A i \in DOMAIN items, f \in Fields :
         items[i][f] # None => result[i][f] = items[i][f]

\* The fill happens after validation and is not validated again.  All it can do to an
\* extraction that was accepted is to put, into a residual field left blank, a value
\* of the field's bare type that its Field constraints refuse; such a record fails
\* the schema gate, none is mistyped, and no field's fill rate drops.
OnlyConstraintsEscape ==
  pc = "done" /\ Reason(items) = "" =>
    /\ Reason(result) \in {"", "schema"}
    /\ \A i \in DOMAIN result, f \in Fields :
         \/ result[i][f] = items[i][f]
         \/ /\ items[i][f] = None /\ f \in residual
            /\ result[i][f] \in Bare[f]
    /\ (\A i \in DOMAIN result, f \in residual : result[i][f] \notin Bare[f] \ Typed[f])
         => Reason(result) = ""

\* The hybrid closes the gap: if the active crawler served the page and the model
\* answers truthfully, then every field that crawler never extracts, and that its
\* oracles showed to exist, has the page's value, as long as the records of the
\* page agree on it (one tail serves them all).
GapClosed ==
  pc = "done" /\ faithful =>
    \A f \in blind \cap known :
      (\A i, j \in DOMAIN page : page[i][f] = page[j][f]) =>
        \A i \in DOMAIN page : FieldEqual(result[i][f], page[i][f])
=============================================================================

----------------------------- MODULE ValuePath -----------------------------
(***************************************************************************)
(* The deterministic value-path strategy (crawloop/loop/jsonpath.py and    *)
(* _value_path_candidate of crawloop/loop/driver.py) as pure operators:    *)
(* where in the JSON islands of the sampled pages each oracle value lives, *)
(* and what the crawler emitted for those places reads on any page.        *)
(*                                                                         *)
(* An island is a function from the paths that lead to a scalar to the     *)
(* scalar; a page is its marked scripts in document order, with the        *)
(* records the oracle extracted from it.  Values are not flags.            *)
(***************************************************************************)
EXTENDS Validator

CONSTANTS
  Leaves,     \* the values an island holds
  Paths,      \* places in a page's JSON, numbered in _path_sort_key's order
  Null,       \* a null leaf
  Broken,     \* the body of a marked script that is empty or does not parse
  Stripped,   \* value or Null -> the rank of its str().strip()
  Float,      \* value -> the number _to_float reads, NoMoney if none
  Numeral,    \* number -> the value it is in an item
  Scale,      \* _SCALE: leaves may be in units of ten thousand
  Volatile,   \* the schema's VOLATILE fields
  Enums       \* its enum fields

\* Equal stripped texts are equal cleaned texts, and a number that float() reads
\* in a value is the amount parse_money reads in it (plain numerals).
ASSUME ValuePathAssumption ==
  /\ Leaves \subseteq Values /\ Paths \subseteq Nat /\ Null \notin Values \cup {None}
  /\ Stripped \in [Values \cup {Null} -> Nat]
  /\ \A v, w \in Values : Stripped[v] = Stripped[w] => Text[v] = Text[w]
  /\ DOMAIN Float = Values
  /\ \A v \in Values : Float[v] # NoMoney => Float[v] \in Nat /\ Money[v] = Float[v]
  /\ Scale \in Nat \ {0, 1}
  /\ \A v \in Leaves, s \in {1, Scale} :
       Float[v] # NoMoney => LET n == Float[v] * s IN Numeral[n] \in Values /\ Float[Numeral[n]] = n
  /\ Volatile \subseteq Fields /\ Enums \subseteq Fields

\* extract_json_blobs: the marked islands that parse.
ExtractJsonBlobs(islands) == Kept(islands, {i \in DOMAIN islands : islands[i] # Broken})

\* What a crawler run on the page parses: the first marked island, or nothing.
Unreadable(islands) == islands = <<>> \/ Head(islands) = Broken

\* read_path and _read; a null leaf reads as a miss.
ReadPath(doc, path) ==
  IF path \in DOMAIN doc /\ doc[path] # Null THEN doc[path] ELSE None

\* _to_float
ToFloat(leaf) == IF leaf \in {None, Null} THEN NoMoney ELSE Float[leaf]

-----------------------------------------------------------------------------
(* discover_paths.                                                         *)

\* _candidate_scales
CandidateScales(leaf, target, numeric) ==
  IF numeric
  THEN {s \in {1, Scale} : /\ NoMoney \notin {ToFloat(leaf), ToFloat(target)}
                           /\ ToFloat(leaf) * s = ToFloat(target)}
  ELSE {s \in {1} : Stripped[leaf] = Stripped[target]}

\* _path_scales_for_value
PathScales(doc, target, numeric) ==
  LET scales(p) == CandidateScales(doc[p], target, numeric)
  IN  [p \in {q \in DOMAIN doc : scales(q) # {}} |-> scales(p)]

\* Mutant: a path survives whatever its scale on the later samples.
Narrowed_PathsOnly(held) ==
  [p \in {q \in DOMAIN held[1] : \A i \in DOMAIN held : q \in DOMAIN held[i]} |-> held[1][p]]

\* The (path, scale) pairs that hold in every sample.
Narrowed(held) ==
  LET scales(p) == {s \in {1, Scale} : \A i \in DOMAIN held : p \in DOMAIN held[i] /\ s \in held[i][p]}
  IN  [p \in {q \in Paths : scales(q) # {}} |-> scales(p)]

Consistent(docs, records, f) ==
  Narrowed([i \in DOMAIN docs |-> PathScales(docs[i], records[i][f], f \in Volatile)])

\* Populated in every oracle and not an enum.
Considered(records) == {f \in Fields \ Enums : \A i \in DOMAIN records : records[i][f] # None}

\* Discovery: each field's least surviving path, and for a numeric field its
\* scale, 1 before _SCALE; 0 where a field has no scale entry.
DiscoverPaths(docs, records) ==
  LET found(f) == Consistent(docs, records, f)
  IN  [f \in {g \in Considered(records) : DOMAIN found(g) # {}} |->
         LET path == Min(DOMAIN found(f))
         IN  [path |-> path, scale |-> IF f \in Volatile THEN Min(found(f)[path]) ELSE 0]]

-----------------------------------------------------------------------------
(* emit_crawler: what the generated module does.                           *)

\* _num; its result is a number whatever the leaf was.
Num(value, scale) ==
  IF ToFloat(value) = NoMoney THEN None ELSE Numeral[ToFloat(value) * scale]

ReadField(doc, place) ==
  LET value == ReadPath(doc, place.path)
  IN  IF place.scale = 0 THEN value ELSE Num(value, place.scale)

\* crawl(): one item, or none when the page has nothing to read.
ValuePathCrawl(discovery, islands) ==
  IF Unreadable(islands) THEN <<>>
  ELSE <<[f \in Fields |->
            IF f \in DOMAIN discovery THEN ReadField(Head(islands), discovery[f]) ELSE None]>>

-----------------------------------------------------------------------------
FirstRecord(page) == IF page.records = <<>> THEN Blank ELSE page.records[1]

\* _value_path_candidate: from each sample's first parseable island and first
\* oracle record; nothing is emitted when some sample has no island or no field
\* was found.
ValuePathDiscovery(samples) ==
  IF \E i \in DOMAIN samples : ExtractJsonBlobs(samples[i].islands) = <<>> THEN <<>>
  ELSE DiscoverPaths([i \in DOMAIN samples |-> Head(ExtractJsonBlobs(samples[i].islands))],
                     [i \in DOMAIN samples |-> FirstRecord(samples[i])])
=============================================================================

------------------------------ MODULE PathMap ------------------------------
(***************************************************************************)
(* The path-map strategy (crawloop/loop/pathmap.py and _path_map_candidate *)
(* of crawloop/loop/driver.py): one model call proposes a declarative map  *)
(* from fields to places and transforms, it is tried on the first sample,  *)
(* and a crawler that executes it is emitted.                              *)
(*                                                                         *)
(* A map is a function from fields to specs.  What the text tests and      *)
(* joins of "map" and "concat" yield is given by the spec and by Joined;   *)
(* arrays are not modelled, so neither is the "list" transform.            *)
(***************************************************************************)
EXTENDS ValuePath

CONSTANTS
  Joined,            \* sequence of values -> the value they are concatenated to
  MinNum, MinDen     \* _MIN_REPRODUCTION = MinNum / MinDen

ASSUME PathMapAssumption == MinNum \in Nat /\ MinDen \in Nat \ {0}

\* _apply_concat: the parts that are there, joined.
ApplyConcat(doc, parts) ==
  LET pieces == SelectSeq([i \in DOMAIN parts |-> ReadPath(doc, parts[i])],
                          LAMBDA v : v # None)
  IN  IF pieces = <<>> THEN None ELSE Joined[pieces]

\* apply_field_spec, total: a spec of no known transform contributes nothing.
ApplyFieldSpec(doc, spec) ==
  LET value == ReadPath(doc, spec.path)
  IN  CASE spec.transform = "concat" -> ApplyConcat(doc, spec.parts)
        [] spec.transform = "map" -> IF value \in DOMAIN spec.codes THEN spec.codes[value] ELSE None
        [] spec.transform = "none" -> value
        [] spec.transform = "x10000" -> Num(value, Scale)
        [] spec.transform \in {"int", "float"} -> Num(value, 1)
        [] OTHER -> None

\* apply_fieldmap, as an item: a field dropped is a field that is None.
ApplyFieldmap(doc, fieldmap) ==
  [f \in Fields |-> IF f \in DOMAIN fieldmap THEN ApplyFieldSpec(doc, fieldmap[f]) ELSE None]

\* The emitted crawler: the first marked island, one item.
PathMapCrawl(fieldmap, islands) ==
  IF Unreadable(islands) THEN <<>> ELSE <<ApplyFieldmap(Head(islands), fieldmap)>>

-----------------------------------------------------------------------------
\* _values_agree
ValuesAgree(got, want) ==
  IF NoMoney \notin {ToFloat(got), ToFloat(want)} THEN ToFloat(got) = ToFloat(want)
  ELSE Stripped[got] = Stripped[want]

\* _reproduction_ratio >= _MIN_REPRODUCTION; a blank oracle is reproduced by any map.
Reproduced(doc, fieldmap, record) ==
  LET populated == {f \in Fields : record[f] # None}
      produced  == ApplyFieldmap(doc, fieldmap)
      hits      == {f \in populated : produced[f] # None /\ ValuesAgree(produced[f], record[f])}
  IN  populated = {} \/ MinDen * Cardinality(hits) >= MinNum * Cardinality(populated)

\* propose_fieldmap, as _path_map_candidate uses it: <<>> when the sample has no
\* island, the model's answer is no map (Broken) or it reproduces too little.
ProposeFieldmap(sample, reply) ==
  LET blobs == ExtractJsonBlobs(sample.islands)
  IN  IF blobs # <<>> /\ reply # Broken /\ Reproduced(Head(blobs), reply, FirstRecord(sample))
      THEN reply ELSE <<>>
=============================================================================

----------------------------- MODULE Validator -----------------------------
(***************************************************************************)
(* The comparison engine and the schema gate of crawloop/validator.py as   *)
(* pure operators over extracted items.                                    *)
(*                                                                         *)
(* An item maps every schema field to a value; None stands for a missing   *)
(* key as well.  What field_equal does with a value is all that is kept of *)
(* it: the number parse_money reads in it, if any, and its cleaned text.   *)
(* A score is kept as a count of agreeing fields, so that means and bars   *)
(* are compared exactly.                                                   *)
(***************************************************************************)
EXTENDS Ordering, SequencesExt

CONSTANTS
  Fields,     \* the fields of the schema
  Required,   \* those without a default
  Key,        \* the alignment field (_align_key)
  Values,     \* field values other than None
  Money,      \* value -> the number parse_money finds in it, NoMoney if none
  Text,       \* value -> its rank among cleaned texts (str order)
  Typed,      \* field -> the values its pydantic type accepts
  None, NoMoney

\* parse_money reads the same number in equal cleaned texts.
ASSUME ValidatorAssumption ==
  /\ IsFiniteSet(Fields) /\ Required \subseteq Fields /\ Key \in Fields
  /\ None \notin Values
  /\ Text \in [Values -> Nat \ {0}]
  /\ DOMAIN Money = Values
  /\ \A v, w \in Values : Text[v] = Text[w] => Money[v] = Money[w]
  /\ Typed \in [Fields -> SUBSET Values]

Item == [Fields -> Values \cup {None}]
Blank == [f \in Fields |-> None]

-----------------------------------------------------------------------------
\* field_equal: None only equals None; two values that read as numbers are
\* compared as numbers, whatever else they say; otherwise by cleaned text.
FieldEqual(a, b) ==
  IF None \in {a, b} THEN a = b
  ELSE IF NoMoney \notin {Money[a], Money[b]} THEN Money[a] = Money[b]
  ELSE Text[a] = Text[b]

\* sorted(items, key=lambda it: str(it.get(key, ""))), a stable sort.
Rank(item) == IF item[Key] = None THEN 0 ELSE Text[item[Key]]
KeyOrder(items) ==
  SortedBy(DOMAIN items,
           {p \in (DOMAIN items) \X (DOMAIN items) :
              \/ Rank(items[p[1]]) < Rank(items[p[2]])
              \/ Rank(items[p[1]]) = Rank(items[p[2]]) /\ p[1] < p[2]})
ByKey_Unsorted(items) == items   \* mutant: the sort is left out
ByKey(items) == [i \in DOMAIN items |-> items[KeyOrder(items)[i]]]

\* _aligned_pairs: sorted, then paired by position, the shorter one padded.
AlignedPairs(a, b) ==
  LET Padded(items, i) == IF i <= Len(items) THEN ByKey(items)[i] ELSE Blank
  IN  [i \in 1..Max({Len(a), Len(b)}) |-> <<Padded(a, i), Padded(b, i)>>]

\* _pair_agreement: the fields of the pair that agree.
PairAgreement(pair) == {f \in Fields : FieldEqual(pair[1][f], pair[2][f])}

\* agreement_detail, in fields: the sum over the pairs and the worst pair.  The
\* mean is sum / (pairs * |Fields|); two empty lists agree on everything.
Detail(actual, oracle) ==
  LET agreed == [i \in DOMAIN AlignedPairs(actual, oracle) |->
                   PairAgreement(AlignedPairs(actual, oracle)[i])]
      match  == Len(actual) = Len(oracle)
  IN  IF actual = <<>> /\ oracle = <<>>
      THEN [sum |-> Cardinality(Fields), pairs |-> 1,
            worst |-> Cardinality(Fields), match |-> TRUE]
      ELSE IF <<>> \in {actual, oracle}
      THEN [sum |-> 0, pairs |-> 1, worst |-> 0, match |-> match]
      ELSE [sum |-> Cardinality({p \in (DOMAIN agreed) \X Fields : p[2] \in agreed[p[1]]}),
            pairs |-> Cardinality(DOMAIN agreed),
            worst |-> Min({Cardinality(agreed[i]) : i \in DOMAIN agreed}), match |-> match]

-----------------------------------------------------------------------------
(* validate(): gates 1 and 2 as run_family and the gauntlet call it.        *)

\* model(**item) succeeds.  None is a missing key here: an explicit null for a field
\* with a default that is not optional (Product.currency) fails in the code.
SchemaValid(item) ==
  \A f \in Fields : IF item[f] = None THEN f \notin Required ELSE item[f] \in Typed[f]

\* fill_rates[f] < 0.8, over the raw items.
LowFill(items, f) ==
  10 * Cardinality({i \in DOMAIN items : items[i][f] # None}) < 8 * Len(items)

\* The first failing gate; "" when the extraction is accepted.
Reason(items) ==
  IF items = <<>> THEN "empty"
  ELSE IF \E f \in Required : LowFill(items, f) THEN "fill_rate"
  ELSE IF \E i \in DOMAIN items : ~SchemaValid(items[i]) THEN "schema"
  ELSE ""
=============================================================================

---------------------------- MODULE MCFirstRound ----------------------------
(* A small instance of FirstRound: records with a name, an optional price   *)
(* that the JSON may store in another unit, and an optional kind, which is  *)
(* an enum the JSON stores as a label.                                      *)
EXTENDS FirstRound

CONSTANTS name, price, kind,
          a, b, ab, nothing,   \* texts, the last one "None"
          n0, n1, n2, n4, s1,  \* numbers, and a text that is one
          eur2,                \* a text with the amount 2 that float() refuses
          label, code

MCFields == {name, price, kind}
MCRequired == {name}
MCNumeric == {price}
MCEnums == {kind}

MCValues == {a, b, ab, nothing, n0, n1, n2, n4, s1, eur2, label, code}
MCLeaves == {a, b, n0, n1, n2, s1, eur2, label}
MCStripped ==
  [v \in MCValues \cup {Null} |->
     CASE v = a -> 1 [] v = b -> 2 [] v = ab -> 3 [] v \in {nothing, Null} -> 4
       [] v = n0 -> 5 [] v \in {n1, s1} -> 6 [] v = n2 -> 7 [] v = n4 -> 8
       [] v = eur2 -> 9 [] v = label -> 10 [] v = code -> 11]
MCText == [v \in MCValues |-> MCStripped[v]]
MCFloat ==
  [v \in MCValues |->
     CASE v = n0 -> 0 [] v \in {n1, s1} -> 1 [] v = n2 -> 2 [] v = n4 -> 4 [] OTHER -> NoMoney]
MCMoney == [v \in MCValues |-> IF v = eur2 THEN 2 ELSE MCFloat[v]]
MCNumeral == 0 :> n0 @@ 1 :> n1 @@ 2 :> n2 @@ 4 :> n4
MCTyped ==
  [f \in MCFields |->
     CASE f = name -> {a, b, ab, nothing} [] f = price -> {n0, n1, n2, n4, s1} [] f = kind -> {code}]
MCJoined == <<a>> :> a @@ <<b>> :> b @@ <<a, b>> :> ab

row(x, y, z) == [f \in MCFields |-> CASE f = name -> x [] f = price -> y [] f = kind -> z]
doc(x, y, z) == [p \in 1..3 |-> CASE p = 1 -> x [] p = 2 -> y [] p = 3 -> z]
shows(islands, records) == [islands |-> islands, records |-> records]

\* Pages whose JSON holds the price in the other unit, as a zero, in its own unit
\* and as a text; with two places for it; with a script that does not parse in
\* front; without a script; with a null for a name; with a listing of two rows;
\* with the name in two parts; with a price no float() reads.
Scaled == shows(<<doc(a, n1, label)>>, <<row(a, n2, code)>>)
Zero == shows(<<doc(b, n0, label)>>, <<row(b, n0, None)>>)
Plain == shows(<<doc(a, n2, label)>>, <<row(a, n2, None)>>)
Textual == shows(<<doc(b, s1, label)>>, <<row(b, n2, None)>>)
Twice == shows(<<doc(a, n2, n1)>>, <<row(a, n2, None)>>)
Fronted == shows(<<Broken, doc(a, n1, label)>>, <<row(a, n2, code)>>)
Bare == shows(<<>>, <<row(a, n2, None)>>)
Nameless == shows(<<doc(Null, n1, label)>>, <<row(nothing, n2, None)>>)
Listing == shows(<<doc(a, n1, label)>>, <<row(b, None, None), row(a, n2, None)>>)
Parted == shows(<<4 :> b @@ doc(a, n1, label)>>, <<row(ab, n2, code)>>)
Priced == shows(<<doc(a, eur2, label)>>, <<row(a, n2, None)>>)

Kinds == <<Zero, Scaled, Plain, Textual, Twice, Fronted, Bare, Nameless, Listing,
           Parted, Priced>>
MCSampled == {<<Kinds[i], Kinds[j]>> : <<i, j>> \in {x \in (1..11) \X (1..11) : x[1] <= x[2]}}
MCGolden == {<<>>, <<Textual>>}

read(path, transform) == [path |-> path, transform |-> transform]
labels == read(3, "map") @@ [codes |-> label :> code]
MCReplies ==
  {Broken,
   name :> read(1, "none") @@ price :> read(2, "x10000") @@ kind :> labels,
   name :> (read(1, "concat") @@ [parts |-> <<1, 4>>]) @@ price :> read(2, "x10000")
     @@ kind :> labels,
   name :> read(1, "none") @@ price :> read(2, "int")}

MCOutputs == {<<row(a, n2, code)>>, <<row(a, eur2, code)>>, <<row(b, n0, None)>>,
              <<row(a, n2, None), row(b, None, None)>>, <<row(b, None, None), row(a, n2, None)>>}

\* The instance is one the theorems are about.
ASSUME InstanceAssumption == FewFields /\ AmountsApart /\ KeysApart
=============================================================================

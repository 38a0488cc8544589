------------------------------ MODULE MCHybrid ------------------------------
(* A small instance of Hybrid: rows with a required name and two optional   *)
(* fields, a price (an integer, which a numeric text is coerced to) and a   *)
(* code (a text with a pattern, which the tail does not check); pages of    *)
(* one and of two rows.                                                     *)
EXTENDS Hybrid

CONSTANTS name, price, code, a, n5, s5, t

MCFields == {name, price, code}
MCRequired == {name}
MCValues == {a, n5, s5, t}
MCText == [v \in MCValues |-> CASE v = a -> 1 [] v = n5 -> 2 [] v = s5 -> 2 [] v = t -> 3]
MCMoney == [v \in MCValues |-> IF v \in {n5, s5} THEN 5 ELSE NoMoney]
MCTyped == [f \in MCFields |-> CASE f = name -> {a} [] f = price -> {n5, s5} [] f = code -> {t}]
MCBare == [f \in MCFields |-> CASE f = name -> {a} [] f = price -> {n5, s5} [] f = code -> {a, t}]
MCCoerce ==
  [f \in MCFields |-> [v \in MCValues |->
     IF v \notin MCBare[f] THEN None ELSE IF v = s5 THEN n5 ELSE v]]

row(x, y) == [f \in MCFields |-> CASE f = name -> a [] f = price -> x [] f = code -> y]
Nameless == [row(n5, t) EXCEPT ![name] = None]
MCAnswers == {<<>>, <<row(n5, t)>>, <<row(s5, None)>>, <<row(None, t)>>, <<row(None, None)>>,
              <<Nameless>>, <<row(t, t)>>, <<row(n5, None), row(None, None)>>}
MCPages == {<<row(n5, t)>>, <<row(None, t)>>, <<row(n5, t), row(n5, None)>>}
MCReplies ==
  UNION {[S -> {None, a, n5, s5, t}] : S \in SUBSET {price, code}}
    \cup {[f \in {name, code} |-> IF f = name THEN a ELSE t]}
=============================================================================

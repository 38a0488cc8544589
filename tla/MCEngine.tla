------------------------------ MODULE MCEngine ------------------------------
(* Small instances of Engine: two callers, two layouts.                    *)
EXTENDS Engine, TLC

CONSTANTS r1, r2, A, B

OneCaller == {r1}
TwoCallers == {r1, r2}
MCLayouts == {A, B}
Background == {FALSE}
EitherMode == {FALSE, TRUE}
Never == {FALSE}
Maybe == {FALSE, TRUE}

Symmetry == Permutations(TwoCallers) \cup Permutations(MCLayouts)
=============================================================================

---------------------------- MODULE MCPromotion ----------------------------
(* Small instances of Promotion: a process that promotes and may crash, and *)
(* one that only rolls back, on the same store.                            *)
EXTENDS Promotion, TLC

CONSTANTS s1, s2, p1, p2, f1

OneSource == {s1}
TwoSources == {s1, s2}
OneProc == {p1}
TwoProcs == {p1, p2}
MCFields == {f1}
OneOrTwoSamples == {1, 2}

Symmetry == Permutations(TwoSources)
=============================================================================

----------------------------- MODULE MCExecutor -----------------------------
(* A small instance of Executor: two walks of one process, which may crash. *)
EXTENDS Executor

CONSTANTS w1, w2, p1

TwoWalks == {w1, w2}
OneProcess == [w \in TwoWalks |-> p1]
=============================================================================

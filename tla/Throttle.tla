------------------------------ MODULE Throttle ------------------------------
(***************************************************************************)
(* What a rate limit promises for one host: between two grants at least    *)
(* Interval ticks pass.  `age` is the time since the last grant, counted   *)
(* up to Interval (no grant yet counts as Interval).                       *)
(***************************************************************************)
EXTENDS Naturals

CONSTANT Interval

VARIABLE age

Init == age = Interval
Grant == age = Interval /\ age' = 0
Pass == age < Interval /\ age' = age + 1

Spec == Init /\ [][Grant \/ Pass]_age
=============================================================================

---------------------------- MODULE HealContract ----------------------------
(***************************************************************************)
(* What self-healing promises for one page family, with nothing of how:    *)
(* at most one regeneration at a time; it starts, and then either adds     *)
(* layouts to those the registered versions extract or gives up; a layout  *)
(* once covered stays covered; a regeneration that started ends.           *)
(***************************************************************************)
CONSTANT Layouts

VARIABLES
  covered,   \* the layouts some registered version extracts
  healing    \* a regeneration is under way

vars == <<covered, healing>>

Init == covered = {} /\ healing = FALSE

Begin == ~healing /\ healing' = TRUE /\ UNCHANGED covered

Succeed ==
  /\ healing /\ healing' = FALSE
  /\ \E new \in SUBSET Layouts : covered' = covered \cup new

GiveUp == healing /\ healing' = FALSE /\ UNCHANGED covered

Next == Begin \/ Succeed \/ GiveUp

Spec == Init /\ [][Next]_vars
FairSpec == Spec /\ WF_vars(Succeed \/ GiveUp)
=============================================================================

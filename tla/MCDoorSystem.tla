---------------------------- MODULE MCDoorSystem ----------------------------
(* DoorSystem on two cards and two tabs, with every counter small. *)
EXTENDS DoorSystem, TLC

CONSTANTS c1, c2, t1, t2
MCCards == {c1, c2}
MCTabs  == {t1, t2}
SystemSymmetry == Permutations(MCCards) \cup Permutations(MCTabs)
=============================================================================

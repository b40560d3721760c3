-------------------------- MODULE MCDoorController --------------------------
(* DoorController on two cards, with every counter small. *)
EXTENDS DoorController, TLC

CONSTANTS c1, c2
MCCards == {c1, c2}
CardSymmetry == Permutations(MCCards)
=============================================================================

--------------------------- MODULE AccessControl ---------------------------
(***************************************************************************)
(* What door, broker and console promise together, without saying how:     *)
(* cards are presented to the door, the console in charge decides about    *)
(* each at most once and in their order, by the policy of that moment, and *)
(* the door shows each verdict at most once and in their order.  It is     *)
(* open only after a verdict that grants.  Any question or verdict may be  *)
(* lost: everything is published at QoS 0.                                 *)
(***************************************************************************)
EXTENDS Naturals, Sequences

CONSTANT Cards

VARIABLES
    policy,     \* the cards the console in charge lets in
    asked,      \* the cards presented, in order
    decided,    \* the verdicts given, in order
    shown,      \* the verdicts the door has shown, in order
    open        \* the green lamp

vars == <<policy, asked, decided, shown, open>>

\* The number, in `asked', of the last question among these verdicts.
LastAsk(verdicts) == IF verdicts = <<>> THEN 0 ELSE verdicts[Len(verdicts)].ask

Init ==
    /\ policy = Cards
    /\ asked = <<>> /\ decided = <<>> /\ shown = <<>>
    /\ open = FALSE

Administer ==
    /\ policy' \in SUBSET Cards
    /\ UNCHANGED <<asked, decided, shown, open>>

Present ==
    /\ \E c \in Cards : asked' = Append(asked, c)
    /\ UNCHANGED <<policy, decided, shown, open>>

Decide ==
    /\ \E n \in (LastAsk(decided) + 1)..Len(asked) :
          decided' = Append(decided, [ask |-> n, granted |-> asked[n] \in policy])
    /\ UNCHANGED <<policy, asked, shown, open>>

Show ==
    /\ \E i \in 1..Len(decided) :
          /\ decided[i].ask > LastAsk(shown)
          /\ shown' = Append(shown, decided[i])
          /\ open' = (open \/ decided[i].granted)
    /\ UNCHANGED <<policy, asked, decided>>

Close ==
    /\ open' = FALSE
    /\ UNCHANGED <<policy, asked, decided, shown>>

Next == Administer \/ Present \/ Decide \/ Show \/ Close

Spec == Init /\ [][Next]_vars
=============================================================================

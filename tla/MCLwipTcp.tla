----------------------------- MODULE MCLwipTcp -----------------------------
(* Short segments near the end of the sequence space, a window of two of    *)
(* them, and small plans: a stream that just misses filling the window with *)
(* one fault, one that needs the window to be opened again without a fault, *)
(* and one in which the side that is closed last writes.                    *)
EXTENDS LwipTcp

IssDef == <<14, 3>>

Plan(one, two, shuts, lost, soon) ==
    [writes |-> <<one, two>>, shuts |-> shuts, faults |-> lost, early |-> soon]

StreamPlans ==
    {Plan(<<3>>, <<>>, {1}, 1, 0), Plan(<<5>>, <<>>, {1}, 0, 0), Plan(<<2>>, <<>>, {}, 0, 1)}
AnswerPlans == {Plan(<<>>, <<1, 1>>, {1}, 0, 0)}

Spec == TcpInit /\ [][TcpNext]_tcpVars
=============================================================================

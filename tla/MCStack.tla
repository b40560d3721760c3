------------------------------ MODULE MCStack ------------------------------
(* The parts of lwIP under the door's TCP connection, each by itself: a    *)
(* behaviour is one of the part chosen at the start, and the others rest.  *)
EXTENDS Reassembly, Dns, Igmp, StackThread, TLC

VARIABLE part

lowerVars == <<part, reassVars, dnsVars, igmpVars, stackVars>>

LowerInit ==
    /\ part \in {"reass", "dns", "igmp", "thread"}
    /\ ReassInit /\ DnsInit /\ IgmpInit /\ StackInit

LowerNext ==
    /\ UNCHANGED part
    /\ \/ part = "reass" /\ ReassNext
       \/ part # "reass" /\ UNCHANGED reassVars
    /\ \/ part = "dns" /\ DnsNext
       \/ part # "dns" /\ UNCHANGED dnsVars
    /\ \/ part = "igmp" /\ IgmpNext
       \/ part # "igmp" /\ UNCHANGED igmpVars
    /\ \/ part = "thread" /\ StackNext
       \/ part # "thread" /\ UNCHANGED stackVars

LowerSpec == LowerInit /\ [][LowerNext]_lowerVars

(* A name and one that begins like it. *)
MCNames == {<<"a">>, <<"a", "b">>}

(* Three datagrams for a list of three: in four pieces, cut in two ways,   *)
(* and in two pieces.                                                      *)
Piece(i, j, n) == [from |-> i, to |-> j, last |-> j = n]
MCCuts == [d1 |-> {Piece(0, 1, 4), Piece(1, 2, 4), Piece(2, 3, 4), Piece(3, 4, 4)},
           d2 |-> {Piece(0, 1, 3), Piece(1, 3, 3), Piece(0, 2, 3), Piece(2, 3, 3)},
           d3 |-> {Piece(0, 1, 2), Piece(1, 2, 2)}]

(* Timers of the stack with two periods, and one of the application. *)
MCCyclic == "dns" :> 2 @@ "arp" :> 3
MCUserTimers == "user" :> 2
=============================================================================

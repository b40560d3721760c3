------------------------------- MODULE MCNet -------------------------------
(* The client of DHCP and the table of ARP, each by itself: a behaviour is *)
(* one of the part chosen at the start, and the other rests.               *)
EXTENDS Dhcp, Etharp, TLC

CONSTANTS h1, h2, h3, e1, e2

VARIABLE part

netVars == <<part, dhcpVars, arpVars>>

NetInit ==
    /\ part \in {"dhcp", "arp"}
    /\ DhcpInit /\ ArpInit

NetNext ==
    /\ UNCHANGED part
    /\ \/ part = "dhcp" /\ DhcpNext
       \/ part # "dhcp" /\ UNCHANGED dhcpVars
    /\ \/ part = "arp" /\ ArpNext
       \/ part # "arp" /\ UNCHANGED arpVars

NetSpec == NetInit /\ [][NetNext]_netVars

(* Three hosts for a table of two entries, which may all move. *)
MCHosts == {h1, h2, h3}
MCMacs == {e1, e2}
NetSymmetry == Permutations(MCHosts) \cup Permutations(MCMacs)
=============================================================================

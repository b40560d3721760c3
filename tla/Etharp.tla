------------------------------- MODULE Etharp -------------------------------
(***************************************************************************)
(* lwIP's ARP cache (etharp.c): a table of TableSize entries that is       *)
(* searched and recycled by find_entry, one packet waiting on a pending    *)
(* entry (ARP_QUEUEING 0), and the index of the entry used last.           *)
(*                                                                         *)
(* A packet is the address it is for.  frames holds what the last step put *)
(* on the wire: packets with the Ethernet address they were sent to, and   *)
(* requests.  heard[a] is what the host with address a last said of itself *)
(* and how many ticks of etharp_tmr (5 s) ago; a host may change its       *)
(* Ethernet address (the card was replaced, the address moved).            *)
(***************************************************************************)
EXTENDS Integers, FiniteSets, FiniteSetsExt

CONSTANTS
    Hosts,       \* IP addresses of the local network
    Macs,        \* Ethernet addresses
    TableSize,   \* ARP_TABLE_SIZE
    MaxAge,      \* ARP_MAXAGE
    MaxPending   \* ARP_MAXPENDING

VARIABLES table, cached, frames, heard

arpVars == <<table, cached, frames, heard>>

ASSUME ArpAssumption ==
    /\ TableSize \in Nat \ {0} /\ MaxAge \in Nat /\ MaxPending \in 2..MaxAge

Slots == 1..TableSize
NoHost == "none"
ASSUME NoHostAssumption == NoHost \notin Hosts \cup Macs

Free == [state |-> "empty", ip |-> NoHost, mac |-> NoHost, ctime |-> 0, q |-> NoHost]
In(t, state) == {i \in Slots : t[i].state = state}
-----------------------------------------------------------------------------
(* Of the slots in s the oldest, and the last of these (find_entry goes on *)
(* to later entries of the same age).                                      *)
Oldest(t, s) == CHOOSE i \in s : \A j \in s : t[j].ctime < t[i].ctime \/ (t[j].ctime = t[i].ctime /\ j <= i)

Matching(t, ip) == {i \in Slots : t[i].state # "empty" /\ t[i].ip = ip}

(* The least important entry: an empty one, the oldest stable, the oldest  *)
(* pending without and at last with a packet.                              *)
Victim(t) ==
    LET waiting == {i \in In(t, "pending") : t[i].q # NoHost}
        idle == In(t, "pending") \ waiting
    IN  IF In(t, "empty") # {} THEN Min(In(t, "empty"))
        ELSE IF In(t, "stable") # {} THEN Oldest(t, In(t, "stable"))
        ELSE IF idle # {} THEN Oldest(t, idle)
        ELSE Oldest(t, waiting)

(* Slip: the packet of a recycled entry stays on it.                       *)
FindEntry_slip(t, ip) ==
    IF Matching(t, ip) # {} THEN [i |-> Min(Matching(t, ip)), t |-> t]
    ELSE [i |-> Victim(t), t |-> [t EXCEPT ![Victim(t)] = [Free EXCEPT !.ip = ip, !.q = t[Victim(t)].q]]]

(* find_entry with ETHARP_FLAG_TRY_HARD: the entry of ip, or a new one.    *)
FindEntry(t, ip) ==
    IF Matching(t, ip) # {} THEN [i |-> Min(Matching(t, ip)), t |-> t]
    ELSE [i |-> Victim(t), t |-> [t EXCEPT ![Victim(t)] = [Free EXCEPT !.ip = ip]]]

Packet(ip, mac) == [kind |-> "packet", ip |-> ip, mac |-> mac]
Request(ip) == [kind |-> "request", ip |-> ip]
Reply(ip, mac) == [kind |-> "reply", ip |-> ip, mac |-> mac]
-----------------------------------------------------------------------------
Hit(ip) == table[cached].state = "stable" /\ table[cached].ip = ip

Output(ip) ==
    LET f == FindEntry(table, ip)
        e == f.t[f.i]
    IN  /\ UNCHANGED heard
        /\ IF Hit(ip)
           THEN frames' = {Packet(ip, table[cached].mac)} /\ UNCHANGED <<table, cached>>
           ELSE IF e.state = "stable"
           THEN frames' = {Packet(ip, e.mac)} /\ cached' = f.i /\ table' = f.t
           ELSE /\ frames' = {Request(ip)}
                /\ table' = [f.t EXCEPT ![f.i].state = "pending", ![f.i].q = ip]
                /\ UNCHANGED cached

(* etharp_query without a packet: DHCP asks for the address it was offered.*)
Query(ip) ==
    LET f == FindEntry(table, ip)
    IN  /\ table' = [f.t EXCEPT ![f.i].state = IF @ = "empty" THEN "pending" ELSE @]
        /\ frames' = {Request(ip)}
        /\ UNCHANGED <<cached, heard>>

(* update_arp_entry: the entry becomes stable and its packet is sent.       *)
Stable(e, mac) == [e EXCEPT !.state = "stable", !.mac = mac, !.ctime = 0, !.q = NoHost]

(* etharp_arp_input: ip says in a request or a reply that it has mac.  A    *)
(* new entry is made only for a message to this interface, and a request   *)
(* for its address is answered.                                            *)
ArpInput(ip, mac, forUs, request) ==
    LET f == FindEntry(table, ip)
        e == f.t[f.i]
        answer == IF forUs /\ request THEN {Reply(ip, mac)} ELSE {}
    IN  /\ heard' = [heard EXCEPT ![ip] = [mac |-> mac, age |-> 0]]
        /\ UNCHANGED cached
        /\ IF forUs \/ Matching(table, ip) # {}
           THEN /\ table' = [f.t EXCEPT ![f.i] = Stable(e, mac)]
                /\ frames' = answer \cup {Packet(p, mac) : p \in {e.q} \ {NoHost}}
           ELSE frames' = answer /\ UNCHANGED table

Expired(e) == e.ctime >= MaxAge \/ (e.state = "pending" /\ e.ctime >= MaxPending)

Aged(e) ==
    LET o == [e EXCEPT !.ctime = @ + 1]
    IN  IF e.state = "empty" THEN e ELSE IF Expired(o) THEN Free ELSE o

EtharpTmr ==
    /\ table' = [i \in Slots |-> Aged(table[i])]
    /\ heard' = [a \in Hosts |-> [heard[a] EXCEPT !.age = IF @ > MaxAge THEN @ ELSE @ + 1]]
    /\ frames' = {}
    /\ UNCHANGED cached
-----------------------------------------------------------------------------
ArpInit ==
    /\ table = [i \in Slots |-> Free] /\ cached = 1 /\ frames = {}
    /\ heard = [a \in Hosts |-> [mac |-> NoHost, age |-> 0]]

ArpNext ==
    \/ EtharpTmr
    \/ \E a \in Hosts : Output(a) \/ Query(a)
    \/ \E a \in Hosts, m \in Macs, forUs \in BOOLEAN, request \in BOOLEAN : ArpInput(a, m, forUs, request)

ArpSpec == ArpInit /\ [][ArpNext]_arpVars
-----------------------------------------------------------------------------
(* A packet goes to the Ethernet address its destination gave last, and    *)
(* gave within the life of an entry (etharp_output, update_arp_entry).     *)
SentToOwner ==
    \A f \in frames : f.kind = "packet" => f.mac = heard[f.ip].mac /\ heard[f.ip].age < MaxAge

(* No two entries have the same address (find_entry): one of them would    *)
(* never learn that the host has moved.                                    *)
OneEntryPerAddress ==
    \A i, j \in Slots : i # j /\ "empty" \notin {table[i].state, table[j].state} => table[i].ip # table[j].ip

(* A packet waits only while its address is being asked for, and then only *)
(* as long as a request may take: the pool gets its buffer back.           *)
WaitsForItsAnswer ==
    \A i \in Slots : table[i].q # NoHost =>
        table[i].q = table[i].ip /\ table[i].state = "pending" /\ table[i].ctime < MaxPending

(* The ARP table as its users rely on it.                                  *)
ArpSound == SentToOwner /\ OneEntryPerAddress /\ WaitsForItsAnswer
=============================================================================

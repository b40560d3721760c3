-------------------------------- MODULE Dhcp --------------------------------
(***************************************************************************)
(* lwIP's DHCP client (dhcp.c) on the one interface of the board, with a   *)
(* DHCP server and hosts that hold addresses of their own as environment.  *)
(*                                                                         *)
(* d is struct dhcp and what it sets of the interface; d.stale records     *)
(* that a period of an earlier lease ended while a new one was requested.  *)
(* The operators on d are the functions of dhcp.c; d.out collects the      *)
(* messages they send.                                                     *)
(* Time is the coarse timer: DHCP_COARSE_TIMER_SECS (60 s) is one Tick.    *)
(* The request timeouts are shorter, and due when the environment says so  *)
(* while d.req (request_timeout is not 0): rebinding gives up within one   *)
(* Tick (45 s), and an ARP check (1 s) sees one at most.                   *)
(*                                                                         *)
(* wire holds the messages sent since the last Tick.  Delivering one does  *)
(* not remove it: it may arrive late, twice or not at all, but not after   *)
(* the Tick.  lease counts, for every address, the ticks until the server  *)
(* may give it to another, which it does one tick late (see BoundIsLeased).*)
(***************************************************************************)
EXTENDS Integers, Sequences, FiniteSets

CONSTANTS
    Addrs,         \* addresses of the server's pool
    Taken,         \* those some host uses without having asked
    None,          \* IP_ADDR_ANY
    T1, T2, Lease, \* in ticks; without options T1 is half the lease, T2 all of it
    TimerSpace,    \* 2^16: t1_timeout and t2_timeout
    XidSpace,      \* 2^32, transaction identifiers
    RequestTries, RebindTries, RebootTries   \* 5, 8 and 2

VARIABLES d, wire, lease

dhcpVars == <<d, wire, lease>>

ASSUME DhcpAssumption ==
    /\ Taken \subseteq Addrs /\ None \notin Addrs
    /\ TimerSpace \in Nat /\ XidSpace \in Nat \ {0, 1}
    /\ {T1, T2, Lease} \subseteq 1..(TimerSpace - 1) /\ T1 <= T2 /\ T2 <= Lease
    /\ {RequestTries, RebindTries, RebootTries} \subseteq Nat

States == {"OFF", "SELECTING", "REQUESTING", "CHECKING", "BACKING_OFF", "BOUND",
           "RENEWING", "REBINDING", "REBOOTING"}

MaxTries == RebindTries + 1     \* bound: more tries do not differ

Off == [st |-> "OFF", tries |-> 0, req |-> FALSE, t1 |-> 0, t2 |-> 0, offered |-> None,
        server |-> FALSE, given |-> FALSE, xid |-> 0, addr |-> None, up |-> FALSE,
        aged |-> FALSE, stale |-> FALSE, out |-> {}]
-----------------------------------------------------------------------------
SetState(s, st) ==
    IF s.st = st THEN s ELSE [s EXCEPT !.st = st, !.tries = 0, !.req = FALSE, !.aged = FALSE]

(* dhcp_create_msg, and sending it: a first try is a new transaction.  A   *)
(* request names the address it asks for, or the one it is sent from.      *)
Send(s, type, asked, to) ==
    LET xid == IF s.tries = 0 THEN (s.xid + 1) % XidSpace ELSE s.xid
        from == IF type = "DECLINE" \/ (type = "REQUEST" /\ s.st \in {"RENEWING", "REBINDING"})
                THEN s.addr ELSE None
    IN  [s EXCEPT !.xid = xid,
                  !.out = IF to THEN @ \cup {[type |-> type, xid |-> xid, asked |-> asked, from |-> from]}
                          ELSE @]

(* Every function that sends counts the try and sets the request timeout.  *)
Tried(s) == [s EXCEPT !.tries = IF @ < MaxTries THEN @ + 1 ELSE @, !.req = TRUE]

Down(s) == [s EXCEPT !.up = FALSE, !.addr = None]

Discover(s) ==
    Tried(Send(SetState([s EXCEPT !.offered = None, !.stale = FALSE], "SELECTING"), "DISCOVER", None, TRUE))
Select(s) == Tried(Send(SetState(s, "REQUESTING"), "REQUEST", s.offered, TRUE))
Renew(s) == Tried(Send(SetState(s, "RENEWING"), "REQUEST", None, s.server))
Rebind(s) == Tried(Send(SetState(s, "REBINDING"), "REQUEST", None, TRUE))
Reboot(s) == Tried(Send(SetState(s, "REBOOTING"), "REQUEST", s.offered, TRUE))
Decline(s) == Tried(Send(SetState(s, "BACKING_OFF"), "DECLINE", s.offered, TRUE))

(* Slip: the timer that ends the check is not started.                      *)
Check_slip(s) == SetState(s, "CHECKING")

Check(s) == Tried(SetState(s, "CHECKING"))

(* dhcp_release forgets the server before it sends to it.                  *)
Release(s) ==
    LET f == [SetState(s, "OFF") EXCEPT !.server = FALSE, !.offered = None, !.given = FALSE]
    IN  Down(Tried(Send(f, "RELEASE", None, f.server)))

(* Slip: the time of rebinding is not set.                                  *)
Bind_slip(s) ==
    SetState([s EXCEPT !.t1 = IF s.given THEN T1 ELSE 1,
                       !.addr = s.offered, !.up = TRUE], "BOUND")

(* dhcp_bind: a period the ACK did not give, or that was forgotten since,  *)
(* is the shortest one.                                                    *)
Bind(s) ==
    SetState([s EXCEPT !.t1 = IF s.given THEN T1 ELSE 1, !.t2 = IF s.given THEN T2 ELSE 1,
                       !.addr = s.offered, !.up = TRUE], "BOUND")

HandleNak(s) == Discover(SetState(Down(s), "BACKING_OFF"))
HandleOffer(s, m) == Select([s EXCEPT !.server = TRUE, !.offered = m.addr])
HandleAck(s, m) == [s EXCEPT !.offered = m.addr, !.given = TRUE]
-----------------------------------------------------------------------------
(* dhcp_recv *)
Recv(s, m) ==
    IF m.xid # s.xid THEN s
    ELSE CASE m.type = "ACK" /\ s.st = "REQUESTING" -> Check(HandleAck(s, m))
           [] m.type = "ACK" /\ s.st \in {"REBOOTING", "REBINDING", "RENEWING"} -> Bind(s)
           [] m.type = "NAK" /\ s.st \in {"REBOOTING", "REQUESTING", "REBINDING", "RENEWING"} -> HandleNak(s)
           [] m.type = "OFFER" /\ s.st = "SELECTING" -> HandleOffer([s EXCEPT !.req = FALSE], m)
           [] OTHER -> s

(* dhcp_timeout, called when request_timeout has come to 0                 *)
Timeout(s) ==
    CASE s.st \in {"BACKING_OFF", "SELECTING"} -> Discover(s)
      [] s.st = "REQUESTING" -> IF s.tries <= RequestTries THEN Select(s) ELSE Discover(Release(s))
      [] s.st = "CHECKING" -> IF s.tries <= 1 THEN Check(s) ELSE Bind(s)
      [] s.st = "RENEWING" -> Renew(s)
      [] s.st = "REBINDING" -> IF s.tries <= RebindTries THEN Rebind(s) ELSE Discover(Release(s))
      [] s.st = "REBOOTING" -> IF s.tries < RebootTries THEN Reboot(s) ELSE Discover(s)
      [] OTHER -> s

(* dhcp_coarse_tmr: both periods are counted on past 0, and the first is   *)
(* not looked at when the second is over.                                  *)
Renewable(s) == s.st \in {"REQUESTING", "BOUND", "RENEWING"}
CoarseTmr(s) ==
    LET two == [s EXCEPT !.t2 = (@ - 1) % TimerSpace]
        one == [two EXCEPT !.t1 = (@ - 1) % TimerSpace]
        late(r) == IF s.st = "REQUESTING" THEN [r EXCEPT !.stale = TRUE] ELSE r
    IN  IF s.t2 = 1 THEN IF Renewable(s) THEN late(Rebind(two)) ELSE two
        ELSE IF s.t1 = 1 /\ Renewable(s) THEN late(Renew(one))
        ELSE one

NetworkChanged(s) ==
    LET again == [s EXCEPT !.tries = 0]
    IN  IF s.st \in {"REBINDING", "RENEWING", "BOUND", "REBOOTING"} THEN Reboot([again EXCEPT !.up = FALSE])
        ELSE Discover(again)
-----------------------------------------------------------------------------
(* A new transaction identifier is not one that is still under way.        *)
Does(s) ==
    /\ s.xid # d.xid => \A m \in wire : m.xid # s.xid
    /\ d' = [s EXCEPT !.out = {}]
    /\ wire' = wire \cup s.out

(* dhcp_start and, when the interface is disconnected, dhcp_release and    *)
(* dhcp_stop                                                               *)
Start == d.st = "OFF" /\ Does(Discover([Off EXCEPT !.xid = d.xid])) /\ UNCHANGED lease
Stop == d.st # "OFF" /\ Does([Off EXCEPT !.xid = Release(d).xid]) /\ UNCHANGED lease

Receives == \E m \in wire : d.st # "OFF" /\ "addr" \in DOMAIN m /\ Does(Recv(d, m)) /\ UNCHANGED lease
FineTmr == d.req /\ Does(Timeout([d EXCEPT !.req = FALSE])) /\ UNCHANGED lease
LinkUp == d.st # "OFF" /\ Does(NetworkChanged(d)) /\ UNCHANGED lease

(* dhcp_arp_reply *)
ArpReply ==
    /\ d.st = "CHECKING" /\ d.offered \in Taken
    /\ Does(Decline(d))
    /\ UNCHANGED lease

Tick ==
    /\ d.st # "REBINDING" /\ (d.st = "CHECKING" => ~d.aged)
    /\ LET s == CoarseTmr([d EXCEPT !.aged = d.st = "CHECKING"])
       IN  d' = [s EXCEPT !.out = {}] /\ wire' = s.out
    /\ lease' = [a \in Addrs |-> IF lease[a] > 0 THEN lease[a] - 1 ELSE 0]

(* The server: it offers any address, and grants or refuses requests.      *)
Answer(type, m, a) == wire' = wire \cup {[type |-> type, xid |-> m.xid, addr |-> a]}

Granted(m) == IF m.asked # None THEN m.asked ELSE m.from

ServerOffers(m) == m.type = "DISCOVER" /\ \E a \in Addrs : Answer("OFFER", m, a) /\ UNCHANGED <<d, lease>>

ServerGrants(m) ==
    /\ m.type = "REQUEST" /\ Granted(m) # None
    /\ Answer("ACK", m, Granted(m))
    /\ lease' = [lease EXCEPT ![Granted(m)] = Lease + 1]
    /\ UNCHANGED d

ServerRefuses(m) ==
    /\ m.type = "REQUEST" /\ Granted(m) # None /\ lease[Granted(m)] = 0
    /\ Answer("NAK", m, None)
    /\ UNCHANGED <<d, lease>>

Server == \E m \in wire : "asked" \in DOMAIN m /\ (ServerOffers(m) \/ ServerGrants(m) \/ ServerRefuses(m))
-----------------------------------------------------------------------------
DhcpInit == d = Off /\ wire = {} /\ lease = [a \in Addrs |-> 0]

DhcpNext == Start \/ Stop \/ Receives \/ FineTmr \/ LinkUp \/ ArpReply \/ Tick \/ Server

DhcpSpec == DhcpInit /\ [][DhcpNext]_dhcpVars

(* The interface is up with an address only while the server keeps the     *)
(* address for it, or (T2 being the whole lease) while it asks any server  *)
(* to extend the lease.  The one tick by which lease is late is the ARP    *)
(* check between the ACK and dhcp_bind, where the periods start.           *)
BoundIsLeased == d.up => lease[d.addr] > 0 \/ d.st = "REBINDING"

(* The only exception: a period of an earlier lease has run out while a    *)
(* new address was being requested.                                        *)
BoundIsLeasedOrStale == ~d.stale => BoundIsLeased

(* Outside OFF and BOUND, in which nothing is awaited, a request timeout   *)
(* is always running: no lost message leaves the client waiting for ever.  *)
NeverStuck == d.st \notin {"OFF", "BOUND"} => d.req
=============================================================================

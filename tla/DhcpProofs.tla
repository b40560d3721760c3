----------------------------- MODULE DhcpProofs -----------------------------
(***************************************************************************)
(* What is proved of lwIP's DHCP client in module Dhcp: it never waits     *)
(* without a timeout running, and, but for the case the code gets wrong    *)
(* (d.stale), the interface has its address only while the server keeps it *)
(* for the client.                                                         *)
(*                                                                         *)
(* The argument follows the lease from the ACK to the end of its periods.  *)
(* An ACK under way was granted since the last Tick; while the address is  *)
(* checked at most one Tick passes; and once bound, the second period is   *)
(* never longer than what is left of the lease.  An ACK that renews says   *)
(* nothing of the address: that it is the client's own rests on the        *)
(* transaction identifier, which no other request under way has.           *)
(***************************************************************************)
EXTENDS Dhcp, TLAPS

-----------------------------------------------------------------------------
(* The invariant *)

Address == Addrs \cup {None}
Asked   == [type : {"DISCOVER", "REQUEST", "DECLINE", "RELEASE"}, xid : Nat, asked : Address, from : Address]
Answers == [type : {"OFFER", "ACK", "NAK"}, xid : Nat, addr : Address]

Client ==
    [st : States, tries : Nat, req : BOOLEAN, t1 : 0..(TimerSpace - 1), t2 : 0..(TimerSpace - 1),
     offered : Address, server : BOOLEAN, given : BOOLEAN, xid : 0..(XidSpace - 1), addr : Address,
     up : BOOLEAN, aged : BOOLEAN, stale : BOOLEAN, out : SUBSET Asked]

\* The states with an address, and those that ask for theirs again.
Configured == {"BOUND", "RENEWING", "REBINDING"}
Extending  == {"RENEWING", "REBINDING", "REBOOTING"}

\* What struct dhcp s and the leases l have to do with each other: the address
\* that is checked, and the one that is used.
CheckInv(s, l) == s.st = "CHECKING" =>
    s.offered \in Addrs /\ l[s.offered] >= (IF s.aged THEN Lease ELSE Lease + 1)
BoundInv(s, l) == ~s.stale /\ s.st \in Configured =>
    /\ s.addr = s.offered /\ s.addr \in Addrs
    /\ s.st # "REBINDING" => 1 <= s.t2 /\ s.t2 <= l[s.addr]

Good(s, l) ==
    /\ s \in Client
    /\ s.st \notin {"OFF", "BOUND"} => s.req
    /\ s.up => s.st \in Configured
    /\ CheckInv(s, l) /\ BoundInv(s, l)

\* An ACK under way was granted since the last Tick.
Fresh(w, l) == \A m \in w : m.type = "ACK" => m.addr \in Addrs /\ l[m.addr] = Lease + 1

\* Requests and answers of the transaction are about the client's address.
Mine(s, m) == m.xid = s.xid =>
    /\ m.type = "REQUEST" => Granted(m) = s.offered
    /\ m.type = "ACK" => m.addr = s.offered
Own(s, w)  == ~s.stale /\ s.st \in Extending => \A m \in w : Mine(s, m)

DhcpInv ==
    /\ Good(d, lease) /\ d.out = {}
    /\ wire \subseteq Asked \cup Answers
    /\ lease \in [Addrs -> 0..(Lease + 1)]
    /\ Fresh(wire, lease) /\ Own(d, wire)

-----------------------------------------------------------------------------
(* What the functions of dhcp.c make of struct dhcp *)

\* What setting a state, and counting a try, leave alone.
Same(r, s) ==
    /\ r.t1 = s.t1 /\ r.t2 = s.t2 /\ r.offered = s.offered /\ r.server = s.server
    /\ r.given = s.given /\ r.addr = s.addr /\ r.up = s.up /\ r.stale = s.stale

LEMMA SetStateFields ==
    ASSUME NEW s \in Client, NEW st \in States
    PROVE  LET r == SetState(s, st)
           IN  /\ r \in Client /\ Same(r, s) /\ r.xid = s.xid /\ r.out = s.out /\ r.st = st
               /\ s.st = st => r = s
               /\ s.st # st => r.tries = 0 /\ r.req = FALSE /\ r.aged = FALSE
<1>1. CASE s.st = st
  BY <1>1 DEF SetState, Same
<1>2. CASE s.st # st
  BY <1>2 DEF SetState, Same, Client
<1> QED BY <1>1, <1>2

LEMMA NextXid == \A x \in 0..(XidSpace - 1) : (x + 1) % XidSpace \in 0..(XidSpace - 1) /\ (x + 1) % XidSpace # x
<1> SUFFICES ASSUME NEW x \in 0..(XidSpace - 1)
             PROVE  (x + 1) % XidSpace \in 0..(XidSpace - 1) /\ (x + 1) % XidSpace # x
  OBVIOUS
<1>1. XidSpace \in Nat /\ XidSpace > 1
  BY DhcpAssumption
<1>2. CASE x + 1 < XidSpace
  BY <1>1, <1>2
<1>3. CASE x + 1 = XidSpace
  BY <1>1, <1>3
<1> QED BY <1>1, <1>2, <1>3

\* Sending: the message is about the client, and of a new transaction or
\* of the present one.
\* What sending makes r of s.
Sent(r, s, type, asked, to) ==
    LET from == IF type = "DECLINE" \/ (type = "REQUEST" /\ s.st \in {"RENEWING", "REBINDING"})
                THEN s.addr ELSE None
        m == [type |-> type, xid |-> r.xid, asked |-> asked, from |-> from]
    IN  /\ r \in Client /\ Same(r, s) /\ r.st = s.st /\ r.aged = s.aged
        /\ IF s.tries = 0 THEN r.xid # s.xid ELSE r.xid = s.xid
        /\ m \in Asked /\ r.out = (IF to THEN s.out \cup {m} ELSE s.out)

LEMMA SendFields ==
    ASSUME NEW s \in Client, NEW type \in {"DISCOVER", "REQUEST", "DECLINE", "RELEASE"},
           NEW asked \in Address, NEW to \in BOOLEAN
    PROVE  Sent(Send(s, type, asked, to), s, type, asked, to)
<1> DEFINE x == IF s.tries = 0 THEN (s.xid + 1) % XidSpace ELSE s.xid
           from == IF type = "DECLINE" \/ (type = "REQUEST" /\ s.st \in {"RENEWING", "REBINDING"})
                   THEN s.addr ELSE None
           m == [type |-> type, xid |-> x, asked |-> asked, from |-> from]
           o == IF to THEN s.out \cup {m} ELSE s.out
<1>1. s.xid \in 0..(XidSpace - 1) /\ s.addr \in Address /\ s.out \in SUBSET Asked /\ None \in Address
  BY DEF Client, Address
<1>2. x \in 0..(XidSpace - 1) /\ (IF s.tries = 0 THEN x # s.xid ELSE x = s.xid)
  BY <1>1, NextXid
<1> HIDE DEF x
<1>3. x \in Nat
  BY <1>2, DhcpAssumption
<1>4. from \in Address
  BY <1>1
<1> HIDE DEF from
<1>5. m \in Asked
  BY <1>3, <1>4 DEF Asked
<1> HIDE DEF m
<1>6. o \in SUBSET Asked
  BY <1>1, <1>5
<1>7. Send(s, type, asked, to) = [s EXCEPT !.xid = x, !.out = o]
  BY DEF Send, x, o, m, from
<1> HIDE DEF o
<1>8. /\ [s EXCEPT !.xid = x, !.out = o] \in Client /\ Same([s EXCEPT !.xid = x, !.out = o], s)
      /\ [s EXCEPT !.xid = x, !.out = o].xid = x /\ [s EXCEPT !.xid = x, !.out = o].out = o
      /\ [s EXCEPT !.xid = x, !.out = o].st = s.st /\ [s EXCEPT !.xid = x, !.out = o].aged = s.aged
  BY <1>2, <1>6 DEF Client, Same
<1> QED BY <1>2, <1>5, <1>7, <1>8 DEF Sent, o, m, from

LEMMA TriedFields ==
    ASSUME NEW s \in Client
    PROVE  LET r == Tried(s)
           IN  /\ r \in Client /\ Same(r, s) /\ r.xid = s.xid /\ r.out = s.out /\ r.st = s.st
               /\ r.aged = s.aged /\ r.req = TRUE
<1>1. (IF s.tries < MaxTries THEN s.tries + 1 ELSE s.tries) \in Nat
  BY DEF Client
<1> QED BY <1>1 DEF Tried, Client, Same

\* A request goes out: what the functions that ask have in common.
Request(s, st, type, asked, to) == Tried(Send(SetState(s, st), type, asked, to))

\* The message m that r sends: it is of r's transaction.
Names(m, r, s, type, asked) ==
    /\ m.type = type /\ m.xid = r.xid /\ m.asked = asked
    /\ m.from = (IF type = "DECLINE" \/ (type = "REQUEST" /\ r.st \in {"RENEWING", "REBINDING"})
                 THEN s.addr ELSE None)

\* What sending a request makes r of s.
Asks(r, s, st, type, asked) ==
    /\ r \in Client /\ Same(r, s) /\ r.st = st /\ r.req = TRUE
    /\ r.xid = s.xid => s.st = st
    /\ \E m \in Asked : Names(m, r, s, type, asked) /\ r.out \in {s.out, s.out \cup {m}}

LEMMA RequestAsks ==
    ASSUME NEW s \in Client, NEW st \in States, NEW type \in {"DISCOVER", "REQUEST", "DECLINE", "RELEASE"},
           NEW asked \in Address, NEW to \in BOOLEAN
    PROVE  Asks(Request(s, st, type, asked, to), s, st, type, asked)
<1> DEFINE a == SetState(s, st)
           b == Send(a, type, asked, to)
           c == Tried(b)
           r == Request(s, st, type, asked, to)
<1>1. /\ a \in Client /\ Same(a, s) /\ a.xid = s.xid /\ a.out = s.out /\ a.st = st
      /\ s.st # st => a.tries = 0
  BY SetStateFields
<1>0. r = c
  BY DEF Request
<1> HIDE DEF r
<1> HIDE DEF a
<1> DEFINE from == IF type = "DECLINE" \/ (type = "REQUEST" /\ a.st \in {"RENEWING", "REBINDING"})
                   THEN a.addr ELSE None
           m == [type |-> type, xid |-> b.xid, asked |-> asked, from |-> from]
<1>2. /\ b \in Client /\ Same(b, a) /\ b.st = a.st
      /\ IF a.tries = 0 THEN b.xid # a.xid ELSE b.xid = a.xid
      /\ m \in Asked /\ b.out = (IF to THEN a.out \cup {m} ELSE a.out)
  <2>1. a \in Client
    BY <1>1
  <2>2. Sent(b, a, type, asked, to)
    BY <2>1, SendFields
  <2> HIDE DEF b
  <2> QED BY <2>2 DEF Sent
<1> HIDE DEF b
<1>3. c \in Client /\ Same(c, b) /\ c.xid = b.xid /\ c.out = b.out /\ c.st = b.st /\ c.req = TRUE
  BY <1>2, TriedFields
<1> HIDE DEF c
<1>4. Same(r, s) /\ a.addr = s.addr
  BY <1>0, <1>1, <1>2, <1>3 DEF Same
<1>5. r \in Client /\ r.st = st /\ r.req = TRUE /\ r.xid = b.xid
  BY <1>0, <1>1, <1>2, <1>3
<1>6. r.xid = s.xid => s.st = st
  BY <1>1, <1>2, <1>5
<1>7. m.type = type /\ m.xid = r.xid /\ m.asked = asked /\ m.from = from
  BY <1>5
<1>8. from = IF type = "DECLINE" \/ (type = "REQUEST" /\ st \in {"RENEWING", "REBINDING"})
             THEN s.addr ELSE None
  BY <1>1, <1>4
<1> HIDE DEF m, from
<1>9. r.out = (IF to THEN s.out \cup {m} ELSE s.out)
  BY <1>0, <1>1, <1>2, <1>3
<1>10. m \in Asked /\ Names(m, r, s, type, asked) /\ r.out \in {s.out, s.out \cup {m}}
  BY <1>2, <1>5, <1>7, <1>8, <1>9 DEF Names
<1>11. Asks(r, s, st, type, asked)
  BY <1>4, <1>5, <1>6, <1>10 DEF Asks
<1> QED BY <1>11 DEF r

LEMMA StateNames ==
    /\ "OFF" \in States /\ "SELECTING" \in States /\ "REQUESTING" \in States /\ "CHECKING" \in States
    /\ "BACKING_OFF" \in States /\ "BOUND" \in States /\ "RENEWING" \in States
    /\ "REBINDING" \in States /\ "REBOOTING" \in States
    /\ None \in Address /\ TRUE \in BOOLEAN /\ FALSE \in BOOLEAN
  BY DEF States, Address

\* The functions that ask, one by one.
LEMMA AskingFunctions ==
    ASSUME NEW s \in Client
    PROVE  /\ Asks(Select(s), s, "REQUESTING", "REQUEST", s.offered)
           /\ Asks(Renew(s), s, "RENEWING", "REQUEST", None)
           /\ Asks(Rebind(s), s, "REBINDING", "REQUEST", None)
           /\ Asks(Reboot(s), s, "REBOOTING", "REQUEST", s.offered)
           /\ Asks(Decline(s), s, "BACKING_OFF", "DECLINE", s.offered)
<1>1. s.offered \in Address /\ s.server \in BOOLEAN
  BY DEF Client
<1>2. /\ Select(s) = Request(s, "REQUESTING", "REQUEST", s.offered, TRUE)
      /\ Renew(s) = Request(s, "RENEWING", "REQUEST", None, s.server)
      /\ Rebind(s) = Request(s, "REBINDING", "REQUEST", None, TRUE)
      /\ Reboot(s) = Request(s, "REBOOTING", "REQUEST", s.offered, TRUE)
      /\ Decline(s) = Request(s, "BACKING_OFF", "DECLINE", s.offered, TRUE)
  BY DEF Select, Renew, Rebind, Reboot, Decline, Request
<1> QED BY <1>1, <1>2, RequestAsks, StateNames

LEMMA DiscoverAsks ==
    ASSUME NEW s \in Client
    PROVE  \E a \in Client : a.up = s.up /\ a.stale = FALSE /\ Asks(Discover(s), a, "SELECTING", "DISCOVER", None)
<1> DEFINE a == [s EXCEPT !.offered = None, !.stale = FALSE]
<1>1. a \in Client /\ a.up = s.up /\ a.stale = FALSE
  BY StateNames DEF Client
<1>2. Discover(s) = Request(a, "SELECTING", "DISCOVER", None, TRUE)
  BY DEF Discover, Request
<1> HIDE DEF a
<1>3. Asks(Discover(s), a, "SELECTING", "DISCOVER", None)
  BY <1>1, <1>2, RequestAsks, StateNames
<1> QED BY <1>1, <1>3

\* A client without an address that asks for one.
Idle(r) == /\ r \in Client /\ ~r.up /\ r.st \in {"OFF", "SELECTING", "REQUESTING", "BACKING_OFF"}
           /\ r.st # "OFF" => r.req

LEMMA IdleIsGood ==
    ASSUME NEW r, NEW l, NEW w, Idle(r)
    PROVE  Good(r, l) /\ Own(r, w)
  BY DEF Idle, Good, CheckInv, BoundInv, Own, Configured, Extending

LEMMA AskingIsIdle ==
    ASSUME NEW s, ~s.up, NEW st \in {"SELECTING", "REQUESTING", "BACKING_OFF"}, NEW type, NEW asked,
           NEW r, Asks(r, s, st, type, asked)
    PROVE  Idle(r) /\ r.stale = s.stale
  BY DEF Asks, Idle, Same

LEMMA IdleFunctions ==
    ASSUME NEW s \in Client, ~s.up
    PROVE  Idle(Select(s)) /\ Idle(Decline(s)) /\ Idle(Discover(s)) /\ ~Discover(s).stale
<1>1. Asks(Select(s), s, "REQUESTING", "REQUEST", s.offered)
  BY AskingFunctions
<1>2. Asks(Decline(s), s, "BACKING_OFF", "DECLINE", s.offered)
  BY AskingFunctions
<1>3. PICK a \in Client : a.up = s.up /\ a.stale = FALSE /\ Asks(Discover(s), a, "SELECTING", "DISCOVER", None)
  BY DiscoverAsks
<1>4. Idle(Select(s)) /\ Idle(Decline(s))
  BY <1>1, <1>2, AskingIsIdle
<1>5. Idle(Discover(s)) /\ ~Discover(s).stale
  BY <1>3, AskingIsIdle
<1> QED BY <1>4, <1>5

LEMMA DownFields ==
    ASSUME NEW s \in Client
    PROVE  Down(s) \in Client /\ ~Down(s).up /\ Down(s).st = s.st /\ Down(s).req = s.req
  BY StateNames DEF Down, Client

LEMMA ReleaseIsIdle == ASSUME NEW s \in Client PROVE Release(s) \in Client /\ ~Release(s).up
<1> DEFINE a == SetState(s, "OFF")
           f == [a EXCEPT !.server = FALSE, !.offered = None, !.given = FALSE]
           b == Send(f, "RELEASE", None, f.server)
<1>1. a \in Client
  BY SetStateFields, StateNames
<1> HIDE DEF a
<1>2. f \in Client /\ f.server \in BOOLEAN
  BY <1>1, StateNames DEF Client
<1> HIDE DEF f
<1>3. b \in Client
  BY <1>2, SendFields, StateNames DEF Sent
<1>4. Tried(b) \in Client
  BY <1>3, TriedFields
<1>5. Release(s) = Down(Tried(b))
  BY DEF Release, a, f, b
<1> QED BY <1>4, <1>5, DownFields

\* Checking, binding, and asking for the address again.
LEMMA CheckIsGood ==
    ASSUME NEW s \in Client, NEW l, NEW w, ~s.up, s.offered \in Addrs,
           l[s.offered] >= (IF s.st = "CHECKING" /\ s.aged THEN Lease ELSE Lease + 1)
    PROVE  Good(Check(s), l) /\ Own(Check(s), w) /\ Check(s).out = s.out /\ Check(s).xid = s.xid
<1> DEFINE a == SetState(s, "CHECKING")
           r == Tried(a)
<1>1. /\ a \in Client /\ Same(a, s) /\ a.xid = s.xid /\ a.out = s.out /\ a.st = "CHECKING"
      /\ s.st = "CHECKING" => a = s
      /\ s.st # "CHECKING" => a.aged = FALSE
  BY SetStateFields, StateNames
<1> HIDE DEF a
<1>2. /\ r \in Client /\ Same(r, a) /\ r.xid = a.xid /\ r.out = a.out /\ r.st = a.st
      /\ r.aged = a.aged /\ r.req = TRUE
  BY <1>1, TriedFields
<1>3. Check(s) = r
  BY DEF Check, a
<1> HIDE DEF r
<1>4. r.offered = s.offered /\ ~r.up
  BY <1>1, <1>2 DEF Same
<1>5. (IF r.aged THEN Lease ELSE Lease + 1) = (IF s.st = "CHECKING" /\ s.aged THEN Lease ELSE Lease + 1)
  BY <1>1, <1>2
<1> QED BY <1>1, <1>2, <1>3, <1>4, <1>5 DEF Good, CheckInv, BoundInv, Own, Configured, Extending

LEMMA BindIsGood ==
    ASSUME NEW s \in Client, NEW l, NEW w,
           ~s.stale => s.offered \in Addrs /\ l[s.offered] \in Nat /\ l[s.offered] >= Lease
    PROVE  Good(Bind(s), l) /\ Own(Bind(s), w) /\ Bind(s).out = s.out /\ Bind(s).xid = s.xid
<1> DEFINE t1 == IF s.given THEN T1 ELSE 1
           t2 == IF s.given THEN T2 ELSE 1
           a == [s EXCEPT !.t1 = t1, !.t2 = t2, !.addr = s.offered, !.up = TRUE]
           r == SetState(a, "BOUND")
<1>1. t1 \in 0..(TimerSpace - 1) /\ t2 \in 0..(TimerSpace - 1) /\ 1 <= t2 /\ t2 <= Lease /\ Lease \in Nat
  BY DhcpAssumption
<1> HIDE DEF t1, t2
<1>2. /\ a \in Client /\ a.t2 = t2 /\ a.addr = s.offered /\ a.offered = s.offered /\ a.stale = s.stale
      /\ a.out = s.out /\ a.xid = s.xid
  BY <1>1 DEF Client
<1> HIDE DEF a
<1>3. r \in Client /\ Same(r, a) /\ r.xid = a.xid /\ r.out = a.out /\ r.st = "BOUND"
  BY <1>2, SetStateFields, StateNames
<1> HIDE DEF r
<1>4. Bind(s) = r
  BY DEF Bind, r, a, t1, t2
<1>5. r.t2 = t2 /\ r.addr = s.offered /\ r.offered = s.offered /\ r.stale = s.stale
  BY <1>2, <1>3 DEF Same
<1>6. BoundInv(r, l)
  BY <1>1, <1>3, <1>5 DEF BoundInv
<1>7. Good(r, l) /\ Own(r, w)
  BY <1>3, <1>6 DEF Good, CheckInv, Own, Configured, Extending
<1> QED BY <1>2, <1>3, <1>4, <1>7

\* The address that a request asks for.
AskedFor(asked, st, s) ==
    IF asked # None THEN asked ELSE IF st \in {"RENEWING", "REBINDING"} THEN s.addr ELSE None

\* Asking for the address again: the periods are those of before, and the
\* request is about the client's address.
LEMMA ExtendIsGood ==
    ASSUME NEW s, NEW l, NEW st \in Extending, NEW asked, NEW r, Asks(r, s, st, "REQUEST", asked),
           s.up => st \in Configured,
           ~s.stale /\ st \in Configured =>
              /\ s.addr = s.offered /\ s.addr \in Addrs
              /\ st # "REBINDING" => 1 <= s.t2 /\ s.t2 <= l[s.addr]
    PROVE  Good(r, l)
<1>1. r \in Client /\ r.st = st /\ r.req = TRUE /\ Same(r, s)
  BY DEF Asks
<1>2. r.up = s.up /\ r.stale = s.stale /\ r.addr = s.addr /\ r.offered = s.offered /\ r.t2 = s.t2
  BY <1>1 DEF Same
<1>3. CheckInv(r, l)
  BY <1>1 DEF CheckInv, Extending
<1>4. BoundInv(r, l)
  BY <1>1, <1>2 DEF BoundInv
<1> QED BY <1>1, <1>2, <1>3, <1>4 DEF Good

LEMMA ExtendIsOwn ==
    ASSUME NEW s, NEW w, NEW st \in Extending, NEW asked, NEW r, Asks(r, s, st, "REQUEST", asked),
           s.out = {}, ~s.stale => AskedFor(asked, st, s) = s.offered,
           Own(s, w), r.xid # s.xid => \A m \in w : m.xid # r.xid
    PROVE  Own(r, w \cup r.out)
<1>1. r.st = st /\ Same(r, s) /\ (r.xid = s.xid => s.st = st)
  BY DEF Asks
<1>2. r.stale = s.stale /\ r.offered = s.offered
  BY <1>1 DEF Same
<1>3. SUFFICES ASSUME ~r.stale, NEW m \in w \cup r.out
               PROVE  Mine(r, m)
  BY DEF Own
<1>4. CASE m \in w
  <2>1. CASE r.xid # s.xid
    BY <1>4, <2>1 DEF Mine
  <2>2. CASE r.xid = s.xid
    <3>1. Mine(s, m)
      BY <1>1, <1>2, <1>3, <1>4, <2>2 DEF Own
    <3> QED BY <1>2, <2>2, <3>1 DEF Mine
  <2> QED BY <2>1, <2>2
<1>5. CASE m \in r.out
  <2>1. PICK n \in Asked : Names(n, r, s, "REQUEST", asked) /\ r.out \in {s.out, s.out \cup {n}}
    BY DEF Asks
  <2>2. m = n
    BY <1>5, <2>1
  <2>3. Granted(m) = AskedFor(asked, st, s)
    BY <1>1, <2>1, <2>2 DEF Names, Granted, AskedFor
  <2>4. m.type = "REQUEST"
    BY <2>1, <2>2 DEF Names
  <2> QED BY <1>2, <1>3, <2>3, <2>4 DEF Mine
<1> QED BY <1>4, <1>5

-----------------------------------------------------------------------------
(* What a handler makes of the client keeps the invariant *)

\* r, made of s by a handler, and the messages it sends to the others of w.
Fine(r, s, w, l) ==
    /\ Good(r, l)
    /\ (r.xid # s.xid => \A m \in w : m.xid # r.xid) => Own(r, w \cup r.out)

LEMMA IdleIsFine == ASSUME NEW r, NEW s, NEW w, NEW l, Idle(r) PROVE Fine(r, s, w, l)
  BY IdleIsGood DEF Fine

\* A client that sends nothing and keeps what is said of it.
LEMMA QuietIsFine ==
    ASSUME NEW r, NEW s, NEW w, NEW l, Good(r, l), Own(r, w), r.out = {}
    PROVE  Fine(r, s, w, l)
<1>1. w \cup r.out = w
  OBVIOUS
<1> QED BY <1>1 DEF Fine

LEMMA ExtendIsFine ==
    ASSUME NEW s, NEW w, NEW l, NEW st \in Extending, NEW asked, NEW r, Asks(r, s, st, "REQUEST", asked),
           s.out = {}, Own(s, w),
           s.up => st \in Configured,
           ~s.stale => AskedFor(asked, st, s) = s.offered,
           ~s.stale /\ st \in Configured =>
              /\ s.addr = s.offered /\ s.addr \in Addrs
              /\ st # "REBINDING" => 1 <= s.t2 /\ s.t2 <= l[s.addr]
    PROVE  Fine(r, s, w, l)
<1>1. Good(r, l)
  BY ExtendIsGood
<1>2. ASSUME r.xid # s.xid => \A m \in w : m.xid # r.xid
      PROVE  Own(r, w \cup r.out)
  BY <1>2, ExtendIsOwn
<1> QED BY <1>1, <1>2 DEF Fine

LEMMA RebootIsFine ==
    ASSUME NEW s \in Client, NEW w, NEW l, ~s.up, s.out = {}, Own(s, w)
    PROVE  Fine(Reboot(s), s, w, l)
<1>1. Asks(Reboot(s), s, "REBOOTING", "REQUEST", s.offered)
  BY AskingFunctions
<1>2. AskedFor(s.offered, "REBOOTING", s) = s.offered
  BY DEF AskedFor
<1>3. "REBOOTING" \in Extending /\ "REBOOTING" \notin Configured
  BY DEF Extending, Configured
<1> QED BY <1>1, <1>2, <1>3, ExtendIsFine

LEMMA DoesKeeps ==
    ASSUME DhcpInv, NEW r, Does(r), UNCHANGED lease, Fine(r, d, wire, lease)
    PROVE  DhcpInv'
<1> DEFINE e == [r EXCEPT !.out = {}]
<1>1. r \in Client /\ Good(r, lease) /\ Own(r, wire \cup r.out)
  BY DEF Fine, Does, Good
<1>2. r.out \subseteq Asked
  BY <1>1 DEF Client
<1>3. e \in Client /\ e.out = {} /\ Same(e, r) /\ e.st = r.st /\ e.req = r.req /\ e.aged = r.aged /\ e.xid = r.xid
  BY <1>1 DEF Client, Same
<1>4. d' = e /\ wire' = wire \cup r.out /\ lease' = lease
  BY DEF Does
<1> HIDE DEF e
<1>5. Good(e, lease)
  BY <1>1, <1>3 DEF Good, CheckInv, BoundInv, Same
<1>6. Own(e, wire \cup r.out)
  BY <1>1, <1>3 DEF Own, Mine, Same
<1>7. wire \cup r.out \subseteq Asked \cup Answers
  BY <1>2 DEF DhcpInv
<1>8. Fresh(wire \cup r.out, lease)
  BY <1>2 DEF DhcpInv, Fresh, Asked
<1> QED BY <1>3, <1>4, <1>5, <1>6, <1>7, <1>8 DEF DhcpInv

LEMMA RecvIsFine ==
    ASSUME DhcpInv, NEW m \in wire, d.st # "OFF", "addr" \in DOMAIN m
    PROVE  Fine(Recv(d, m), d, wire, lease)
<1>1. d \in Client /\ Good(d, lease) /\ d.out = {} /\ Own(d, wire) /\ lease \in [Addrs -> 0..(Lease + 1)]
  BY DEF DhcpInv, Good
<1>2. m \in Answers
  BY DEF DhcpInv, Asked
<1>3. m.addr \in Address /\ m.type \in {"OFFER", "ACK", "NAK"}
  BY <1>2 DEF Answers
<1>4. m.type = "ACK" => m.addr \in Addrs /\ lease[m.addr] = Lease + 1
  BY DEF DhcpInv, Fresh
<1>5. CASE Recv(d, m) = d
  BY <1>1, <1>5, QuietIsFine
<1>6. CASE m.xid = d.xid /\ m.type = "ACK" /\ d.st = "REQUESTING"
  <2> DEFINE h == HandleAck(d, m)
  <2>1. h \in Client /\ h.up = d.up /\ h.offered = m.addr /\ h.st = d.st /\ h.out = d.out
    BY <1>1, <1>3 DEF HandleAck, Client
  <2>2. Recv(d, m) = Check(h)
    BY <1>6 DEF Recv
  <2> HIDE DEF h
  <2>3. ~h.up
    BY <1>1, <1>6, <2>1 DEF Good, Configured
  <2>4. Good(Check(h), lease) /\ Own(Check(h), wire) /\ Check(h).out = {}
    BY <1>1, <1>4, <1>6, <2>1, <2>3, CheckIsGood, DhcpAssumption
  <2> QED BY <2>2, <2>4, QuietIsFine
<1>7. CASE m.xid = d.xid /\ m.type = "ACK" /\ d.st \in Extending
  <2>1. Recv(d, m) = Bind(d)
    BY <1>7 DEF Recv, Extending
  <2>2. ~d.stale => m.addr = d.offered
    BY <1>1, <1>7 DEF Own, Mine
  <2>3. Lease \in Nat
    BY DhcpAssumption
  <2>4. Good(Bind(d), lease) /\ Own(Bind(d), wire) /\ Bind(d).out = {}
    BY <1>1, <1>4, <1>7, <2>2, <2>3, BindIsGood
  <2> QED BY <2>1, <2>4, QuietIsFine
<1>8. CASE Recv(d, m) = HandleNak(d)
  <2>1. Down(d) \in Client /\ ~Down(d).up
    BY <1>1, DownFields
  <2> DEFINE b == SetState(Down(d), "BACKING_OFF")
  <2>2. b \in Client /\ Same(b, Down(d))
    BY <2>1, SetStateFields, StateNames
  <2>3. HandleNak(d) = Discover(b)
    BY DEF HandleNak
  <2> HIDE DEF b
  <2>4. ~b.up
    BY <2>1, <2>2 DEF Same
  <2>5. Idle(HandleNak(d))
    BY <2>2, <2>3, <2>4, IdleFunctions
  <2> QED BY <1>8, <2>5, IdleIsFine
<1>9. CASE m.xid = d.xid /\ m.type = "OFFER" /\ d.st = "SELECTING"
  <2> DEFINE h == [[d EXCEPT !.req = FALSE] EXCEPT !.server = TRUE, !.offered = m.addr]
  <2>1. h \in Client /\ h.up = d.up
    BY <1>1, <1>3 DEF Client
  <2>2. Recv(d, m) = Select(h)
    BY <1>9 DEF Recv, HandleOffer
  <2> HIDE DEF h
  <2>3. Idle(Select(h))
    BY <1>1, <1>9, <2>1, IdleFunctions DEF Good, Configured
  <2> QED BY <2>2, <2>3, IdleIsFine
<1>10. \/ Recv(d, m) = d \/ Recv(d, m) = HandleNak(d)
       \/ m.xid = d.xid /\ m.type = "ACK" /\ (d.st = "REQUESTING" \/ d.st \in Extending)
       \/ m.xid = d.xid /\ m.type = "OFFER" /\ d.st = "SELECTING"
  BY DEF Recv, Extending
<1> QED BY <1>5, <1>6, <1>7, <1>8, <1>9, <1>10

LEMMA TimeoutIsFine ==
    ASSUME DhcpInv
    PROVE  Fine(Timeout([d EXCEPT !.req = FALSE]), d, wire, lease)
<1> DEFINE s == [d EXCEPT !.req = FALSE]
           r == Timeout(s)
<1>0. SUFFICES Fine(r, d, wire, lease)
  OBVIOUS
<1>1. d \in Client /\ Good(d, lease) /\ d.out = {} /\ Own(d, wire) /\ lease \in [Addrs -> 0..(Lease + 1)]
  BY DEF DhcpInv, Good
<1>2. /\ s \in Client /\ Same(s, d) /\ s.st = d.st /\ s.xid = d.xid /\ s.out = {} /\ s.aged = d.aged
  BY <1>1 DEF Client, Same
<1> HIDE DEF s, r
<1>3. s.up = d.up /\ s.stale = d.stale /\ s.addr = d.addr /\ s.offered = d.offered /\ s.t2 = d.t2
  BY <1>2 DEF Same
<1>4. Own(s, wire)
  BY <1>1, <1>2, <1>3 DEF Own, Mine
<1>5. CASE r = s /\ s.st \in {"OFF", "BOUND"}
  <2>1. Good(s, lease)
    BY <1>1, <1>2, <1>3, <1>5 DEF Good, CheckInv, BoundInv
  <2>2. Fine(s, d, wire, lease)
    BY <1>2, <1>4, <2>1, QuietIsFine
  <2> QED BY <1>5, <2>2
<1>6. CASE r = Select(s) /\ s.st = "REQUESTING"
  <2>1. Idle(Select(s))
    BY <1>1, <1>2, <1>3, <1>6, IdleFunctions DEF Good, Configured
  <2> QED BY <1>6, <2>1, IdleIsFine
<1>7. CASE r = Discover(Release(s))
  <2>1. Release(s) \in Client /\ ~Release(s).up
    BY <1>2, ReleaseIsIdle
  <2>2. Idle(Discover(Release(s)))
    BY <2>1, IdleFunctions
  <2> QED BY <1>7, <2>2, IdleIsFine
<1>8. CASE r = Discover(s) /\ s.st \in {"BACKING_OFF", "SELECTING", "REBOOTING"}
  <2>1. Idle(Discover(s))
    BY <1>1, <1>2, <1>3, <1>8, IdleFunctions DEF Good, Configured
  <2> QED BY <1>8, <2>1, IdleIsFine
<1>9. CASE s.st = "CHECKING" /\ r \in {Check(s), Bind(s)}
  <2>1. s.offered \in Addrs /\ lease[s.offered] >= (IF s.aged THEN Lease ELSE Lease + 1)
    BY <1>1, <1>2, <1>3, <1>9 DEF Good, CheckInv
  <2>2. ~s.up
    BY <1>1, <1>2, <1>3, <1>9 DEF Good, Configured
  <2>3. lease[s.offered] \in Nat /\ lease[s.offered] >= Lease /\ Lease \in Nat
    BY <1>1, <2>1, DhcpAssumption
  <2>4. Good(Check(s), lease) /\ Own(Check(s), wire) /\ Check(s).out = {}
    BY <1>2, <1>9, <2>1, <2>2, CheckIsGood
  <2>5. Good(Bind(s), lease) /\ Own(Bind(s), wire) /\ Bind(s).out = {}
    BY <1>2, <2>1, <2>3, BindIsGood
  <2>6. CASE r = Check(s)
    BY <2>4, <2>6, QuietIsFine
  <2>7. CASE r = Bind(s)
    BY <2>5, <2>7, QuietIsFine
  <2> QED BY <1>9, <2>6, <2>7
<1>10. CASE r = Renew(s) /\ s.st = "RENEWING"
  <2>1. Asks(r, s, "RENEWING", "REQUEST", None)
    BY <1>2, <1>10, AskingFunctions
  <2>2. ~s.stale => /\ s.addr = s.offered /\ s.addr \in Addrs
                    /\ 1 <= s.t2 /\ s.t2 <= lease[s.addr]
    BY <1>1, <1>2, <1>3, <1>10 DEF Good, BoundInv, Configured
  <2>3. AskedFor(None, "RENEWING", s) = s.addr
    BY DEF AskedFor
  <2>4. "RENEWING" \in Extending /\ "RENEWING" \in Configured
    BY DEF Extending, Configured
  <2>5. Fine(r, s, wire, lease)
    BY <1>2, <1>4, <2>1, <2>2, <2>3, <2>4, ExtendIsFine
  <2> QED BY <1>2, <2>5 DEF Fine
<1>11. CASE r = Rebind(s) /\ s.st = "REBINDING"
  <2>1. Asks(r, s, "REBINDING", "REQUEST", None)
    BY <1>2, <1>11, AskingFunctions
  <2>2. ~s.stale => s.addr = s.offered /\ s.addr \in Addrs
    BY <1>1, <1>2, <1>3, <1>11 DEF Good, BoundInv, Configured
  <2>3. AskedFor(None, "REBINDING", s) = s.addr
    BY DEF AskedFor
  <2>4. "REBINDING" \in Extending /\ "REBINDING" \in Configured
    BY DEF Extending, Configured
  <2>5. Fine(r, s, wire, lease)
    BY <1>2, <1>4, <2>1, <2>2, <2>3, <2>4, ExtendIsFine
  <2> QED BY <1>2, <2>5 DEF Fine
<1>12. CASE r = Reboot(s) /\ s.st = "REBOOTING"
  <2>1. ~s.up
    BY <1>1, <1>2, <1>3, <1>12 DEF Good, Configured
  <2>2. Fine(r, s, wire, lease)
    BY <1>2, <1>4, <1>12, <2>1, RebootIsFine
  <2> QED BY <1>2, <2>2 DEF Fine
<1>13. \/ r = s /\ s.st \in {"OFF", "BOUND"}
       \/ r = Select(s) /\ s.st = "REQUESTING"
       \/ r = Discover(Release(s))
       \/ r = Discover(s) /\ s.st \in {"BACKING_OFF", "SELECTING", "REBOOTING"}
       \/ s.st = "CHECKING" /\ r \in {Check(s), Bind(s)}
       \/ r = Renew(s) /\ s.st = "RENEWING"
       \/ r = Rebind(s) /\ s.st = "REBINDING"
       \/ r = Reboot(s) /\ s.st = "REBOOTING"
  <2>1. s.st \in States
    BY <1>2 DEF Client
  <2> QED BY <2>1 DEF Timeout, States, r
<1> QED BY <1>5, <1>6, <1>7, <1>8, <1>9, <1>10, <1>11, <1>12, <1>13

LEMMA ChangedIsFine ==
    ASSUME DhcpInv
    PROVE  Fine(NetworkChanged(d), d, wire, lease)
<1> DEFINE a == [d EXCEPT !.tries = 0]
           s == [a EXCEPT !.up = FALSE]
<1>1. d \in Client /\ Good(d, lease) /\ d.out = {} /\ Own(d, wire)
  BY DEF DhcpInv, Good
<1>2. a \in Client /\ a.up = d.up /\ s \in Client /\ ~s.up
  BY <1>1 DEF Client
<1>3. s.st = d.st /\ s.stale = d.stale /\ s.offered = d.offered /\ s.xid = d.xid /\ s.out = {}
  BY <1>1 DEF Client
<1>4. NetworkChanged(d) \in {Reboot(s), Discover(a)} /\ (NetworkChanged(d) = Discover(a) \/ d.st \in Configured \cup Extending)
  BY DEF NetworkChanged, Configured, Extending
<1>5. d.st \notin Configured \cup Extending => ~d.up
  BY <1>1 DEF Good
<1>6. d.st \in Configured \cup Extending => NetworkChanged(d) = Reboot(s)
  BY DEF NetworkChanged, Configured, Extending
<1> HIDE DEF s, a
<1>7. Own(s, wire)
  BY <1>1, <1>3 DEF Own, Mine
<1>8. Fine(Reboot(s), s, wire, lease)
  BY <1>2, <1>3, <1>7, RebootIsFine
<1>9. CASE NetworkChanged(d) = Reboot(s)
  BY <1>3, <1>8, <1>9 DEF Fine
<1>10. CASE NetworkChanged(d) = Discover(a) /\ ~d.up
  <2>1. Idle(Discover(a))
    BY <1>2, <1>10, IdleFunctions
  <2> QED BY <1>10, <2>1, IdleIsFine
<1> QED BY <1>4, <1>5, <1>6, <1>9, <1>10

-----------------------------------------------------------------------------
(* A Tick: the periods and the leases run, and no message outlives it *)

LEMMA NextTime ==
    \A t \in 0..(TimerSpace - 1) :
        (t - 1) % TimerSpace \in 0..(TimerSpace - 1) /\ (t >= 1 => (t - 1) % TimerSpace = t - 1)
<1> SUFFICES ASSUME NEW t \in 0..(TimerSpace - 1)
             PROVE  (t - 1) % TimerSpace \in 0..(TimerSpace - 1) /\ (t >= 1 => (t - 1) % TimerSpace = t - 1)
  OBVIOUS
<1>1. TimerSpace \in Nat /\ TimerSpace >= 1
  BY DhcpAssumption
<1>2. CASE t = 0
  BY <1>1, <1>2
<1>3. CASE t >= 1
  <2>1. t - 1 \in 0..(TimerSpace - 1)
    BY <1>1, <1>3
  <2>2. (t - 1) % TimerSpace = t - 1
    BY <1>1, <2>1
  <2> QED BY <2>1, <2>2
<1> QED BY <1>2, <1>3

\* A lease of which a tick has passed.
Older(l) == [a \in Addrs |-> IF l[a] > 0 THEN l[a] - 1 ELSE 0]

LEMMA OlderLease ==
    ASSUME NEW l \in [Addrs -> 0..(Lease + 1)]
    PROVE  /\ Older(l) \in [Addrs -> 0..(Lease + 1)]
           /\ \A a \in Addrs : \A n \in Nat : l[a] >= n + 1 => Older(l)[a] >= n
<1>1. Lease \in Nat
  BY DhcpAssumption
<1> QED BY <1>1 DEF Older

LEMMA TickIsGood ==
    ASSUME DhcpInv, d.st # "REBINDING", d.st = "CHECKING" => ~d.aged
    PROVE  LET r == CoarseTmr([d EXCEPT !.aged = d.st = "CHECKING"])
           IN  Good(r, Older(lease)) /\ Own(r, r.out)
<1> DEFINE s == [d EXCEPT !.aged = d.st = "CHECKING"]
           two == [s EXCEPT !.t2 = (s.t2 - 1) % TimerSpace]
           one == [two EXCEPT !.t1 = (two.t1 - 1) % TimerSpace]
           r == CoarseTmr(s)
           l == Older(lease)
           late(x) == IF s.st = "REQUESTING" THEN [x EXCEPT !.stale = TRUE] ELSE x
<1>0. SUFFICES Good(r, l) /\ Own(r, r.out)
  OBVIOUS
<1>1. d \in Client /\ Good(d, lease) /\ d.out = {} /\ lease \in [Addrs -> 0..(Lease + 1)]
  BY DEF DhcpInv, Good
<1>2. s \in Client /\ Same(s, d) /\ s.st = d.st /\ s.req = d.req /\ s.out = {} /\ (s.aged <=> d.st = "CHECKING")
  BY <1>1 DEF Client, Same
<1>3. (s.t2 - 1) % TimerSpace \in 0..(TimerSpace - 1) /\ (s.t2 >= 1 => (s.t2 - 1) % TimerSpace = s.t2 - 1) /\ s.t2 \in Nat
  BY <1>2, NextTime, DhcpAssumption DEF Client
<1>4. /\ r = IF s.t2 = 1 THEN IF Renewable(s) THEN late(Rebind(two)) ELSE two
             ELSE IF s.t1 = 1 /\ Renewable(s) THEN late(Renew(one))
             ELSE one
  BY DEF CoarseTmr
<1> HIDE DEF s, r
<1>5. /\ two \in Client /\ two.st = s.st /\ two.req = s.req /\ two.out = {} /\ two.aged = s.aged
      /\ two.up = s.up /\ two.stale = s.stale /\ two.addr = s.addr /\ two.offered = s.offered
      /\ two.t1 = s.t1 /\ (s.t2 >= 1 => two.t2 = s.t2 - 1)
  BY <1>2, <1>3 DEF Client
<1> HIDE DEF two
<1>6. (two.t1 - 1) % TimerSpace \in 0..(TimerSpace - 1)
  BY <1>5, NextTime DEF Client
<1>7. /\ one \in Client /\ one.st = s.st /\ one.req = s.req /\ one.out = {} /\ one.aged = s.aged
      /\ one.up = s.up /\ one.stale = s.stale /\ one.addr = s.addr /\ one.offered = s.offered
      /\ (s.t2 >= 1 => one.t2 = s.t2 - 1)
  BY <1>5, <1>6 DEF Client
<1> HIDE DEF one
<1>8. s.up = d.up /\ s.stale = d.stale /\ s.addr = d.addr /\ s.offered = d.offered /\ s.t2 = d.t2
  BY <1>2 DEF Same
<1>9. Lease \in Nat /\ l \in [Addrs -> 0..(Lease + 1)]
  BY <1>1, OlderLease, DhcpAssumption
<1>10. s.st = "CHECKING" => s.offered \in Addrs /\ l[s.offered] >= Lease
  <2>1. s.st = "CHECKING" => s.offered \in Addrs /\ lease[s.offered] >= Lease + 1
    BY <1>1, <1>2, <1>8 DEF Good, CheckInv
  <2> QED BY <1>1, <1>9, <2>1, OlderLease
<1>11. ~s.stale /\ s.st \in Configured =>
          /\ s.addr = s.offered /\ s.addr \in Addrs /\ 1 <= s.t2
          /\ s.t2 # 1 => 1 <= s.t2 - 1 /\ s.t2 - 1 <= l[s.addr]
  <2> SUFFICES ASSUME ~s.stale, s.st \in Configured
               PROVE  /\ s.addr = s.offered /\ s.addr \in Addrs /\ 1 <= s.t2
                      /\ s.t2 # 1 => 1 <= s.t2 - 1 /\ s.t2 - 1 <= l[s.addr]
    OBVIOUS
  <2>1. s.addr = s.offered /\ s.addr \in Addrs /\ 1 <= s.t2 /\ s.t2 <= lease[s.addr]
    BY <1>1, <1>2, <1>8 DEF Good, BoundInv
  <2>2. s.t2 - 1 \in Nat /\ lease[s.addr] \in Nat
    BY <1>1, <1>3, <1>9, <2>1
  <2>3. lease[s.addr] >= (s.t2 - 1) + 1
    BY <1>3, <2>1, <2>2
  <2>4. l[s.addr] >= s.t2 - 1
    BY <1>1, <2>1, <2>2, <2>3, OlderLease
  <2> QED BY <1>3, <1>9, <2>1, <2>4
<1> HIDE DEF l
<1>12. ASSUME NEW q, q \in {one, two}, s.t2 = 1 => s.st \notin Configured, r = q
       PROVE  Good(r, l) /\ Own(r, r.out)
  <2>1. /\ q \in Client /\ q.st = s.st /\ q.req = s.req /\ q.out = {} /\ q.aged = s.aged
        /\ q.up = s.up /\ q.stale = s.stale /\ q.addr = s.addr /\ q.offered = s.offered
        /\ (s.t2 >= 1 => q.t2 = s.t2 - 1)
    BY <1>5, <1>7, <1>12
  <2>2. q.st \notin {"OFF", "BOUND"} => q.req
    BY <1>1, <1>2, <2>1 DEF Good
  <2>3. q.up => q.st \in Configured
    BY <1>1, <1>2, <1>8, <2>1 DEF Good
  <2>4. CheckInv(q, l)
    BY <1>2, <1>10, <2>1 DEF CheckInv
  <2>5. BoundInv(q, l)
    BY <1>11, <1>12, <2>1 DEF BoundInv
  <2>6. Good(q, l) /\ Own(q, q.out)
    BY <2>1, <2>2, <2>3, <2>4, <2>5 DEF Good, Own
  <2> QED BY <1>12, <2>6
<1>13. ASSUME NEW q, q \in {one, two}, NEW st \in {"RENEWING", "REBINDING"}, NEW x,
              Asks(x, q, st, "REQUEST", None), r = late(x), Renewable(s),
              s.t2 = 1 => st = "REBINDING"
       PROVE  Good(r, l) /\ Own(r, r.out)
  <2>1. /\ q \in Client /\ q.st = s.st /\ q.out = {}
        /\ q.up = s.up /\ q.stale = s.stale /\ q.addr = s.addr /\ q.offered = s.offered
        /\ (s.t2 >= 1 => q.t2 = s.t2 - 1)
    BY <1>5, <1>7, <1>13
  <2>2. st \in Extending /\ st \in Configured
    BY DEF Extending, Configured
  <2>3. CASE s.st = "REQUESTING"
    <3>1. r = [x EXCEPT !.stale = TRUE] /\ x \in Client /\ x.st = st /\ x.req = TRUE
      BY <1>13, <2>3 DEF Asks
    <3>2. r \in Client /\ r.stale /\ r.st = st /\ r.req = TRUE
      BY <3>1 DEF Client
    <3> QED BY <2>2, <3>2 DEF Good, CheckInv, BoundInv, Own, Extending
  <2>4. CASE s.st # "REQUESTING"
    <3>1. r = x /\ s.st \in Configured
      BY <1>13, <2>4 DEF Renewable, Configured
    <3>2. ~q.stale => /\ q.addr = q.offered /\ q.addr \in Addrs
                      /\ st # "REBINDING" => 1 <= q.t2 /\ q.t2 <= l[q.addr]
      BY <1>11, <1>13, <2>1, <3>1
    <3>3. AskedFor(None, st, q) = q.addr
      BY DEF AskedFor
    <3>4. Own(q, {})
      BY DEF Own
    <3>5. Good(x, l)
      BY <1>13, <2>2, <3>2, ExtendIsGood
    <3>6. Own(x, {} \cup x.out)
      BY <1>13, <2>1, <2>2, <3>2, <3>3, <3>4, ExtendIsOwn
    <3>7. {} \cup x.out = x.out
      OBVIOUS
    <3> QED BY <3>1, <3>5, <3>6, <3>7
  <2> QED BY <2>3, <2>4
<1>14. CASE s.t2 = 1 /\ Renewable(s)
  <2>1. Asks(Rebind(two), two, "REBINDING", "REQUEST", None)
    BY <1>5, AskingFunctions
  <2> QED BY <1>4, <1>13, <1>14, <2>1
<1>15. CASE s.t2 # 1 /\ s.t1 = 1 /\ Renewable(s)
  <2>1. Asks(Renew(one), one, "RENEWING", "REQUEST", None)
    BY <1>7, AskingFunctions
  <2> QED BY <1>4, <1>13, <1>15, <2>1
<1>16. CASE s.t2 = 1 /\ ~Renewable(s)
  <2>1. s.st \notin Configured
    BY <1>2, <1>16 DEF Renewable, Configured
  <2> QED BY <1>4, <1>12, <1>16, <2>1
<1>17. CASE s.t2 # 1 /\ ~(s.t1 = 1 /\ Renewable(s))
  BY <1>4, <1>12, <1>17
<1> QED BY <1>14, <1>15, <1>16, <1>17

-----------------------------------------------------------------------------
(* The server *)

LEMMA ServerKeeps == ASSUME DhcpInv, Server PROVE DhcpInv'
<1>1. PICK m \in wire : "asked" \in DOMAIN m /\ (ServerOffers(m) \/ ServerGrants(m) \/ ServerRefuses(m))
  BY DEF Server
<1>2. m \in Asked
  BY <1>1 DEF DhcpInv, Answers
<1>3. m.xid \in Nat /\ Granted(m) \in Address
  BY <1>2 DEF Asked, Granted
<1>4. /\ Good(d, lease) /\ d.out = {} /\ wire \subseteq Asked \cup Answers
      /\ lease \in [Addrs -> 0..(Lease + 1)] /\ Fresh(wire, lease) /\ Own(d, wire)
  BY DEF DhcpInv
<1>5. CASE ServerGrants(m)
  <2> DEFINE g == Granted(m)
             n == [type |-> "ACK", xid |-> m.xid, addr |-> g]
             l == [lease EXCEPT ![g] = Lease + 1]
  <2>1. d' = d /\ wire' = wire \cup {n} /\ lease' = l /\ g \in Addrs /\ m.type = "REQUEST"
    BY <1>3, <1>5 DEF ServerGrants, Answer, Address
  <2>2. n \in Answers
    BY <1>3 DEF Answers
  <2>3. Lease \in Nat
    BY DhcpAssumption
  <2>4. l \in [Addrs -> 0..(Lease + 1)] /\ l[g] = Lease + 1 /\ \A a \in Addrs : l[a] >= lease[a]
    BY <1>4, <2>1, <2>3
  <2>5. \A a \in Addrs : lease[a] \in Nat /\ l[a] \in Nat /\ (lease[a] = Lease + 1 => l[a] = Lease + 1)
    BY <1>4, <2>1, <2>3, <2>4
  <2> HIDE DEF l
  <2>6. CheckInv(d, l)
    BY <1>4, <2>3, <2>4, <2>5 DEF Good, CheckInv
  <2>7. BoundInv(d, l)
    <3> SUFFICES ASSUME ~d.stale, d.st \in Configured
                 PROVE  /\ d.addr = d.offered /\ d.addr \in Addrs
                        /\ d.st # "REBINDING" => 1 <= d.t2 /\ d.t2 <= l[d.addr]
      BY DEF BoundInv
    <3>1. /\ d.addr = d.offered /\ d.addr \in Addrs
          /\ d.st # "REBINDING" => 1 <= d.t2 /\ d.t2 <= lease[d.addr]
      BY <1>4 DEF Good, BoundInv
    <3>2. d.t2 \in Nat
      BY <1>4, DhcpAssumption DEF Good, Client
    <3> QED BY <2>4, <2>5, <3>1, <3>2
  <2>8. Good(d, l)
    BY <1>4, <2>6, <2>7 DEF Good
  <2>9. Fresh(wire \cup {n}, l)
    BY <1>4, <2>1, <2>4, <2>5 DEF Fresh
  <2>10. ~d.stale /\ d.st \in Extending => Mine(d, m)
    BY <1>4 DEF Own
  <2>11. ~d.stale /\ d.st \in Extending => Mine(d, n)
    BY <2>1, <2>10 DEF Mine
  <2>12. Own(d, wire \cup {n})
    BY <1>4, <2>11 DEF Own
  <2> HIDE DEF n
  <2> QED BY <1>4, <2>1, <2>2, <2>4, <2>8, <2>9, <2>12 DEF DhcpInv
<1>6. ASSUME NEW a \in Address, NEW type \in {"OFFER", "NAK"}, Answer(type, m, a), UNCHANGED <<d, lease>>
      PROVE  DhcpInv'
  <2> DEFINE n == [type |-> type, xid |-> m.xid, addr |-> a]
  <2>1. d' = d /\ wire' = wire \cup {n} /\ lease' = lease
    BY <1>6 DEF Answer
  <2>2. n \in Answers /\ n.type \notin {"ACK", "REQUEST"}
    BY <1>3 DEF Answers
  <2> HIDE DEF n
  <2>3. Fresh(wire \cup {n}, lease)
    BY <1>4, <2>2 DEF Fresh
  <2>4. Own(d, wire \cup {n})
    BY <1>4, <2>2 DEF Own, Mine
  <2> QED BY <1>4, <2>1, <2>2, <2>3, <2>4 DEF DhcpInv
<1>7. CASE ServerOffers(m)
  BY <1>6, <1>7 DEF ServerOffers, Address
<1>8. CASE ServerRefuses(m)
  BY <1>6, <1>8 DEF ServerRefuses, Address
<1> QED BY <1>1, <1>5, <1>7, <1>8

-----------------------------------------------------------------------------
(* The invariant holds *)

LEMMA OffFields == Off \in Client /\ Off.st = "OFF" /\ ~Off.up /\ Off.out = {}
<1>1. TimerSpace \in Nat /\ TimerSpace >= 1 /\ XidSpace \in Nat /\ XidSpace >= 1
  BY DhcpAssumption
<1>2. 0 \in 0..(TimerSpace - 1) /\ 0 \in Nat /\ {} \in SUBSET Asked /\ 0 \in 0..(XidSpace - 1)
  BY <1>1
<1>3. "OFF" \in States /\ None \in Address /\ FALSE \in BOOLEAN
  BY StateNames
<1>4. Off \in Client
  BY <1>2, <1>3 DEF Off, Client
<1>5. Off.st = "OFF" /\ ~Off.up /\ Off.out = {}
  BY DEF Off
<1> QED BY <1>4, <1>5

LEMMA OffIsIdle ==
    ASSUME NEW x \in 0..(XidSpace - 1)
    PROVE  [Off EXCEPT !.xid = x] \in Client /\ Idle([Off EXCEPT !.xid = x])
<1> DEFINE s == [Off EXCEPT !.xid = x]
<1>1. s \in Client /\ s.st = Off.st /\ s.up = Off.up
  BY OffFields DEF Client
<1> QED BY <1>1, OffFields DEF Idle

LEMMA InitInv == DhcpInit => DhcpInv
<1> SUFFICES ASSUME DhcpInit PROVE DhcpInv
  OBVIOUS
<1>1. Lease \in Nat
  BY DhcpAssumption
<1>2. d = Off /\ wire = {} /\ lease = [a \in Addrs |-> 0]
  BY DEF DhcpInit
<1>3. Idle(d) /\ d.out = {}
  BY <1>2, OffFields DEF Idle
<1>4. Good(d, lease) /\ Own(d, wire)
  BY <1>3, IdleIsGood
<1>5. lease \in [Addrs -> 0..(Lease + 1)]
  BY <1>1, <1>2
<1> QED BY <1>2, <1>3, <1>4, <1>5 DEF DhcpInv, Fresh

LEMMA NextInv == DhcpInv /\ [DhcpNext]_dhcpVars => DhcpInv'
<1> SUFFICES ASSUME DhcpInv, [DhcpNext]_dhcpVars
             PROVE  DhcpInv'
  OBVIOUS
<1>1. d \in Client /\ Good(d, lease) /\ Own(d, wire) /\ lease \in [Addrs -> 0..(Lease + 1)] /\ d.xid \in 0..(XidSpace - 1)
  BY DEF DhcpInv, Good, Client
<1>2. CASE Start
  <2> DEFINE s == [Off EXCEPT !.xid = d.xid]
  <2>1. s \in Client /\ ~s.up
    BY <1>1, OffIsIdle DEF Idle
  <2>2. Does(Discover(s)) /\ UNCHANGED lease
    BY <1>2 DEF Start
  <2> HIDE DEF s
  <2>3. Idle(Discover(s))
    BY <2>1, IdleFunctions
  <2> QED BY <2>2, <2>3, IdleIsFine, DoesKeeps
<1>3. CASE Stop
  <2> DEFINE x == Release(d).xid
             s == [Off EXCEPT !.xid = x]
  <2>1. Release(d) \in Client
    BY <1>1, ReleaseIsIdle
  <2>2. x \in 0..(XidSpace - 1)
    BY <2>1 DEF Client
  <2>3. Does(s) /\ UNCHANGED lease
    BY <1>3 DEF Stop
  <2>4. Idle(s)
    BY <2>2, OffIsIdle
  <2> HIDE DEF s
  <2> QED BY <2>3, <2>4, IdleIsFine, DoesKeeps
<1>4. CASE Receives
  <2>1. PICK m \in wire : d.st # "OFF" /\ "addr" \in DOMAIN m /\ Does(Recv(d, m)) /\ UNCHANGED lease
    BY <1>4 DEF Receives
  <2>2. Fine(Recv(d, m), d, wire, lease)
    BY <2>1, RecvIsFine
  <2> QED BY <2>1, <2>2, DoesKeeps
<1>5. CASE FineTmr
  <2>1. Does(Timeout([d EXCEPT !.req = FALSE])) /\ UNCHANGED lease
    BY <1>5 DEF FineTmr
  <2> QED BY <2>1, TimeoutIsFine, DoesKeeps
<1>6. CASE LinkUp
  <2>1. Does(NetworkChanged(d)) /\ UNCHANGED lease
    BY <1>6 DEF LinkUp
  <2> QED BY <2>1, ChangedIsFine, DoesKeeps
<1>7. CASE ArpReply
  <2>1. Does(Decline(d)) /\ UNCHANGED lease /\ d.st = "CHECKING"
    BY <1>7 DEF ArpReply
  <2>2. ~d.up
    BY <1>1, <2>1 DEF Good, Configured
  <2>3. Idle(Decline(d))
    BY <1>1, <2>2, IdleFunctions
  <2> QED BY <2>1, <2>3, IdleIsFine, DoesKeeps
<1>8. CASE Tick
  <2> DEFINE s == CoarseTmr([d EXCEPT !.aged = d.st = "CHECKING"])
             e == [s EXCEPT !.out = {}]
  <2>1. d' = e /\ wire' = s.out /\ lease' = Older(lease)
    BY <1>8 DEF Tick, Older
  <2>2. Good(s, Older(lease)) /\ Own(s, s.out)
    BY <1>8, TickIsGood DEF Tick
  <2> HIDE DEF s
  <2>3. s \in Client /\ s.out \subseteq Asked
    BY <2>2 DEF Good, Client
  <2>4. e \in Client /\ e.out = {} /\ Same(e, s) /\ e.st = s.st /\ e.req = s.req /\ e.aged = s.aged /\ e.xid = s.xid
    BY <2>3 DEF Client, Same
  <2> HIDE DEF e
  <2>5. Good(e, Older(lease))
    BY <2>2, <2>4 DEF Good, CheckInv, BoundInv, Same
  <2>6. Own(e, s.out)
    BY <2>2, <2>4 DEF Own, Mine, Same
  <2>7. Fresh(s.out, Older(lease))
    BY <2>3 DEF Fresh, Asked
  <2>8. Older(lease) \in [Addrs -> 0..(Lease + 1)]
    BY <1>1, OlderLease
  <2> QED BY <2>1, <2>3, <2>4, <2>5, <2>6, <2>7, <2>8 DEF DhcpInv
<1>9. CASE Server
  BY <1>9, ServerKeeps
<1>10. CASE UNCHANGED dhcpVars
  BY <1>10 DEF dhcpVars, DhcpInv
<1> QED BY <1>2, <1>3, <1>4, <1>5, <1>6, <1>7, <1>8, <1>9, <1>10 DEF DhcpNext

THEOREM Invariant == DhcpSpec => []DhcpInv
<1> QED BY InitInv, NextInv, PTL DEF DhcpSpec

\* In every state in which the client awaits something, a timeout is running.
THEOREM AlwaysATimeout == DhcpSpec => []NeverStuck
<1>1. DhcpInv => NeverStuck
  BY DEF DhcpInv, Good, NeverStuck
<1> QED BY <1>1, Invariant, PTL

\* The interface is up with an address only while the server keeps it for the
\* client or the client asks any server for more time, unless a period of an
\* earlier lease ended while a new one was requested.
THEOREM LeasedOrStale == DhcpSpec => []BoundIsLeasedOrStale
<1>1. ASSUME DhcpInv PROVE BoundIsLeasedOrStale
  <2> SUFFICES ASSUME ~d.stale, d.up, d.st # "REBINDING"
               PROVE  lease[d.addr] > 0
    BY DEF BoundIsLeasedOrStale, BoundIsLeased
  <2>1. d.addr \in Addrs /\ 1 <= d.t2 /\ d.t2 <= lease[d.addr]
    BY <1>1 DEF DhcpInv, Good, BoundInv
  <2>2. d.t2 \in Nat /\ lease[d.addr] \in Nat
    BY <1>1, <2>1, DhcpAssumption DEF DhcpInv, Good, Client
  <2> QED BY <2>1, <2>2
<1> QED BY <1>1, Invariant, PTL
=============================================================================

----------------------------- MODULE DoorSystem -----------------------------
(***************************************************************************)
(* One door, the broker and the web console together: the door of module   *)
(* DoorController publishes keys, the broker hands them to the console     *)
(* page that is connected and subscribed (src/web/cli.js), the page        *)
(* decides (processRawData of src/web/script.js) and its answer goes back  *)
(* through the broker to the door, which lights a lamp.                    *)
(*                                                                         *)
(* Everything is published at QoS 0, so a packet is lost with the          *)
(* connection that carries it.  All pages connect with one client id:      *)
(* a page that is opened, or opened again, takes the connection over, and  *)
(* a page that has lost its connection does not connect again.  The serial *)
(* line, which lights the lamps without the console, is left out here.     *)
(* The number of keys needs no bound of its own: the heap is one.          *)
(***************************************************************************)
EXTENDS DoorController

CONSTANTS
    Tabs,         \* browser tabs that may hold the console
    MaxOpens      \* bound: pages opened

ASSUME OpensAssumption == MaxOpens \in Nat

VARIABLES
    connected, subscribed,  \* the tabs the broker has a connection with
    known,        \* the door is in g_iot_devices.dico of this tab's page
    rule,         \* the cards whose room matches selected_lock_rules_str
    c_in, c_out,  \* messages under way to a tab, answers under way from it
    opens,        \* the bound's counter
    asked,        \* history: the cards whose keys were published
    decided,      \* history: the verdicts of the console
    shown,        \* history: the verdicts the door has shown
    out_asks,     \* history: for each packet of outbox, its number in asked
    in_asks       \* history: the same for inbox and the answer being shown

links   == <<connected, subscribed, c_in, c_out>>
pages   == <<known, rule>>
records == <<asked, decided, shown, out_asks, in_asks>>
console == <<links, pages, opens>>
system  == <<vars, console, records>>

NoPackets == [t \in Tabs |-> <<>>]
NoneKnown == [t \in Tabs |-> FALSE]
NoRules   == [t \in Tabs |-> Cards]      \* all four rules are "*"

-----------------------------------------------------------------------------
(* The door, and what the history variables make of its steps *)

\* A packet was published, about the nth key or, for n = 0, about none.
Logged(n) == out_asks' = IF outbox' # outbox THEN Append(out_asks, n) ELSE out_asks

DoorQuiet ==
    /\ \/ Sub \/ InitDoor \/ PingNotDue \/ YieldReturn
       \/ PollMiss \/ PollHit \/ SameCard \/ Authenticate \/ Read28 \/ Read29
       \/ LedTimeout \/ Tick \/ CardArrives \/ CardLeaves
    /\ UNCHANGED <<console, records>>

DoorPings ==
    /\ Hello \/ PingDue
    /\ Logged(0)
    /\ UNCHANGED <<console, asked, decided, shown, in_asks>>

DoorAsks ==
    /\ SendKey
    /\ LET n == IF heap = 0 THEN 0 ELSE Len(asked) + 1
       IN  /\ Logged(n)
           /\ asked' = IF outbox' # outbox /\ n > 0 THEN Append(asked, key_data.uid)
                       ELSE asked
    /\ UNCHANGED <<console, decided, shown, in_asks>>

DoorHears ==
    /\ YieldDeliver
    /\ in_asks' = IF pc' = "light" THEN in_asks ELSE Tail(in_asks)
    /\ UNCHANGED <<console, asked, decided, shown, out_asks>>

DoorShows ==
    /\ Light
    /\ shown' = Append(shown, [ask |-> Head(in_asks), granted |-> lighting = "green"])
    /\ in_asks' = Tail(in_asks)
    /\ UNCHANGED <<console, asked, decided, out_asks>>

DoorLoses ==
    /\ LinkFails
    /\ out_asks' = <<>>
    /\ UNCHANGED <<console, asked, decided, shown, in_asks>>

-----------------------------------------------------------------------------
(* The broker *)

\* What the door published on "/door" goes to the subscribed pages.
BrokerForwards ==
    /\ up /\ outbox # <<>>
    /\ \A t \in subscribed : Len(c_in[t]) < MaxIn
    /\ outbox' = Tail(outbox) /\ out_asks' = Tail(out_asks)
    /\ LET item == [ask |-> Head(out_asks), msg |-> Head(outbox)]
       IN  c_in' = [t \in Tabs |-> IF t \in subscribed THEN Append(c_in[t], item)
                                   ELSE c_in[t]]
    /\ UNCHANGED <<main, lamps, reader, session, up, inbox, serial, inputs,
                   connected, subscribed, c_out, pages, opens,
                   asked, decided, shown, in_asks>>

\* An answer goes to the door, if that is still there and subscribed.
BrokerAnswers(t) ==
    /\ c_out[t] # <<>>
    /\ c_out' = [c_out EXCEPT ![t] = Tail(@)]
    /\ LET answer == Head(c_out[t])
       IN  IF up /\ session
           THEN /\ Len(inbox) < MaxIn
                /\ inbox' = Append(inbox, IF answer.granted THEN "grant" ELSE "deny")
                /\ in_asks' = Append(in_asks, answer.ask)
           ELSE UNCHANGED <<inbox, in_asks>>
    /\ UNCHANGED <<main, lamps, reader, session, up, outbox, serial, inputs,
                   connected, subscribed, c_in, pages, opens,
                   asked, decided, shown, out_asks>>

-----------------------------------------------------------------------------
(* The console *)

\* Slip: every page has a client id of its own.
TakeOver_slip(t) ==
    /\ connected' = connected \cup {t} /\ subscribed' = subscribed \ {t}
    /\ c_in' = [c_in EXCEPT ![t] = <<>>] /\ c_out' = [c_out EXCEPT ![t] = <<>>]
    /\ known' = [known EXCEPT ![t] = FALSE] /\ rule' = [rule EXCEPT ![t] = Cards]

\* The one client id of cli.js: the broker ends the connection that had it,
\* and what that carried is lost.  A page without a connection will have no
\* other, and what it knows decides nothing any more; it is cleared at once
\* and not when the tab opens the next page.
TakeOver(t) ==
    /\ connected' = {t} /\ subscribed' = {}
    /\ c_in' = NoPackets /\ c_out' = NoPackets
    /\ known' = NoneKnown /\ rule' = NoRules

\* The page is opened or reloaded, and connects.
OpenPage(t) ==
    /\ opens < MaxOpens /\ opens' = opens + 1
    /\ TakeOver(t)
    /\ UNCHANGED <<vars, records>>

\* onConnect subscribes to "/door".
OnConnect(t) ==
    /\ t \in connected \ subscribed
    /\ subscribed' = subscribed \cup {t}
    /\ UNCHANGED <<vars, connected, c_in, c_out, pages, opens, records>>

\* onConnectionLost only logs; the page is as good as closed.
OnConnectionLost(t) ==
    /\ t \in connected
    /\ connected' = connected \ {t} /\ subscribed' = subscribed \ {t}
    /\ c_in' = [c_in EXCEPT ![t] = <<>>] /\ c_out' = [c_out EXCEPT ![t] = <<>>]
    /\ known' = [known EXCEPT ![t] = FALSE] /\ rule' = [rule EXCEPT ![t] = Cards]
    /\ UNCHANGED <<vars, opens, records>>

\* onMessageArrived takes the next message.
Arrives(t, cmd) ==
    /\ c_in[t] # <<>> /\ Head(c_in[t]).msg.cmd = cmd
    /\ c_in' = [c_in EXCEPT ![t] = Tail(@)]
    /\ UNCHANGED <<vars, connected, subscribed, rule, opens, asked, shown, out_asks, in_asks>>

\* A ping of an unknown device adds it, with the rules "*".
OnPing(t) ==
    /\ Arrives(t, "ping")
    /\ known' = [known EXCEPT ![t] = TRUE]
    /\ UNCHANGED <<c_out, decided>>

\* The tags of a key are those of the room of card c.
RoomOf(key, c) == key.body = <<c, 28>> /\ key.door = <<c, 29>>

\* processRawData finds the room's mesh, compares it with the rules chosen
\* for the device and answers.
OnRawData(t) ==
    /\ Arrives(t, "rawdata")
    /\ known' = [known EXCEPT ![t] = TRUE]
    /\ LET item == Head(c_in[t])
       IN  \E c \in Cards :
              LET answer == [ask |-> item.ask, granted |-> c \in rule[t]]
              IN  /\ RoomOf(item.msg.key, c)
                  /\ c_out' = [c_out EXCEPT ![t] = Append(@, answer)]
                  /\ decided' = Append(decided, answer)

\* processRawData throws when no mesh has those tags (none exists, or it is
\* not loaded yet); the device is added before that.
OnUnknownRoom(t) ==
    /\ Arrives(t, "rawdata")
    /\ known' = [known EXCEPT ![t] = TRUE]
    /\ UNCHANGED <<c_out, decided>>

\* jQuery.parseJSON throws.
OnNullKey(t) ==
    /\ Arrives(t, "null")
    /\ UNCHANGED <<known, c_out, decided>>

\* handleDropdownClicked and updateSelectedLocks, on a device in the list of
\* the page in charge (on others nothing comes of them).
SelectLocks(t) ==
    /\ t \in connected /\ known[t]
    /\ \E cards \in SUBSET Cards : rule' = [rule EXCEPT ![t] = cards]
    /\ UNCHANGED <<vars, links, known, opens, records>>

-----------------------------------------------------------------------------
SystemInit ==
    /\ Init
    /\ connected = {} /\ subscribed = {}
    /\ known = NoneKnown /\ rule = NoRules
    /\ c_in = NoPackets /\ c_out = NoPackets
    /\ opens = 0
    /\ asked = <<>> /\ decided = <<>> /\ shown = <<>>
    /\ out_asks = <<>> /\ in_asks = <<>>

DoorNext ==
    \/ DoorQuiet \/ DoorPings \/ DoorAsks
    \/ DoorHears \/ DoorShows \/ DoorLoses

ConsoleNext == \E t \in Tabs :
    \/ OpenPage(t) \/ OnConnect(t) \/ OnConnectionLost(t)
    \/ OnPing(t) \/ OnRawData(t) \/ OnUnknownRoom(t) \/ OnNullKey(t)
    \/ SelectLocks(t)

SystemNext == DoorNext \/ BrokerForwards \/ (\E t \in Tabs : BrokerAnswers(t)) \/ ConsoleNext

SystemSpec == SystemInit /\ [][SystemNext]_system

-----------------------------------------------------------------------------
(* Properties *)

Verdicts == [ask : Nat \ {0}, granted : BOOLEAN]

\* The type invariant; the broker has one connection for the one client id.
SystemTypeOK ==
    /\ TypeOK
    /\ \A t, u \in connected : t = u
    /\ connected \subseteq Tabs /\ subscribed \subseteq connected
    /\ known \in [Tabs -> BOOLEAN] /\ rule \in [Tabs -> SUBSET Cards]
    /\ c_in \in [Tabs -> Seq([ask : Nat, msg : Sendable])]
    /\ c_out \in [Tabs -> Seq(Verdicts)]
    /\ opens \in 0..MaxOpens
    /\ asked \in Seq(Cards)
    /\ decided \in Seq(Verdicts) /\ shown \in Seq(Verdicts)
    /\ out_asks \in Seq(Nat) /\ Len(out_asks) = Len(outbox)
    /\ in_asks \in Seq(Nat \ {0})
    /\ Len(in_asks) = Len(inbox) + (IF pc = "light" THEN 1 ELSE 0)

\* The policy in force: the rules of the page that is connected.
Policy == IF connected = {} THEN Cards ELSE rule[CHOOSE t \in connected : TRUE]

AC == INSTANCE AccessControl
      WITH policy <- Policy, open <- led_green /\ ~Booting

\* Door, broker and console together implement AccessControl: every key is
\* decided at most once and in order, by the rules of the one page in charge,
\* every verdict is shown at most once and in order, and the green lamp is lit
\* only by a verdict that grants, through lost connections, pages taken over
\* in the middle of a decision, reloads, and cards moved during a read.
ImplementsAccessControl == AC!Spec
=============================================================================

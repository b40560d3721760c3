--------------------------- MODULE DoorController ---------------------------
(***************************************************************************)
(* The firmware of one door, src/FRDM-K64F/main.cpp: the main loop (polls  *)
(* the card reader, reads two blocks of a card, publishes the key, pings   *)
(* every few seconds and then lets the MQTT client deliver what the        *)
(* console answered), the Timeout that puts the lamps out, and the serial  *)
(* receive interrupt that lights them without the console.                 *)
(*                                                                         *)
(* The card reader and the MQTT client appear through their interface:     *)
(* a reader call returns what the card in the field lets it return, and    *)
(* `session' is the client's isconnected, which a failed publish clears    *)
(* (Client::cleanSession) and nothing sets again.  An interrupt handler    *)
(* is one step, and it can run between any two steps of the main thread;   *)
(* open_door_succeed and open_door_failed, which the main thread also      *)
(* calls, are two steps there, because their two statements can be         *)
(* separated by the interrupt.                                             *)
(***************************************************************************)
EXTENDS Naturals, Sequences

CONSTANTS
    Cards,        \* the MIFARE cards that may come into the field
    NoCard,       \* an all-zero uid: no card
    LedTime,      \* the 2.0 s of led_timeout.attach, in ticks
    PingPeriod,   \* the 4 s of "time(NULL) - last_ping > 4", in ticks
    HeapBlocks,   \* how many strings of asprintf the heap holds
    MaxOut,       \* bound: packets the TCP send buffer holds
    MaxIn,        \* bound: packets waiting in the receive buffer
    MaxRx,        \* bound: the UART receive FIFO
    MaxInputs     \* bound: messages and serial characters in one behaviour

ASSUME NoCardAssumption == NoCard \notin Cards
ASSUME TimeAssumption   == LedTime \in Nat \ {0} /\ PingPeriod \in Nat
ASSUME BoundAssumption  == {HeapBlocks, MaxOut, MaxIn, MaxRx, MaxInputs} \subseteq Nat

Blocks   == {28, 29}
Unread   == <<NoCard, 0>>             \* a buffer no read has filled
Contents == (Cards \X Blocks) \cup {Unread}

\* struct s_Key; college, block and flat come from the same read and are one
\* field here, named `body'.  The value of a field is where it was read.
Key == [uid : Cards \cup {NoCard}, body : Contents, door : Contents]

Ping     == [cmd |-> "ping"]
RawData(k)  == [cmd |-> "rawdata", key |-> k]
NullKey  == [cmd |-> "null"]          \* "%s" of the NULL key_to_json returns
Sendable == {Ping, NullKey} \cup {RawData(k) : k \in Key}

\* What can arrive on the device's topic: an accessAuthentication with data
\* true or false, or a message without the members messageArrived requires.
Answers  == {"grant", "deny", "other"}
Chars    == {"1", "0", "x"}

VARIABLES
    pc,           \* where the main thread is
    uid, last_uid,
    buf,          \* main's buf, as the block it holds
    key_data,
    heap,         \* free blocks: key_to_json's string is never freed
    led_green, led_red,     \* TRUE: lit (the pins are active low)
    armed,        \* led_timeout is attached
    led_timeout,  \* ticks left until it is due, 0 when not attached
    since_ping,   \* time(NULL) - last_ping, saturating
    session,      \* client.isconnected, and with it the handler of `sub'
    lighting,     \* the lamp the main thread is about to light
    field,        \* the card in the reader's field
    link,         \* how far the reader got with that card
    up,           \* the TCP connection works
    outbox,       \* published and not yet taken by the broker
    inbox,        \* received by the TCP stack and not yet read by the client
    rx,           \* the UART receive FIFO
    inputs,       \* how many messages and characters have arrived
    tried,        \* history: the card tried since a poll reported another
    green_age,    \* history: ticks since the last command to light green
    green_limit   \* history: what green_age may reach

main    == <<pc, uid, last_uid, buf, key_data, heap, since_ping, lighting, tried>>
lamps   == <<led_green, led_red, armed, led_timeout, green_age, green_limit>>
reader  == <<field, link>>
net     == <<session, up, outbox, inbox>>
serial  == <<rx>>
vars    == <<main, lamps, reader, net, serial, inputs>>

Lit == led_green \/ led_red

-----------------------------------------------------------------------------
(* Lamps and their timeout *)

\* Names that end in _slip are no part of the model: each is the definition
\* below it with a mistake that a property of this module must notice.  Here
\* a pending timeout is prolonged instead of restarted ...
Attach_adds_slip(lamp) ==
    /\ armed' = TRUE /\ led_timeout' = led_timeout + LedTime
    /\ IF lamp = "green"
       THEN green_age' = 0 /\ green_limit' = LedTime
       ELSE green_age' = green_age /\ green_limit' = green_limit + LedTime

\* ... or left as it is.
Attach_once_slip(lamp) ==
    /\ armed' = TRUE
    /\ led_timeout' = IF armed THEN led_timeout ELSE LedTime
    /\ IF lamp = "green"
       THEN green_age' = 0 /\ green_limit' = LedTime
       ELSE green_age' = green_age /\ green_limit' = green_limit + LedTime

\* led_timeout.attach(init_door, 2.0), which re-arms a pending timeout.  The
\* two history variables: a command to light green restarts the age, any
\* other command prolongs what is already lit by one more LedTime.
Attach(lamp) ==
    /\ armed' = TRUE /\ led_timeout' = LedTime
    /\ IF lamp = "green"
       THEN green_age' = 0 /\ green_limit' = LedTime
       ELSE green_age' = green_age /\ green_limit' = green_limit + LedTime

LightUp(lamp) ==
    /\ led_green' = IF lamp = "green" THEN TRUE ELSE led_green
    /\ led_red'   = IF lamp = "red" THEN TRUE ELSE led_red

\* Slip: init_door forgets the green lamp.
LampsOff_slip == led_red' = FALSE /\ UNCHANGED led_green

\* init_door.
LampsOff == led_green' = FALSE /\ led_red' = FALSE

\* The Timeout interrupt calls init_door.
LedTimeout ==
    /\ armed /\ led_timeout = 0
    /\ armed' = FALSE
    /\ LampsOff
    /\ UNCHANGED <<main, led_timeout, green_age, green_limit, reader, net, serial, inputs>>

\* One tick of time.  A due timeout runs before time goes on, and the two
\* statements of open_door_* are straight-line code that takes no time.
Tick ==
    /\ ~(armed /\ led_timeout = 0)
    /\ pc # "light"
    /\ led_timeout' = IF armed THEN led_timeout - 1 ELSE led_timeout
    /\ since_ping'  = IF since_ping > PingPeriod THEN since_ping ELSE since_ping + 1
    /\ green_age'   = IF led_green /\ armed THEN green_age + 1 ELSE green_age
    /\ UNCHANGED <<pc, uid, last_uid, buf, key_data, heap, lighting, tried,
                   led_green, led_red, armed, green_limit, reader, net, serial, inputs>>

\* serial_rx_callback: drains the FIFO and obeys the last character only.
SerialIsr ==
    /\ rx # <<>>
    /\ rx' = <<>>
    /\ LET c    == rx[Len(rx)]
           lamp == IF c = "1" THEN "green" ELSE "red"
       IN  IF c \in {"1", "0"}
           THEN Attach(lamp) /\ LightUp(lamp)
           ELSE UNCHANGED lamps
    /\ UNCHANGED <<main, reader, net, inputs>>

-----------------------------------------------------------------------------
(* The MQTT client as main uses it *)

\* Client::publish at QoS 0.  On a lost connection TCP may still accept the
\* packet; a write that fails makes the client clean its session.
Publish(m) ==
    \/ /\ ~session
       /\ UNCHANGED <<session, outbox>>
    \/ /\ session /\ up /\ Len(outbox) < MaxOut
       /\ outbox' = Append(outbox, m)
       /\ UNCHANGED session
    \/ /\ session /\ ~up
       /\ UNCHANGED <<session, outbox>>
    \/ /\ session /\ (~up \/ Len(outbox) >= MaxOut)
       /\ session' = FALSE
       /\ UNCHANGED outbox

\* messageArrived, up to the first statement of open_door_*.  Without a
\* session there is no handler and deliverMessage drops the packet.
MessageArrived(m) ==
    IF session /\ m \in {"grant", "deny"}
    THEN LET lamp == IF m = "grant" THEN "green" ELSE "red"
         IN  /\ Attach(lamp)
             /\ lighting' = lamp
             /\ pc' = "light"
             /\ UNCHANGED <<led_green, led_red>>
    ELSE /\ pc' = "yield"
         /\ UNCHANGED <<lamps, lighting>>

-----------------------------------------------------------------------------
(* The main thread *)

Init ==
    /\ pc = "sub"
    /\ uid = NoCard /\ last_uid = NoCard
    /\ buf = Unread
    /\ key_data = [uid |-> NoCard, body |-> Unread, door |-> Unread]
    /\ heap = HeapBlocks
    /\ led_green = TRUE /\ led_red = TRUE       \* DigitalOut drives 0 first
    /\ armed = FALSE /\ led_timeout = 0
    /\ since_ping = 0
    /\ session = FALSE
    /\ lighting = "none"
    /\ field = NoCard /\ link = "none"
    /\ up \in BOOLEAN                           \* ipstack.connect, unchecked
    /\ outbox = <<>> /\ inbox = <<>> /\ rx = <<>>
    /\ inputs = 0
    /\ tried = NoCard
    /\ green_age = 0 /\ green_limit = 0

\* sub: connect then subscribe, both needed for a session; called once.
Sub ==
    /\ pc = "sub"
    /\ session' = FALSE \/ (up /\ session' = TRUE)
    /\ pc' = "init"
    /\ UNCHANGED <<uid, last_uid, buf, key_data, heap, since_ping, lighting, tried,
                   lamps, reader, up, outbox, inbox, serial, inputs>>

InitDoor ==
    /\ pc = "init"
    /\ LampsOff
    /\ pc' = "hello"
    /\ UNCHANGED <<uid, last_uid, buf, key_data, heap, since_ping, lighting, tried,
                   armed, led_timeout, green_age, green_limit, reader, net, serial, inputs>>

\* The send_ping before the loop, which leaves last_ping alone.
Hello ==
    /\ pc = "hello"
    /\ Publish(Ping)
    /\ pc' = "top"
    /\ UNCHANGED <<uid, last_uid, buf, key_data, heap, since_ping, lighting, tried,
                   lamps, reader, up, inbox, serial, inputs>>

\* The head of the loop: ping and yield when the period is over.
PingDue ==
    /\ pc = "top"
    /\ since_ping > PingPeriod
    /\ Publish(Ping)
    /\ since_ping' = 0
    /\ pc' = "cycle"
    /\ UNCHANGED <<uid, last_uid, buf, key_data, heap, lighting, tried,
                   lamps, reader, up, inbox, serial, inputs>>

PingNotDue ==
    /\ pc = "top"
    /\ since_ping <= PingPeriod
    /\ pc' = "poll"
    /\ UNCHANGED <<uid, last_uid, buf, key_data, heap, since_ping, lighting, tried,
                   lamps, reader, net, serial, inputs>>

\* One cycle of client.yield(): a packet is read and delivered.
YieldDeliver ==
    /\ pc \in {"cycle", "yield"}
    /\ inbox # <<>>
    /\ inbox' = Tail(inbox)
    /\ MessageArrived(Head(inbox))
    /\ UNCHANGED <<uid, last_uid, buf, key_data, heap, since_ping, tried,
                   reader, session, up, outbox, serial, inputs>>

\* Slip: the yield's time may be over before its first cycle.
YieldReturn_slip ==
    /\ pc \in {"cycle", "yield"}
    /\ pc' = "poll"
    /\ UNCHANGED <<uid, last_uid, buf, key_data, heap, since_ping, lighting, tried,
                   lamps, reader, net, serial, inputs>>

\* client.yield() returns: nothing to read, or its second is over (which
\* cannot be so before the first cycle).
YieldReturn ==
    /\ \/ pc = "cycle" /\ inbox = <<>>
       \/ pc = "yield"
    /\ pc' = "poll"
    /\ UNCHANGED <<uid, last_uid, buf, key_data, heap, since_ping, lighting, tried,
                   lamps, reader, net, serial, inputs>>

\* The second statement of open_door_succeed or open_door_failed.
Light ==
    /\ pc = "light"
    /\ LightUp(lighting)
    /\ lighting' = "none"
    /\ pc' = "yield"
    /\ UNCHANGED <<uid, last_uid, buf, key_data, heap, since_ping, tried,
                   armed, led_timeout, green_age, green_limit, reader, net, serial, inputs>>

\* readPassiveTargetID finds no card, or fails although there is one.
PollMiss ==
    /\ pc = "poll"
    /\ uid' = NoCard /\ last_uid' = NoCard
    /\ link' = "none"
    /\ tried' = NoCard
    /\ pc' = "top"
    /\ UNCHANGED <<buf, key_data, heap, since_ping, lighting,
                   lamps, field, net, serial, inputs>>

\* Slip: the card is not remembered.
PollHit_slip ==
    /\ pc = "poll"
    /\ field # NoCard
    /\ uid' = field
    /\ link' = "selected"
    /\ tried' = IF tried = field THEN tried ELSE NoCard
    /\ pc' = IF field = last_uid THEN "same" ELSE "auth"
    /\ UNCHANGED <<last_uid, buf, key_data, heap, since_ping, lighting,
                   lamps, field, net, serial, inputs>>

\* readPassiveTargetID selects the card in the field; it is skipped if it is
\* the last one, else remembered before anything is known about it.
PollHit ==
    /\ pc = "poll"
    /\ field # NoCard
    /\ uid' = field
    /\ link' = "selected"
    /\ tried' = IF tried = field THEN tried ELSE NoCard
    /\ IF field = last_uid
       THEN pc' = "same" /\ UNCHANGED last_uid
       ELSE pc' = "auth" /\ last_uid' = field
    /\ UNCHANGED <<buf, key_data, heap, since_ping, lighting,
                   lamps, field, net, serial, inputs>>

\* wait(0.2) on a card already handled.
SameCard ==
    /\ pc = "same"
    /\ pc' = "top"
    /\ UNCHANGED <<uid, last_uid, buf, key_data, heap, since_ping, lighting, tried,
                   lamps, reader, net, serial, inputs>>

\* mifareclassic_AuthenticateBlock of block 28.
Authenticate ==
    /\ pc = "auth"
    /\ tried' = uid
    /\ \/ link = "selected" /\ link' = "authed" /\ pc' = "read28"
       \/ link' = "none" /\ pc' = "top"
    /\ UNCHANGED <<uid, last_uid, buf, key_data, heap, since_ping, lighting,
                   lamps, field, net, serial, inputs>>

\* mifareclassic_ReadDataBlock of block 28 and the fields taken from it.
Read28 ==
    /\ pc = "read28"
    /\ \/ /\ link = "authed"
          /\ buf' = <<field, 28>>
          /\ key_data' = [uid |-> uid, body |-> buf', door |-> key_data.door]
          /\ pc' = "read29"
          /\ UNCHANGED link
       \/ link' = "none" /\ pc' = "top" /\ UNCHANGED <<buf, key_data>>
    /\ UNCHANGED <<uid, last_uid, heap, since_ping, lighting, tried,
                   lamps, field, net, serial, inputs>>

\* Slip: a failed read of block 29 is not noticed.
Read29_slip ==
    /\ pc = "read29"
    /\ pc' = "send"
    /\ \/ /\ link = "authed" /\ buf' = <<field, 29>> /\ UNCHANGED link
       \/ link' = "none" /\ UNCHANGED buf
    /\ key_data' = [uid |-> key_data.uid, body |-> key_data.body, door |-> buf']
    /\ UNCHANGED <<uid, last_uid, heap, since_ping, lighting, tried,
                   lamps, field, net, serial, inputs>>

\* mifareclassic_ReadDataBlock of block 29, the door number, taken from it.
Read29 ==
    /\ pc = "read29"
    /\ \/ /\ link = "authed"
          /\ buf' = <<field, 29>>
          /\ key_data' = [uid |-> key_data.uid, body |-> key_data.body, door |-> buf']
          /\ pc' = "send"
          /\ UNCHANGED link
       \/ link' = "none" /\ pc' = "top" /\ UNCHANGED <<buf, key_data>>
    /\ UNCHANGED <<uid, last_uid, heap, since_ping, lighting, tried,
                   lamps, field, net, serial, inputs>>

\* send_key: key_to_json allocates, whatever publish does afterwards.
SendKey ==
    /\ pc = "send"
    /\ heap' = IF heap = 0 THEN 0 ELSE heap - 1
    /\ Publish(IF heap = 0 THEN NullKey ELSE RawData(key_data))
    /\ pc' = "top"
    /\ UNCHANGED <<uid, last_uid, buf, key_data, since_ping, lighting, tried,
                   lamps, reader, up, inbox, serial, inputs>>

MainThread ==
    \/ Sub \/ InitDoor \/ Hello \/ PingDue \/ PingNotDue
    \/ YieldDeliver \/ YieldReturn \/ Light
    \/ PollMiss \/ PollHit \/ SameCard
    \/ Authenticate \/ Read28 \/ Read29 \/ SendKey

-----------------------------------------------------------------------------
(* Cards, broker and serial line *)

CardArrives ==
    /\ field = NoCard
    /\ field' \in Cards
    /\ UNCHANGED <<main, lamps, link, net, serial, inputs>>

CardLeaves ==
    /\ field # NoCard
    /\ field' = NoCard
    /\ link' = "none"
    /\ UNCHANGED <<main, lamps, net, serial, inputs>>

BrokerTakes ==
    /\ up /\ outbox # <<>>
    /\ outbox' = Tail(outbox)
    /\ UNCHANGED <<main, lamps, reader, session, up, inbox, serial, inputs>>

BrokerSends ==
    /\ up /\ session
    /\ Len(inbox) < MaxIn /\ inputs < MaxInputs
    /\ \E m \in Answers : inbox' = Append(inbox, m)
    /\ inputs' = inputs + 1
    /\ UNCHANGED <<main, lamps, reader, session, up, outbox, serial>>

LinkFails ==
    /\ up
    /\ up' = FALSE
    /\ outbox' = <<>>
    /\ UNCHANGED <<main, lamps, reader, session, inbox, serial, inputs>>

SerialReceives ==
    /\ Len(rx) < MaxRx /\ inputs < MaxInputs
    /\ \E c \in Chars : rx' = Append(rx, c)
    /\ inputs' = inputs + 1
    /\ UNCHANGED <<main, lamps, reader, net>>

Environment ==
    \/ CardArrives \/ CardLeaves \/ BrokerTakes \/ BrokerSends
    \/ LinkFails \/ SerialReceives

Next == MainThread \/ LedTimeout \/ Tick \/ SerialIsr \/ Environment

\* The processor runs the main thread and takes its interrupts; time passes.
\* Nothing is assumed of cards, broker and serial line.
Fairness ==
    /\ WF_vars(MainThread)
    /\ WF_vars(LedTimeout)
    /\ WF_vars(SerialIsr)
    /\ WF_vars(Tick)

Spec == Init /\ [][Next]_vars /\ Fairness

-----------------------------------------------------------------------------
(* Properties *)

PcValues == {"sub", "init", "hello", "top", "cycle", "yield", "light", "poll",
             "same", "auth", "read28", "read29", "send"}
Booting  == pc \in {"sub", "init"}

MainTypeOK ==
    /\ pc \in PcValues
    /\ uid \in Cards \cup {NoCard} /\ last_uid \in Cards \cup {NoCard}
    /\ buf \in Contents
    /\ key_data \in Key
    /\ heap \in 0..HeapBlocks
    /\ since_ping \in 0..(PingPeriod + 1)
    /\ lighting \in {"none", "green", "red"}
    /\ tried \in Cards \cup {NoCard}

LampTypeOK ==
    /\ led_green \in BOOLEAN /\ led_red \in BOOLEAN
    /\ armed \in BOOLEAN /\ led_timeout \in 0..LedTime
    /\ green_age \in Nat /\ green_limit \in Nat

ReaderTypeOK ==
    /\ field \in Cards \cup {NoCard}
    /\ link \in {"none", "selected", "authed"}
    /\ link # "none" => field \in Cards

NetTypeOK ==
    /\ session \in BOOLEAN /\ up \in BOOLEAN
    /\ outbox \in Seq(Sendable) /\ inbox \in Seq(Answers)
    /\ rx \in Seq(Chars) /\ inputs \in 0..MaxInputs

\* The type invariant.
TypeOK == MainTypeOK /\ LampTypeOK /\ ReaderTypeOK /\ NetTypeOK

\* Once the firmware is past init_door, a lamp is never lit without a timeout
\* pending that will put it out, although the main thread and the serial
\* interrupt attach the one Timeout and light the lamps in any interleaving.
LampsTimed == ~Booting /\ Lit => armed

\* The green lamp outlives the last command to open by at most one LedTime for
\* that command and one for every refusal or serial '0' since: open_door_failed
\* re-arms the Timeout of a lamp it does not own, and nothing else may.
GreenAgeBounded == ~Booting /\ led_green => green_age + led_timeout <= green_limit

\* Every key message carries the uid, the body and the door number of one and
\* the same card, whatever cards were moved during the four reader calls, as
\* long as the heap that key_to_json leaks into is not used up.
OfOneCard(k) == k.uid \in Cards /\ k.body = <<k.uid, 28>> /\ k.door = <<k.uid, 29>>
Sound(m)     == /\ m.cmd = "rawdata" => OfOneCard(m.key)
                /\ m.cmd = "null" => heap = 0
KeysConsistent == \A i \in 1..Len(outbox) : Sound(outbox[i])

\* A card is authenticated, and so read and published, at most once until a
\* poll misses it or reports another card: lying in the field it is not
\* published again, and it is not retried either.
TriedOncePerPresence == [][pc = "auth" /\ pc' # "auth" => tried # uid]_vars

\* What the broker delivered is consumed, whatever the reader does meanwhile:
\* every path through the loop comes back to the yield after a ping.
AnswersConsumed == inbox # <<>> ~> inbox = <<>>

\* When no more commands come, the lamps go out, also those lit at power-on.
LampsGoOut == []<>(~Lit)
=============================================================================

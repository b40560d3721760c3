----------------------------- MODULE SerialBridge -----------------------------
(***************************************************************************)
(* FDRM_serial_to_mqtt.py: the main thread publishes what the board writes *)
(* to its serial port; the network thread of the MQTT library calls        *)
(* on_message, which writes the console's verdicts to the port.  The       *)
(* global ser is all they share.  The board may be unplugged at any time;  *)
(* when it comes back it is another device.                                *)
(***************************************************************************)
EXTENDS Naturals, Sequences, FiniteSets

CONSTANTS
    MaxPlugs,       \* bound: times the board is plugged in
    MaxLines,       \* bound: lines it writes
    MaxVerdicts     \* bound: verdicts the broker delivers

ASSUME BridgeAssumption == {MaxPlugs, MaxLines, MaxVerdicts} \subseteq Nat

VARIABLES
    main,           \* where the main thread is
    ser,            \* which device the global is open on; 0 before it is assigned
    s,              \* the last line read; Unset before, Blank for a timeout
    device,         \* the device now plugged in; 0 for none
    plugs, uart,    \* devices so far; lines written and not yet read
    lines,          \* lines written so far
    published,      \* what was published
    reopened,       \* how often the port was opened again
    netAlive,       \* the network thread runs
    verdicts,       \* verdicts not yet handled, in the order they came
    delivered,          \* how many came
    written         \* verdicts that reached the board

port == <<device, plugs, uart, lines>>
net == <<netAlive, verdicts, delivered, written>>
bridgeVars == <<main, ser, s, port, published, reopened, net>>

Blank == 0
Unset == MaxLines + 1

BridgeInit ==
    /\ main = "open" /\ ser = 0 /\ s = Unset
    /\ device = 0 /\ plugs = 0 /\ uart = <<>> /\ lines = 0
    /\ published = <<>> /\ reopened = 0
    /\ netAlive = TRUE /\ verdicts = <<>> /\ delivered = 0 /\ written = <<>>

Works == ser # 0 /\ ser = device

-----------------------------------------------------------------------------
(* The main thread *)

\* get_serial_fd, for the first time.
OpenPort ==
    /\ main = "open" /\ device # 0
    /\ ser' = device /\ main' = "read"
    /\ UNCHANGED <<s, port, published, reopened, net>>

\* readline returns a line, or what has come of one after its timeout.
ReadLine ==
    /\ main = "read" /\ Works
    /\ IF uart = <<>> THEN s' = Blank /\ UNCHANGED uart
       ELSE s' = Head(uart) /\ uart' = Tail(uart)
    /\ main' = "publish"
    /\ UNCHANGED <<ser, device, plugs, lines, published, reopened, net>>

\* readline raises; the exception handler waits for a device.
ReadFails ==
    /\ main = "read" /\ ~Works
    /\ main' = "reopen"
    /\ UNCHANGED <<ser, s, port, published, reopened, net>>

\* The device is open again.  The handler falls through to the publication of
\* s, which is still the line before, or raises because there is none, and
\* the process ends with its daemon thread.
Reopen ==
    /\ main = "reopen" /\ device # 0
    /\ ser' = device /\ reopened' = reopened + 1
    /\ main' = IF s = Unset THEN "dead" ELSE "publish"
    /\ netAlive' = (netAlive /\ s # Unset)
    /\ UNCHANGED <<s, port, published, verdicts, delivered, written>>

\* Slip: a line is published until the next can be read.
PublishLine_slip ==
    /\ main = "publish"
    /\ published' = IF s = Blank THEN published ELSE Append(published, s)
    /\ main' = IF uart = <<>> THEN "publish" ELSE "read"
    /\ UNCHANGED <<ser, s, port, reopened, net>>

\* mqttc.publish; what is published of a timeout is not recorded here.
PublishLine ==
    /\ main = "publish"
    /\ published' = IF s = Blank THEN published ELSE Append(published, s)
    /\ main' = "read"
    /\ UNCHANGED <<ser, s, port, reopened, net>>

-----------------------------------------------------------------------------
(* The network thread *)

\* Slip: on_message swallows what ser.write raises.
OnMessage_slip ==
    /\ netAlive /\ verdicts # <<>>
    /\ verdicts' = Tail(verdicts)
    /\ written' = IF Works THEN Append(written, Head(verdicts)) ELSE written
    /\ UNCHANGED <<main, ser, s, port, published, reopened, netAlive, delivered>>

\* on_message writes to the port that ser names just now.  Before it is
\* assigned, or when its device has gone, that raises, and the thread ends.
OnMessage ==
    /\ netAlive /\ verdicts # <<>>
    /\ IF Works
       THEN /\ verdicts' = Tail(verdicts) /\ written' = Append(written, Head(verdicts))
            /\ UNCHANGED netAlive
       ELSE netAlive' = FALSE /\ UNCHANGED <<verdicts, written>>
    /\ UNCHANGED <<main, ser, s, port, published, reopened, delivered>>

-----------------------------------------------------------------------------
(* Board and broker *)

PlugIn ==
    /\ device = 0 /\ plugs < MaxPlugs
    /\ plugs' = plugs + 1 /\ device' = plugs' /\ uart' = <<>>
    /\ UNCHANGED <<main, ser, s, lines, published, reopened, net>>

Unplug ==
    /\ device # 0 /\ device' = 0 /\ uart' = <<>>
    /\ UNCHANGED <<main, ser, s, plugs, lines, published, reopened, net>>

BoardWrites ==
    /\ device # 0 /\ lines < MaxLines
    /\ lines' = lines + 1 /\ uart' = Append(uart, lines')
    /\ UNCHANGED <<main, ser, s, device, plugs, published, reopened, net>>

BrokerDelivers ==
    /\ delivered < MaxVerdicts
    /\ delivered' = delivered + 1 /\ verdicts' = Append(verdicts, delivered')
    /\ UNCHANGED <<main, ser, s, port, published, reopened, netAlive, written>>

BridgeMain == OpenPort \/ ReadLine \/ ReadFails \/ Reopen \/ PublishLine

BridgeNext ==
    \/ BridgeMain \/ OnMessage
    \/ PlugIn \/ Unplug \/ BoardWrites \/ BrokerDelivers

BridgeSpec == BridgeInit /\ [][BridgeNext]_bridgeVars

-----------------------------------------------------------------------------
(* Properties *)

\* What is published never goes back behind a line already published: a line
\* comes again only as the line just published, and only when the port was
\* opened again.
RepeatedOnlyAfterReopen ==
    /\ \A i \in 2..Len(published) : published[i - 1] <= published[i]
    /\ Cardinality({i \in 2..Len(published) : published[i] = published[i - 1]}) <= reopened

\* Verdicts reach the board in the order they were given, none twice and none
\* left out, until the network thread has ended: that happens only to a
\* verdict that found no port.
VerdictsInOrder ==
    /\ written = [i \in 1..Len(written) |-> i]
    /\ netAlive => Len(written) + Len(verdicts) = delivered

\* Both directions of the bridge.
LinesAndVerdictsInOrder == RepeatedOnlyAfterReopen /\ VerdictsInOrder
=============================================================================

----------------------------- MODULE MqttClient -----------------------------
(***************************************************************************)
(* The MQTT session of a door: MQTT::Client of src/FRDM-K64F/MQTT/         *)
(* MQTTClient.h over one TCP connection to a broker.                       *)
(*                                                                         *)
(* The client is single-threaded and blocking.  A call of its API is a     *)
(* sequence of steps: the call itself up to its sendPacket, then the       *)
(* cycles in which waitfor or yield take one packet each off the wire,     *)
(* then what the call does with the packet it waited for, or with the      *)
(* expiry of its timer.  Broker and network move between those steps.      *)
(*                                                                         *)
(* The broker is external: it is what the client's code expects of one     *)
(* (one answer per request, in order; a second CONNECT or a request before *)
(* CONNECT closes the connection; QoS 1 and 2 retransmit until             *)
(* acknowledged).  Topics are exact names.                                 *)
(***************************************************************************)
EXTENDS Integers, Sequences, FiniteSets

CONSTANTS
    Topics, NoTopic,
    MaxPacketId,    \* MAX_PACKET_ID
    MaxIncoming,    \* MAX_INCOMING_QOS2_MESSAGES
    Cap,            \* bound: packets in one direction of the connection
    Setups          \* the clients there are, one per behaviour

\* What a client is compiled and called with: the header sees MQTTCLIENT_QOS2
\* = 1; cleansession and keepAliveInterval > 0 of every connect;
\* MAX_MESSAGE_HANDLERS; the QoS levels client and publishers use; whether its
\* application ever opens a second connection.  Bounds on its API calls and
\* new connections, on the messages the broker publishes to it, and on
\* connection failures, refusals and retransmissions.
Setup == [qos2 : BOOLEAN, cleansession : BOOLEAN, keepAlive : BOOLEAN, handlers : Nat,
          qos : SUBSET (0..2), reconnects : BOOLEAN,
          calls : Nat, sent : Nat, faults : Nat, topics : SUBSET Topics]

ASSUME TopicAssumption == NoTopic \notin Topics
ASSUME SizeAssumption  == MaxIncoming \in Nat /\ MaxPacketId \in Nat \ {0} /\ Cap \in Nat
ASSUME SetupAssumption == Setups \subseteq Setup

VARIABLE setup

QOS2         == setup.qos2
CleanSession == setup.cleansession
KeepAlive    == setup.keepAlive
MaxHandlers  == setup.handlers
QosUsed      == setup.qos
Reconnects   == setup.reconnects
MaxCalls     == setup.calls
MaxSent      == setup.sent
MaxFaults    == setup.faults
TopicsUsed   == setup.topics

SUCCESS == 0
FAILURE == -1
Refused == 128          \* a SUBACK's 0x80

AckTypes    == {"CONNACK", "PUBACK", "SUBACK", "UNSUBACK", "PUBREC", "PUBREL",
                "PUBCOMP", "PINGRESP"}
PacketTypes == AckTypes \cup {"CONNECT", "PUBLISH", "SUBSCRIBE", "UNSUBSCRIBE",
                              "PINGREQ", "DISCONNECT"}
Ids         == 0..MaxPacketId
Codes       == (0..2) \cup {5, Refused}

\* A packet: id 0 where MQTT has none, `code' the QoS, the CONNACK's return
\* code or the granted QoS, `msg' the number of an application message.
Packet == [type : PacketTypes, id : Ids, code : Codes,
           topic : Topics \cup {NoTopic}, msg : Nat]
Ack(type, id, code) ==
    [type |-> type, id |-> id, code |-> code, topic |-> NoTopic, msg |-> 0]
Request(type, id, topic, q) ==
    [type |-> type, id |-> id, code |-> q, topic |-> topic, msg |-> 0]
Pub(id, q, topic, n) ==
    [type |-> "PUBLISH", id |-> id, code |-> q, topic |-> topic, msg |-> n]

Slots    == 1..MaxHandlers
Incoming == 1..MaxIncoming
NoHandlers == [i \in Slots |-> NoTopic]
NoIncoming == [i \in Incoming |-> 0]
NoInflight == Pub(0, 0, NoTopic, 0)
NoCall     == [op |-> "none", at |-> "idle", wait |-> "PINGRESP",
               req |-> NoInflight, got |-> NoInflight]

VARIABLES
    isconnected, messageHandlers, ping_outstanding, packetid,
    inflight,             \* pubbuf with inflightMsgid (its id) and inflightQoS
    incomingQoS2messages,
    sent_due, received_due,   \* last_sent, last_received have expired
    call,                 \* the API call in progress
    ret,                  \* the last call that returned, and its code
    up, c2s, s2c,         \* the TCP connection and what it carries
    b_connected,          \* the broker has accepted a CONNECT on it
    b_subs,               \* granted QoS per topic, -1 when not subscribed
    b_out,                \* QoS 1 and 2 messages it has not completed
    b_held,               \* QoS 2 messages of the client not yet released
    calls, sent, faults,  \* the bounds' counters; sent numbers messages
    received,             \* history: client messages the broker took over
    delivered             \* history: handler calls per broker message

session == <<isconnected, messageHandlers, ping_outstanding, inflight,
             incomingQoS2messages>>
timers  == <<sent_due, received_due>>
network == <<up, c2s, s2c>>
broker  == <<b_connected, b_subs, b_out, b_held>>
history == <<received, delivered>>
vars    == <<session, packetid, timers, call, ret, network, broker,
             calls, sent, faults, history>>

-----------------------------------------------------------------------------
(* Pieces of the client *)

\* PacketId::getNext: 0 stands for no id.
NextId(id) == IF id = MaxPacketId THEN 1 ELSE id + 1

\* Slip: the session is cleaned and the client stays connected.
CleanUp_slip ==
    /\ UNCHANGED isconnected
    /\ messageHandlers' = NoHandlers
    /\ ping_outstanding' = FALSE
    /\ inflight' = NoInflight
    /\ incomingQoS2messages' = NoIncoming

\* cleanSession.
CleanUp ==
    /\ isconnected' = FALSE
    /\ messageHandlers' = NoHandlers
    /\ ping_outstanding' = FALSE
    /\ inflight' = NoInflight
    /\ incomingQoS2messages' = NoIncoming

\* sendPacket: TCP takes the packet, into the connection or, when that has
\* failed unnoticed, into nothing; or the write fails or stays blocked until
\* the timer has expired.
Sent(p) ==
    /\ IF up THEN Len(c2s) < Cap /\ c2s' = Append(c2s, p) ELSE c2s' = c2s
    /\ sent_due' = FALSE
SendFails ==
    /\ ~up \/ Len(c2s) >= Cap
    /\ UNCHANGED <<c2s, sent_due>>

\* keepalive: at most one PINGREQ outstanding; a failure is ignored.
Keepalive(sentDue, recvDue, outstanding) ==
    IF KeepAlive /\ (sentDue \/ recvDue) /\ ~outstanding
    THEN \/ Sent(Ack("PINGREQ", 0, 0)) /\ ping_outstanding' = TRUE
         \/ SendFails /\ ping_outstanding' = FALSE
    ELSE /\ ping_outstanding' = outstanding
         /\ UNCHANGED <<c2s, sent_due>>

Return(op, rc, req) ==
    /\ call' = NoCall
    /\ ret' = [op |-> op, rc |-> rc, req |-> req]

Waiting(op, type, req) ==
    /\ call' = [op |-> op, at |-> "wait", wait |-> type, req |-> req, got |-> NoInflight]
    /\ UNCHANGED ret

Calling == call.at = "idle" /\ calls < MaxCalls /\ calls' = calls + 1

-----------------------------------------------------------------------------
(* The calls, up to their request *)

Connect ==
    /\ Calling
    /\ \/ isconnected /\ Return("connect", FAILURE, NoInflight) /\ UNCHANGED <<timers, c2s>>
       \/ /\ ~isconnected /\ Sent(Request("CONNECT", 0, NoTopic, 0))
          /\ received_due' = FALSE
          /\ Waiting("connect", "CONNACK", NoInflight)
       \/ /\ ~isconnected /\ SendFails /\ UNCHANGED received_due
          /\ Return("connect", FAILURE, NoInflight)
    /\ UNCHANGED <<session, packetid, up, s2c, broker, sent, faults, history>>

\* subscribe and unsubscribe share their shape: without a connection, and
\* when the request cannot be sent, they clean the session.
AskFor(op, type, answer, topic, q) ==
    /\ Calling
    /\ packetid' = IF isconnected THEN NextId(packetid) ELSE packetid
    /\ LET p == Request(type, packetid', topic, q)
       IN  \/ isconnected /\ Sent(p) /\ Waiting(op, answer, p) /\ UNCHANGED session
           \/ /\ IF isconnected THEN SendFails ELSE UNCHANGED <<c2s, sent_due>>
              /\ CleanUp /\ Return(op, FAILURE, p)
    /\ UNCHANGED <<received_due, up, s2c, broker, sent, faults, history>>

Subscribe(topic, q) == AskFor("subscribe", "SUBSCRIBE", "SUBACK", topic, q)
Unsubscribe(topic)  == AskFor("unsubscribe", "UNSUBSCRIBE", "UNSUBACK", topic, 0)

\* The private publish.  Only QoS 1 waits: the branch that waits for the
\* PUBCOMP of QoS 2 is the "#elif" of the one for QoS 1.  A send that fails
\* cleans the session.  `kept' is what pubbuf holds from now on.  connect
\* publishes too, and is connected when that returns SUCCESS.
PublishPacket(op, p, kept) ==
    \/ /\ Sent(p)
       /\ inflight' = kept
       /\ isconnected' = (isconnected \/ p.code # 1)
       /\ UNCHANGED <<messageHandlers, ping_outstanding, incomingQoS2messages>>
       /\ IF p.code = 1 THEN Waiting(op, "PUBACK", p) ELSE Return(op, SUCCESS, p)
    \/ SendFails /\ CleanUp /\ Return(op, FAILURE, p)

\* The public publish; the packet is stored unless sessions are clean.
Publish(topic, q) ==
    /\ Calling
    /\ packetid' = IF isconnected /\ q > 0 THEN NextId(packetid) ELSE packetid
    /\ LET p == Pub(IF isconnected /\ q > 0 THEN packetid' ELSE 0, q, topic, calls')
       IN  IF isconnected
           THEN PublishPacket("publish", p, IF CleanSession THEN inflight ELSE p)
           ELSE Return("publish", FAILURE, p) /\ UNCHANGED <<session, c2s, sent_due>>
    /\ UNCHANGED <<received_due, up, s2c, broker, sent, faults, history>>

\* disconnect, whatever became of its packet.
Disconnect ==
    /\ Calling
    /\ \/ Sent(Request("DISCONNECT", 0, NoTopic, 0)) /\ Return("disconnect", SUCCESS, NoInflight)
       \/ SendFails /\ Return("disconnect", FAILURE, NoInflight)
    /\ IF CleanSession THEN CleanUp
       ELSE /\ isconnected' = FALSE
            /\ UNCHANGED <<messageHandlers, ping_outstanding, inflight, incomingQoS2messages>>
    /\ UNCHANGED <<packetid, received_due, up, s2c, broker, sent, faults, history>>

Yield ==
    /\ Calling
    /\ Waiting("yield", "PINGREQ", NoInflight)      \* a type it never receives
    /\ UNCHANGED <<session, packetid, timers, network, broker, sent, faults, history>>

-----------------------------------------------------------------------------
(* cycle *)

\* What waitfor and yield make of a cycle: waitfor ends with the type it
\* waits for and ignores failures, yield ends with a failure.
AfterCycle(p, failed) ==
    \/ /\ call.op = "yield" /\ failed
       /\ Return("yield", FAILURE, NoInflight)
    \/ /\ ~failed /\ p.type = call.wait
       /\ call' = [call EXCEPT !.at = "got", !.got = p] /\ UNCHANGED ret
    \/ /\ IF failed THEN call.op # "yield" ELSE p.type # call.wait
       /\ UNCHANGED <<call, ret>>

\* The same timer bounds the answer a cycle sends: when it expires between the
\* read and the sendPacket, nothing is sent and the call is over.
AnswerTooLate ==
    /\ UNCHANGED <<c2s, sent_due>>
    /\ IF call.op = "yield"
       THEN Return("yield", FAILURE, NoInflight)
       ELSE call' = [call EXCEPT !.at = "expired"] /\ UNCHANGED ret

ReadPacket ==
    /\ call.at = "wait" /\ s2c # <<>>
    /\ s2c' = Tail(s2c)
    /\ received_due' = FALSE

\* Packets the switch of cycle does nothing about, and PINGRESP.  Without
\* MQTTCLIENT_QOS2 it has no case for PUBREC, PUBREL and PUBCOMP.
CycleAck == LET p == Head(s2c) IN
    /\ ReadPacket
    /\ p.type \in AckTypes
    /\ ~(QOS2 /\ p.type \in {"PUBREC", "PUBREL"})
    /\ Keepalive(sent_due, FALSE, ping_outstanding /\ p.type # "PINGRESP")
    /\ AfterCycle(p, FALSE)
    /\ UNCHANGED <<isconnected, messageHandlers, inflight, incomingQoS2messages,
                   packetid, up, broker, calls, sent, faults, history>>

\* PUBREC is answered by PUBREL; PUBREL by PUBCOMP, and its id is freed.
CycleRelease == LET p == Head(s2c) IN
    /\ ReadPacket
    /\ QOS2 /\ p.type \in {"PUBREC", "PUBREL"}
    /\ LET answer == IF p.type = "PUBREC" THEN "PUBREL" ELSE "PUBCOMP"
       IN  \/ /\ Sent(Ack(answer, p.id, 0))
              /\ incomingQoS2messages' = [i \in Incoming |->
                     IF p.type = "PUBREL" /\ incomingQoS2messages[i] = p.id
                     THEN 0 ELSE incomingQoS2messages[i]]
              /\ AfterCycle(p, FALSE)
           \/ /\ UNCHANGED incomingQoS2messages
              /\ (SendFails /\ AfterCycle(p, TRUE)) \/ AnswerTooLate
    /\ UNCHANGED <<isconnected, messageHandlers, ping_outstanding, inflight,
                   packetid, up, broker, calls, sent, faults, history>>

\* deliverMessage calls the handler of every slot with the message's topic.
Deliver(p) ==
    delivered' = [delivered EXCEPT ![p.msg] =
                      @ + Cardinality({i \in Slots : messageHandlers[i] = p.topic})]

\* A QoS 2 message is delivered when its id is new and a slot takes it.
KnownId_never_slip(id) == FALSE
KnownId_any_slip(id)   == \E i \in Incoming : incomingQoS2messages[i] # 0
KnownId(id)  == \E i \in Incoming : incomingQoS2messages[i] = id
FreeSlots    == {i \in Incoming : incomingQoS2messages[i] = 0}
Remember(id) ==
    LET first == CHOOSE i \in FreeSlots : \A j \in FreeSlots : i <= j
    IN  incomingQoS2messages' = [incomingQoS2messages EXCEPT ![first] = id]

CyclePublish == LET p == Head(s2c) IN
    /\ ReadPacket
    /\ p.type = "PUBLISH"
    /\ IF QOS2 /\ p.code = 2
       THEN IF ~KnownId(p.id) /\ FreeSlots # {}
            THEN Remember(p.id) /\ Deliver(p)
            ELSE UNCHANGED <<incomingQoS2messages, delivered>>
       ELSE Deliver(p) /\ UNCHANGED incomingQoS2messages
    /\ IF p.code = 0
       THEN Keepalive(sent_due, FALSE, ping_outstanding) /\ AfterCycle(p, FALSE)
       ELSE /\ UNCHANGED ping_outstanding
            /\ \/ /\ Sent(Ack(IF p.code = 1 THEN "PUBACK" ELSE "PUBREC", p.id, 0))
                  /\ AfterCycle(p, FALSE)
               \/ SendFails /\ AfterCycle(p, TRUE)
               \/ AnswerTooLate
    /\ UNCHANGED <<isconnected, messageHandlers, inflight, packetid, up, broker,
                   calls, sent, faults, received>>

\* readPacket got nothing before the timer, or the connection is gone.
CycleFails ==
    /\ call.at = "wait" /\ s2c = <<>>
    /\ Keepalive(sent_due, received_due, ping_outstanding)
    /\ AfterCycle(NoInflight, TRUE)
    /\ UNCHANGED <<isconnected, messageHandlers, inflight, incomingQoS2messages, packetid,
                   received_due, up, s2c, broker, calls, sent, faults, history>>

\* Slip: waitfor does not look at its timer.
Expire_slip ==
    /\ call.at = "wait" /\ call.op = "yield"
    /\ Return("yield", SUCCESS, NoInflight)
    /\ UNCHANGED <<session, packetid, timers, network, broker, calls, sent, faults, history>>

\* The call's timer: yield is done, a waitfor has failed.
Expire ==
    /\ call.at = "wait"
    /\ IF call.op = "yield"
       THEN Return("yield", SUCCESS, NoInflight)
       ELSE call' = [call EXCEPT !.at = "expired"] /\ UNCHANGED ret
    /\ UNCHANGED <<session, packetid, timers, network, broker, calls, sent, faults, history>>

-----------------------------------------------------------------------------
(* The calls, after their answer *)

Done(op, answer) == call.op = op /\ call.wait = answer /\ call.at \in {"got", "expired"}
Answered_slip == call.at \in {"got", "expired"}
Answered == call.at = "got"

\* The CONNACK's return code.
Accepted_slip == Answered
Accepted == Answered /\ call.got.code = 0

\* connect takes the CONNACK's code; whatever that was, it then publishes a
\* stored message again and returns what that returned.  Without a CONNACK
\* the timer of that publish has expired already, and it sends nothing.
FinishConnect ==
    /\ Done("connect", "CONNACK")
    /\ \/ inflight.id > 0 /\ Answered /\ PublishPacket("connect", inflight, inflight)
       \/ /\ inflight.id > 0 /\ ~Answered
          /\ CleanUp /\ Return("connect", FAILURE, inflight)
          /\ UNCHANGED <<c2s, sent_due>>
       \/ /\ inflight.id = 0
          /\ isconnected' = Accepted
          /\ Return("connect", IF Answered THEN call.got.code ELSE FAILURE, NoInflight)
          /\ UNCHANGED <<messageHandlers, ping_outstanding, inflight,
                         incomingQoS2messages, c2s, sent_due>>
    /\ UNCHANGED <<packetid, received_due, up, s2c, broker, calls, sent, faults, history>>

\* subscribe does not look at the SUBACK's id.  Without a free slot it
\* returns the granted QoS and, unless that is 0, cleans the session.
FinishSubscribe ==
    /\ Done("subscribe", "SUBACK")
    /\ LET free  == {i \in Slots : messageHandlers[i] = NoTopic}
           first == CHOOSE i \in free : \A j \in free : i <= j
           code  == IF Answered THEN call.got.code ELSE FAILURE
       IN  IF Answered /\ code # Refused /\ free # {}
           THEN /\ messageHandlers' = [messageHandlers EXCEPT ![first] = call.req.topic]
                /\ Return("subscribe", SUCCESS, call.req)
                /\ UNCHANGED <<isconnected, ping_outstanding, inflight, incomingQoS2messages>>
           ELSE /\ IF code # SUCCESS THEN CleanUp ELSE UNCHANGED session
                /\ Return("subscribe", code, call.req)
    /\ UNCHANGED <<packetid, timers, network, broker, calls, sent, faults, history>>

FinishUnsubscribe ==
    /\ Done("unsubscribe", "UNSUBACK")
    /\ LET mine  == {i \in Slots : messageHandlers[i] = call.req.topic}
           first == CHOOSE i \in mine : \A j \in mine : i <= j
       IN  IF Answered
           THEN /\ messageHandlers' = [i \in Slots |-> IF mine # {} /\ i = first THEN NoTopic
                                                       ELSE messageHandlers[i]]
                /\ Return("unsubscribe", SUCCESS, call.req)
                /\ UNCHANGED <<isconnected, ping_outstanding, inflight, incomingQoS2messages>>
           ELSE CleanUp /\ Return("unsubscribe", FAILURE, call.req)
    /\ UNCHANGED <<packetid, timers, network, broker, calls, sent, faults, history>>

\* A PUBACK clears inflightMsgid if it is for that id, and ends the wait in
\* any case; without one the session is cleaned.
FinishPublish ==
    /\ Done(call.op, "PUBACK")
    /\ IF Answered
       THEN /\ inflight' = IF inflight.id = call.got.id THEN [inflight EXCEPT !.id = 0] ELSE inflight
            /\ isconnected' = TRUE
            /\ Return(call.op, SUCCESS, call.req)
            /\ UNCHANGED <<messageHandlers, ping_outstanding, incomingQoS2messages>>
       ELSE CleanUp /\ Return(call.op, FAILURE, call.req)
    /\ UNCHANGED <<packetid, timers, network, broker, calls, sent, faults, history>>

-----------------------------------------------------------------------------
(* The network, and time *)

\* The broker's side of a connection that ends; a clean session ends with it.
BrokerCloses ==
    /\ b_connected' = FALSE
    /\ IF CleanSession
       THEN b_subs' = [t \in Topics |-> -1] /\ b_out' = {} /\ b_held' = {}
       ELSE UNCHANGED <<b_subs, b_out, b_held>>

\* The connection fails: what the client's TCP already has it may still read.
ConnectionFails ==
    /\ up /\ faults < MaxFaults
    /\ up' = FALSE
    /\ c2s' = <<>>
    /\ s2c' \in {SubSeq(s2c, 1, k) : k \in 0..Len(s2c)}
    /\ BrokerCloses
    /\ faults' = faults + 1
    /\ UNCHANGED <<session, packetid, timers, call, ret, calls, sent, history>>

\* ipstack.connect, on a client that is not connected, as its constructor and
\* connect ask for: a new TCP connection, and the old one is gone.
NewConnection ==
    /\ Calling /\ ~isconnected /\ Reconnects
    /\ up' = TRUE /\ c2s' = <<>> /\ s2c' = <<>>
    /\ BrokerCloses
    /\ UNCHANGED <<session, packetid, timers, call, ret, sent, faults, history>>

\* The keep-alive interval passes without sending or without receiving.
SendingDue ==
    /\ KeepAlive /\ ~sent_due
    /\ sent_due' = TRUE
    /\ UNCHANGED <<session, packetid, received_due, call, ret, network, broker,
                   calls, sent, faults, history>>
ReceivingDue ==
    /\ KeepAlive /\ ~received_due
    /\ received_due' = TRUE
    /\ UNCHANGED <<session, packetid, sent_due, call, ret, network, broker,
                   calls, sent, faults, history>>

-----------------------------------------------------------------------------
(* The broker *)

Takes(type) == up /\ c2s # <<>> /\ Head(c2s).type = type /\ c2s' = Tail(c2s)
Answers(p) == Len(s2c) < Cap /\ s2c' = Append(s2c, p)
ClientSide == <<session, packetid, timers, call, ret, up, calls, sent, delivered>>

BrokerAccepts == LET p == Head(c2s) IN
    /\ Takes("CONNECT") /\ ~b_connected
    /\ \/ /\ Answers(Ack("CONNACK", 0, 0)) /\ b_connected' = TRUE
          /\ UNCHANGED faults
       \/ /\ Answers(Ack("CONNACK", 0, 5)) /\ UNCHANGED b_connected
          /\ faults < MaxFaults /\ faults' = faults + 1
    /\ UNCHANGED <<ClientSide, b_subs, b_out, b_held, received>>

\* DISCONNECT, and what the protocol does not allow, close the connection.
BrokerHangsUp == LET p == Head(c2s) IN
    /\ up /\ c2s # <<>>
    /\ p.type = "DISCONNECT" \/ (b_connected <=> p.type = "CONNECT")
    /\ up' = FALSE /\ c2s' = <<>>
    /\ BrokerCloses
    /\ UNCHANGED <<session, packetid, timers, call, ret, s2c, calls, sent, faults, history>>

BrokerSubscribes == LET p == Head(c2s) IN
    /\ Takes("SUBSCRIBE") /\ b_connected
    /\ \/ /\ b_subs' = [b_subs EXCEPT ![p.topic] = p.code]
          /\ Answers(Ack("SUBACK", p.id, p.code)) /\ UNCHANGED faults
       \/ /\ UNCHANGED b_subs /\ Answers(Ack("SUBACK", p.id, Refused))
          /\ faults < MaxFaults /\ faults' = faults + 1
    /\ UNCHANGED <<ClientSide, b_connected, b_out, b_held, received>>

BrokerUnsubscribes == LET p == Head(c2s) IN
    /\ Takes("UNSUBSCRIBE") /\ b_connected
    /\ b_subs' = [b_subs EXCEPT ![p.topic] = -1]
    /\ Answers(Ack("UNSUBACK", p.id, 0))
    /\ UNCHANGED <<ClientSide, b_connected, b_out, b_held, faults, received>>

\* A message of the client: QoS 2 is held until its PUBREL.
BrokerReceives == LET p == Head(c2s) IN
    /\ Takes("PUBLISH") /\ b_connected
    /\ received' = IF p.code < 2 THEN received \cup {p.msg} ELSE received
    /\ b_held' = IF p.code = 2 THEN b_held \cup {[id |-> p.id, msg |-> p.msg]} ELSE b_held
    /\ CASE p.code = 0 -> UNCHANGED s2c
         [] p.code = 1 -> Answers(Ack("PUBACK", p.id, 0))
         [] p.code = 2 -> Answers(Ack("PUBREC", p.id, 0))
    /\ UNCHANGED <<ClientSide, b_connected, b_subs, b_out, faults>>

BrokerReleases == LET p == Head(c2s) IN
    /\ Takes("PUBREL") /\ b_connected
    /\ received' = received \cup {m.msg : m \in {h \in b_held : h.id = p.id}}
    /\ b_held' = {h \in b_held : h.id # p.id}
    /\ Answers(Ack("PUBCOMP", p.id, 0))
    /\ UNCHANGED <<ClientSide, b_connected, b_subs, b_out, faults>>

BrokerAnswersPing == LET p == Head(c2s) IN
    /\ Takes("PINGREQ") /\ b_connected
    /\ Answers(Ack("PINGRESP", 0, 0))
    /\ UNCHANGED <<ClientSide, broker, faults, received>>

\* An acknowledgement: PUBREC moves a QoS 2 message on to PUBREL, PUBACK and
\* PUBCOMP complete one.
BrokerAcked == LET p == Head(c2s) IN
    /\ \E type \in {"PUBACK", "PUBREC", "PUBCOMP"} : Takes(type)
    /\ b_connected
    /\ LET completes(m) == IF p.type = "PUBACK" THEN m.pub.code = 1
                          ELSE m.pub.code = 2 /\ (p.type = "PUBCOMP" => m.rel)
           mine == {m \in b_out : m.pub.id = p.id /\ completes(m)}
       IN  IF p.type = "PUBREC"
           THEN /\ b_out' = (b_out \ mine) \cup {[m EXCEPT !.rel = TRUE] : m \in mine}
                /\ Answers(Ack("PUBREL", p.id, 0))
           ELSE b_out' = b_out \ mine /\ UNCHANGED s2c
    /\ UNCHANGED <<ClientSide, b_connected, b_subs, b_held, faults, received>>

\* Somebody publishes on a topic the client is subscribed to.
BrokerPublishes == \E t \in TopicsUsed, q \in QosUsed :
    /\ up /\ b_connected /\ sent < MaxSent /\ q <= b_subs[t]
    /\ \E id \in IF q = 0 THEN {0} ELSE Ids \ ({0} \cup {m.pub.id : m \in b_out}) :
        LET p == Pub(id, q, t, sent + 1)
        IN  /\ Answers(p)
            /\ b_out' = IF q = 0 THEN b_out ELSE b_out \cup {[pub |-> p, rel |-> FALSE]}
    /\ sent' = sent + 1
    /\ UNCHANGED <<session, packetid, timers, call, ret, up, c2s, b_connected, b_subs,
                   b_held, calls, faults, history>>

\* retry_interval, or a session taken up again: what is not complete is sent
\* again, from where it stands.
BrokerRetries == \E m \in b_out :
    /\ up /\ b_connected /\ faults < MaxFaults
    /\ Answers(IF m.rel THEN Ack("PUBREL", m.pub.id, 0) ELSE m.pub)
    /\ faults' = faults + 1
    /\ UNCHANGED <<session, packetid, timers, call, ret, up, c2s, broker, calls, sent, history>>

-----------------------------------------------------------------------------
Init ==
    /\ setup \in Setups
    /\ isconnected = FALSE /\ messageHandlers = NoHandlers
    /\ ping_outstanding = FALSE /\ packetid = 0
    /\ inflight = NoInflight /\ incomingQoS2messages = NoIncoming
    /\ sent_due = FALSE /\ received_due = FALSE
    /\ call = NoCall
    /\ ret = [op |-> "none", rc |-> SUCCESS, req |-> NoInflight]
    /\ up = TRUE /\ c2s = <<>> /\ s2c = <<>>
    /\ b_connected = FALSE /\ b_subs = [t \in Topics |-> -1]
    /\ b_out = {} /\ b_held = {}
    /\ calls = 0 /\ sent = 0 /\ faults = 0
    /\ received = {} /\ delivered = [n \in 1..MaxSent |-> 0]

Application ==
    \/ Connect \/ Disconnect \/ Yield \/ NewConnection
    \/ \E t \in TopicsUsed : Unsubscribe(t)
    \/ \E t \in TopicsUsed, q \in QosUsed : Subscribe(t, q) \/ Publish(t, q)

Cycle  == CycleAck \/ CycleRelease \/ CyclePublish \/ CycleFails
Finish == FinishConnect \/ FinishSubscribe \/ FinishUnsubscribe \/ FinishPublish

Broker ==
    \/ BrokerAccepts \/ BrokerHangsUp \/ BrokerSubscribes \/ BrokerUnsubscribes
    \/ BrokerReceives \/ BrokerReleases \/ BrokerAnswersPing \/ BrokerAcked
    \/ BrokerPublishes \/ BrokerRetries

Next ==
    /\ UNCHANGED setup
    /\ \/ Application \/ Cycle \/ Expire \/ Finish
       \/ ConnectionFails \/ SendingDue \/ ReceivingDue
       \/ Broker

\* A call's code runs and its timer expires in the end.
Fairness == WF_vars(Cycle) /\ WF_vars(Expire) /\ WF_vars(Finish)

Spec == Init /\ [][Next]_<<setup, vars>> /\ Fairness

-----------------------------------------------------------------------------
(* Properties *)
CallValues ==
    [op : {"none", "connect", "disconnect", "subscribe", "unsubscribe", "publish", "yield"},
     at : {"idle", "wait", "got", "expired"},
     wait : {"CONNACK", "SUBACK", "UNSUBACK", "PUBACK", "PINGREQ", "PINGRESP"},
     req : Packet, got : Packet]

\* The type invariant.
TypeOK ==
    /\ isconnected \in BOOLEAN /\ ping_outstanding \in BOOLEAN
    /\ messageHandlers \in [Slots -> Topics \cup {NoTopic}]
    /\ packetid \in Ids
    /\ inflight \in Packet
    /\ incomingQoS2messages \in [Incoming -> Ids]
    /\ sent_due \in BOOLEAN /\ received_due \in BOOLEAN
    /\ call \in CallValues
    /\ ret \in [op : {"none", "connect", "disconnect", "subscribe", "unsubscribe",
                      "publish", "yield"},
                rc : {FAILURE} \cup Codes, req : Packet]
    /\ up \in BOOLEAN /\ c2s \in Seq(Packet) /\ s2c \in Seq(Packet)
    /\ b_connected \in BOOLEAN
    /\ b_subs \in [Topics -> -1..2]
    /\ b_out \subseteq [pub : Packet, rel : BOOLEAN]
    /\ b_held \subseteq [id : Ids, msg : Nat]
    /\ calls \in 0..MaxCalls /\ sent \in 0..MaxSent /\ faults \in 0..MaxFaults
    /\ received \subseteq Nat
    /\ delivered \in [1..MaxSent -> Nat]

Returned(op, rc) == call.at = "idle" /\ ret.op = op /\ ret.rc = rc
HandlerFor(t)    == \E i \in Slots : messageHandlers[i] = t

\* isConnected() is "is the client connected or not": while the TCP connection
\* stands, a client that says so is one whose CONNECT the broker accepted.
ConnectedMeansAccepted == isconnected /\ up => b_connected

\* waitfor looks at the type of a packet only.  All the same the SUBACK,
\* UNSUBACK or PUBACK a call ends with answers this call's request and no
\* earlier one whose timer had expired.
AnswersMatch ==
    call.at = "got" /\ call.wait \in {"SUBACK", "UNSUBACK", "PUBACK"}
        => call.got.id = call.req.id

\* Sessions are clean, since the subscriptions of a kept one outlive the
\* handlers that cleanSession forgets; there is a slot for every subscribe, or
\* one topic, since subscribe at QoS 0 succeeds also without a free slot; and
\* the table of ids, if it is used, has room for all messages of the one
\* connection.
HandlersLast ==
    /\ CleanSession
    /\ MaxCalls <= MaxHandlers \/ (MaxHandlers > 0 /\ \E t \in Topics : TopicsUsed = {t})
    /\ ~QOS2 \/ 2 \notin QosUsed \/ (~Reconnects /\ MaxSent <= MaxIncoming)

\* While the client is connected, no message is read for the first time when
\* there is no handler to take it: not before the SUBACK is processed, and not
\* around an UNSUBACK.
NoMessageUnhandled ==
    LET p == Head(s2c)
    IN  (/\ HandlersLast /\ isconnected /\ call.at = "wait" /\ s2c # <<>>
         /\ p.type = "PUBLISH" /\ delivered[p.msg] = 0)
        => HandlerFor(p.topic)

\* A publish at QoS 1 that succeeded has reached the broker, and so has the
\* stored one when a connect that sent it again succeeded.
AckedMeansReceived ==
    \A op \in {"publish", "connect"} :
        Returned(op, SUCCESS) /\ ret.req.type = "PUBLISH" /\ ret.req.code = 1 /\ ret.req.id > 0
            => ret.req.msg \in received

\* A message published at QoS 2 is handed to the application at most once,
\* whatever is sent again (stated of clients for which every QoS is 2).
DeliveredOnce == QosUsed = {2} => \A n \in 1..MaxSent : delivered[n] <= 1

\* A QoS 2 message the broker knows to be with the client (it has the PUBREC)
\* was handed to the application, also when several are under way and some are
\* sent again (stated where the table of ids is large enough for all, and of
\* clients with one connection: a client that yields when it is disconnected
\* keeps the ids it reads then, and connect does not forget them).
AcknowledgedWasDelivered ==
    QosUsed = {2} /\ ~Reconnects /\ MaxSent <= MaxIncoming =>
        \A m \in b_out : isconnected /\ m.rel => delivered[m.pub.msg] > 0

\* Every call of the API returns, also when nothing ever answers.
CallsReturn == call.at # "idle" ~> call.at = "idle"
=============================================================================

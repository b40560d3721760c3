-------------------------- MODULE MqttClientProofs --------------------------
(***************************************************************************)
(* The types of the MQTT session of module MqttClient, for every client    *)
(* and any sizes, with the lemmas about queues of packets and the pieces   *)
(* of the actions on which module MqttSessionProofs builds.                *)
(***************************************************************************)
EXTENDS MqttClient, FiniteSetTheorems, TLAPS

-----------------------------------------------------------------------------
(* Sequences of packets: what is in them of a set of packets *)

None(q, S) == \A k \in 1..Len(q) : q[k] \notin S
One(q, S)  == \A k, l \in 1..Len(q) : q[k] \in S /\ q[l] \in S => k = l

LEMMA StillPackets ==
    ASSUME NEW T, NEW q \in Seq(T)
    PROVE  /\ \A e \in T : Append(q, e) \in Seq(T)
           /\ q # <<>> => Tail(q) \in Seq(T) /\ Head(q) \in T
           /\ \A n \in 0..Len(q) : SubSeq(q, 1, n) \in Seq(T)
  OBVIOUS

LEMMA Appended ==
    ASSUME NEW T, NEW q \in Seq(T), NEW e \in T, NEW S
    PROVE  /\ Append(q, e) \in Seq(T)
           /\ None(q, S) /\ e \notin S => None(Append(q, e), S)
           /\ None(q, S) => One(Append(q, e), S)
           /\ One(q, S) /\ e \notin S => One(Append(q, e), S)
<1>1. /\ Append(q, e) \in Seq(T) /\ Len(Append(q, e)) = Len(q) + 1 /\ Len(q) \in Nat
      /\ \A k \in 1..Len(q) : Append(q, e)[k] = q[k]
      /\ Append(q, e)[Len(q) + 1] = e
  OBVIOUS
<1>2. \A k \in 1..Len(Append(q, e)) : k \in 1..Len(q) \/ k = Len(q) + 1
  BY <1>1
<1>3. None(q, S) /\ e \notin S => None(Append(q, e), S)
  BY <1>1, <1>2 DEF None
<1>4. None(q, S) => One(Append(q, e), S)
  BY <1>1, <1>2 DEF None, One
<1>5. One(q, S) /\ e \notin S => One(Append(q, e), S)
  BY <1>1, <1>2 DEF One
<1> QED BY <1>1, <1>3, <1>4, <1>5

LEMMA Taken ==
    ASSUME NEW T, NEW q \in Seq(T), q # <<>>, NEW S
    PROVE  /\ Tail(q) \in Seq(T) /\ Head(q) \in T
           /\ None(q, S) => None(Tail(q), S) /\ Head(q) \notin S
           /\ One(q, S) => One(Tail(q), S)
           /\ One(q, S) /\ Head(q) \in S => None(Tail(q), S)
<1>1. /\ Tail(q) \in Seq(T) /\ Head(q) = q[1] /\ 1 \in 1..Len(q) /\ q[1] \in T
      /\ \A k \in 1..Len(Tail(q)) : k + 1 \in 1..Len(q) /\ Tail(q)[k] = q[k + 1]
  OBVIOUS
<1>2. \A k \in 1..Len(Tail(q)) : k \in Nat /\ k + 1 # 1
  BY <1>1
<1>3. None(q, S) => None(Tail(q), S) /\ Head(q) \notin S
  BY <1>1 DEF None
<1>4. One(q, S) => One(Tail(q), S)
  BY <1>1, <1>2 DEF One
<1>5. One(q, S) /\ Head(q) \in S => None(Tail(q), S)
  BY <1>1, <1>2 DEF One, None
<1> QED BY <1>1, <1>3, <1>4, <1>5

LEMMA Cut ==
    ASSUME NEW T, NEW q \in Seq(T), NEW n \in 0..Len(q), NEW S
    PROVE  /\ SubSeq(q, 1, n) \in Seq(T)
           /\ None(q, S) => None(SubSeq(q, 1, n), S)
           /\ One(q, S) => One(SubSeq(q, 1, n), S)
<1>1. /\ Len(SubSeq(q, 1, n)) = n /\ SubSeq(q, 1, n) \in Seq(T)
      /\ \A k \in 1..n : k \in 1..Len(q) /\ SubSeq(q, 1, n)[k] = q[k]
  OBVIOUS
<1> QED BY <1>1 DEF None, One

LEMMA Nothing == \A S : None(<<>>, S) /\ One(<<>>, S)
  BY DEF None, One

-----------------------------------------------------------------------------
(* Types *)

\* What the client sends: the QoS of a request is one.
Sendable == {p \in Packet : p.type \in {"SUBSCRIBE", "PUBLISH"} => p.code \in 0..2}
Message  == {p \in Packet : p.type = "PUBLISH"}

SessionTypes ==
    /\ isconnected \in BOOLEAN /\ ping_outstanding \in BOOLEAN
    /\ messageHandlers \in [Slots -> Topics \cup {NoTopic}]
    /\ inflight \in Sendable
    /\ incomingQoS2messages \in [Incoming -> Ids]

Ops == {"none", "connect", "disconnect", "subscribe", "unsubscribe", "publish", "yield"}

CallTypes ==
    /\ call \in CallValues
    /\ ret \in [op : Ops, rc : {FAILURE} \cup Codes, req : Packet]

NetTypes ==
    /\ up \in BOOLEAN /\ c2s \in Seq(Sendable) /\ s2c \in Seq(Packet)
    /\ sent_due \in BOOLEAN /\ received_due \in BOOLEAN

BrokerTypes ==
    /\ b_connected \in BOOLEAN
    /\ b_subs \in [Topics -> -1..2]
    /\ b_out \subseteq [pub : Message, rel : BOOLEAN]
    /\ b_held \subseteq [id : Ids, msg : Nat]

CountTypes ==
    /\ packetid \in Ids
    /\ calls \in 0..MaxCalls /\ sent \in 0..MaxSent /\ faults \in 0..MaxFaults
    /\ received \subseteq Nat
    /\ delivered \in [1..MaxSent -> Nat]

MqttTypes ==
    /\ setup \in Setup
    /\ SessionTypes /\ CallTypes /\ NetTypes /\ BrokerTypes /\ CountTypes

LEMMA TypesImplyTypeOK == MqttTypes => TypeOK
<1> SUFFICES ASSUME MqttTypes PROVE TypeOK
  OBVIOUS
<1>1. inflight \in Packet /\ c2s \in Seq(Packet)
  BY DEF MqttTypes, SessionTypes, NetTypes, Sendable
<1>2. b_out \subseteq [pub : Packet, rel : BOOLEAN]
  BY DEF MqttTypes, BrokerTypes, Message
<1> QED BY <1>1, <1>2 DEF MqttTypes, SessionTypes, CallTypes, NetTypes, BrokerTypes, CountTypes,
                          TypeOK, Ops

\* The packets client and broker make.
LEMMA AckTyped ==
    ASSUME NEW type \in AckTypes \cup {"PINGREQ"}, NEW id \in Ids, NEW code \in Codes
    PROVE  Ack(type, id, code) \in Packet /\ Ack(type, id, code) \in Sendable
<1>1. type \in PacketTypes /\ type # "SUBSCRIBE" /\ type # "PUBLISH" /\ 0 \in Nat
  BY DEF PacketTypes, AckTypes
<1> QED BY <1>1 DEF Ack, Packet, Sendable

LEMMA RequestTyped ==
    ASSUME NEW type \in {"CONNECT", "DISCONNECT", "SUBSCRIBE", "UNSUBSCRIBE"}, NEW id \in Ids,
           NEW topic \in Topics \cup {NoTopic}, NEW q \in 0..2
    PROVE  Request(type, id, topic, q) \in Sendable
<1>1. type \in PacketTypes /\ q \in Codes /\ 0 \in Nat
  BY DEF PacketTypes, AckTypes, Codes
<1> QED BY <1>1 DEF Request, Packet, Sendable

LEMMA PubTyped ==
    ASSUME NEW id \in Ids, NEW q \in 0..2, NEW topic \in Topics \cup {NoTopic}, NEW n \in Nat
    PROVE  Pub(id, q, topic, n) \in Sendable /\ Pub(id, q, topic, n) \in Message
<1>1. "PUBLISH" \in PacketTypes /\ q \in Codes
  BY DEF PacketTypes, AckTypes, Codes
<1> QED BY <1>1 DEF Pub, Packet, Sendable, Message

LEMMA NoneTyped ==
    /\ 0 \in Ids /\ 0 \in Codes /\ SUCCESS \in Codes /\ Refused \in Codes /\ 5 \in Codes
    /\ NoInflight \in Sendable /\ NoInflight \in Packet /\ NoCall \in CallValues
<1>1. 0 \in Ids /\ 0 \in Codes /\ SUCCESS \in Codes /\ Refused \in Codes /\ 5 \in Codes
  BY SizeAssumption DEF Ids, Codes, SUCCESS, Refused
<1>2. NoInflight \in Sendable /\ NoInflight \in Packet
  BY <1>1, PubTyped, 0 \in 0..2 DEF NoInflight, Sendable
<1>3. NoCall \in CallValues
  BY <1>2 DEF NoCall, CallValues
<1> QED BY <1>1, <1>2, <1>3

\* What a client is compiled with.
LEMMA SetupTypes ==
    ASSUME setup \in Setup
    PROVE  /\ MaxHandlers \in Nat /\ MaxCalls \in Nat /\ MaxSent \in Nat /\ MaxFaults \in Nat
           /\ QosUsed \subseteq 0..2 /\ TopicsUsed \subseteq Topics
           /\ CleanSession \in BOOLEAN /\ QOS2 \in BOOLEAN /\ KeepAlive \in BOOLEAN
  BY DEF Setup, MaxHandlers, MaxCalls, MaxSent, MaxFaults, QosUsed, TopicsUsed,
         CleanSession, QOS2, KeepAlive

-----------------------------------------------------------------------------
(* Types of the pieces the calls are made of *)

LEMMA CleanUpTyped ==
    ASSUME CleanUp, UNCHANGED setup
    PROVE  SessionTypes'
  BY NoneTyped, SizeAssumption DEF CleanUp, SessionTypes, NoHandlers, NoIncoming, Slots, Incoming, MaxHandlers

LEMMA SentTyped ==
    ASSUME NetTypes, NEW p \in Sendable, Sent(p)
    PROVE  c2s' \in Seq(Sendable) /\ sent_due' \in BOOLEAN
<1>1. c2s \in Seq(Sendable) /\ (c2s' = Append(c2s, p) \/ c2s' = c2s) /\ sent_due' = FALSE
  BY DEF NetTypes, Sent
<1> QED BY <1>1, StillPackets

LEMMA SendFailsTyped ==
    ASSUME NetTypes, SendFails
    PROVE  c2s' \in Seq(Sendable) /\ sent_due' \in BOOLEAN
  BY DEF NetTypes, SendFails

LEMMA KeepaliveTyped ==
    ASSUME NetTypes, NEW s \in BOOLEAN, NEW r \in BOOLEAN, NEW o \in BOOLEAN, Keepalive(s, r, o)
    PROVE  c2s' \in Seq(Sendable) /\ sent_due' \in BOOLEAN /\ ping_outstanding' \in BOOLEAN
<1>1. Ack("PINGREQ", 0, 0) \in Sendable
  BY AckTyped, NoneTyped
<1>2. CASE Sent(Ack("PINGREQ", 0, 0)) /\ ping_outstanding' = TRUE
  BY <1>1, <1>2, SentTyped
<1>3. CASE SendFails /\ ping_outstanding' = FALSE
  BY <1>3, SendFailsTyped
<1>4. CASE ping_outstanding' = o /\ UNCHANGED <<c2s, sent_due>>
  BY <1>4 DEF NetTypes
<1> QED BY <1>2, <1>3, <1>4, Zenon DEF Keepalive

LEMMA ReturnTyped ==
    ASSUME NEW op \in Ops, NEW rc \in {FAILURE} \cup Codes, NEW req \in Packet, Return(op, rc, req)
    PROVE  CallTypes'
  BY NoneTyped DEF Return, CallTypes

LEMMA WaitingTyped ==
    ASSUME CallTypes, NEW op \in Ops, NEW req \in Packet,
           NEW type \in {"CONNACK", "SUBACK", "UNSUBACK", "PUBACK", "PINGREQ", "PINGRESP"},
           Waiting(op, type, req)
    PROVE  CallTypes'
  BY NoneTyped DEF Waiting, CallTypes, CallValues, Ops

LEMMA CallingTyped ==
    ASSUME setup \in Setup, UNCHANGED setup, CountTypes, Calling,
           packetid' \in Ids, UNCHANGED <<sent, faults, history>>
    PROVE  CountTypes'
<1>1. calls' \in 0..MaxCalls
  BY SetupTypes DEF Calling, CountTypes
<1> QED BY <1>1 DEF CountTypes, history, MaxCalls, MaxSent, MaxFaults

LEMMA NextIdTyped == packetid \in Ids => NextId(packetid) \in Ids /\ NextId(packetid) # 0
  BY SizeAssumption DEF Ids, NextId

LEMMA AfterCycleTyped ==
    ASSUME CallTypes, NEW p \in Packet, NEW failed, AfterCycle(p, failed)
    PROVE  CallTypes'
<1>1. CASE Return("yield", FAILURE, NoInflight)
  BY <1>1, ReturnTyped, NoneTyped DEF Ops
<1>2. CASE call' = [call EXCEPT !.at = "got", !.got = p] /\ UNCHANGED ret
  BY <1>2 DEF CallTypes, CallValues
<1>3. CASE UNCHANGED <<call, ret>>
  BY <1>3 DEF CallTypes
<1> QED BY <1>1, <1>2, <1>3, Zenon DEF AfterCycle

LEMMA ExpiredTyped ==
    ASSUME CallTypes, call' = [call EXCEPT !.at = "expired"], UNCHANGED ret
    PROVE  CallTypes'
  BY DEF CallTypes, CallValues

LEMMA AnswerTooLateTyped ==
    ASSUME CallTypes, NetTypes, AnswerTooLate
    PROVE  CallTypes' /\ c2s' \in Seq(Sendable) /\ sent_due' \in BOOLEAN
<1>1. ASSUME Return("yield", FAILURE, NoInflight) PROVE CallTypes'
  BY <1>1, ReturnTyped, NoneTyped DEF Ops
<1>2. ASSUME call' = [call EXCEPT !.at = "expired"], UNCHANGED ret PROVE CallTypes'
  BY <1>2, ExpiredTyped
<1> QED BY <1>1, <1>2 DEF AnswerTooLate, NetTypes

LEMMA DeliverTyped ==
    ASSUME setup \in Setup, CountTypes, NEW p \in Packet, Deliver(p)
    PROVE  delivered' \in [1..MaxSent -> Nat]
<1> DEFINE N == Cardinality({i \in Slots : messageHandlers[i] = p.topic})
<1>1. IsFiniteSet(Slots)
  BY SetupTypes, FS_Interval, 1 \in Int DEF Slots
<1>2. IsFiniteSet({i \in Slots : messageHandlers[i] = p.topic})
  BY <1>1, FS_Subset
<1>3. N \in Nat
  BY <1>2, FS_CardinalityType
<1>4. delivered' = [delivered EXCEPT ![p.msg] = @ + N]
  BY DEF Deliver
<1> HIDE DEF N
<1>5. ASSUME NEW k \in 1..MaxSent PROVE delivered'[k] \in Nat
  BY <1>3, <1>4, <1>5 DEF CountTypes
<1>6. delivered' = [k \in 1..MaxSent |-> delivered'[k]]
  BY <1>4 DEF CountTypes
<1> QED BY <1>5, <1>6

LEMMA RememberTyped ==
    ASSUME SessionTypes, NEW id \in Ids, FreeSlots # {}, Remember(id)
    PROVE  incomingQoS2messages' \in [Incoming -> Ids]
  BY DEF SessionTypes, Remember

-----------------------------------------------------------------------------
(* Types of what a step leaves alone *)

LEMMA TypesKept ==
    ASSUME MqttTypes, UNCHANGED setup
    PROVE  /\ UNCHANGED session => SessionTypes'
           /\ UNCHANGED <<call, ret>> => CallTypes'
           /\ UNCHANGED <<timers, network>> => NetTypes'
           /\ UNCHANGED broker => BrokerTypes'
           /\ UNCHANGED <<packetid, calls, sent, faults, history>> => CountTypes'
<1>1. UNCHANGED <<MaxHandlers, MaxCalls, MaxSent, MaxFaults>>
  BY DEF MaxHandlers, MaxCalls, MaxSent, MaxFaults
<1>2. UNCHANGED session => SessionTypes'
  BY <1>1 DEF MqttTypes, SessionTypes, session, Slots
<1>3. UNCHANGED <<call, ret>> => CallTypes'
  BY DEF MqttTypes, CallTypes
<1>4. UNCHANGED <<timers, network>> => NetTypes'
  BY DEF MqttTypes, NetTypes, timers, network
<1>5. UNCHANGED broker => BrokerTypes'
  BY DEF MqttTypes, BrokerTypes, broker
<1>6. UNCHANGED <<packetid, calls, sent, faults, history>> => CountTypes'
  BY <1>1 DEF MqttTypes, CountTypes, history
<1> QED BY <1>2, <1>3, <1>4, <1>5, <1>6

\* What remains to be shown of a step in which the client acts.
LEMMA ClientTyped ==
    ASSUME MqttTypes, UNCHANGED <<setup, up, broker>>,
           SessionTypes', CallTypes', CountTypes',
           c2s' \in Seq(Sendable), s2c' \in Seq(Packet),
           sent_due' \in BOOLEAN, received_due' \in BOOLEAN
    PROVE  MqttTypes'
<1>1. BrokerTypes'
  BY TypesKept
<1> QED BY <1>1 DEF MqttTypes, NetTypes

-----------------------------------------------------------------------------
(* Types of the calls *)

LEMMA AskForTyped ==
    ASSUME MqttTypes, UNCHANGED setup, NEW topic \in Topics, NEW q \in 0..2,
           Subscribe(topic, q) \/ Unsubscribe(topic)
    PROVE  MqttTypes'
<1>0. SessionTypes /\ CallTypes /\ NetTypes /\ CountTypes /\ setup \in Setup
  BY DEF MqttTypes
<1>1. ASSUME NEW op \in {"subscribe", "unsubscribe"}, NEW type \in {"SUBSCRIBE", "UNSUBSCRIBE"},
             NEW answer \in {"SUBACK", "UNSUBACK"}, NEW g \in 0..2, AskFor(op, type, answer, topic, g)
      PROVE  MqttTypes'
  <2> DEFINE p == Request(type, packetid', topic, g)
  <2>1. packetid' \in Ids
    BY <1>0, <1>1, NextIdTyped DEF AskFor, CountTypes
  <2>2. p \in Sendable /\ p \in Packet /\ op \in Ops
    BY <2>1, RequestTyped DEF Sendable, Ops
  <2>3. /\ Calling /\ UNCHANGED <<received_due, up, s2c, broker, sent, faults, history>>
        /\ \/ Sent(p) /\ Waiting(op, answer, p) /\ UNCHANGED session
           \/ SendFails /\ CleanUp /\ Return(op, FAILURE, p)
           \/ UNCHANGED <<c2s, sent_due>> /\ CleanUp /\ Return(op, FAILURE, p)
    BY <1>1 DEF AskFor
  <2> HIDE DEF p
  <2>4. CountTypes'
    BY <1>0, <2>1, <2>3, CallingTyped
  <2>5. SessionTypes'
    BY <2>3, CleanUpTyped, TypesKept
  <2>6. CallTypes'
    BY <1>0, <2>2, <2>3, WaitingTyped, ReturnTyped
  <2>7. c2s' \in Seq(Sendable) /\ sent_due' \in BOOLEAN
    BY <1>0, <2>2, <2>3, SentTyped, SendFailsTyped DEF NetTypes
  <2> QED BY <1>0, <2>3, <2>4, <2>5, <2>6, <2>7, ClientTyped DEF NetTypes
<1>2. CASE Subscribe(topic, q)
  BY <1>1, <1>2 DEF Subscribe
<1>3. CASE Unsubscribe(topic)
  BY <1>1, <1>3, 0 \in 0..2 DEF Unsubscribe
<1> QED BY <1>2, <1>3

LEMMA PublishPacketTyped ==
    ASSUME MqttTypes, UNCHANGED setup, NEW op \in Ops, NEW p \in Sendable, NEW kept \in Sendable,
           PublishPacket(op, p, kept)
    PROVE  SessionTypes' /\ CallTypes' /\ c2s' \in Seq(Sendable) /\ sent_due' \in BOOLEAN
<1>0. SessionTypes /\ CallTypes /\ NetTypes /\ p \in Packet /\ setup \in Setup
  BY DEF MqttTypes, Sendable
<1>1. CASE SendFails /\ CleanUp /\ Return(op, FAILURE, p)
  BY <1>0, <1>1, CleanUpTyped, SendFailsTyped, ReturnTyped
<1>2. CASE /\ Sent(p) /\ inflight' = kept
           /\ isconnected' = (isconnected \/ p.code # 1)
           /\ UNCHANGED <<messageHandlers, ping_outstanding, incomingQoS2messages>>
           /\ Waiting(op, "PUBACK", p) \/ Return(op, SUCCESS, p)
  <2>1. c2s' \in Seq(Sendable) /\ sent_due' \in BOOLEAN
    BY <1>0, <1>2, SentTyped
  <2>2. CallTypes'
    BY <1>0, <1>2, WaitingTyped, ReturnTyped, NoneTyped
  <2>3. isconnected' \in BOOLEAN
    BY <1>0, <1>2 DEF SessionTypes
  <2>4. SessionTypes'
    BY <1>0, <1>2, <2>3 DEF SessionTypes, Slots, MaxHandlers
  <2> QED BY <2>1, <2>2, <2>4
<1> QED BY <1>1, <1>2, Zenon DEF PublishPacket

LEMMA PublishTyped ==
    ASSUME MqttTypes, UNCHANGED setup, NEW topic \in Topics, NEW q \in 0..2, Publish(topic, q)
    PROVE  MqttTypes'
<1>0. SessionTypes /\ CallTypes /\ NetTypes /\ CountTypes /\ setup \in Setup
  BY DEF MqttTypes
<1> DEFINE p == Pub(IF isconnected /\ q > 0 THEN packetid' ELSE 0, q, topic, calls')
           kept == IF CleanSession THEN inflight ELSE p
<1>1. packetid' \in Ids /\ Calling
  BY <1>0, NextIdTyped DEF Publish, CountTypes
<1>2. calls' \in Nat
  BY <1>0, <1>1, SetupTypes DEF Calling, CountTypes
<1>3. p \in Sendable /\ p \in Packet
  <2>1. (IF isconnected /\ q > 0 THEN packetid' ELSE 0) \in Ids
    BY <1>1, NoneTyped
  <2> QED BY <1>2, <2>1, PubTyped DEF Sendable
<1>4. /\ UNCHANGED <<received_due, up, s2c, broker, sent, faults, history>>
      /\ \/ PublishPacket("publish", p, kept)
         \/ Return("publish", FAILURE, p) /\ UNCHANGED <<session, c2s, sent_due>>
  BY DEF Publish
<1> HIDE DEF p
<1>5. kept \in Sendable
  BY <1>0, <1>3 DEF SessionTypes
<1> HIDE DEF kept
<1>6. CountTypes'
  BY <1>0, <1>1, <1>4, CallingTyped
<1>7. CASE PublishPacket("publish", p, kept)
  <2>1. SessionTypes' /\ CallTypes' /\ c2s' \in Seq(Sendable) /\ sent_due' \in BOOLEAN
    BY <1>3, <1>5, <1>7, PublishPacketTyped, "publish" \in Ops DEF Ops
  <2> QED BY <1>0, <1>4, <1>6, <2>1, ClientTyped DEF NetTypes
<1>8. CASE Return("publish", FAILURE, p) /\ UNCHANGED <<session, c2s, sent_due>>
  <2>1. CallTypes'
    BY <1>3, <1>8, ReturnTyped DEF Ops
  <2>2. SessionTypes'
    BY <1>8, TypesKept
  <2> QED BY <1>0, <1>4, <1>6, <1>8, <2>1, <2>2, ClientTyped DEF NetTypes
<1> QED BY <1>4, <1>7, <1>8

LEMMA OtherCallsTyped ==
    ASSUME MqttTypes, UNCHANGED setup, Connect \/ Disconnect \/ Yield
    PROVE  MqttTypes'
<1>0. SessionTypes /\ CallTypes /\ NetTypes /\ CountTypes /\ setup \in Setup
  BY DEF MqttTypes
<1>1. CASE Connect
  <2> DEFINE p == Request("CONNECT", 0, NoTopic, 0)
  <2>1. p \in Sendable
    BY NoneTyped, RequestTyped, 0 \in 0..2
  <2> HIDE DEF p
  <2>2. /\ Calling /\ UNCHANGED <<session, packetid, up, s2c, broker, sent, faults, history>>
        /\ \/ Return("connect", FAILURE, NoInflight) /\ UNCHANGED <<timers, c2s>>
           \/ Sent(p) /\ received_due' = FALSE /\ Waiting("connect", "CONNACK", NoInflight)
           \/ SendFails /\ UNCHANGED received_due /\ Return("connect", FAILURE, NoInflight)
    BY <1>1 DEF Connect, p
  <2>3. CountTypes'
    BY <1>0, <2>2, CallingTyped DEF CountTypes
  <2>4. CallTypes'
    BY <1>0, <2>2, WaitingTyped, ReturnTyped, NoneTyped DEF Ops
  <2>5. c2s' \in Seq(Sendable) /\ sent_due' \in BOOLEAN /\ received_due' \in BOOLEAN
    BY <1>0, <2>1, <2>2, SentTyped, SendFailsTyped DEF NetTypes, timers
  <2> QED BY <1>0, <2>2, <2>3, <2>4, <2>5, TypesKept, ClientTyped DEF NetTypes
<1>2. CASE Disconnect
  <2> DEFINE p == Request("DISCONNECT", 0, NoTopic, 0)
  <2>1. p \in Sendable
    BY NoneTyped, RequestTyped, 0 \in 0..2
  <2> HIDE DEF p
  <2>2. /\ Calling /\ UNCHANGED <<packetid, received_due, up, s2c, broker, sent, faults, history>>
        /\ \/ Sent(p) /\ Return("disconnect", SUCCESS, NoInflight)
           \/ SendFails /\ Return("disconnect", FAILURE, NoInflight)
        /\ \/ CleanUp
           \/ /\ isconnected' = FALSE
              /\ UNCHANGED <<messageHandlers, ping_outstanding, inflight, incomingQoS2messages>>
    BY <1>2 DEF Disconnect, p
  <2>3. CountTypes'
    BY <1>0, <2>2, CallingTyped DEF CountTypes
  <2>4. CallTypes'
    BY <1>0, <2>2, ReturnTyped, NoneTyped DEF Ops
  <2>5. c2s' \in Seq(Sendable) /\ sent_due' \in BOOLEAN
    BY <1>0, <2>1, <2>2, SentTyped, SendFailsTyped
  <2>6. SessionTypes'
    <3>1. CASE CleanUp
      BY <3>1, CleanUpTyped
    <3>2. CASE isconnected' = FALSE
               /\ UNCHANGED <<messageHandlers, ping_outstanding, inflight, incomingQoS2messages>>
      BY <1>0, <3>2 DEF SessionTypes, Slots, MaxHandlers
    <3> QED BY <2>2, <3>1, <3>2
  <2> QED BY <1>0, <2>2, <2>3, <2>4, <2>5, <2>6, ClientTyped DEF NetTypes
<1>3. CASE Yield
  <2>1. /\ Calling /\ Waiting("yield", "PINGREQ", NoInflight)
        /\ UNCHANGED <<session, packetid, timers, network, broker, sent, faults, history>>
    BY <1>3 DEF Yield
  <2>2. CountTypes'
    BY <1>0, <2>1, CallingTyped DEF CountTypes
  <2>3. CallTypes'
    BY <1>0, <2>1, WaitingTyped, NoneTyped DEF Ops
  <2> QED BY <1>0, <2>1, <2>2, <2>3, TypesKept DEF MqttTypes
<1> QED BY <1>1, <1>2, <1>3

-----------------------------------------------------------------------------
(* Types of the cycles and of what follows an answer *)

LEMMA ReadTyped ==
    ASSUME MqttTypes, ReadPacket
    PROVE  /\ Head(s2c) \in Packet /\ s2c' = Tail(s2c) /\ s2c' \in Seq(Packet)
           /\ received_due' \in BOOLEAN /\ s2c # <<>> /\ call.at = "wait"
           /\ Head(s2c).id \in Ids /\ Head(s2c).msg \in Nat
<1>1. s2c # <<>> /\ s2c' = Tail(s2c) /\ received_due' = FALSE /\ call.at = "wait"
  BY DEF ReadPacket
<1>2. s2c \in Seq(Packet)
  BY DEF MqttTypes, NetTypes
<1>3. Head(s2c) \in Packet
  BY <1>1, <1>2, StillPackets
<1> QED BY <1>1, <1>2, <1>3, StillPackets DEF Packet

LEMMA CycleAckTyped ==
    ASSUME MqttTypes, UNCHANGED setup, CycleAck
    PROVE  MqttTypes'
<1> DEFINE p == Head(s2c)
<1>0. SessionTypes /\ CallTypes /\ NetTypes
  BY DEF MqttTypes
<1>1. /\ ReadPacket /\ AfterCycle(p, FALSE)
      /\ Keepalive(sent_due, FALSE, ping_outstanding /\ p.type # "PINGRESP")
      /\ UNCHANGED <<isconnected, messageHandlers, inflight, incomingQoS2messages,
                     packetid, up, broker, calls, sent, faults, history>>
  BY DEF CycleAck
<1>2. p \in Packet /\ s2c' \in Seq(Packet) /\ received_due' \in BOOLEAN
  BY <1>1, ReadTyped
<1> HIDE DEF p
<1>3. PICK o \in BOOLEAN : o = (ping_outstanding /\ p.type # "PINGRESP")
  <2>1. (ping_outstanding /\ p.type # "PINGRESP") \in BOOLEAN
    BY <1>0 DEF SessionTypes
  <2> QED BY <2>1, Zenon
<1>4. c2s' \in Seq(Sendable) /\ sent_due' \in BOOLEAN /\ ping_outstanding' \in BOOLEAN
  <2>1. Keepalive(sent_due, FALSE, o)
    BY <1>1, <1>3
  <2>2. sent_due \in BOOLEAN
    BY <1>0 DEF NetTypes
  <2> QED BY <1>0, <2>1, <2>2, KeepaliveTyped, Zenon
<1>5. SessionTypes'
  BY <1>0, <1>1, <1>4 DEF SessionTypes, Slots, MaxHandlers
<1>6. CallTypes'
  BY <1>0, <1>1, <1>2, AfterCycleTyped
<1> QED BY <1>1, <1>2, <1>4, <1>5, <1>6, TypesKept, ClientTyped

LEMMA CycleReleaseTyped ==
    ASSUME MqttTypes, UNCHANGED setup, CycleRelease
    PROVE  MqttTypes'
<1> DEFINE p == Head(s2c)
           a == Ack(IF p.type = "PUBREC" THEN "PUBREL" ELSE "PUBCOMP", p.id, 0)
<1>0. SessionTypes /\ CallTypes /\ NetTypes
  BY DEF MqttTypes
<1>1. /\ ReadPacket
      /\ \/ /\ Sent(a) /\ AfterCycle(p, FALSE)
            /\ incomingQoS2messages' = [i \in Incoming |->
                     IF p.type = "PUBREL" /\ incomingQoS2messages[i] = p.id
                     THEN 0 ELSE incomingQoS2messages[i]]
         \/ UNCHANGED incomingQoS2messages /\ SendFails /\ AfterCycle(p, TRUE)
         \/ UNCHANGED incomingQoS2messages /\ AnswerTooLate
      /\ UNCHANGED <<isconnected, messageHandlers, ping_outstanding, inflight,
                     packetid, up, broker, calls, sent, faults, history>>
  BY DEF CycleRelease
<1>2. p \in Packet /\ p.id \in Ids /\ s2c' \in Seq(Packet) /\ received_due' \in BOOLEAN
  BY <1>1, ReadTyped
<1>3. a \in Sendable
  BY <1>2, AckTyped, NoneTyped DEF AckTypes
<1> HIDE DEF p, a
<1>4. c2s' \in Seq(Sendable) /\ sent_due' \in BOOLEAN
  BY <1>0, <1>1, <1>3, SentTyped, SendFailsTyped, AnswerTooLateTyped
<1>5. CallTypes'
  BY <1>0, <1>1, <1>2, AfterCycleTyped, AnswerTooLateTyped
<1>6. incomingQoS2messages' \in [Incoming -> Ids]
  BY <1>0, <1>1, NoneTyped DEF SessionTypes
<1>7. SessionTypes'
  BY <1>0, <1>1, <1>6 DEF SessionTypes, Slots, MaxHandlers
<1> QED BY <1>1, <1>2, <1>4, <1>5, <1>7, TypesKept, ClientTyped

LEMMA CyclePublishTyped ==
    ASSUME MqttTypes, UNCHANGED setup, CyclePublish
    PROVE  MqttTypes'
<1> DEFINE p == Head(s2c)
           a == Ack(IF p.code = 1 THEN "PUBACK" ELSE "PUBREC", p.id, 0)
<1>0. SessionTypes /\ CallTypes /\ NetTypes /\ CountTypes /\ setup \in Setup
  BY DEF MqttTypes
<1>1. /\ ReadPacket
      /\ \/ FreeSlots # {} /\ Remember(p.id) /\ Deliver(p)
         \/ UNCHANGED <<incomingQoS2messages, delivered>>
         \/ Deliver(p) /\ UNCHANGED incomingQoS2messages
      /\ \/ Keepalive(sent_due, FALSE, ping_outstanding) /\ AfterCycle(p, FALSE)
         \/ UNCHANGED ping_outstanding /\ Sent(a) /\ AfterCycle(p, FALSE)
         \/ UNCHANGED ping_outstanding /\ SendFails /\ AfterCycle(p, TRUE)
         \/ UNCHANGED ping_outstanding /\ AnswerTooLate
      /\ UNCHANGED <<isconnected, messageHandlers, inflight, packetid, up, broker,
                     calls, sent, faults, received>>
  BY DEF CyclePublish
<1>2. p \in Packet /\ p.id \in Ids /\ s2c' \in Seq(Packet) /\ received_due' \in BOOLEAN
  BY <1>1, ReadTyped
<1>3. a \in Sendable
  BY <1>2, AckTyped, NoneTyped DEF AckTypes
<1> HIDE DEF p, a
<1>4. c2s' \in Seq(Sendable) /\ sent_due' \in BOOLEAN /\ ping_outstanding' \in BOOLEAN
  <2>1. sent_due \in BOOLEAN /\ ping_outstanding \in BOOLEAN
    BY <1>0 DEF NetTypes, SessionTypes
  <2>2. CASE Keepalive(sent_due, FALSE, ping_outstanding)
    BY <1>0, <2>1, <2>2, KeepaliveTyped, Zenon
  <2>3. CASE UNCHANGED ping_outstanding /\ (Sent(a) \/ SendFails \/ AnswerTooLate)
    BY <1>0, <1>3, <2>1, <2>3, SentTyped, SendFailsTyped, AnswerTooLateTyped
  <2> QED BY <1>1, <2>2, <2>3
<1>5. CallTypes'
  BY <1>0, <1>1, <1>2, AfterCycleTyped, AnswerTooLateTyped
<1>6. incomingQoS2messages' \in [Incoming -> Ids] /\ delivered' \in [1..MaxSent -> Nat]
  <2>1. incomingQoS2messages \in [Incoming -> Ids] /\ delivered \in [1..MaxSent -> Nat]
    BY <1>0 DEF SessionTypes, CountTypes
  <2>2. Deliver(p) => delivered' \in [1..MaxSent -> Nat]
    BY <1>0, <1>2, DeliverTyped
  <2>3. FreeSlots # {} /\ Remember(p.id) => incomingQoS2messages' \in [Incoming -> Ids]
    BY <1>0, <1>2, RememberTyped
  <2> QED BY <1>1, <2>1, <2>2, <2>3
<1>7. SessionTypes'
  BY <1>0, <1>1, <1>4, <1>6 DEF SessionTypes, Slots, MaxHandlers
<1>8. CountTypes'
  BY <1>0, <1>1, <1>6 DEF CountTypes, MaxCalls, MaxSent, MaxFaults
<1> QED BY <1>1, <1>2, <1>4, <1>5, <1>7, <1>8, ClientTyped

LEMMA NoPacketTyped ==
    ASSUME MqttTypes, UNCHANGED setup, CycleFails \/ Expire
    PROVE  MqttTypes'
<1>0. SessionTypes /\ CallTypes /\ NetTypes
  BY DEF MqttTypes
<1>1. CASE CycleFails
  <2>1. /\ Keepalive(sent_due, received_due, ping_outstanding) /\ AfterCycle(NoInflight, TRUE)
        /\ UNCHANGED <<isconnected, messageHandlers, inflight, incomingQoS2messages, packetid,
                       received_due, up, s2c, broker, calls, sent, faults, history>>
    BY <1>1 DEF CycleFails
  <2>2. c2s' \in Seq(Sendable) /\ sent_due' \in BOOLEAN /\ ping_outstanding' \in BOOLEAN
    <3>1. sent_due \in BOOLEAN /\ received_due \in BOOLEAN /\ ping_outstanding \in BOOLEAN
      BY <1>0 DEF NetTypes, SessionTypes
    <3> QED BY <1>0, <2>1, <3>1, KeepaliveTyped, Zenon
  <2>3. CallTypes'
    BY <1>0, <2>1, AfterCycleTyped, NoneTyped
  <2>4. SessionTypes'
    BY <1>0, <2>1, <2>2 DEF SessionTypes, Slots, MaxHandlers
  <2> QED BY <1>0, <2>1, <2>2, <2>3, <2>4, TypesKept, ClientTyped DEF NetTypes
<1>2. CASE Expire
  <2>1. /\ UNCHANGED <<session, packetid, timers, network, broker, calls, sent, faults, history>>
        /\ \/ Return("yield", SUCCESS, NoInflight)
           \/ call' = [call EXCEPT !.at = "expired"] /\ UNCHANGED ret
    BY <1>2 DEF Expire
  <2>2. CallTypes'
    BY <1>0, <2>1, ReturnTyped, ExpiredTyped, NoneTyped DEF Ops
  <2> QED BY <2>1, <2>2, TypesKept DEF MqttTypes
<1> QED BY <1>1, <1>2

LEMMA FinishConnectTyped ==
    ASSUME MqttTypes, UNCHANGED setup, FinishConnect
    PROVE  MqttTypes'
<1>0. SessionTypes /\ CallTypes /\ NetTypes
  BY DEF MqttTypes
<1>1. /\ UNCHANGED <<packetid, received_due, up, s2c, broker, calls, sent, faults, history>>
      /\ \/ PublishPacket("connect", inflight, inflight)
         \/ CleanUp /\ Return("connect", FAILURE, inflight) /\ UNCHANGED <<c2s, sent_due>>
         \/ /\ isconnected' = Accepted
            /\ Return("connect", IF Answered THEN call.got.code ELSE FAILURE, NoInflight)
            /\ UNCHANGED <<messageHandlers, ping_outstanding, inflight,
                           incomingQoS2messages, c2s, sent_due>>
  BY DEF FinishConnect
<1>2. inflight \in Sendable /\ inflight \in Packet /\ "connect" \in Ops
  BY <1>0 DEF SessionTypes, Sendable, Ops
<1>3. CASE PublishPacket("connect", inflight, inflight)
  <2>1. SessionTypes' /\ CallTypes' /\ c2s' \in Seq(Sendable) /\ sent_due' \in BOOLEAN
    BY <1>2, <1>3, PublishPacketTyped
  <2> QED BY <1>0, <1>1, <2>1, TypesKept, ClientTyped DEF NetTypes
<1>4. CASE CleanUp /\ Return("connect", FAILURE, inflight) /\ UNCHANGED <<c2s, sent_due>>
  <2>1. SessionTypes' /\ CallTypes'
    BY <1>2, <1>4, CleanUpTyped, ReturnTyped
  <2> QED BY <1>0, <1>1, <1>4, <2>1, TypesKept, ClientTyped DEF NetTypes
<1>5. CASE /\ isconnected' = Accepted
           /\ Return("connect", IF Answered THEN call.got.code ELSE FAILURE, NoInflight)
           /\ UNCHANGED <<messageHandlers, ping_outstanding, inflight,
                          incomingQoS2messages, c2s, sent_due>>
  <2>1. call.got.code \in Codes
    BY <1>0 DEF CallTypes, CallValues, Packet
  <2>2. CallTypes'
    BY <1>2, <1>5, <2>1, ReturnTyped, NoneTyped
  <2>3. Accepted \in BOOLEAN
    BY DEF Accepted, Answered
  <2>4. SessionTypes'
    BY <1>0, <1>5, <2>3 DEF SessionTypes, Slots, MaxHandlers
  <2> QED BY <1>0, <1>1, <1>5, <2>2, <2>4, TypesKept, ClientTyped DEF NetTypes
<1> QED BY <1>1, <1>3, <1>4, <1>5

LEMMA OtherFinishesTyped ==
    ASSUME MqttTypes, UNCHANGED setup, FinishSubscribe \/ FinishUnsubscribe \/ FinishPublish
    PROVE  MqttTypes'
<1>0. SessionTypes /\ CallTypes /\ NetTypes
  BY DEF MqttTypes
<1>1. /\ call.req \in Packet /\ call.req.topic \in Topics \cup {NoTopic}
      /\ call.got.code \in Codes /\ call.op \in Ops
  BY <1>0 DEF CallTypes, CallValues, Packet, Ops
<1>2. ASSUME UNCHANGED <<packetid, timers, network, broker, calls, sent, faults, history>>,
             SessionTypes', CallTypes'
      PROVE  MqttTypes'
  BY <1>2, TypesKept DEF MqttTypes
<1>3. CASE FinishSubscribe
  <2>1. /\ UNCHANGED <<packetid, timers, network, broker, calls, sent, faults, history>>
        /\ \/ /\ \E first : messageHandlers' = [messageHandlers EXCEPT ![first] = call.req.topic]
              /\ Return("subscribe", SUCCESS, call.req)
              /\ UNCHANGED <<isconnected, ping_outstanding, inflight, incomingQoS2messages>>
           \/ /\ CleanUp \/ UNCHANGED session
              /\ Return("subscribe", IF Answered THEN call.got.code ELSE FAILURE, call.req)
    BY <1>3 DEF FinishSubscribe
  <2>2. CallTypes'
    BY <1>1, <2>1, ReturnTyped, NoneTyped DEF Ops
  <2>3. SessionTypes'
    <3>1. CASE /\ \E first : messageHandlers' = [messageHandlers EXCEPT ![first] = call.req.topic]
               /\ UNCHANGED <<isconnected, ping_outstanding, inflight, incomingQoS2messages>>
      BY <1>0, <1>1, <3>1 DEF SessionTypes, Slots, MaxHandlers
    <3> QED BY <2>1, <3>1, CleanUpTyped, TypesKept
  <2> QED BY <1>2, <2>1, <2>2, <2>3
<1>4. CASE FinishUnsubscribe
  <2>1. /\ UNCHANGED <<packetid, timers, network, broker, calls, sent, faults, history>>
        /\ \/ /\ \E some \in SUBSET Slots :
                    messageHandlers' = [i \in Slots |-> IF i \in some THEN NoTopic
                                                        ELSE messageHandlers[i]]
              /\ Return("unsubscribe", SUCCESS, call.req)
              /\ UNCHANGED <<isconnected, ping_outstanding, inflight, incomingQoS2messages>>
           \/ CleanUp /\ Return("unsubscribe", FAILURE, call.req)
    <3> DEFINE mine == {i \in Slots : messageHandlers[i] = call.req.topic}
               first == CHOOSE i \in mine : \A j \in mine : i <= j
               some == {i \in Slots : mine # {} /\ i = first}
    <3>1. CASE ~Answered
      BY <1>4, <3>1 DEF FinishUnsubscribe
    <3>2. CASE Answered
      <4>1. messageHandlers' = [i \in Slots |-> IF mine # {} /\ i = first THEN NoTopic
                                                ELSE messageHandlers[i]]
        BY <1>4, <3>2 DEF FinishUnsubscribe
      <4>2. messageHandlers' = [i \in Slots |-> IF i \in some THEN NoTopic ELSE messageHandlers[i]]
        BY <4>1
      <4>3. some \in SUBSET Slots
        OBVIOUS
      <4> HIDE DEF mine, first, some
      <4> QED BY <1>4, <3>2, <4>2, <4>3 DEF FinishUnsubscribe
    <3> QED BY <3>1, <3>2
  <2>2. CallTypes'
    BY <1>1, <2>1, ReturnTyped, NoneTyped DEF Ops
  <2>3. SessionTypes'
    <3>1. CASE /\ \E some \in SUBSET Slots :
                    messageHandlers' = [i \in Slots |-> IF i \in some THEN NoTopic
                                                        ELSE messageHandlers[i]]
               /\ UNCHANGED <<isconnected, ping_outstanding, inflight, incomingQoS2messages>>
      BY <1>0, <3>1 DEF SessionTypes, Slots, MaxHandlers
    <3> QED BY <2>1, <3>1, CleanUpTyped
  <2> QED BY <1>2, <2>1, <2>2, <2>3
<1>5. CASE FinishPublish
  <2>1. /\ UNCHANGED <<packetid, timers, network, broker, calls, sent, faults, history>>
        /\ \/ /\ inflight' = [inflight EXCEPT !.id = 0] \/ inflight' = inflight
              /\ isconnected' = TRUE
              /\ Return(call.op, SUCCESS, call.req)
              /\ UNCHANGED <<messageHandlers, ping_outstanding, incomingQoS2messages>>
           \/ CleanUp /\ Return(call.op, FAILURE, call.req)
    BY <1>5 DEF FinishPublish
  <2>2. CallTypes'
    BY <1>1, <2>1, ReturnTyped, NoneTyped
  <2>3. [inflight EXCEPT !.id = 0] \in Sendable
    BY <1>0, NoneTyped DEF SessionTypes, Sendable, Packet
  <2>4. SessionTypes'
    <3>1. CASE /\ inflight' = [inflight EXCEPT !.id = 0] \/ inflight' = inflight
               /\ isconnected' = TRUE
               /\ UNCHANGED <<messageHandlers, ping_outstanding, incomingQoS2messages>>
      BY <1>0, <2>3, <3>1 DEF SessionTypes, Slots, MaxHandlers
    <3> QED BY <2>1, <3>1, CleanUpTyped
  <2> QED BY <1>2, <2>1, <2>2, <2>4
<1> QED BY <1>3, <1>4, <1>5

-----------------------------------------------------------------------------
(* Types of the steps of network and broker *)

\* What remains to be shown of a step of the network or the broker.
LEMMA OutsideTyped ==
    ASSUME MqttTypes, UNCHANGED <<setup, session, packetid, timers, call, ret>>,
           up' \in BOOLEAN, c2s' \in Seq(Sendable), s2c' \in Seq(Packet), BrokerTypes',
           calls' \in 0..MaxCalls, sent' \in 0..MaxSent, faults' \in 0..MaxFaults,
           received' \subseteq Nat, UNCHANGED delivered
    PROVE  MqttTypes'
<1>1. SessionTypes' /\ CallTypes'
  BY TypesKept
<1>2. NetTypes'
  BY DEF MqttTypes, NetTypes, timers
<1>3. CountTypes'
  <2>1. UNCHANGED <<MaxCalls, MaxSent, MaxFaults>>
    BY DEF MaxCalls, MaxSent, MaxFaults
  <2>2. packetid' \in Ids /\ delivered' \in [1..MaxSent -> Nat]
    BY DEF MqttTypes, CountTypes
  <2> QED BY <2>1, <2>2 DEF CountTypes
<1>4. setup' \in Setup /\ BrokerTypes'
  BY DEF MqttTypes
<1> QED BY <1>1, <1>2, <1>3, <1>4, Zenon DEF MqttTypes

LEMMA ClosesTyped ==
    ASSUME BrokerTypes, BrokerCloses
    PROVE  BrokerTypes'
<1>1. [t \in Topics |-> -1] \in [Topics -> -1..2]
  OBVIOUS
<1>2. \/ b_subs' = [t \in Topics |-> -1] /\ b_out' = {} /\ b_held' = {}
      \/ UNCHANGED <<b_subs, b_out, b_held>>
  BY Zenon DEF BrokerCloses
<1>3. b_connected' = FALSE
  BY DEF BrokerCloses
<1> QED BY <1>1, <1>2, <1>3 DEF BrokerTypes

\* The counters, as they are and one further.
LEMMA CountersTyped ==
    ASSUME MqttTypes
    PROVE  /\ calls \in 0..MaxCalls /\ sent \in 0..MaxSent /\ faults \in 0..MaxFaults
           /\ calls < MaxCalls => calls + 1 \in 0..MaxCalls
           /\ sent < MaxSent => sent + 1 \in 0..MaxSent /\ sent + 1 \in Nat
           /\ faults < MaxFaults => faults + 1 \in 0..MaxFaults
           /\ received \subseteq Nat
  BY SetupTypes DEF MqttTypes, CountTypes

LEMMA NetworkTyped ==
    ASSUME MqttTypes, UNCHANGED setup,
           ConnectionFails \/ NewConnection \/ BrokerHangsUp \/ SendingDue \/ ReceivingDue
    PROVE  MqttTypes'
<1>0. NetTypes /\ BrokerTypes /\ s2c \in Seq(Packet)
  BY DEF MqttTypes, NetTypes
<1>1. <<>> \in Seq(Sendable) /\ <<>> \in Seq(Packet)
  OBVIOUS
<1>2. CASE ConnectionFails
  <2>1. /\ faults < MaxFaults /\ faults' = faults + 1 /\ up' = FALSE /\ c2s' = <<>>
        /\ s2c' \in {SubSeq(s2c, 1, k) : k \in 0..Len(s2c)} /\ BrokerCloses
        /\ UNCHANGED <<session, packetid, timers, call, ret, calls, sent, history>>
    BY <1>2 DEF ConnectionFails
  <2>2. s2c' \in Seq(Packet)
    BY <1>0, <2>1, StillPackets
  <2>3. UNCHANGED <<received, delivered>>
    BY <2>1 DEF history
  <2> QED BY <1>0, <1>1, <2>1, <2>2, <2>3, ClosesTyped, CountersTyped, OutsideTyped
<1>3. CASE NewConnection
  <2>1. /\ Calling /\ up' = TRUE /\ c2s' = <<>> /\ s2c' = <<>> /\ BrokerCloses
        /\ UNCHANGED <<session, packetid, timers, call, ret, sent, faults, history>>
    BY <1>3 DEF NewConnection
  <2>2. UNCHANGED <<received, delivered>> /\ calls' \in 0..MaxCalls
    BY <2>1, CountersTyped DEF history, Calling
  <2> QED BY <1>0, <1>1, <2>1, <2>2, ClosesTyped, CountersTyped, OutsideTyped
<1>4. CASE BrokerHangsUp
  <2>1. /\ up' = FALSE /\ c2s' = <<>> /\ BrokerCloses
        /\ UNCHANGED <<session, packetid, timers, call, ret, s2c, calls, sent, faults, history>>
    BY <1>4 DEF BrokerHangsUp
  <2>2. UNCHANGED <<received, delivered>>
    BY <2>1 DEF history
  <2> QED BY <1>0, <1>1, <2>1, <2>2, ClosesTyped, CountersTyped, OutsideTyped
<1>5. CASE SendingDue \/ ReceivingDue
  <2>1. /\ sent_due' \in BOOLEAN /\ received_due' \in BOOLEAN
        /\ UNCHANGED <<session, packetid, call, ret, network, broker, calls, sent, faults, history>>
    BY <1>0, <1>5 DEF SendingDue, ReceivingDue, NetTypes
  <2>2. NetTypes'
    BY <1>0, <2>1 DEF NetTypes, network
  <2> QED BY <2>1, <2>2, TypesKept DEF MqttTypes
<1> QED BY <1>2, <1>3, <1>4, <1>5

LEMMA TakesTyped ==
    ASSUME MqttTypes, NEW type, Takes(type)
    PROVE  /\ Head(c2s) \in Sendable /\ Head(c2s).type = type /\ c2s # <<>> /\ up
           /\ c2s' = Tail(c2s) /\ c2s' \in Seq(Sendable)
           /\ Head(c2s).id \in Ids /\ Head(c2s).msg \in Nat /\ Head(c2s).code \in Codes
<1>1. c2s \in Seq(Sendable) /\ c2s # <<>> /\ c2s' = Tail(c2s) /\ up /\ Head(c2s).type = type
  BY DEF MqttTypes, NetTypes, Takes
<1>2. Head(c2s) \in Sendable /\ Tail(c2s) \in Seq(Sendable)
  BY <1>1, StillPackets
<1> QED BY <1>1, <1>2 DEF Sendable, Packet

LEMMA AnswersTyped ==
    ASSUME MqttTypes, NEW p \in Packet, Answers(p)
    PROVE  s2c' \in Seq(Packet)
<1>1. s2c \in Seq(Packet) /\ s2c' = Append(s2c, p)
  BY DEF MqttTypes, NetTypes, Answers
<1> QED BY <1>1, StillPackets

\* What remains to be shown of a step of the broker on a connection.
LEMMA BrokerTyped ==
    ASSUME MqttTypes, UNCHANGED <<setup, ClientSide>>, c2s' \in Seq(Sendable), s2c' \in Seq(Packet),
           BrokerTypes', faults' \in 0..MaxFaults, received' \subseteq Nat
    PROVE  MqttTypes'
<1>1. /\ UNCHANGED <<session, packetid, timers, call, ret, calls, sent, delivered>>
      /\ up' = up /\ up \in BOOLEAN
  BY DEF ClientSide, MqttTypes, NetTypes
<1> QED BY <1>1, CountersTyped, OutsideTyped

LEMMA HandshakeTyped ==
    ASSUME MqttTypes, UNCHANGED setup, BrokerAccepts \/ BrokerAnswersPing
    PROVE  MqttTypes'
<1>0. BrokerTypes
  BY DEF MqttTypes
<1>1. CASE BrokerAccepts
  <2>1. /\ Takes("CONNECT") /\ UNCHANGED <<ClientSide, b_subs, b_out, b_held, received>>
        /\ \E code \in {0, 5} : Answers(Ack("CONNACK", 0, code))
        /\ b_connected' = TRUE \/ b_connected' = b_connected
        /\ faults' = faults \/ (faults < MaxFaults /\ faults' = faults + 1)
    BY <1>1 DEF BrokerAccepts
  <2>2. s2c' \in Seq(Packet)
    <3>1. PICK code \in {0, 5} : Answers(Ack("CONNACK", 0, code))
      BY <2>1
    <3>2. code \in Codes /\ "CONNACK" \in AckTypes
      BY NoneTyped DEF AckTypes
    <3>3. Ack("CONNACK", 0, code) \in Packet
      BY <3>2, AckTyped, NoneTyped
    <3> QED BY <3>1, <3>3, AnswersTyped
  <2>3. c2s' \in Seq(Sendable)
    BY <2>1, TakesTyped
  <2>4. BrokerTypes'
    BY <1>0, <2>1 DEF BrokerTypes
  <2>5. faults' \in 0..MaxFaults /\ received' \subseteq Nat
    BY <2>1, CountersTyped
  <2> QED BY <2>1, <2>2, <2>3, <2>4, <2>5, BrokerTyped
<1>2. CASE BrokerAnswersPing
  <2>1. /\ Takes("PINGREQ") /\ Answers(Ack("PINGRESP", 0, 0))
        /\ UNCHANGED <<ClientSide, broker, faults, received>>
    BY <1>2 DEF BrokerAnswersPing
  <2>2. Ack("PINGRESP", 0, 0) \in Packet
    BY AckTyped, NoneTyped DEF AckTypes
  <2>3. s2c' \in Seq(Packet) /\ c2s' \in Seq(Sendable)
    BY <2>1, <2>2, AnswersTyped, TakesTyped
  <2> QED BY <2>1, <2>3, TypesKept, CountersTyped, BrokerTyped
<1> QED BY <1>1, <1>2

\* The pieces of the broker's state that its steps change.
LEMMA SubsTyped ==
    ASSUME NEW subs \in [Topics -> -1..2], NEW t, NEW q \in -1..2
    PROVE  [subs EXCEPT ![t] = q] \in [Topics -> -1..2]
  OBVIOUS

LEMMA HeldTyped ==
    ASSUME NEW held \in SUBSET [id : Ids, msg : Nat], NEW i \in Ids, NEW n \in Nat
    PROVE  held \cup {[id |-> i, msg |-> n]} \in SUBSET [id : Ids, msg : Nat]
  OBVIOUS

LEMMA OutTyped ==
    ASSUME NEW out \in SUBSET [pub : Message, rel : BOOLEAN], NEW mine \in SUBSET out
    PROVE  /\ (out \ mine) \cup {[m EXCEPT !.rel = TRUE] : m \in mine}
                 \in SUBSET [pub : Message, rel : BOOLEAN]
           /\ out \ mine \in SUBSET [pub : Message, rel : BOOLEAN]
           /\ \A p \in Message : out \cup {[pub |-> p, rel |-> FALSE]}
                 \in SUBSET [pub : Message, rel : BOOLEAN]
<1>1. \A m \in mine : [m EXCEPT !.rel = TRUE] \in [pub : Message, rel : BOOLEAN]
  OBVIOUS
<1>2. \A p \in Message : [pub |-> p, rel |-> FALSE] \in [pub : Message, rel : BOOLEAN]
  OBVIOUS
<1> DEFINE T == [pub : Message, rel : BOOLEAN]
           now(m) == [m EXCEPT !.rel = TRUE]
           new(p) == [pub |-> p, rel |-> FALSE]
<1> HIDE DEF T, now, new
<1>3. (out \ mine) \cup {now(m) : m \in mine} \in SUBSET T
  BY <1>1, Zenon DEF T, now
<1>4. \A p \in Message : out \cup {new(p)} \in SUBSET T
  BY <1>2, Zenon DEF T, new
<1> QED BY <1>3, <1>4 DEF T, now, new

LEMMA SubscriptionsTyped ==
    ASSUME MqttTypes, UNCHANGED setup, BrokerSubscribes \/ BrokerUnsubscribes
    PROVE  MqttTypes'
<1> DEFINE p == Head(c2s)
<1>0. BrokerTypes
  BY DEF MqttTypes
<1>1. CASE BrokerSubscribes
  <2>1. /\ Takes("SUBSCRIBE") /\ UNCHANGED <<ClientSide, b_connected, b_out, b_held, received>>
        /\ \/ /\ b_subs' = [b_subs EXCEPT ![p.topic] = p.code]
              /\ Answers(Ack("SUBACK", p.id, p.code)) /\ faults' = faults
           \/ /\ b_subs' = b_subs /\ Answers(Ack("SUBACK", p.id, Refused))
              /\ faults < MaxFaults /\ faults' = faults + 1
    BY <1>1 DEF BrokerSubscribes
  <2>2. /\ p.id \in Ids /\ p.code \in 0..2 /\ p.code \in Codes /\ c2s' \in Seq(Sendable)
    <3>1. p \in Sendable /\ p.type = "SUBSCRIBE"
      BY <2>1, TakesTyped
    <3> QED BY <2>1, <3>1, TakesTyped DEF Sendable
  <2> HIDE DEF p
  <2>3. Ack("SUBACK", p.id, p.code) \in Packet /\ Ack("SUBACK", p.id, Refused) \in Packet
    BY <2>2, AckTyped, NoneTyped DEF AckTypes
  <2>4. s2c' \in Seq(Packet)
    BY <2>1, <2>3, AnswersTyped
  <2>5. BrokerTypes'
    <3>1. b_subs \in [Topics -> -1..2] /\ p.code \in -1..2
      BY <1>0, <2>2 DEF BrokerTypes
    <3>2. b_subs' \in [Topics -> -1..2]
      BY <2>1, <3>1, SubsTyped
    <3> QED BY <1>0, <2>1, <3>2 DEF BrokerTypes
  <2>6. faults' \in 0..MaxFaults /\ received' \subseteq Nat
    BY <2>1, CountersTyped
  <2> QED BY <2>1, <2>2, <2>4, <2>5, <2>6, BrokerTyped
<1>2. CASE BrokerUnsubscribes
  <2>1. /\ Takes("UNSUBSCRIBE") /\ b_subs' = [b_subs EXCEPT ![p.topic] = -1]
        /\ Answers(Ack("UNSUBACK", p.id, 0))
        /\ UNCHANGED <<ClientSide, b_connected, b_out, b_held, faults, received>>
    BY <1>2 DEF BrokerUnsubscribes
  <2>2. p.id \in Ids /\ c2s' \in Seq(Sendable)
    BY <2>1, TakesTyped
  <2> HIDE DEF p
  <2>3. Ack("UNSUBACK", p.id, 0) \in Packet
    BY <2>2, AckTyped, NoneTyped DEF AckTypes
  <2>4. s2c' \in Seq(Packet)
    BY <2>1, <2>3, AnswersTyped
  <2>5. BrokerTypes'
    <3>1. b_subs \in [Topics -> -1..2] /\ -1 \in -1..2
      BY <1>0 DEF BrokerTypes
    <3>2. b_subs' \in [Topics -> -1..2]
      BY <2>1, <3>1, SubsTyped
    <3> QED BY <1>0, <2>1, <3>2 DEF BrokerTypes
  <2> QED BY <2>1, <2>2, <2>4, <2>5, CountersTyped, BrokerTyped
<1> QED BY <1>1, <1>2

LEMMA MessagesTyped ==
    ASSUME MqttTypes, UNCHANGED setup, BrokerReceives \/ BrokerReleases \/ BrokerAcked
    PROVE  MqttTypes'
<1> DEFINE p == Head(c2s)
<1>0. BrokerTypes /\ s2c \in Seq(Packet)
  BY DEF MqttTypes, NetTypes
<1>1. CASE BrokerReceives
  <2>1. /\ Takes("PUBLISH") /\ UNCHANGED <<ClientSide, b_connected, b_subs, b_out, faults>>
        /\ received' = received \cup {p.msg} \/ received' = received
        /\ b_held' = b_held \cup {[id |-> p.id, msg |-> p.msg]} \/ b_held' = b_held
        /\ CASE p.code = 0 -> UNCHANGED s2c
             [] p.code = 1 -> Answers(Ack("PUBACK", p.id, 0))
             [] p.code = 2 -> Answers(Ack("PUBREC", p.id, 0))
    BY <1>1 DEF BrokerReceives
  <2>2. p.id \in Ids /\ p.msg \in Nat /\ p.code \in 0..2 /\ c2s' \in Seq(Sendable)
    <3>1. p \in Sendable /\ p.type = "PUBLISH"
      BY <2>1, TakesTyped
    <3> QED BY <2>1, <3>1, TakesTyped DEF Sendable
  <2>3. \/ UNCHANGED s2c \/ Answers(Ack("PUBACK", p.id, 0)) \/ Answers(Ack("PUBREC", p.id, 0))
    <3>1. p.code = 0 \/ p.code = 1 \/ p.code = 2
      BY <2>2
    <3> HIDE DEF p
    <3> QED BY <2>1, <3>1
  <2> HIDE DEF p
  <2>4. Ack("PUBACK", p.id, 0) \in Packet /\ Ack("PUBREC", p.id, 0) \in Packet
    BY <2>2, AckTyped, NoneTyped DEF AckTypes
  <2>5. s2c' \in Seq(Packet)
    BY <1>0, <2>3, <2>4, AnswersTyped
  <2>6. BrokerTypes'
    <3>1. b_held \in SUBSET [id : Ids, msg : Nat]
      BY <1>0 DEF BrokerTypes
    <3>2. b_held \cup {[id |-> p.id, msg |-> p.msg]} \in SUBSET [id : Ids, msg : Nat]
      BY <2>2, <3>1, HeldTyped
    <3>3. b_held' \in SUBSET [id : Ids, msg : Nat]
      BY <2>1, <3>1, <3>2
    <3> QED BY <1>0, <2>1, <3>3 DEF BrokerTypes
  <2>7. received' \subseteq Nat
    BY <2>1, <2>2, CountersTyped
  <2> QED BY <2>1, <2>2, <2>5, <2>6, <2>7, CountersTyped, BrokerTyped
<1>2. CASE BrokerReleases
  <2>1. /\ Takes("PUBREL") /\ UNCHANGED <<ClientSide, b_connected, b_subs, b_out, faults>>
        /\ received' = received \cup {m.msg : m \in {h \in b_held : h.id = p.id}}
        /\ b_held' = {h \in b_held : h.id # p.id}
        /\ Answers(Ack("PUBCOMP", p.id, 0))
    BY <1>2 DEF BrokerReleases
  <2>2. p.id \in Ids /\ c2s' \in Seq(Sendable)
    BY <2>1, TakesTyped
  <2> HIDE DEF p
  <2>3. Ack("PUBCOMP", p.id, 0) \in Packet
    BY <2>2, AckTyped, NoneTyped DEF AckTypes
  <2>4. s2c' \in Seq(Packet)
    BY <2>1, <2>3, AnswersTyped
  <2>5. BrokerTypes'
    BY <1>0, <2>1 DEF BrokerTypes
  <2>6. received' \subseteq Nat
    BY <1>0, <2>1, CountersTyped DEF BrokerTypes
  <2> QED BY <2>1, <2>2, <2>4, <2>5, <2>6, CountersTyped, BrokerTyped
<1>3. CASE BrokerAcked
  <2> DEFINE completes(m) == IF p.type = "PUBACK" THEN m.pub.code = 1
                             ELSE m.pub.code = 2 /\ (p.type = "PUBCOMP" => m.rel)
             mine == {m \in b_out : m.pub.id = p.id /\ completes(m)}
  <2>0. mine \in SUBSET b_out
    OBVIOUS
  <2>1. /\ \E type : Takes(type)
        /\ UNCHANGED <<ClientSide, b_connected, b_subs, b_held, faults, received>>
        /\ \/ /\ b_out' = (b_out \ mine) \cup {[m EXCEPT !.rel = TRUE] : m \in mine}
              /\ Answers(Ack("PUBREL", p.id, 0))
           \/ b_out' = b_out \ mine /\ UNCHANGED s2c
    BY <1>3, Zenon DEF BrokerAcked
  <2> HIDE DEF mine
  <2>2. p.id \in Ids /\ c2s' \in Seq(Sendable)
    BY <2>1, TakesTyped
  <2> HIDE DEF p
  <2>3. Ack("PUBREL", p.id, 0) \in Packet
    BY <2>2, AckTyped, NoneTyped DEF AckTypes
  <2>4. s2c' \in Seq(Packet)
    BY <1>0, <2>1, <2>3, AnswersTyped
  <2>5. BrokerTypes'
    <3>1. b_out \in SUBSET [pub : Message, rel : BOOLEAN]
      BY <1>0 DEF BrokerTypes
    <3>2. b_out' \in SUBSET [pub : Message, rel : BOOLEAN]
      BY <2>0, <2>1, <3>1, OutTyped
    <3> QED BY <1>0, <2>1, <3>2 DEF BrokerTypes
  <2> QED BY <2>1, <2>2, <2>4, <2>5, CountersTyped, BrokerTyped
<1> QED BY <1>1, <1>2, <1>3

LEMMA PublishesTyped ==
    ASSUME MqttTypes, UNCHANGED setup, BrokerPublishes \/ BrokerRetries
    PROVE  MqttTypes'
<1>0. BrokerTypes /\ up \in BOOLEAN /\ c2s \in Seq(Sendable)
  BY DEF MqttTypes, NetTypes
<1>1. CASE BrokerPublishes
  <2>1. PICK t \in TopicsUsed, q \in QosUsed, id \in Ids :
           /\ Answers(Pub(id, q, t, sent + 1))
           /\ \/ b_out' = b_out
              \/ b_out' = b_out \cup {[pub |-> Pub(id, q, t, sent + 1), rel |-> FALSE]}
           /\ sent < MaxSent /\ sent' = sent + 1
           /\ UNCHANGED <<session, packetid, timers, call, ret, up, c2s, b_connected, b_subs,
                          b_held, calls, faults, history>>
    BY <1>1, NoneTyped DEF BrokerPublishes
  <2>2. sent + 1 \in Nat /\ sent' \in 0..MaxSent
    BY <2>1, CountersTyped
  <2>3. Pub(id, q, t, sent + 1) \in Message /\ Pub(id, q, t, sent + 1) \in Packet
    BY <2>2, PubTyped, SetupTypes DEF MqttTypes, Message
  <2>4. s2c' \in Seq(Packet)
    BY <2>1, <2>3, AnswersTyped
  <2>5. BrokerTypes'
    <3>1. b_out \in SUBSET [pub : Message, rel : BOOLEAN]
      BY <1>0 DEF BrokerTypes
    <3>2. b_out' \in SUBSET [pub : Message, rel : BOOLEAN]
      BY <2>1, <2>3, <3>1, OutTyped, Zenon
    <3> QED BY <1>0, <2>1, <3>2 DEF BrokerTypes
  <2>6. UNCHANGED <<received, delivered>>
    BY <2>1 DEF history
  <2> QED BY <1>0, <2>1, <2>2, <2>4, <2>5, <2>6, CountersTyped, OutsideTyped
<1>2. CASE BrokerRetries
  <2>1. PICK m \in b_out :
           /\ Answers(IF m.rel THEN Ack("PUBREL", m.pub.id, 0) ELSE m.pub)
           /\ faults < MaxFaults /\ faults' = faults + 1
           /\ UNCHANGED <<session, packetid, timers, call, ret, up, c2s, broker, calls, sent, history>>
    BY <1>2 DEF BrokerRetries
  <2>2. m.pub \in Packet /\ m.pub.id \in Ids
    BY <1>0 DEF BrokerTypes, Message, Packet
  <2>3. Ack("PUBREL", m.pub.id, 0) \in Packet
    BY <2>2, AckTyped, NoneTyped DEF AckTypes
  <2>4. s2c' \in Seq(Packet)
    BY <2>1, <2>2, <2>3, AnswersTyped
  <2>5. UNCHANGED <<received, delivered>> /\ BrokerTypes'
    BY <2>1, TypesKept DEF history
  <2> QED BY <1>0, <2>1, <2>4, <2>5, CountersTyped, OutsideTyped
<1> QED BY <1>1, <1>2

-----------------------------------------------------------------------------
\* The types, with what they need to be kept: what the client sends has a QoS.
LEMMA InitTyped == Init => MqttTypes
<1> SUFFICES ASSUME Init PROVE MqttTypes
  OBVIOUS
<1>1. setup \in Setup
  BY SetupAssumption DEF Init
<1>2. SessionTypes
  BY NoneTyped, SizeAssumption DEF Init, SessionTypes, NoHandlers, NoIncoming, Slots, Incoming
<1>3. CallTypes
  BY NoneTyped DEF Init, CallTypes, Ops
<1>4. NetTypes /\ BrokerTypes
  <2>1. NetTypes
    <3>1. <<>> \in Seq(Sendable) /\ <<>> \in Seq(Packet)
      OBVIOUS
    <3> QED BY <3>1 DEF Init, NetTypes
  <2>2. -1 \in -1..2
    OBVIOUS
  <2>3. BrokerTypes
    BY <2>2 DEF Init, BrokerTypes
  <2> QED BY <2>1, <2>3
<1>5. CountTypes
  BY <1>1, SetupTypes, NoneTyped DEF Init, CountTypes
<1> QED BY <1>1, <1>2, <1>3, <1>4, <1>5 DEF MqttTypes

LEMMA NextTyped == MqttTypes /\ [Next]_<<setup, vars>> => MqttTypes'
<1> SUFFICES ASSUME MqttTypes, [Next]_<<setup, vars>> PROVE MqttTypes'
  OBVIOUS
<1>1. CASE UNCHANGED <<setup, vars>>
  BY <1>1, TypesKept DEF MqttTypes, vars
<1>2. ASSUME UNCHANGED setup, Application PROVE MqttTypes'
  <2>1. TopicsUsed \subseteq Topics /\ QosUsed \subseteq 0..2
    BY SetupTypes DEF MqttTypes
  <2>2. ASSUME NEW t \in TopicsUsed, Unsubscribe(t) PROVE MqttTypes'
    BY <1>2, <2>1, <2>2, AskForTyped, 0 \in 0..2
  <2>3. ASSUME NEW t \in TopicsUsed, NEW q \in QosUsed, Subscribe(t, q) \/ Publish(t, q) PROVE MqttTypes'
    BY <1>2, <2>1, <2>3, AskForTyped, PublishTyped
  <2> QED BY <1>2, <2>2, <2>3, OtherCallsTyped, NetworkTyped DEF Application
<1>3. ASSUME UNCHANGED setup, Cycle \/ Expire \/ Finish PROVE MqttTypes'
  BY <1>3, CycleAckTyped, CycleReleaseTyped, CyclePublishTyped, NoPacketTyped, FinishConnectTyped,
     OtherFinishesTyped DEF Cycle, Finish
<1>4. ASSUME UNCHANGED setup, Broker PROVE MqttTypes'
  BY <1>4, HandshakeTyped, NetworkTyped, SubscriptionsTyped, MessagesTyped, PublishesTyped DEF Broker
<1>5. ASSUME UNCHANGED setup, ConnectionFails \/ SendingDue \/ ReceivingDue PROVE MqttTypes'
  BY <1>5, NetworkTyped
<1> QED BY <1>1, <1>2, <1>3, <1>4, <1>5 DEF Next

LEMMA AlwaysTyped == Spec => []MqttTypes
<1> QED BY InitTyped, NextTyped, PTL DEF Spec

\* THEOREM: the types of client, network and broker, for all sizes and clients.
THEOREM SessionTypeCorrect == Spec => []TypeOK
<1> QED BY AlwaysTyped, TypesImplyTypeOK, PTL
=============================================================================

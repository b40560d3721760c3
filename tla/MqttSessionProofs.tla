------------------------- MODULE MqttSessionProofs -------------------------
(***************************************************************************)
(* What is proved of a client that asks for clean sessions, as the         *)
(* firmware's does: it says it is connected only when the broker has       *)
(* accepted it, a call ends with the answer to its own request, a message  *)
(* published at QoS 1 with success has reached the broker, a QoS 2 message *)
(* is handed over once, no message is read while its handler is not there, *)
(* and a QoS 2 message the broker has a PUBREC for was handed over.        *)
(*                                                                         *)
(* waitfor looks at the type of a packet only.  That this is enough rests  *)
(* on what is under way: a request, or its answer, is on the connection of *)
(* a connected client only while the call that sent it waits.  A call that *)
(* gives up cleans the session, and the connection it leaves behind will   *)
(* not accept a second CONNECT.                                            *)
(***************************************************************************)
EXTENDS MqttClientProofs, WellFoundedInduction

-----------------------------------------------------------------------------
(* The invariant *)

\* Requests that a call waits for, their answers, and the CONNACK of success.
Asks    == {p \in Packet : \/ p.type \in {"SUBSCRIBE", "UNSUBSCRIBE"}
                           \/ p.type = "PUBLISH" /\ p.code = 1}
Replies == {p \in Packet : p.type \in {"SUBACK", "UNSUBACK", "PUBACK"}}
Accepts == {p \in Packet : p.type = "CONNACK" /\ p.code = 0}

Quiet     == None(c2s, Asks) /\ None(s2c, Replies)
Asking    == call.at # "idle" /\ call.op \in {"subscribe", "unsubscribe", "publish"}
GotAccept == call.at = "got" /\ call.got \in Accepts

\* p answers the request of the call.
Answer(p)  == /\ p.id = call.req.id
              /\ p.type = "PUBACK" => call.req.msg \in received
Strangers  == {p \in Replies : ~Answer(p)}

CallInv ==
    /\ call.at = "idle" => call = NoCall
    /\ call.at # "idle" =>
          \/ call.op = "connect" /\ call.wait = "CONNACK"
          \/ call.op = "subscribe" /\ call.wait = "SUBACK"
          \/ call.op = "unsubscribe" /\ call.wait = "UNSUBACK"
          \/ call.op = "publish" /\ call.wait = "PUBACK"
          \/ call.op = "yield" /\ call.wait = "PINGREQ"
    /\ call.at # "idle" /\ call.op = "connect" => ~isconnected
    /\ Asking => isconnected
    /\ call.at = "got" => call.got.type = call.wait
    /\ inflight.id = 0

LinkInv == ~up => c2s = <<>>

\* One CONNECT is accepted per connection, so once the client has read its
\* CONNACK there is no other.
AcceptInv ==
    /\ up /\ (isconnected \/ GotAccept \/ ~None(s2c, Accepts)) => b_connected
    /\ One(s2c, Accepts)
    /\ isconnected \/ GotAccept => None(s2c, Accepts)

\* The request of the call, or its answer, and nothing else.
OneOut ==
    /\ One(c2s, Asks) /\ One(s2c, Replies)
    /\ None(c2s, Asks) \/ None(s2c, Replies)
    /\ None(c2s, Asks \ {call.req}) /\ None(s2c, Strangers)

AskInv ==
    /\ ~Quiet => (up => b_connected) /\ None(s2c, Accepts) /\ ~GotAccept
    /\ isconnected => \/ Quiet
                      \/ Asking /\ call.at = "expired"
                      \/ Asking /\ call.at = "wait" /\ OneOut
    /\ Asking /\ call.at = "got" => Answer(call.got)

RetInv ==
    (/\ ret.op \in {"publish", "connect"} /\ ret.rc = SUCCESS
     /\ ret.req.type = "PUBLISH" /\ ret.req.code = 1)
        => ret.req.msg \in received

SessionInv == CallInv /\ LinkInv /\ AcceptInv /\ AskInv /\ RetInv
CleanInv   == CleanSession => SessionInv

LEMMA Fewer ==
    ASSUME NEW q, NEW S, NEW R \in SUBSET S, None(q, S)
    PROVE  None(q, R)
  BY DEF None

-----------------------------------------------------------------------------
(* What the steps have in common, as far as the invariant goes *)

client == <<isconnected, inflight, call, ret>>

\* The client sends, if anything, a packet no call waits for the answer of.
Talks == \/ c2s' = c2s
         \/ up /\ \E p \in Sendable \ Asks : c2s' = Append(c2s, p)

\* A call is over, with or without the connection.
Over ==
    /\ call' = NoCall /\ inflight'.id = 0 /\ RetInv'
    /\ Talks /\ UNCHANGED <<up, s2c, b_connected, received>>
    /\ isconnected' => isconnected /\ (Asking => call.at = "got")

\* connect has read the broker's acceptance.
Enters ==
    /\ GotAccept /\ call' = NoCall /\ inflight'.id = 0 /\ RetInv'
    /\ isconnected' = TRUE
    /\ UNCHANGED <<up, c2s, s2c, b_connected, received>>

\* connect or yield waits.
Starts(op, type) ==
    /\ call.at = "idle" /\ Waiting(op, type, NoInflight) /\ Talks
    /\ (op = "connect" /\ type = "CONNACK" /\ ~isconnected) \/ (op = "yield" /\ type = "PINGREQ")
    /\ UNCHANGED <<isconnected, inflight, up, s2c, b_connected, received>>

\* subscribe, unsubscribe or publish has sent its request and waits.
AsksFor(op, type, p) ==
    /\ call.at = "idle" /\ isconnected /\ isconnected' = TRUE /\ inflight'.id = 0
    /\ p \in Asks /\ p \in Sendable /\ Waiting(op, type, p)
    /\ \/ op = "subscribe" /\ type = "SUBACK"
       \/ op = "unsubscribe" /\ type = "UNSUBACK"
       \/ op = "publish" /\ type = "PUBACK"
    /\ c2s' = IF up THEN Append(c2s, p) ELSE c2s
    /\ UNCHANGED <<up, s2c, b_connected, received>>

\* The timer, or a failure, ends a wait.
Ends == \/ call.op = "yield" /\ call' = NoCall /\ ret'.op = "yield"
        \/ call.op # "yield" /\ call' = [call EXCEPT !.at = "expired"] /\ UNCHANGED ret

Waits ==
    /\ call.at = "wait" /\ Talks
    /\ UNCHANGED <<call, ret>> \/ Ends
    /\ UNCHANGED <<isconnected, inflight, up, s2c, b_connected, received>>

\* A cycle has read a packet.
Reads ==
    /\ call.at = "wait" /\ Talks
    /\ s2c # <<>> /\ s2c' = Tail(s2c)
    /\ \/ UNCHANGED <<call, ret>> \/ Ends
       \/ /\ Head(s2c).type = call.wait /\ UNCHANGED ret
          /\ call' = [call EXCEPT !.at = "got", !.got = Head(s2c)]
    /\ UNCHANGED <<isconnected, inflight, up, b_connected, received>>

Breaks ==
    /\ up' = FALSE /\ c2s' = <<>>
    /\ \E n \in 0..Len(s2c) : s2c' = SubSeq(s2c, 1, n)
    /\ UNCHANGED <<client, received>>

Renews ==
    /\ call.at = "idle" /\ ~isconnected
    /\ up' = TRUE /\ c2s' = <<>> /\ s2c' = <<>> /\ b_connected' = FALSE
    /\ UNCHANGED <<client, received>>

\* The broker answers a request, accepts a client, or does something else.
Replied(r) ==
    /\ up /\ b_connected /\ c2s # <<>> /\ Head(c2s) \in Asks /\ c2s' = Tail(c2s)
    /\ r \in Replies /\ s2c' = Append(s2c, r)
    /\ r.id = Head(c2s).id
    /\ r.type = "PUBACK" => Head(c2s).msg \in received'
    /\ received \subseteq received' /\ UNCHANGED <<client, up, b_connected>>

Admitted ==
    /\ up /\ ~b_connected /\ b_connected' = TRUE
    /\ c2s # <<>> /\ c2s' = Tail(c2s)
    /\ \E r \in Accepts : s2c' = Append(s2c, r)
    /\ UNCHANGED <<client, up, received>>

BrokerTalks ==
    /\ c2s' = c2s \/ (c2s # <<>> /\ c2s' = Tail(c2s))
    /\ s2c' = s2c \/ \E r \in Packet \ (Replies \cup Accepts) : s2c' = Append(s2c, r)
    /\ received \subseteq received' /\ UNCHANGED <<client, up, b_connected>>

-----------------------------------------------------------------------------
(* The queues *)

LEMMA TalksKeeps ==
    ASSUME c2s \in Seq(Sendable), Talks
    PROVE  /\ None(c2s, Asks) => None(c2s', Asks)
           /\ One(c2s, Asks) => One(c2s', Asks)
           /\ \A x : None(c2s, Asks \ {x}) => None(c2s', Asks \ {x})
           /\ ~up => c2s' = c2s
<1>1. CASE c2s' = c2s
  BY <1>1
<1>2. CASE up /\ \E p \in Sendable \ Asks : c2s' = Append(c2s, p)
  <2>1. PICK p \in Sendable \ Asks : c2s' = Append(c2s, p)
    BY <1>2
  <2>2. None(c2s, Asks) => None(c2s', Asks)
    BY <2>1, Appended
  <2>3. One(c2s, Asks) => One(c2s', Asks)
    BY <2>1, Appended
  <2>4. ASSUME NEW x, None(c2s, Asks \ {x}) PROVE None(c2s', Asks \ {x})
    <3>1. p \notin Asks \ {x}
      BY <2>1
    <3> QED BY <2>1, <2>4, <3>1, Appended
  <2> QED BY <1>2, <2>2, <2>3, <2>4
<1> QED BY <1>1, <1>2 DEF Talks

LEMMA OverKeeps == MqttTypes /\ SessionInv /\ Over => SessionInv'
<1> SUFFICES ASSUME MqttTypes, SessionInv, Over PROVE SessionInv'
  OBVIOUS
<1>1. c2s \in Seq(Sendable) /\ isconnected \in BOOLEAN
  BY DEF MqttTypes, NetTypes, SessionTypes
<1>2. /\ None(c2s, Asks) => None(c2s', Asks)
      /\ ~up => c2s' = c2s
  BY <1>1, TalksKeeps DEF Over
<1>3. call' = NoCall /\ call'.at = "idle" /\ ~Asking' /\ ~GotAccept'
  BY DEF Over, NoCall, Asking, GotAccept
<1>4. CallInv'
  BY <1>3 DEF CallInv, Over
<1>5. LinkInv'
  BY <1>2 DEF LinkInv, SessionInv, Over
<1>6. AcceptInv'
  BY <1>3 DEF AcceptInv, SessionInv, Over
<1>7. isconnected' => Quiet
  BY DEF SessionInv, AskInv, Over
<1>8. AskInv'
  BY <1>2, <1>3, <1>7 DEF AskInv, SessionInv, Over, Quiet
<1> QED BY <1>4, <1>5, <1>6, <1>8 DEF SessionInv, Over

LEMMA EntersKeeps == SessionInv /\ Enters => SessionInv'
<1> SUFFICES ASSUME SessionInv, Enters PROVE SessionInv'
  OBVIOUS
<1>1. call' = NoCall /\ call'.at = "idle" /\ ~Asking' /\ ~GotAccept'
  BY DEF Enters, NoCall, Asking, GotAccept
<1>2. CallInv' /\ LinkInv'
  BY <1>1 DEF CallInv, LinkInv, SessionInv, Enters
<1>3. AcceptInv'
  BY <1>1 DEF AcceptInv, SessionInv, Enters
<1>4. Quiet /\ Quiet'
  BY DEF SessionInv, AskInv, Enters, Quiet
<1>5. AskInv'
  BY <1>1, <1>4 DEF AskInv
<1> QED BY <1>2, <1>3, <1>5 DEF SessionInv, Enters
\* The call of a client that waits, and what else stays as it was.
LEMMA StartsKeeps ==
    ASSUME MqttTypes, SessionInv, NEW op, NEW type, Starts(op, type)
    PROVE  SessionInv'
<1>1. c2s \in Seq(Sendable)
  BY DEF MqttTypes, NetTypes
<1>2. /\ None(c2s, Asks) => None(c2s', Asks)
      /\ ~up => c2s' = c2s
  BY <1>1, TalksKeeps DEF Starts
<1>3. call'.at = "wait" /\ call'.op = op /\ call'.wait = type
  BY DEF Starts, Waiting
<1>4. ~Asking' /\ ~GotAccept' /\ ~Asking /\ ~GotAccept
  BY <1>3 DEF Starts, Asking, GotAccept
<1>5. CallInv'
  BY <1>3, <1>4 DEF CallInv, SessionInv, Starts
<1>6. LinkInv' /\ RetInv'
  BY <1>2 DEF LinkInv, RetInv, SessionInv, Starts, Waiting
<1>7. AcceptInv'
  BY <1>4 DEF AcceptInv, SessionInv, Starts
<1>8. Quiet => Quiet'
  BY <1>2 DEF Starts, Quiet
<1>9. AskInv'
  BY <1>4, <1>8 DEF AskInv, SessionInv, Starts
<1> QED BY <1>5, <1>6, <1>7, <1>9 DEF SessionInv

LEMMA AsksForKeeps ==
    ASSUME MqttTypes, SessionInv, NEW op, NEW type, NEW p, AsksFor(op, type, p)
    PROVE  SessionInv'
<1>1. c2s \in Seq(Sendable) /\ p \in Sendable /\ p \in Asks
  BY DEF MqttTypes, NetTypes, AsksFor
<1>2. Asking' /\ ~GotAccept' /\ ~Asking /\ ~GotAccept
  BY DEF AsksFor, Waiting, Asking, GotAccept
<1>3. call'.at = "wait" /\ call'.op = op /\ call'.wait = type /\ call'.req = p
  BY DEF AsksFor, Waiting
<1>4. CallInv'
  BY <1>2, <1>3 DEF CallInv, AsksFor
<1>5. LinkInv' /\ RetInv'
  BY DEF LinkInv, RetInv, SessionInv, AsksFor, Waiting
<1>6. AcceptInv' /\ None(s2c', Accepts) /\ (up' => b_connected')
  BY <1>2 DEF AcceptInv, SessionInv, AsksFor
<1>7. Quiet
  BY <1>2 DEF AskInv, SessionInv, AsksFor
<1>8. One(c2s', Asks) /\ None(c2s', Asks \ {p})
  <2>1. CASE up
    <3>1. c2s' = Append(c2s, p)
      BY <2>1 DEF AsksFor
    <3>2. None(c2s, Asks \ {p})
      BY <1>7, Fewer DEF Quiet
    <3>3. p \notin Asks \ {p}
      OBVIOUS
    <3>4. None(c2s', Asks \ {p})
      BY <1>1, <3>1, <3>2, <3>3, Appended
    <3>5. One(c2s', Asks)
      BY <1>1, <1>7, <3>1, Appended DEF Quiet
    <3> QED BY <3>4, <3>5
  <2>2. CASE ~up
    <3>1. c2s' = <<>>
      BY <2>2 DEF AsksFor, SessionInv, LinkInv
    <3> QED BY <3>1, Nothing
  <2> QED BY <2>1, <2>2
<1>9. OneOut'
  <2>1. None(s2c', Replies)
    BY <1>7 DEF Quiet, AsksFor
  <2>2. One(s2c', Replies)
    BY <2>1 DEF None, One
  <2>3. None(s2c', Strangers')
    BY <2>1 DEF None, Strangers
  <2> QED BY <1>3, <1>8, <2>1, <2>2, <2>3 DEF OneOut
<1>10. AskInv'
  BY <1>2, <1>3, <1>6, <1>9 DEF AskInv
<1> QED BY <1>4, <1>5, <1>6, <1>10 DEF SessionInv

\* A wait that ends, or goes on, and what that makes of the call.
LEMMA EndsCall ==
    ASSUME MqttTypes, SessionInv, call.at = "wait", UNCHANGED <<isconnected, inflight, received>>,
           UNCHANGED <<call, ret>> \/ Ends
    PROVE  /\ CallInv' /\ RetInv' /\ ~GotAccept /\ ~GotAccept'
           /\ Asking' <=> Asking
           /\ Asking => call'.at \in {"wait", "expired"} /\ call'.req = call.req
<1>1. call \in CallValues /\ CallInv /\ RetInv
  BY DEF MqttTypes, CallTypes, SessionInv
<1>2. CASE UNCHANGED <<call, ret>>
  <2>1. CallInv' /\ RetInv'
    BY <1>1, <1>2 DEF CallInv, RetInv, Asking
  <2> QED BY <1>2, <2>1 DEF Asking, GotAccept
<1>3. CASE call.op = "yield" /\ call' = NoCall /\ ret'.op = "yield"
  <2>1. call'.at = "idle" /\ ~Asking' /\ ~Asking /\ ~GotAccept' /\ ~GotAccept
    BY <1>3 DEF NoCall, Asking, GotAccept
  <2>2. CallInv' /\ RetInv'
    BY <1>1, <1>3, <2>1 DEF CallInv, RetInv
  <2> QED BY <2>1, <2>2
<1>4. CASE call.op # "yield" /\ call' = [call EXCEPT !.at = "expired"] /\ UNCHANGED ret
  <2>1. /\ call'.at = "expired" /\ call'.op = call.op /\ call'.wait = call.wait
        /\ call'.req = call.req
    BY <1>1, <1>4 DEF CallValues
  <2>2. Asking' = Asking /\ ~GotAccept /\ ~GotAccept'
    BY <2>1 DEF Asking, GotAccept
  <2>3. CallInv' /\ RetInv'
    BY <1>1, <1>4, <2>1, <2>2 DEF CallInv, RetInv
  <2> QED BY <2>1, <2>2, <2>3
<1> QED BY <1>2, <1>3, <1>4 DEF Ends
LEMMA WaitsKeeps == MqttTypes /\ SessionInv /\ Waits => SessionInv'
<1> SUFFICES ASSUME MqttTypes, SessionInv, Waits PROVE SessionInv'
  OBVIOUS
<1>1. c2s \in Seq(Sendable)
  BY DEF MqttTypes, NetTypes
<1>2. /\ None(c2s, Asks) => None(c2s', Asks)
      /\ One(c2s, Asks) => One(c2s', Asks)
      /\ \A x : None(c2s, Asks \ {x}) => None(c2s', Asks \ {x})
      /\ ~up => c2s' = c2s
  BY <1>1, TalksKeeps DEF Waits
<1>3. /\ CallInv' /\ RetInv' /\ ~GotAccept /\ ~GotAccept'
      /\ Asking' <=> Asking
      /\ Asking => call'.at \in {"wait", "expired"} /\ call'.req = call.req
  BY EndsCall DEF Waits
<1>4. UNCHANGED <<isconnected, up, s2c, b_connected, received>> /\ call.at = "wait"
  BY DEF Waits
<1>5. LinkInv'
  BY <1>2, <1>4 DEF LinkInv, SessionInv
<1>6. AcceptInv'
  BY <1>3, <1>4 DEF AcceptInv, SessionInv
<1>7. Quiet => Quiet'
  BY <1>2, <1>4 DEF Quiet
<1>8. Asking /\ OneOut => OneOut'
  <2>1. SUFFICES ASSUME Asking, OneOut PROVE OneOut'
    OBVIOUS
  <2>2. call'.req = call.req /\ Strangers' = Strangers
    BY <1>3, <1>4, <2>1 DEF Strangers, Answer
  <2> QED BY <1>2, <1>4, <2>1, <2>2 DEF OneOut
<1>9. isconnected => Quiet \/ (Asking /\ OneOut)
  BY <1>4 DEF AskInv, SessionInv
<1>10. AskInv'
  <2>1. ~Quiet' => (up' => b_connected') /\ None(s2c', Accepts) /\ ~GotAccept'
    BY <1>3, <1>4, <1>7 DEF AskInv, SessionInv
  <2>2. isconnected' => \/ Quiet'
                        \/ Asking' /\ call'.at = "expired"
                        \/ Asking' /\ call'.at = "wait" /\ OneOut'
    BY <1>3, <1>4, <1>7, <1>8, <1>9
  <2>3. ~(Asking' /\ call'.at = "got")
    BY <1>3
  <2> QED BY <2>1, <2>2, <2>3 DEF AskInv
<1> QED BY <1>3, <1>5, <1>6, <1>10 DEF SessionInv

\* A packet is read: what was under way is, or is with the client.
LEMMA ReadsTail ==
    ASSUME MqttTypes, Reads
    PROVE  /\ \A S : None(s2c, S) => None(s2c', S) /\ Head(s2c) \notin S
           /\ \A S : One(s2c, S) => One(s2c', S)
           /\ \A S : One(s2c, S) /\ Head(s2c) \in S => None(s2c', S)
           /\ Head(s2c) \in Packet
<1>1. s2c \in Seq(Packet) /\ s2c # <<>> /\ s2c' = Tail(s2c)
  BY DEF MqttTypes, NetTypes, Reads
<1>2. Head(s2c) \in Packet
  BY <1>1, StillPackets
<1>3. ASSUME NEW S
      PROVE  /\ None(s2c, S) => None(s2c', S) /\ Head(s2c) \notin S
             /\ One(s2c, S) => One(s2c', S)
             /\ One(s2c, S) /\ Head(s2c) \in S => None(s2c', S)
  BY <1>1, Taken
<1> QED BY <1>2, <1>3, Zenon

LEMMA ReadsOnKeeps == MqttTypes /\ SessionInv /\ Reads /\ (UNCHANGED <<call, ret>> \/ Ends) => SessionInv'
<1> SUFFICES ASSUME MqttTypes, SessionInv, Reads, UNCHANGED <<call, ret>> \/ Ends PROVE SessionInv'
  OBVIOUS
<1>1. c2s \in Seq(Sendable)
  BY DEF MqttTypes, NetTypes
<1>2. /\ None(c2s, Asks) => None(c2s', Asks)
      /\ One(c2s, Asks) => One(c2s', Asks)
      /\ \A x : None(c2s, Asks \ {x}) => None(c2s', Asks \ {x})
      /\ ~up => c2s' = c2s
  BY <1>1, TalksKeeps DEF Reads
<1>3. UNCHANGED <<isconnected, inflight, up, b_connected, received>> /\ call.at = "wait"
  BY DEF Reads
<1>4. /\ CallInv' /\ RetInv' /\ ~GotAccept /\ ~GotAccept'
      /\ Asking' <=> Asking
      /\ Asking => call'.at \in {"wait", "expired"} /\ call'.req = call.req
  BY <1>3, EndsCall
<1>5. /\ None(s2c, Accepts) => None(s2c', Accepts)
      /\ None(s2c, Replies) => None(s2c', Replies)
      /\ None(s2c, Strangers) => None(s2c', Strangers)
      /\ One(s2c, Accepts) => One(s2c', Accepts)
      /\ One(s2c, Replies) => One(s2c', Replies)
  BY ReadsTail
<1>6. LinkInv'
  BY <1>2, <1>3 DEF LinkInv, SessionInv
<1>7. AcceptInv'
  BY <1>3, <1>4, <1>5 DEF AcceptInv, SessionInv
<1>8. Quiet => Quiet'
  BY <1>2, <1>5 DEF Quiet
<1>9. Asking /\ OneOut => OneOut'
  <2>1. SUFFICES ASSUME Asking, OneOut PROVE OneOut'
    OBVIOUS
  <2>2. call'.req = call.req /\ Strangers' = Strangers
    BY <1>3, <1>4, <2>1 DEF Strangers, Answer
  <2> QED BY <1>2, <1>5, <2>1, <2>2 DEF OneOut
<1>10. isconnected => Quiet \/ (Asking /\ OneOut)
  BY <1>3 DEF AskInv, SessionInv
<1>11. AskInv'
  <2>1. ~Quiet' => (up' => b_connected') /\ None(s2c', Accepts) /\ ~GotAccept'
    BY <1>3, <1>4, <1>5, <1>8 DEF AskInv, SessionInv
  <2>2. isconnected' => \/ Quiet'
                        \/ Asking' /\ call'.at = "expired"
                        \/ Asking' /\ call'.at = "wait" /\ OneOut'
    BY <1>3, <1>4, <1>8, <1>9, <1>10
  <2>3. ~(Asking' /\ call'.at = "got")
    BY <1>4
  <2> QED BY <2>1, <2>2, <2>3 DEF AskInv
<1> QED BY <1>4, <1>6, <1>7, <1>11 DEF SessionInv

\* The packet waited for: the answer to a request is the only one under way,
\* and so is the broker's acceptance.
LEMMA GetsKeeps ==
    ASSUME MqttTypes, SessionInv, Reads, Head(s2c).type = call.wait, UNCHANGED ret,
           call' = [call EXCEPT !.at = "got", !.got = Head(s2c)]
    PROVE  SessionInv'
<1> DEFINE p == Head(s2c)
<1>1. c2s \in Seq(Sendable) /\ call \in CallValues
  BY DEF MqttTypes, NetTypes, CallTypes
<1>2. /\ None(c2s, Asks) => None(c2s', Asks)
      /\ ~up => c2s' = c2s
  BY <1>1, TalksKeeps DEF Reads
<1>3. UNCHANGED <<isconnected, inflight, up, b_connected, received>> /\ call.at = "wait"
  BY DEF Reads
<1>4. /\ call'.at = "got" /\ call'.op = call.op /\ call'.wait = call.wait
      /\ call'.req = call.req /\ call'.got = p
  BY <1>1 DEF CallValues
<1>5. p \in Packet /\ p.type = call.wait
  BY ReadsTail
<1>6. /\ None(s2c, Accepts) => None(s2c', Accepts) /\ p \notin Accepts
      /\ None(s2c, Replies) => None(s2c', Replies) /\ p \notin Replies
      /\ None(s2c, Strangers) => p \notin Strangers
      /\ One(s2c, Accepts) => One(s2c', Accepts)
      /\ One(s2c, Accepts) /\ p \in Accepts => None(s2c', Accepts)
      /\ One(s2c, Replies) /\ p \in Replies => None(s2c', Replies)
  BY ReadsTail
<1> HIDE DEF p
<1>7. (Asking' <=> Asking) /\ ~GotAccept /\ (GotAccept' <=> p \in Accepts)
  BY <1>3, <1>4 DEF Asking, GotAccept
<1>8. CallInv'
  BY <1>3, <1>4, <1>5, <1>7 DEF SessionInv, CallInv
<1>9. LinkInv' /\ RetInv'
  BY <1>2, <1>3 DEF LinkInv, RetInv, SessionInv
<1>10. Asking => ~(p \in Accepts) /\ p \in Replies
  BY <1>3, <1>5 DEF Asking, SessionInv, CallInv, Replies, Accepts
<1>11. AcceptInv'
  BY <1>3, <1>6, <1>7 DEF AcceptInv, SessionInv
<1>12. Asking => Quiet' /\ Answer(p)
  <2>1. SUFFICES ASSUME Asking PROVE Quiet' /\ Answer(p)
    OBVIOUS
  <2>2. OneOut
    BY <1>3, <1>6, <1>10, <2>1 DEF SessionInv, CallInv, AskInv, Quiet
  <2>3. ~None(s2c, Replies) /\ p \notin Strangers
    BY <1>6, <1>10, <2>1, <2>2 DEF OneOut
  <2>4. Quiet'
    BY <1>2, <1>6, <1>10, <2>1, <2>2, <2>3 DEF OneOut, Quiet
  <2> QED BY <1>10, <2>1, <2>3, <2>4 DEF Strangers
<1>13. Quiet => Quiet'
  BY <1>2, <1>6 DEF Quiet
<1>14. GotAccept' => Quiet
  BY <1>6, <1>7 DEF SessionInv, AskInv
<1>15. AskInv'
  <2>1. ~Quiet' => (up' => b_connected') /\ None(s2c', Accepts) /\ ~GotAccept'
    BY <1>3, <1>6, <1>13, <1>14 DEF AskInv, SessionInv
  <2>2. isconnected' => Quiet'
    BY <1>3, <1>12, <1>13 DEF AskInv, SessionInv
  <2>3. Asking' => Answer(call.got)'
    BY <1>3, <1>4, <1>7, <1>12 DEF Answer
  <2> QED BY <2>1, <2>2, <2>3 DEF AskInv
<1> QED BY <1>8, <1>9, <1>11, <1>15 DEF SessionInv

LEMMA ReadsKeeps == MqttTypes /\ SessionInv /\ Reads => SessionInv'
<1> SUFFICES ASSUME MqttTypes, SessionInv, Reads PROVE SessionInv'
  OBVIOUS
<1>1. CASE UNCHANGED <<call, ret>> \/ Ends
  BY <1>1, ReadsOnKeeps
<1>2. CASE /\ Head(s2c).type = call.wait /\ UNCHANGED ret
           /\ call' = [call EXCEPT !.at = "got", !.got = Head(s2c)]
  BY <1>2, GetsKeeps
<1> QED BY <1>1, <1>2 DEF Reads
\* Steps of network and broker leave the client as it is.
LEMMA ClientStays ==
    ASSUME SessionInv, UNCHANGED client, received \subseteq received'
    PROVE  /\ CallInv' /\ RetInv'
           /\ (Asking' <=> Asking) /\ (GotAccept' <=> GotAccept)
           /\ Strangers' \subseteq Strangers
           /\ Asking /\ call.at = "got" => Answer(call.got)'
<1>1. UNCHANGED <<isconnected, inflight, call, ret>>
  BY DEF client
<1>2. CallInv'
  BY <1>1 DEF CallInv, SessionInv, Asking
<1>3. RetInv'
  BY <1>1 DEF RetInv, SessionInv
<1>4. (Asking' <=> Asking) /\ (GotAccept' <=> GotAccept)
  BY <1>1 DEF Asking, GotAccept
<1>5. Strangers' \subseteq Strangers
  BY <1>1 DEF Strangers, Answer
<1>6. Asking /\ call.at = "got" => Answer(call.got)'
  BY <1>1 DEF SessionInv, AskInv, Answer
<1> QED BY <1>2, <1>3, <1>4, <1>5, <1>6

LEMMA BreaksKeeps == MqttTypes /\ SessionInv /\ Breaks => SessionInv'
<1> SUFFICES ASSUME MqttTypes, SessionInv, Breaks PROVE SessionInv'
  OBVIOUS
<1>0. s2c \in Seq(Packet)
  BY DEF MqttTypes, NetTypes
<1>1. PICK n \in 0..Len(s2c) : s2c' = SubSeq(s2c, 1, n)
  BY DEF Breaks
<1>2. ~up' /\ c2s' = <<>> /\ UNCHANGED <<client, received>>
  BY DEF Breaks
<1>3. /\ CallInv' /\ RetInv'
      /\ (Asking' <=> Asking) /\ (GotAccept' <=> GotAccept)
      /\ Strangers' \subseteq Strangers
      /\ Asking /\ call.at = "got" => Answer(call.got)'
  BY <1>2, ClientStays
<1>4. UNCHANGED <<isconnected, call>>
  BY <1>2 DEF client
<1>5. /\ None(s2c, Accepts) => None(s2c', Accepts)
      /\ None(s2c, Replies) => None(s2c', Replies)
      /\ None(s2c, Strangers) => None(s2c', Strangers)
      /\ One(s2c, Accepts) => One(s2c', Accepts)
      /\ One(s2c, Replies) => One(s2c', Replies)
  BY <1>0, <1>1, Cut
<1>6. \A S : None(c2s', S) /\ One(c2s', S)
  BY <1>2, Nothing
<1>7. LinkInv' /\ AcceptInv'
  BY <1>2, <1>3, <1>4, <1>5 DEF LinkInv, AcceptInv, SessionInv
<1>8. Quiet => Quiet'
  BY <1>5, <1>6 DEF Quiet
<1>9. OneOut => OneOut'
  <2>1. None(s2c', Strangers) => None(s2c', Strangers')
    BY <1>3, Fewer
  <2> QED BY <1>5, <1>6, <2>1 DEF OneOut
<1>10. AskInv'
  BY <1>2, <1>3, <1>4, <1>5, <1>8, <1>9 DEF AskInv, SessionInv
<1> QED BY <1>3, <1>7, <1>10 DEF SessionInv

LEMMA RenewsKeeps == SessionInv /\ Renews => SessionInv'
<1> SUFFICES ASSUME SessionInv, Renews PROVE SessionInv'
  OBVIOUS
<1>1. UNCHANGED client /\ received \subseteq received' /\ call.at = "idle" /\ ~isconnected
  BY DEF Renews
<1>2. CallInv' /\ RetInv' /\ ~Asking' /\ ~GotAccept' /\ ~isconnected'
  BY <1>1, ClientStays DEF Asking, GotAccept, client
<1>3. \A S : None(c2s', S) /\ One(c2s', S) /\ None(s2c', S) /\ One(s2c', S)
  BY Nothing DEF Renews
<1>4. LinkInv'
  BY DEF LinkInv, Renews
<1>5. AcceptInv'
  BY <1>2, <1>3 DEF AcceptInv
<1>6. AskInv'
  BY <1>2, <1>3 DEF AskInv, Quiet
<1> QED BY <1>2, <1>4, <1>5, <1>6 DEF SessionInv

\* What the broker takes and sends.
LEMMA BrokerTakes ==
    ASSUME c2s \in Seq(Sendable), c2s # <<>>, c2s' = Tail(c2s)
    PROVE  /\ \A S : None(c2s, S) => None(c2s', S) /\ Head(c2s) \notin S
           /\ \A S : One(c2s, S) => One(c2s', S)
           /\ \A S : One(c2s, S) /\ Head(c2s) \in S => None(c2s', S)
<1>1. ASSUME NEW S
      PROVE  /\ None(c2s, S) => None(c2s', S) /\ Head(c2s) \notin S
             /\ One(c2s, S) => One(c2s', S)
             /\ One(c2s, S) /\ Head(c2s) \in S => None(c2s', S)
  BY Taken
<1> QED BY <1>1, Zenon

LEMMA BrokerSends ==
    ASSUME s2c \in Seq(Packet), NEW p \in Packet, s2c' = Append(s2c, p)
    PROVE  /\ \A S : None(s2c, S) /\ p \notin S => None(s2c', S)
           /\ \A S : None(s2c, S) => One(s2c', S)
           /\ \A S : One(s2c, S) /\ p \notin S => One(s2c', S)
<1>1. ASSUME NEW S
      PROVE  /\ None(s2c, S) /\ p \notin S => None(s2c', S)
             /\ None(s2c, S) => One(s2c', S)
             /\ One(s2c, S) /\ p \notin S => One(s2c', S)
  BY Appended
<1> QED BY <1>1, Zenon

LEMMA BrokerTalksKeeps == MqttTypes /\ SessionInv /\ BrokerTalks => SessionInv'
<1> SUFFICES ASSUME MqttTypes, SessionInv, BrokerTalks PROVE SessionInv'
  OBVIOUS
<1>0. c2s \in Seq(Sendable) /\ s2c \in Seq(Packet)
  BY DEF MqttTypes, NetTypes
<1>1. UNCHANGED <<client, up, b_connected>> /\ received \subseteq received'
  BY DEF BrokerTalks
<1>2. /\ CallInv' /\ RetInv'
      /\ (Asking' <=> Asking) /\ (GotAccept' <=> GotAccept)
      /\ Strangers' \subseteq Strangers
      /\ Asking /\ call.at = "got" => Answer(call.got)'
  BY <1>1, ClientStays
<1>3. UNCHANGED <<isconnected, call>>
  BY <1>1 DEF client
<1>4. /\ None(c2s, Asks) => None(c2s', Asks)
      /\ One(c2s, Asks) => One(c2s', Asks)
      /\ None(c2s, Asks \ {call.req}) => None(c2s', Asks \ {call.req})
  <2>1. CASE c2s' = c2s
    BY <2>1
  <2>2. CASE c2s # <<>> /\ c2s' = Tail(c2s)
    BY <1>0, <2>2, BrokerTakes
  <2> QED BY <2>1, <2>2 DEF BrokerTalks
<1>5. /\ None(s2c, Accepts) <=> None(s2c', Accepts)
      /\ None(s2c, Replies) => None(s2c', Replies)
      /\ None(s2c, Strangers) => None(s2c', Strangers)
      /\ One(s2c, Accepts) => One(s2c', Accepts)
      /\ One(s2c, Replies) => One(s2c', Replies)
  <2>1. CASE s2c' = s2c
    BY <2>1
  <2>2. CASE \E r \in Packet \ (Replies \cup Accepts) : s2c' = Append(s2c, r)
    <3>1. PICK r \in Packet \ (Replies \cup Accepts) : s2c' = Append(s2c, r)
      BY <2>2
    <3>2. r \in Packet /\ r \notin Replies /\ r \notin Accepts /\ r \notin Strangers
      BY <3>1 DEF Strangers
    <3>3. /\ None(s2c, Accepts) => None(s2c', Accepts)
          /\ None(s2c, Replies) => None(s2c', Replies)
          /\ None(s2c, Strangers) => None(s2c', Strangers)
          /\ One(s2c, Accepts) => One(s2c', Accepts)
          /\ One(s2c, Replies) => One(s2c', Replies)
      BY <1>0, <3>1, <3>2, BrokerSends
    <3>4. None(s2c', Accepts) => None(s2c, Accepts)
      BY <1>0, <3>1 DEF None
    <3> QED BY <3>3, <3>4
  <2> QED BY <2>1, <2>2 DEF BrokerTalks
<1>6. LinkInv'
  BY <1>0, <1>1 DEF LinkInv, SessionInv, BrokerTalks
<1>7. AcceptInv'
  BY <1>1, <1>2, <1>3, <1>5 DEF AcceptInv, SessionInv
<1>8. Quiet => Quiet'
  BY <1>4, <1>5 DEF Quiet
<1>9. OneOut => OneOut'
  <2>1. None(s2c', Strangers) => None(s2c', Strangers')
    BY <1>2, Fewer
  <2> QED BY <1>3, <1>4, <1>5, <2>1 DEF OneOut
<1>10. AskInv'
  BY <1>1, <1>2, <1>3, <1>5, <1>8, <1>9 DEF AskInv, SessionInv
<1> QED BY <1>2, <1>6, <1>7, <1>10 DEF SessionInv

\* While somebody asks, the broker has not just been connected: no CONNACK.
LEMMA AdmittedKeeps == MqttTypes /\ SessionInv /\ Admitted => SessionInv'
<1> SUFFICES ASSUME MqttTypes, SessionInv, Admitted PROVE SessionInv'
  OBVIOUS
<1>0. c2s \in Seq(Sendable) /\ s2c \in Seq(Packet)
  BY DEF MqttTypes, NetTypes
<1>1. PICK r \in Accepts : s2c' = Append(s2c, r)
  BY DEF Admitted
<1>2. /\ UNCHANGED <<client, up, received>> /\ b_connected' /\ up /\ ~b_connected
      /\ c2s # <<>> /\ c2s' = Tail(c2s)
  BY DEF Admitted
<1>3. /\ CallInv' /\ RetInv'
      /\ (Asking' <=> Asking) /\ (GotAccept' <=> GotAccept)
      /\ Asking /\ call.at = "got" => Answer(call.got)'
  BY <1>2, ClientStays
<1>4. r \in Packet /\ r \notin Replies
  BY <1>1 DEF Accepts, Replies
<1>5. None(s2c, Accepts) /\ ~isconnected /\ ~GotAccept /\ Quiet
  BY <1>2 DEF AcceptInv, AskInv, SessionInv
<1>6. ~isconnected' /\ ~GotAccept' /\ up'
  BY <1>2, <1>3, <1>5 DEF client
<1>7. One(s2c', Accepts) /\ None(s2c', Replies)
  BY <1>0, <1>1, <1>4, <1>5, BrokerSends DEF Quiet
<1>8. Quiet'
  BY <1>0, <1>2, <1>5, <1>7, BrokerTakes DEF Quiet
<1>9. LinkInv' /\ AcceptInv'
  BY <1>2, <1>6, <1>7 DEF LinkInv, AcceptInv
<1>10. AskInv'
  BY <1>2, <1>3, <1>6, <1>8 DEF AskInv, client
<1> QED BY <1>3, <1>9, <1>10 DEF SessionInv

\* The answer takes the place of the request.
LEMMA RepliedKeeps ==
    ASSUME MqttTypes, SessionInv, NEW r, Replied(r)
    PROVE  SessionInv'
<1>0. c2s \in Seq(Sendable) /\ s2c \in Seq(Packet)
  BY DEF MqttTypes, NetTypes
<1>1. /\ UNCHANGED <<client, up, b_connected>> /\ received \subseteq received' /\ up /\ b_connected
      /\ c2s # <<>> /\ c2s' = Tail(c2s) /\ Head(c2s) \in Asks
      /\ s2c' = Append(s2c, r) /\ r \in Replies
  BY DEF Replied
<1>2. /\ CallInv' /\ RetInv'
      /\ (Asking' <=> Asking) /\ (GotAccept' <=> GotAccept)
      /\ Strangers' \subseteq Strangers
      /\ Asking /\ call.at = "got" => Answer(call.got)'
  BY <1>1, ClientStays
<1>3. UNCHANGED <<isconnected, call>>
  BY <1>1 DEF client
<1>4. r \in Packet /\ r \notin Accepts
  BY <1>1 DEF Accepts, Replies
<1>5. ~None(c2s, Asks)
  BY <1>0, <1>1, BrokerTakes
<1>6. ~Quiet /\ None(s2c, Accepts) /\ ~GotAccept
  BY <1>5 DEF Quiet, AskInv, SessionInv
<1>7. None(s2c', Accepts)
  BY <1>0, <1>1, <1>4, <1>6, BrokerSends
<1>8. One(s2c', Accepts)
  BY <1>7 DEF None, One
<1>9. LinkInv' /\ AcceptInv'
  BY <1>1, <1>2, <1>7, <1>8 DEF LinkInv, AcceptInv
<1>10. OneOut => OneOut'
  <2>1. SUFFICES ASSUME OneOut PROVE OneOut'
    OBVIOUS
  <2>2. None(s2c, Replies) /\ One(c2s, Asks) /\ Head(c2s) = call.req
    BY <1>0, <1>1, <1>5, <2>1, BrokerTakes DEF OneOut
  <2>3. None(c2s', Asks) /\ One(c2s', Asks) /\ None(c2s', Asks \ {call.req})
    BY <1>0, <1>1, <2>1, <2>2, BrokerTakes DEF OneOut
  <2>4. One(s2c', Replies)
    BY <1>0, <1>1, <1>4, <2>2, BrokerSends
  <2>5. None(s2c', Strangers')
    <3>1. r \notin Strangers'
      BY <1>3, <2>2 DEF Strangers, Answer, Replied
    <3>2. None(s2c, Strangers')
      BY <1>2, <2>1, Fewer DEF OneOut
    <3> QED BY <1>0, <1>1, <1>4, <3>1, <3>2, BrokerSends
  <2> QED BY <1>3, <2>3, <2>4, <2>5 DEF OneOut
<1>11. AskInv'
  BY <1>1, <1>2, <1>3, <1>6, <1>7, <1>10 DEF AskInv, SessionInv
<1> QED BY <1>2, <1>9, <1>11 DEF SessionInv
-----------------------------------------------------------------------------
(* Every action is one of these steps *)

LEMMA AckTalks ==
    ASSUME NEW type \in AckTypes \cup {"PINGREQ"}, NEW id \in Ids, Sent(Ack(type, id, 0))
    PROVE  Talks
<1> DEFINE p == Ack(type, id, 0)
<1>1. p \in Sendable
  BY AckTyped, NoneTyped
<1>2. p \notin Asks
  BY DEF Ack, Asks, AckTypes
<1>3. Sent(p)
  OBVIOUS
<1> HIDE DEF p
<1> QED BY <1>1, <1>2, <1>3 DEF Sent, Talks

LEMMA SilentTalks ==
    /\ SendFails => Talks
    /\ UNCHANGED c2s => Talks
    /\ \A a, b, c : Keepalive(a, b, c) => Talks
<1>1. SendFails \/ UNCHANGED c2s => Talks
  BY DEF SendFails, Talks
<1>2. ASSUME NEW a, NEW b, NEW c, Keepalive(a, b, c) PROVE Talks
  <2>1. \/ Sent(Ack("PINGREQ", 0, 0)) \/ SendFails \/ UNCHANGED c2s
    BY <1>2, Zenon DEF Keepalive
  <2> QED BY <1>1, <2>1, AckTalks, NoneTyped
<1> QED BY <1>1, <1>2

\* The ways a call returns without having published anything.
LEMMA Returns ==
    ASSUME NEW op, NEW rc, NEW req, Return(op, rc, req),
           \/ op \notin {"publish", "connect"} \/ rc # SUCCESS
           \/ req.type # "PUBLISH" \/ req.code # 1 \/ req.msg \in received'
    PROVE  call' = NoCall /\ RetInv'
  BY DEF Return, RetInv

LEMMA Failures == FAILURE # SUCCESS /\ NoInflight.code # 1 /\ NoInflight.id = 0
  BY DEF FAILURE, SUCCESS, NoInflight, Pub

LEMMA CleansUp == CleanUp => isconnected' = FALSE /\ inflight'.id = 0
  BY Failures DEF CleanUp

LEMMA ConnectSteps ==
    ASSUME MqttTypes, SessionInv, Connect
    PROVE  Over \/ Starts("connect", "CONNACK")
<1> DEFINE p == Request("CONNECT", 0, NoTopic, 0)
<1>0. /\ UNCHANGED <<isconnected, inflight, up, s2c, b_connected, received>> /\ call.at = "idle"
      /\ \/ UNCHANGED c2s /\ Return("connect", FAILURE, NoInflight)
         \/ SendFails /\ Return("connect", FAILURE, NoInflight)
         \/ Sent(p) /\ ~isconnected /\ Waiting("connect", "CONNACK", NoInflight)
  BY DEF Connect, Calling, session, broker, history
<1>1. p \in Sendable /\ p \notin Asks
  <2>1. p \in Sendable
    BY RequestTyped, NoneTyped, 0 \in 0..2
  <2> QED BY <2>1 DEF Request, Asks
<1> HIDE DEF p
<1>2. inflight.id = 0 /\ ~Asking
  BY <1>0 DEF SessionInv, CallInv, Asking
<1>3. CASE Return("connect", FAILURE, NoInflight) /\ (UNCHANGED c2s \/ SendFails)
  BY <1>0, <1>2, <1>3, Returns, Failures, SilentTalks DEF Over
<1>4. CASE Sent(p) /\ ~isconnected /\ Waiting("connect", "CONNACK", NoInflight)
  BY <1>0, <1>1, <1>4 DEF Starts, Talks, Sent
<1> QED BY <1>0, <1>3, <1>4

LEMMA AskForSteps ==
    ASSUME MqttTypes, SessionInv, NEW topic \in Topics, NEW q \in 0..2,
           Subscribe(topic, q) \/ Unsubscribe(topic)
    PROVE  Over \/ \E op, type, p : AsksFor(op, type, p)
<1>1. ASSUME NEW op, NEW type, NEW answer, NEW g \in 0..2, AskFor(op, type, answer, topic, g),
             \/ op = "subscribe" /\ type = "SUBSCRIBE" /\ answer = "SUBACK"
             \/ op = "unsubscribe" /\ type = "UNSUBSCRIBE" /\ answer = "UNSUBACK"
      PROVE  Over \/ AsksFor(op, answer, Request(type, packetid', topic, g))
  <2> DEFINE p == Request(type, packetid', topic, g)
  <2>1. /\ call.at = "idle" /\ UNCHANGED <<up, s2c, b_connected, received>>
        /\ packetid' = NextId(packetid) \/ packetid' = packetid
        /\ \/ isconnected /\ Sent(p) /\ Waiting(op, answer, p) /\ UNCHANGED <<isconnected, inflight>>
           \/ (SendFails \/ UNCHANGED c2s) /\ CleanUp /\ Return(op, FAILURE, p)
    BY <1>1 DEF AskFor, Calling, session, broker, history
  <2>2. packetid' \in Ids
    BY <2>1, NextIdTyped DEF MqttTypes, CountTypes
  <2>3. p \in Sendable
    BY <1>1, <2>2, RequestTyped
  <2>4. p \in Asks
    <3>1. p \in Packet /\ p.type = type
      BY <2>3 DEF Sendable, Request
    <3> QED BY <1>1, <3>1 DEF Asks
  <2> HIDE DEF p
  <2>5. CASE isconnected /\ Sent(p) /\ Waiting(op, answer, p) /\ UNCHANGED <<isconnected, inflight>>
    <3>1. inflight'.id = 0 /\ isconnected' = TRUE
      BY <2>5 DEF SessionInv, CallInv, MqttTypes, SessionTypes
    <3>2. c2s' = IF up THEN Append(c2s, p) ELSE c2s
      BY <2>5 DEF Sent
    <3>3. AsksFor(op, answer, p)
      BY <1>1, <2>1, <2>3, <2>4, <2>5, <3>1, <3>2 DEF AsksFor
    <3> QED BY <3>3 DEF p
  <2>6. CASE (SendFails \/ UNCHANGED c2s) /\ CleanUp /\ Return(op, FAILURE, p)
    BY <2>1, <2>6, CleansUp, Returns, Failures, SilentTalks DEF Over
  <2> QED BY <2>1, <2>5, <2>6
<1>2. CASE Subscribe(topic, q)
  BY <1>1, <1>2, Zenon DEF Subscribe
<1>3. CASE Unsubscribe(topic)
  BY <1>1, <1>3, 0 \in 0..2, Zenon DEF Unsubscribe
<1> QED BY <1>2, <1>3

LEMMA PublishSteps ==
    ASSUME MqttTypes, SessionInv, CleanSession, NEW topic \in Topics, NEW q \in 0..2,
           setup \in Setup, UNCHANGED setup, Publish(topic, q)
    PROVE  Over \/ \E op, type, p : AsksFor(op, type, p)
<1> DEFINE p == Pub(IF isconnected /\ q > 0 THEN packetid' ELSE 0, q, topic, calls')
<1>1. /\ call.at = "idle" /\ UNCHANGED <<up, s2c, b_connected, received>>
      /\ packetid' = NextId(packetid) \/ packetid' = packetid
      /\ calls' = calls + 1
      /\ \/ isconnected /\ PublishPacket("publish", p, inflight)
         \/ ~isconnected /\ Return("publish", FAILURE, p) /\ UNCHANGED <<isconnected, inflight, c2s>>
  BY DEF Publish, Calling, session, broker, history
<1>2. p \in Sendable
  <2>1. packetid' \in Ids /\ calls' \in Nat
    BY <1>1, NextIdTyped, SetupTypes DEF MqttTypes, CountTypes
  <2>2. (IF isconnected /\ q > 0 THEN packetid' ELSE 0) \in Ids
    BY <2>1, NoneTyped
  <2> QED BY <2>1, <2>2, PubTyped
<1>3. p.type = "PUBLISH" /\ p.code = q /\ p \in Packet
  BY <1>2 DEF Pub, Sendable
<1> HIDE DEF p
<1>4. ~Asking /\ inflight.id = 0 /\ isconnected \in BOOLEAN
  BY <1>1 DEF SessionInv, CallInv, Asking, MqttTypes, SessionTypes
<1>5. CASE ~isconnected /\ Return("publish", FAILURE, p) /\ UNCHANGED <<isconnected, inflight, c2s>>
  BY <1>1, <1>4, <1>5, Returns, Failures, SilentTalks DEF Over
<1>6. CASE SendFails /\ CleanUp /\ Return("publish", FAILURE, p)
  BY <1>1, <1>6, CleansUp, Returns, Failures, SilentTalks DEF Over
<1>7. CASE /\ Sent(p) /\ isconnected /\ inflight' = inflight
           /\ isconnected' = (isconnected \/ p.code # 1)
           /\ IF p.code = 1 THEN Waiting("publish", "PUBACK", p) ELSE Return("publish", SUCCESS, p)
  <2>1. isconnected' = TRUE /\ inflight'.id = 0
    BY <1>4, <1>7
  <2>2. CASE p.code = 1
    <3>1. p \in Asks
      BY <1>3, <2>2 DEF Asks
    <3>2. c2s' = IF up THEN Append(c2s, p) ELSE c2s
      BY <1>7 DEF Sent
    <3>3. AsksFor("publish", "PUBACK", p)
      BY <1>1, <1>2, <1>7, <2>1, <2>2, <3>1, <3>2 DEF AsksFor
    <3> QED BY <3>3
  <2>3. CASE p.code # 1
    <3>1. p \notin Asks
      BY <1>3, <2>3 DEF Asks
    <3>2. Talks
      BY <1>2, <1>7, <3>1 DEF Talks, Sent
    <3>3. call' = NoCall /\ RetInv'
      BY <1>7, <2>3, Returns
    <3> QED BY <1>1, <1>4, <1>7, <2>1, <3>2, <3>3 DEF Over
  <2> QED BY <2>2, <2>3
<1>8. \/ SendFails /\ CleanUp /\ Return("publish", FAILURE, p)
      \/ /\ Sent(p) /\ isconnected /\ inflight' = inflight
         /\ isconnected' = (isconnected \/ p.code # 1)
         /\ IF p.code = 1 THEN Waiting("publish", "PUBACK", p) ELSE Return("publish", SUCCESS, p)
      \/ ~isconnected /\ Return("publish", FAILURE, p) /\ UNCHANGED <<isconnected, inflight, c2s>>
  BY <1>1, Zenon DEF PublishPacket
<1> QED BY <1>5, <1>6, <1>7, <1>8, Zenon
LEMMA OtherCallsSteps ==
    ASSUME MqttTypes, SessionInv, CleanSession, Disconnect \/ Yield \/ NewConnection
    PROVE  Over \/ Starts("yield", "PINGREQ") \/ Renews
<1>0. ~Asking <=> (call.at = "idle" \/ call.op \notin {"subscribe", "unsubscribe", "publish"})
  BY DEF Asking
<1>1. CASE Disconnect
  <2> DEFINE p == Request("DISCONNECT", 0, NoTopic, 0)
  <2>1. /\ UNCHANGED <<up, s2c, b_connected, received>> /\ CleanUp
        /\ \/ Sent(p) /\ Return("disconnect", SUCCESS, NoInflight)
           \/ SendFails /\ Return("disconnect", FAILURE, NoInflight)
    BY <1>1 DEF Disconnect, broker, history
  <2>2. p \in Sendable /\ p \notin Asks
    <3>1. p \in Sendable
      BY RequestTyped, NoneTyped, 0 \in 0..2
    <3> QED BY <3>1 DEF Request, Asks
  <2> HIDE DEF p
  <2>3. Talks
    BY <2>1, <2>2, SilentTalks DEF Talks, Sent
  <2>4. call' = NoCall /\ RetInv'
    BY <2>1, Returns
  <2> QED BY <2>1, <2>3, <2>4, CleansUp DEF Over
<1>2. CASE Yield
  <2>1. /\ UNCHANGED <<isconnected, inflight, up, c2s, s2c, b_connected, received>>
        /\ call.at = "idle" /\ Waiting("yield", "PINGREQ", NoInflight)
    BY <1>2 DEF Yield, Calling, session, network, broker, history
  <2> QED BY <2>1, SilentTalks DEF Starts
<1>3. CASE NewConnection
  <2>1. b_connected' = FALSE
    BY <1>3 DEF NewConnection, BrokerCloses
  <2> QED BY <1>3, <2>1 DEF NewConnection, Renews, Calling, client, session, history
<1> QED BY <1>1, <1>2, <1>3

\* What waitfor and yield make of a packet, or of none.
LEMMA AfterCycleSteps ==
    ASSUME NEW p, NEW failed, AfterCycle(p, failed)
    PROVE  \/ UNCHANGED <<call, ret>> \/ Ends
           \/ /\ ~failed /\ p.type = call.wait /\ UNCHANGED ret
              /\ call' = [call EXCEPT !.at = "got", !.got = p]
<1>1. CASE call.op = "yield" /\ failed /\ Return("yield", FAILURE, NoInflight)
  BY <1>1 DEF Return, Ends
<1>2. CASE /\ ~failed /\ p.type = call.wait
           /\ call' = [call EXCEPT !.at = "got", !.got = p] /\ UNCHANGED ret
  BY <1>2
<1>3. CASE UNCHANGED <<call, ret>>
  BY <1>3
<1> QED BY <1>1, <1>2, <1>3 DEF AfterCycle

LEMMA TooLateSteps == AnswerTooLate => Ends /\ Talks
<1> SUFFICES ASSUME AnswerTooLate PROVE Ends /\ Talks
  OBVIOUS
<1>1. UNCHANGED c2s
  BY DEF AnswerTooLate
<1>2. CASE call.op = "yield"
  <2>1. Return("yield", FAILURE, NoInflight)
    BY <1>2 DEF AnswerTooLate
  <2> QED BY <1>1, <1>2, <2>1, SilentTalks DEF Return, Ends
<1>3. CASE call.op # "yield"
  <2>1. call' = [call EXCEPT !.at = "expired"] /\ UNCHANGED ret
    BY <1>3 DEF AnswerTooLate
  <2> QED BY <1>1, <1>3, <2>1, SilentTalks DEF Ends
<1> QED BY <1>2, <1>3

LEMMA CycleSteps ==
    ASSUME MqttTypes, Cycle
    PROVE  Reads \/ Waits
<1> DEFINE p == Head(s2c)
<1>0. s2c \in Seq(Packet)
  BY DEF MqttTypes, NetTypes
<1>1. ASSUME ReadPacket, Talks, UNCHANGED <<isconnected, inflight, up, b_connected, received>>,
             Ends \/ \E failed : AfterCycle(p, failed)
      PROVE  Reads
  <2>1. call.at = "wait" /\ s2c # <<>> /\ s2c' = Tail(s2c)
    BY <1>1 DEF ReadPacket
  <2>2. \/ UNCHANGED <<call, ret>> \/ Ends
        \/ /\ p.type = call.wait /\ UNCHANGED ret
           /\ call' = [call EXCEPT !.at = "got", !.got = p]
    BY <1>1, AfterCycleSteps
  <2> QED BY <1>1, <2>1, <2>2 DEF Reads
<1>2. ReadPacket => p.id \in Ids
  <2>1. ReadPacket => p \in Packet
    BY <1>0, StillPackets DEF ReadPacket
  <2> QED BY <2>1 DEF Packet
<1>3. CASE CycleAck
  <2>1. /\ ReadPacket /\ UNCHANGED <<isconnected, inflight, up, b_connected, received>>
        /\ Keepalive(sent_due, FALSE, ping_outstanding /\ p.type # "PINGRESP")
        /\ AfterCycle(p, FALSE)
    BY <1>3 DEF CycleAck, broker, history
  <2> QED BY <1>1, <2>1, SilentTalks
<1>4. CASE CycleRelease
  <2>1. /\ ReadPacket /\ UNCHANGED <<isconnected, inflight, up, b_connected, received>>
        /\ \/ (Sent(Ack("PUBREL", p.id, 0)) \/ Sent(Ack("PUBCOMP", p.id, 0))) /\ AfterCycle(p, FALSE)
           \/ SendFails /\ AfterCycle(p, TRUE)
           \/ AnswerTooLate
    BY <1>4, Zenon DEF CycleRelease, broker, history
  <2>2. (Sent(Ack("PUBREL", p.id, 0)) \/ Sent(Ack("PUBCOMP", p.id, 0))) => Talks
    BY <1>2, <2>1, AckTalks DEF AckTypes
  <2> HIDE DEF p
  <2>3. Talks /\ (Ends \/ \E failed : AfterCycle(p, failed))
    BY <2>1, <2>2, SilentTalks, TooLateSteps
  <2> QED BY <1>1, <2>1, <2>3
<1>5. CASE CyclePublish
  <2>1. /\ ReadPacket /\ UNCHANGED <<isconnected, inflight, up, b_connected, received>>
        /\ \/ Keepalive(sent_due, FALSE, ping_outstanding) /\ AfterCycle(p, FALSE)
           \/ (Sent(Ack("PUBACK", p.id, 0)) \/ Sent(Ack("PUBREC", p.id, 0))) /\ AfterCycle(p, FALSE)
           \/ SendFails /\ AfterCycle(p, TRUE)
           \/ AnswerTooLate
    BY <1>5, Zenon DEF CyclePublish, broker
  <2>2. (Sent(Ack("PUBACK", p.id, 0)) \/ Sent(Ack("PUBREC", p.id, 0))) => Talks
    BY <1>2, <2>1, AckTalks DEF AckTypes
  <2> HIDE DEF p
  <2>3. Talks /\ (Ends \/ \E failed : AfterCycle(p, failed))
    BY <2>1, <2>2, SilentTalks, TooLateSteps
  <2> QED BY <1>1, <2>1, <2>3
<1>6. CASE CycleFails
  <2>1. /\ UNCHANGED <<isconnected, inflight, up, s2c, b_connected, received>> /\ call.at = "wait"
        /\ Keepalive(sent_due, received_due, ping_outstanding) /\ AfterCycle(NoInflight, TRUE)
    BY <1>6 DEF CycleFails, broker, history
  <2>2. UNCHANGED <<call, ret>> \/ Ends
    BY <2>1, AfterCycleSteps
  <2> QED BY <2>1, <2>2, SilentTalks DEF Waits
<1> QED BY <1>3, <1>4, <1>5, <1>6 DEF Cycle

LEMMA ExpireSteps == Expire => Waits
<1> SUFFICES ASSUME Expire PROVE Waits
  OBVIOUS
<1>1. /\ UNCHANGED <<isconnected, inflight, up, c2s, s2c, b_connected, received>> /\ call.at = "wait"
  BY DEF Expire, session, network, broker, history
<1>2. Ends
  <2>1. CASE call.op = "yield" /\ Return("yield", SUCCESS, NoInflight)
    BY <2>1 DEF Ends, Return
  <2>2. CASE call.op # "yield" /\ call' = [call EXCEPT !.at = "expired"] /\ UNCHANGED ret
    BY <2>2 DEF Ends
  <2> QED BY <2>1, <2>2 DEF Expire
<1> QED BY <1>1, <1>2, SilentTalks DEF Waits

LEMMA FinishConnectSteps ==
    ASSUME MqttTypes, SessionInv, FinishConnect
    PROVE  Over \/ Enters
<1>1. /\ Done("connect", "CONNACK") /\ UNCHANGED <<up, c2s, s2c, b_connected, received>>
      /\ UNCHANGED inflight /\ inflight.id = 0
      /\ isconnected' = Accepted
      /\ Return("connect", IF Answered THEN call.got.code ELSE FAILURE, NoInflight)
  <2>1. inflight.id = 0 /\ ~(inflight.id > 0)
    BY DEF SessionInv, CallInv
  <2> QED BY <2>1, Zenon DEF FinishConnect, broker, history
<1>2. call' = NoCall /\ RetInv'
  BY <1>1, Returns, Failures
<1>3. CASE Accepted
  <2>1. call.got \in Packet /\ call.got.type = "CONNACK"
    BY <1>1, <1>3 DEF Accepted, Answered, Done, SessionInv, CallInv, MqttTypes, CallTypes, CallValues
  <2>2. GotAccept
    BY <1>3, <2>1 DEF Accepted, Answered, GotAccept, Accepts
  <2> QED BY <1>1, <1>2, <1>3, <2>2 DEF Enters
<1>4. CASE ~Accepted
  BY <1>1, <1>2, <1>4, SilentTalks DEF Over
<1> QED BY <1>3, <1>4

LEMMA OtherFinishesSteps ==
    ASSUME MqttTypes, SessionInv, FinishSubscribe \/ FinishUnsubscribe \/ FinishPublish
    PROVE  Over
<1>0. inflight.id = 0 /\ (Answered <=> call.at = "got") /\ isconnected \in BOOLEAN
  BY DEF SessionInv, CallInv, Answered, MqttTypes, SessionTypes
<1>1. CASE FinishSubscribe \/ FinishUnsubscribe
  <2>1. UNCHANGED <<up, c2s, s2c, b_connected, received>>
    BY <1>1 DEF FinishSubscribe, FinishUnsubscribe, network, broker, history
  <2>2. \E op \in {"subscribe", "unsubscribe"} : \E rc : Return(op, rc, call.req)
    BY <1>1, Zenon DEF FinishSubscribe, FinishUnsubscribe
  <2>3. (Answered /\ UNCHANGED <<isconnected, inflight>>) \/ CleanUp
    <3>1. CASE FinishSubscribe
      <4> DEFINE code == IF Answered THEN call.got.code ELSE FAILURE
      <4>1. \/ Answered /\ UNCHANGED <<isconnected, inflight>>
            \/ CleanUp \/ (code = SUCCESS /\ UNCHANGED session)
        BY <3>1, Zenon DEF FinishSubscribe
      <4>2. code = SUCCESS => Answered
        BY Failures
      <4> QED BY <4>1, <4>2 DEF session
    <3>2. CASE FinishUnsubscribe
      BY <3>2, Zenon DEF FinishUnsubscribe
    <3> QED BY <1>1, <3>1, <3>2
  <2>4. call' = NoCall /\ RetInv'
    BY <2>2, Returns
  <2>5. inflight'.id = 0 /\ (isconnected' => isconnected /\ call.at = "got")
    BY <1>0, <2>3, CleansUp
  <2> QED BY <2>1, <2>4, <2>5, SilentTalks DEF Over
<1>2. CASE FinishPublish
  <2>1. /\ Done(call.op, "PUBACK") /\ UNCHANGED <<up, c2s, s2c, b_connected, received>>
        /\ \/ /\ Answered /\ isconnected' = TRUE /\ Return(call.op, SUCCESS, call.req)
              /\ inflight' = inflight \/ inflight' = [inflight EXCEPT !.id = 0]
           \/ CleanUp /\ Return(call.op, FAILURE, call.req)
    BY <1>2, Zenon DEF FinishPublish, network, broker, history
  <2>2. call.op = "publish" /\ Asking /\ isconnected
    BY <2>1 DEF Done, SessionInv, CallInv, Asking
  <2>3. CASE CleanUp /\ Return(call.op, FAILURE, call.req)
    BY <2>1, <2>3, CleansUp, Failures, Returns, SilentTalks DEF Over
  <2>4. CASE /\ Answered /\ isconnected' = TRUE /\ Return(call.op, SUCCESS, call.req)
             /\ inflight' = inflight \/ inflight' = [inflight EXCEPT !.id = 0]
    <3>1. inflight'.id = 0
      BY <1>0, <2>4 DEF MqttTypes, SessionTypes, Sendable, Packet
    <3>2. call.req.msg \in received'
      BY <1>0, <2>1, <2>2, <2>4 DEF SessionInv, CallInv, AskInv, Answer, Done
    <3>3. call' = NoCall /\ RetInv'
      BY <2>4, <3>2, Returns
    <3> QED BY <1>0, <2>1, <2>2, <2>4, <3>1, <3>3, SilentTalks DEF Over
  <2> QED BY <2>1, <2>3, <2>4
<1> QED BY <1>1, <1>2
LEMMA BrokerAnswersSteps ==
    ASSUME MqttTypes, NEW type \in {"SUBSCRIBE", "UNSUBSCRIBE", "PUBLISH"},
           NEW reply \in {"SUBACK", "UNSUBACK", "PUBACK"}, NEW code \in Codes,
           type = "PUBLISH" => Head(c2s).code = 1,
           reply = "PUBACK" => Head(c2s).msg \in received',
           Takes(type), Answers(Ack(reply, Head(c2s).id, code)), b_connected,
           received \subseteq received', UNCHANGED <<client, up, b_connected>>
    PROVE  \E r : Replied(r)
<1> DEFINE p == Head(c2s)
           r == Ack(reply, p.id, code)
<1>1. /\ p \in Sendable /\ p.type = type /\ c2s # <<>> /\ up /\ c2s' = Tail(c2s) /\ p.id \in Ids
  BY TakesTyped
<1>2. p \in Asks
  BY <1>1 DEF Asks, Sendable
<1>3. r \in Packet
  BY <1>1, AckTyped DEF AckTypes
<1>4. r \in Replies /\ r.type = reply /\ r.id = p.id
  BY <1>3 DEF Replies, Ack
<1>5. s2c' = Append(s2c, r)
  BY DEF Answers
<1> HIDE DEF r
<1>6. Replied(r)
  BY <1>1, <1>2, <1>4, <1>5 DEF Replied
<1> QED BY <1>6

\* The rest of what the broker takes and sends, in one piece.
LEMMA BrokerTalksSteps ==
    ASSUME MqttTypes, UNCHANGED <<client, up, b_connected>>, received \subseteq received',
           UNCHANGED c2s \/ \E type : Takes(type),
           UNCHANGED s2c \/ \E r \in Packet \ (Replies \cup Accepts) : Answers(r)
    PROVE  BrokerTalks
<1>1. c2s' = c2s \/ (c2s # <<>> /\ c2s' = Tail(c2s))
  BY DEF Takes
<1>2. s2c' = s2c \/ \E r \in Packet \ (Replies \cup Accepts) : s2c' = Append(s2c, r)
  BY DEF Answers
<1> QED BY <1>1, <1>2 DEF BrokerTalks

LEMMA OtherAcks ==
    ASSUME NEW type \in AckTypes, NEW id \in Ids, NEW code \in Codes,
           type \notin {"SUBACK", "UNSUBACK", "PUBACK"}, type = "CONNACK" => code # 0
    PROVE  Ack(type, id, code) \in Packet \ (Replies \cup Accepts)
<1>1. Ack(type, id, code) \in Packet
  BY AckTyped
<1> QED BY <1>1 DEF Ack, Replies, Accepts

LEMMA HandshakeSteps ==
    ASSUME MqttTypes, BrokerAccepts \/ BrokerHangsUp
    PROVE  Admitted \/ BrokerTalks \/ Breaks
<1>1. CASE BrokerAccepts
  <2>1. /\ Takes("CONNECT") /\ ~b_connected /\ UNCHANGED <<client, up, received>>
        /\ \/ Answers(Ack("CONNACK", 0, 0)) /\ b_connected' = TRUE
           \/ Answers(Ack("CONNACK", 0, 5)) /\ UNCHANGED b_connected
    BY <1>1 DEF BrokerAccepts, ClientSide, session, client
  <2>2. CASE Answers(Ack("CONNACK", 0, 0)) /\ b_connected' = TRUE
    <3>1. Ack("CONNACK", 0, 0) \in Packet
      BY AckTyped, NoneTyped DEF AckTypes
    <3>2. Ack("CONNACK", 0, 0) \in Accepts
      BY <3>1 DEF Ack, Accepts
    <3> QED BY <2>1, <2>2, <3>2, TakesTyped DEF Admitted, Answers
  <2>3. CASE Answers(Ack("CONNACK", 0, 5)) /\ UNCHANGED b_connected
    <3>1. Ack("CONNACK", 0, 5) \in Packet \ (Replies \cup Accepts)
      BY OtherAcks, NoneTyped DEF AckTypes
    <3> QED BY <2>1, <2>3, <3>1, BrokerTalksSteps
  <2> QED BY <2>1, <2>2, <2>3
<1>2. CASE BrokerHangsUp
  <2>1. up' = FALSE /\ c2s' = <<>> /\ s2c' = s2c /\ UNCHANGED <<client, received>>
    BY <1>2 DEF BrokerHangsUp, session, history, client
  <2>2. Len(s2c) \in 0..Len(s2c) /\ s2c = SubSeq(s2c, 1, Len(s2c))
    <3>1. s2c \in Seq(Packet)
      BY DEF MqttTypes, NetTypes
    <3> QED BY <3>1
  <2> QED BY <2>1, <2>2 DEF Breaks
<1> QED BY <1>1, <1>2

LEMMA BrokerRequestSteps ==
    ASSUME MqttTypes, BrokerSubscribes \/ BrokerUnsubscribes \/ BrokerReceives
    PROVE  (\E r : Replied(r)) \/ BrokerTalks
<1> DEFINE p == Head(c2s)
<1>1. CASE BrokerSubscribes
  <2>1. /\ Takes("SUBSCRIBE") /\ b_connected /\ UNCHANGED <<client, up, b_connected, received>>
        /\ Answers(Ack("SUBACK", p.id, p.code)) \/ Answers(Ack("SUBACK", p.id, Refused))
    BY <1>1 DEF BrokerSubscribes, ClientSide, session, client
  <2>2. p.code \in Codes /\ Refused \in Codes
    BY <2>1, TakesTyped, NoneTyped
  <2> QED BY <2>1, <2>2, BrokerAnswersSteps
<1>2. CASE BrokerUnsubscribes
  <2>1. /\ Takes("UNSUBSCRIBE") /\ b_connected /\ UNCHANGED <<client, up, b_connected, received>>
        /\ Answers(Ack("UNSUBACK", p.id, 0))
    BY <1>2 DEF BrokerUnsubscribes, ClientSide, session, client
  <2> QED BY <2>1, NoneTyped, BrokerAnswersSteps
<1>3. CASE BrokerReceives
  <2>1. /\ Takes("PUBLISH") /\ b_connected /\ UNCHANGED <<client, up, b_connected>>
        /\ received' = IF p.code < 2 THEN received \cup {p.msg} ELSE received
        /\ CASE p.code = 0 -> UNCHANGED s2c
             [] p.code = 1 -> Answers(Ack("PUBACK", p.id, 0))
             [] p.code = 2 -> Answers(Ack("PUBREC", p.id, 0))
    BY <1>3 DEF BrokerReceives, ClientSide, session, client
  <2>2. p \in Sendable /\ p.type = "PUBLISH" /\ p.id \in Ids
    BY <2>1, TakesTyped
  <2>3. p.code \in 0..2
    BY <2>2 DEF Sendable
  <2>4. CASE p.code = 1
    <3>1. received \subseteq received' /\ p.msg \in received'
      BY <2>1, <2>4
    <3>2. Answers(Ack("PUBACK", p.id, 0))
      <4>1. p.code = 1 /\ 1 # 0
        BY <2>4
      <4> HIDE DEF p
      <4> QED BY <2>1, <4>1
    <3>3. Takes("PUBLISH") /\ b_connected /\ UNCHANGED <<client, up, b_connected>> /\ 0 \in Codes
      BY <2>1, NoneTyped
    <3> QED BY <2>4, <3>1, <3>2, <3>3, BrokerAnswersSteps
  <2>5. CASE p.code # 1
    <3>1. received \subseteq received'
      BY <2>1
    <3>2. UNCHANGED s2c \/ Answers(Ack("PUBREC", p.id, 0))
      <4>1. p.code = 0 \/ p.code = 2
        BY <2>3, <2>5
      <4> HIDE DEF p
      <4>2. CASE p.code = 0
        BY <2>1, <4>2
      <4>3. CASE p.code = 2
        BY <2>1, <4>3
      <4> QED BY <4>1, <4>2, <4>3
    <3>3. Ack("PUBREC", p.id, 0) \in Packet \ (Replies \cup Accepts)
      BY <2>2, NoneTyped, OtherAcks DEF AckTypes
    <3> QED BY <2>1, <3>1, <3>2, <3>3, BrokerTalksSteps
  <2> QED BY <2>4, <2>5
<1> QED BY <1>1, <1>2, <1>3

LEMMA BrokerOtherSteps ==
    ASSUME MqttTypes, setup \in Setup,
           BrokerReleases \/ BrokerAnswersPing \/ BrokerAcked \/ BrokerPublishes \/ BrokerRetries
    PROVE  BrokerTalks
<1> DEFINE p == Head(c2s)
<1>0. ASSUME NEW type, Takes(type) PROVE p.id \in Ids
  BY <1>0, TakesTyped
<1>1. CASE BrokerReleases
  <2>1. /\ Takes("PUBREL") /\ UNCHANGED <<client, up, b_connected>> /\ received \subseteq received'
        /\ Answers(Ack("PUBCOMP", p.id, 0))
    BY <1>1 DEF BrokerReleases, ClientSide, session, client
  <2>2. Ack("PUBCOMP", p.id, 0) \in Packet \ (Replies \cup Accepts)
    BY <1>0, <2>1, NoneTyped, OtherAcks DEF AckTypes
  <2> QED BY <2>1, <2>2, BrokerTalksSteps
<1>2. CASE BrokerAnswersPing
  <2>1. /\ Takes("PINGREQ") /\ UNCHANGED <<client, up, b_connected>> /\ received' = received
        /\ Answers(Ack("PINGRESP", 0, 0))
    BY <1>2 DEF BrokerAnswersPing, ClientSide, session, client, broker
  <2>2. Ack("PINGRESP", 0, 0) \in Packet \ (Replies \cup Accepts)
    BY NoneTyped, OtherAcks DEF AckTypes
  <2> QED BY <2>1, <2>2, BrokerTalksSteps
<1>3. CASE BrokerAcked
  <2>1. /\ \E type : Takes(type)
        /\ UNCHANGED <<client, up, b_connected>> /\ received' = received
        /\ Answers(Ack("PUBREL", p.id, 0)) \/ UNCHANGED s2c
    BY <1>3, Zenon DEF BrokerAcked, ClientSide, session, client
  <2>2. Ack("PUBREL", p.id, 0) \in Packet \ (Replies \cup Accepts)
    BY <1>0, <2>1, NoneTyped, OtherAcks DEF AckTypes
  <2> QED BY <2>1, <2>2, BrokerTalksSteps
<1>4. CASE BrokerPublishes
  <2>1. PICK t \in TopicsUsed, q \in QosUsed, id \in Ids :
           /\ Answers(Pub(id, q, t, sent + 1))
           /\ UNCHANGED <<client, up, b_connected, c2s, received>>
    BY <1>4, NoneTyped DEF BrokerPublishes, session, history, client
  <2>2. sent + 1 \in Nat /\ t \in Topics /\ q \in 0..2
    BY SetupTypes DEF MqttTypes, CountTypes
  <2>3. Pub(id, q, t, sent + 1) \in Message
    BY <2>2, PubTyped
  <2>4. Pub(id, q, t, sent + 1) \in Packet \ (Replies \cup Accepts)
    BY <2>3 DEF Message, Replies, Accepts
  <2> QED BY <2>1, <2>4, BrokerTalksSteps
<1>5. CASE BrokerRetries
  <2>1. PICK m \in b_out :
           /\ Answers(Ack("PUBREL", m.pub.id, 0)) \/ Answers(m.pub)
           /\ UNCHANGED <<client, up, b_connected, c2s, received>>
    BY <1>5, Zenon DEF BrokerRetries, session, history, client, broker
  <2>2. m.pub \in Message /\ m.pub.id \in Ids
    BY DEF MqttTypes, BrokerTypes, Message, Packet
  <2>3. m.pub \in Packet \ (Replies \cup Accepts)
    BY <2>2 DEF Message, Replies, Accepts
  <2>4. Ack("PUBREL", m.pub.id, 0) \in Packet \ (Replies \cup Accepts)
    BY <2>2, NoneTyped, OtherAcks DEF AckTypes
  <2> QED BY <2>1, <2>3, <2>4, BrokerTalksSteps
<1> QED BY <1>1, <1>2, <1>3, <1>4, <1>5

LEMMA NetworkSteps ==
    ASSUME MqttTypes, ConnectionFails \/ SendingDue \/ ReceivingDue \/ UNCHANGED vars
    PROVE  Breaks \/ BrokerTalks
<1>1. CASE ConnectionFails
  <2>1. up' = FALSE /\ c2s' = <<>> /\ UNCHANGED <<client, received>>
    BY <1>1 DEF ConnectionFails, session, history, client
  <2>2. \E n \in 0..Len(s2c) : s2c' = SubSeq(s2c, 1, n)
    BY <1>1 DEF ConnectionFails
  <2> QED BY <2>1, <2>2 DEF Breaks
<1>2. CASE SendingDue \/ ReceivingDue
  BY <1>2 DEF SendingDue, ReceivingDue, session, network, broker, history, client, BrokerTalks
<1>3. CASE UNCHANGED vars
  BY <1>3 DEF vars, session, network, broker, history, client, BrokerTalks
<1> QED BY <1>1, <1>2, <1>3

-----------------------------------------------------------------------------
(* The theorems *)

LEMMA NextSteps ==
    ASSUME MqttTypes, SessionInv, CleanSession, [Next]_<<setup, vars>>
    PROVE  \/ Over \/ Enters \/ Reads \/ Waits \/ Breaks \/ Renews \/ Admitted \/ BrokerTalks
           \/ \E op, type : Starts(op, type)
           \/ \E op, type, p : AsksFor(op, type, p)
           \/ \E r : Replied(r)
<1>0. setup \in Setup /\ TopicsUsed \subseteq Topics /\ QosUsed \subseteq 0..2
  BY SetupTypes DEF MqttTypes
<1>1. CASE UNCHANGED <<setup, vars>>
  BY <1>1, NetworkSteps
<1>2. CASE UNCHANGED setup /\ Application
  <2>1. CASE Connect
    BY <2>1, ConnectSteps
  <2>2. CASE Disconnect \/ Yield \/ NewConnection
    BY <2>2, OtherCallsSteps
  <2>3. CASE \E t \in TopicsUsed : Unsubscribe(t)
    BY <1>0, <2>3, AskForSteps, 0 \in 0..2
  <2>4. CASE \E t \in TopicsUsed, q \in QosUsed : Subscribe(t, q) \/ Publish(t, q)
    <3>1. PICK t \in TopicsUsed, q \in QosUsed : Subscribe(t, q) \/ Publish(t, q)
      BY <2>4
    <3>2. t \in Topics /\ q \in 0..2
      BY <1>0
    <3> QED BY <1>0, <1>2, <3>1, <3>2, AskForSteps, PublishSteps
  <2> QED BY <1>2, <2>1, <2>2, <2>3, <2>4 DEF Application
<1>3. CASE Cycle \/ Expire
  BY <1>3, CycleSteps, ExpireSteps
<1>4. CASE Finish
  BY <1>4, FinishConnectSteps, OtherFinishesSteps DEF Finish
<1>5. CASE ConnectionFails \/ SendingDue \/ ReceivingDue
  BY <1>5, NetworkSteps
<1>6. CASE Broker
  BY <1>0, <1>6, HandshakeSteps, BrokerRequestSteps, BrokerOtherSteps DEF Broker
<1> QED BY <1>1, <1>2, <1>3, <1>4, <1>5, <1>6 DEF Next

LEMMA InitClean == Init => CleanInv
<1> SUFFICES ASSUME Init PROVE SessionInv
  BY DEF CleanInv
<1>1. /\ call = NoCall /\ call.at = "idle" /\ ~Asking /\ ~GotAccept /\ ~isconnected
      /\ inflight.id = 0 /\ c2s = <<>> /\ s2c = <<>>
  BY Failures DEF Init, NoCall, Asking, GotAccept
<1>2. \A S : None(c2s, S) /\ One(c2s, S) /\ None(s2c, S) /\ One(s2c, S)
  BY <1>1, Nothing
<1>3. CallInv
  BY <1>1 DEF CallInv
<1>4. LinkInv /\ AcceptInv /\ AskInv
  BY <1>1, <1>2 DEF LinkInv, AcceptInv, AskInv, Quiet
<1>5. RetInv
  BY DEF Init, RetInv
<1> QED BY <1>3, <1>4, <1>5 DEF SessionInv

LEMMA NextClean == MqttTypes /\ CleanInv /\ [Next]_<<setup, vars>> => CleanInv'
<1> SUFFICES ASSUME MqttTypes, CleanInv, [Next]_<<setup, vars>>, CleanSession' PROVE SessionInv'
  BY DEF CleanInv
<1>1. CleanSession /\ SessionInv
  <2>1. setup' = setup
    BY DEF Next
  <2> QED BY <2>1 DEF CleanSession, CleanInv
<1>2. CASE Over \/ Enters \/ Reads \/ Waits
  BY <1>1, <1>2, OverKeeps, EntersKeeps, ReadsKeeps, WaitsKeeps
<1>3. CASE Breaks \/ Renews \/ Admitted \/ BrokerTalks
  BY <1>1, <1>3, BreaksKeeps, RenewsKeeps, AdmittedKeeps, BrokerTalksKeeps
<1>4. CASE \/ \E op, type : Starts(op, type)
           \/ \E op, type, p : AsksFor(op, type, p)
           \/ \E r : Replied(r)
  BY <1>1, <1>4, StartsKeeps, AsksForKeeps, RepliedKeeps
<1> QED BY <1>1, <1>2, <1>3, <1>4, NextSteps

LEMMA AlwaysClean == Spec => [](MqttTypes /\ CleanInv)
<1> QED BY InitTyped, NextTyped, InitClean, NextClean, PTL DEF Spec

\* THEOREM: a client with clean sessions whose isConnected() is true, while its
\* TCP connection stands, is one whose CONNECT the broker accepted on it.
THEOREM CleanConnected == Spec => [](CleanSession => ConnectedMeansAccepted)
<1>1. MqttTypes /\ CleanInv => (CleanSession => ConnectedMeansAccepted)
  BY DEF CleanInv, SessionInv, AcceptInv, ConnectedMeansAccepted
<1> QED BY <1>1, AlwaysClean, PTL

\* THEOREM: waitfor looks at types only, and still the answer a call ends with
\* has the id of that call's request, never of one that was given up.
THEOREM CleanAnswers == Spec => [](CleanSession => AnswersMatch)
<1>1. MqttTypes /\ CleanInv => (CleanSession => AnswersMatch)
  <2> SUFFICES ASSUME SessionInv, call.at = "got", call.wait \in {"SUBACK", "UNSUBACK", "PUBACK"}
               PROVE  call.got.id = call.req.id
    BY DEF CleanInv, AnswersMatch
  <2>1. Asking
    BY DEF SessionInv, CallInv, Asking
  <2> QED BY <2>1 DEF SessionInv, AskInv, Answer
<1> QED BY <1>1, AlwaysClean, PTL

\* THEOREM: a publish at QoS 1 that returned SUCCESS is with the broker.
THEOREM CleanAcked == Spec => [](CleanSession => AckedMeansReceived)
<1>1. MqttTypes /\ CleanInv => (CleanSession => AckedMeansReceived)
  BY DEF CleanInv, SessionInv, RetInv, AckedMeansReceived, Returned
<1> QED BY <1>1, AlwaysClean, PTL

-----------------------------------------------------------------------------
(***************************************************************************)
(* What is proved of messages published to a client at QoS 2, when the     *)
(* library is compiled with it and the session is clean: whatever is lost  *)
(* or sent again, a message that was handed to the application is never    *)
(* handed to it again.                                                     *)
(*                                                                         *)
(* The client knows a message by its id only, forgets the id with the      *)
(* PUBREL, and the broker uses ids again.  This is enough because of the   *)
(* order on the connection: behind a PUBREL of some id there is no message *)
(* of that id that was heard before it.                                    *)
(***************************************************************************)

Exactly == CleanSession /\ QOS2 /\ QosUsed = {2}

-----------------------------------------------------------------------------
(* The invariant *)

\* The messages on the connection, and those the broker may send again.
Pubs == {s2c[k] : k \in {i \in 1..Len(s2c) : s2c[i].type = "PUBLISH"}} \cup {m.pub : m \in b_out}

\* p is read after the packet at j, now or when it is sent again.
Owed(p)     == \E m \in b_out : ~m.rel /\ m.pub = p
Ahead(p, j) == (\E k \in j + 1..Len(s2c) : s2c[k] = p) \/ Owed(p)
Heard(n) == delivered[n] > 0

\* Messages heard that will be read once more.
Again == {p \in Pubs : Ahead(p, 0) /\ Heard(p.msg)}

\* Every message is at QoS 2, has one packet, and an id of its own as long as
\* it is not complete.
MessageInv ==
    /\ \A p \in Pubs : /\ p.type = "PUBLISH" /\ p.code = 2 /\ p.id # 0
                       /\ p.topic \in Topics /\ p.msg \in 1..sent
    /\ \A p, q \in Pubs : p.msg = q.msg => p = q
    /\ \A m, n \in b_out : m.pub.id = n.pub.id => m = n
    /\ \A n \in sent + 1..MaxSent : delivered[n] = 0

\* What follows a PUBREL under its id is new.
OrderInv ==
    \A j \in 1..Len(s2c) : s2c[j].type = "PUBREL" =>
        \A p \in Pubs : p.id = s2c[j].id /\ Ahead(p, j) =>
            ~Heard(p.msg) /\ \A i \in 1..j - 1 : s2c[i] # p

\* A client that is connected knows what it will read again.
KnownInv == isconnected => \A p \in Again : KnownId(p.id)

\* One that is not has no handlers.
DeafInv == ~isconnected => messageHandlers = NoHandlers

\* There are messages, and subscriptions, only after the CONNACK was read.
Busy    == Pubs # {} \/ \E t \in Topics : b_subs[t] >= 0
Begun   == None(s2c, Accepts) /\ ~GotAccept /\ (up => b_connected)
BusyInv == Busy => Begun

OnceInv == MessageInv /\ OrderInv /\ KnownInv /\ DeafInv /\ BusyInv

-----------------------------------------------------------------------------
(* What happens to messages *)

Shifted(n) == \A k \in 1..Len(s2c') : k + n \in 1..Len(s2c) /\ s2c'[k] = s2c[k + n]

\* Some are read and not delivered, cut off, or complete.
Shrinks(n) ==
    /\ s2c' \in Seq(Packet) /\ n \in {0, 1} /\ n <= Len(s2c) /\ Shifted(n)
    /\ b_out' \subseteq b_out /\ UNCHANGED <<sent, delivered>>

\* The first is delivered.
Delivers(p) ==
    /\ s2c # <<>> /\ p = Head(s2c) /\ p.type = "PUBLISH" /\ s2c' = Tail(s2c)
    /\ UNCHANGED <<b_out, sent>>
    /\ \A n \in 1..MaxSent : n # p.msg => delivered'[n] = delivered[n]

\* The broker sends something else, releases one, sends one again, or a new one.
Says(r) ==
    /\ r \in Packet /\ r.type \notin {"PUBLISH", "PUBREL"} /\ s2c' = Append(s2c, r)
    /\ b_out' \subseteq b_out /\ UNCHANGED <<sent, delivered>>

Releases(r, mine) ==
    /\ r \in Packet /\ r.type = "PUBREL" /\ s2c' = Append(s2c, r)
    /\ mine \subseteq b_out
    /\ b_out' = (b_out \ mine) \cup {[m EXCEPT !.rel = TRUE] : m \in mine}
    /\ \A m \in b_out \ mine : m.rel \/ m.pub.id # r.id
    /\ UNCHANGED <<sent, delivered>>

Repeats(m) ==
    /\ m \in b_out /\ ~m.rel /\ s2c' = Append(s2c, m.pub)
    /\ UNCHANGED <<b_out, sent, delivered>>

Publishes(p) ==
    /\ p \in Message /\ p.code = 2 /\ p.id # 0 /\ p.topic \in Topics /\ p.msg = sent + 1
    /\ s2c' = Append(s2c, p)
    /\ b_out' = b_out \cup {[pub |-> p, rel |-> FALSE]}
    /\ \A m \in b_out : m.pub.id # p.id
    /\ Busy /\ sent < MaxSent /\ sent' = sent + 1 /\ UNCHANGED delivered

-----------------------------------------------------------------------------
(* The queue of the client *)

LEMMA TailShifts ==
    ASSUME s2c \in Seq(Packet), s2c # <<>>, s2c' = Tail(s2c)
    PROVE  /\ s2c' \in Seq(Packet) /\ Shifted(1)
           /\ Head(s2c) = s2c[1] /\ 1 \in 1..Len(s2c) /\ s2c[1] \in Packet
  BY DEF Shifted

LEMMA PrefixShifts ==
    ASSUME s2c \in Seq(Packet), NEW n \in 0..Len(s2c), s2c' = SubSeq(s2c, 1, n)
    PROVE  s2c' \in Seq(Packet) /\ Shifted(0)
  BY DEF Shifted

LEMMA AppendGrows ==
    ASSUME s2c \in Seq(Packet), NEW r \in Packet, s2c' = Append(s2c, r)
    PROVE  /\ s2c' \in Seq(Packet) /\ Len(s2c) \in Nat /\ Len(s2c') = Len(s2c) + 1
           /\ s2c'[Len(s2c) + 1] = r
           /\ \A k \in 1..Len(s2c) : s2c'[k] = s2c[k]
           /\ \A k \in 1..Len(s2c') : k \in 1..Len(s2c) \/ k = Len(s2c) + 1
<1>1. /\ s2c' \in Seq(Packet) /\ Len(s2c) \in Nat /\ Len(s2c') = Len(s2c) + 1
      /\ s2c'[Len(s2c) + 1] = r
      /\ \A k \in 1..Len(s2c) : s2c'[k] = s2c[k]
  OBVIOUS
<1> QED BY <1>1

\* Where a message comes from.
LEMMA PubsShrink ==
    ASSUME s2c \in Seq(Packet), NEW n, Shrinks(n)
    PROVE  /\ Pubs' \subseteq Pubs
           /\ \A p : \A j \in Nat : Ahead(p, j)' => Ahead(p, j + n)
<1>1. Len(s2c) \in Nat /\ Len(s2c') \in Nat /\ n \in {0, 1} /\ Shifted(n) /\ b_out' \subseteq b_out
  BY DEF Shrinks
<1>2. Pubs' \subseteq Pubs
  BY <1>1 DEF Pubs, Shifted
<1>3. ASSUME NEW p, NEW j \in Nat, Ahead(p, j)' PROVE Ahead(p, j + n)
  <2>1. CASE Owed(p)'
    BY <1>1, <2>1 DEF Ahead, Owed
  <2>2. CASE \E k \in j + 1..Len(s2c') : s2c'[k] = p
    <3>1. PICK k \in j + 1..Len(s2c') : s2c'[k] = p
      BY <2>2
    <3>2. k \in 1..Len(s2c')
      BY <1>1
    <3>3. k + n \in (j + n) + 1..Len(s2c) /\ s2c[k + n] = p
      BY <1>1, <3>1, <3>2 DEF Shifted
    <3> QED BY <3>3 DEF Ahead
  <2> QED BY <1>3, <2>1, <2>2 DEF Ahead
<1> QED BY <1>2, <1>3

\* Less on the way, in the same order.
LEMMA ShrinksKeeps ==
    ASSUME s2c \in Seq(Packet), UNCHANGED setup, MessageInv, OrderInv, NEW n, Shrinks(n)
    PROVE  /\ MessageInv' /\ OrderInv' /\ Again' \subseteq Again
           /\ n = 1 => \A p \in Again' : s2c[1].type = "PUBREL" => p.id # s2c[1].id
<1>1. /\ Len(s2c) \in Nat /\ Len(s2c') \in Nat /\ n \in {0, 1} /\ n <= Len(s2c) /\ Shifted(n)
      /\ b_out' \subseteq b_out /\ sent' = sent /\ delivered' = delivered
  BY DEF Shrinks
<1>2. /\ Pubs' \subseteq Pubs
      /\ \A p : \A j \in Nat : Ahead(p, j)' => Ahead(p, j + n)
  BY PubsShrink
<1>3. \A k : Heard(k)' <=> Heard(k)
  BY <1>1 DEF Heard
<1>4. MaxSent' = MaxSent
  BY DEF MaxSent
<1>5. MessageInv'
  BY <1>1, <1>2, <1>4 DEF MessageInv
<1>6. OrderInv'
  <2> SUFFICES ASSUME NEW j \in 1..Len(s2c'), s2c'[j].type = "PUBREL",
                      NEW p \in Pubs', p.id = s2c'[j].id, Ahead(p, j)'
               PROVE  ~Heard(p.msg)' /\ \A i \in 1..j - 1 : s2c'[i] # p
    BY DEF OrderInv
  <2>1. /\ j \in Nat /\ j + n \in 1..Len(s2c) /\ s2c[j + n] = s2c'[j]
    BY <1>1 DEF Shifted
  <2>2. p \in Pubs /\ Ahead(p, j + n)
    BY <1>2, <2>1
  <2>3. ~Heard(p.msg) /\ \A i \in 1..(j + n) - 1 : s2c[i] # p
    BY <2>1, <2>2 DEF OrderInv
  <2>4. ASSUME NEW i \in 1..j - 1 PROVE s2c'[i] # p
    <3>1. i \in 1..Len(s2c') /\ i + n \in 1..(j + n) - 1
      BY <1>1, <2>1
    <3> QED BY <1>1, <2>3, <3>1 DEF Shifted
  <2> QED BY <1>3, <2>3, <2>4
<1>7. ASSUME NEW p \in Again'
      PROVE  p \in Again /\ (n = 1 /\ s2c[1].type = "PUBREL" => p.id # s2c[1].id)
  <2>1. p \in Pubs /\ Ahead(p, 0 + n) /\ Heard(p.msg)
    BY <1>2, <1>3, <1>7, 0 \in Nat DEF Again
  <2>2. Ahead(p, 0)
    <3>1. 0 + n \in Nat /\ \A k \in (0 + n) + 1..Len(s2c) : k \in 0 + 1..Len(s2c)
      BY <1>1
    <3> QED BY <2>1, <3>1 DEF Ahead
  <2>3. ASSUME n = 1, s2c[1].type = "PUBREL" PROVE p.id # s2c[1].id
    <3>1. 1 \in 1..Len(s2c) /\ Ahead(p, 1)
      BY <1>1, <2>1, <2>3
    <3> QED BY <2>1, <2>3, <3>1 DEF OrderInv
  <2> QED BY <2>1, <2>2, <2>3 DEF Again
<1> QED BY <1>5, <1>6, <1>7

\* The first message is delivered, for the first time.
LEMMA DeliversKeeps ==
    ASSUME MqttTypes, UNCHANGED setup, MessageInv, OrderInv, NEW p, Delivers(p)
    PROVE  /\ MessageInv' /\ OrderInv' /\ Again' \subseteq Again \cup {p}
           /\ p \in Pubs /\ Ahead(p, 0)
<1>0. s2c \in Seq(Packet) /\ MaxSent \in Nat /\ sent \in 0..MaxSent
  BY SetupTypes DEF MqttTypes, NetTypes, CountTypes
<1>1. /\ s2c' \in Seq(Packet) /\ Shifted(1) /\ p = s2c[1] /\ 1 \in 1..Len(s2c)
      /\ b_out' = b_out /\ sent' = sent
  BY <1>0, TailShifts DEF Delivers
<1>2. Len(s2c) \in Nat /\ Len(s2c') \in Nat /\ p.type = "PUBLISH"
  BY <1>0, <1>1 DEF Delivers
<1>3. Pubs' \subseteq Pubs /\ \A q : \A j \in Nat : Ahead(q, j)' => Ahead(q, j + 1)
  <2>1. Pubs' \subseteq Pubs
    BY <1>1, <1>2 DEF Pubs, Shifted
  <2>2. ASSUME NEW q, NEW j \in Nat, Ahead(q, j)', ~Owed(q) PROVE Ahead(q, j + 1)
    <3>1. PICK k \in j + 1..Len(s2c') : s2c'[k] = q
      BY <1>1, <2>2 DEF Ahead, Owed
    <3>2. k \in 1..Len(s2c')
      BY <1>2
    <3>3. k + 1 \in (j + 1) + 1..Len(s2c) /\ s2c[k + 1] = q
      BY <1>1, <1>2, <3>1, <3>2 DEF Shifted
    <3> QED BY <3>3 DEF Ahead
  <2> QED BY <2>1, <2>2 DEF Ahead
<1>4. p \in Pubs /\ Ahead(p, 0)
  BY <1>1, <1>2 DEF Pubs, Ahead
<1>5. MaxSent' = MaxSent /\ p.msg \in 1..sent
  BY <1>4 DEF MaxSent, MessageInv
<1>6. ASSUME NEW q \in Pubs, q # p, Heard(q.msg)' PROVE Heard(q.msg)
  <2>1. q.msg # p.msg /\ q.msg \in 1..MaxSent
    BY <1>0, <1>4, <1>6 DEF MessageInv
  <2> QED BY <1>6, <2>1 DEF Heard, Delivers
<1>7. MessageInv'
  <2>1. ASSUME NEW n \in sent + 1..MaxSent PROVE delivered'[n] = 0
    <3>1. n \in 1..MaxSent /\ n # p.msg
      BY <1>0, <1>5
    <3> QED BY <3>1 DEF Delivers, MessageInv
  <2> QED BY <1>1, <1>3, <1>5, <2>1 DEF MessageInv
<1>8. OrderInv'
  <2> SUFFICES ASSUME NEW j \in 1..Len(s2c'), s2c'[j].type = "PUBREL",
                      NEW q \in Pubs', q.id = s2c'[j].id, Ahead(q, j)'
               PROVE  ~Heard(q.msg)' /\ \A i \in 1..j - 1 : s2c'[i] # q
    BY DEF OrderInv
  <2>1. j \in Nat /\ j + 1 \in 1..Len(s2c) /\ s2c[j + 1] = s2c'[j]
    BY <1>1, <1>2 DEF Shifted
  <2>2. q \in Pubs /\ Ahead(q, j + 1)
    BY <1>3, <2>1
  <2>3. ~Heard(q.msg) /\ \A i \in 1..(j + 1) - 1 : s2c[i] # q
    BY <2>1, <2>2 DEF OrderInv
  <2>4. q # p
    <3>1. 1 \in 1..(j + 1) - 1
      BY <2>1
    <3> QED BY <1>1, <2>3, <3>1
  <2>5. ASSUME NEW i \in 1..j - 1 PROVE s2c'[i] # q
    <3>1. i \in 1..Len(s2c') /\ i + 1 \in 1..(j + 1) - 1
      BY <1>2, <2>1
    <3> QED BY <1>1, <2>3, <3>1 DEF Shifted
  <2> QED BY <1>6, <2>2, <2>3, <2>4, <2>5
<1>9. ASSUME NEW q \in Again', q # p PROVE q \in Again
  <2>1. q \in Pubs /\ Ahead(q, 0 + 1) /\ Heard(q.msg)
    BY <1>3, <1>6, <1>9, 0 \in Nat DEF Again
  <2>2. \A k \in (0 + 1) + 1..Len(s2c) : k \in 0 + 1..Len(s2c)
    BY <1>2
  <2> QED BY <2>1, <2>2 DEF Again, Ahead
<1> QED BY <1>4, <1>7, <1>8, <1>9

\* What a packet more at the end changes.
LEMMA AppendAhead ==
    ASSUME s2c \in Seq(Packet), NEW r \in Packet, s2c' = Append(s2c, r)
    PROVE  /\ Pubs' \subseteq Pubs \cup {m.pub : m \in b_out'} \cup {q \in {r} : q.type = "PUBLISH"}
           /\ \A p : \A j \in 0..Len(s2c) : Ahead(p, j)' => Ahead(p, j) \/ p = r \/ Owed(p)'
           /\ \A p : \A j \in {Len(s2c) + 1} : Ahead(p, j)' => Owed(p)'
<1>1. /\ s2c' \in Seq(Packet) /\ Len(s2c) \in Nat /\ Len(s2c') = Len(s2c) + 1
      /\ s2c'[Len(s2c) + 1] = r
      /\ \A k \in 1..Len(s2c) : s2c'[k] = s2c[k]
      /\ \A k \in 1..Len(s2c') : k \in 1..Len(s2c) \/ k = Len(s2c) + 1
  BY AppendGrows
<1>2. Pubs' \subseteq Pubs \cup {m.pub : m \in b_out'} \cup {q \in {r} : q.type = "PUBLISH"}
  BY <1>1 DEF Pubs
<1>3. ASSUME NEW p, NEW j \in 0..Len(s2c), Ahead(p, j)', ~Owed(p)', p # r PROVE Ahead(p, j)
  <2>1. PICK k \in j + 1..Len(s2c') : s2c'[k] = p
    BY <1>3 DEF Ahead
  <2>2. k \in 1..Len(s2c') /\ k # Len(s2c) + 1
    BY <1>1, <1>3, <2>1
  <2>3. k \in j + 1..Len(s2c) /\ s2c[k] = p
    BY <1>1, <2>1, <2>2
  <2> QED BY <2>3 DEF Ahead
<1>4. ASSUME NEW p, NEW j \in {Len(s2c) + 1}, Ahead(p, j)' PROVE Owed(p)'
  <2>1. ~(\E k \in j + 1..Len(s2c') : s2c'[k] = p)
    BY <1>1
  <2> QED BY <1>4, <2>1 DEF Ahead
<1> QED BY <1>2, <1>3, <1>4

\* The order, when the packet at the end is no message, one that was owed
\* anyway, or a new one.
LEMMA AppendOrder ==
    ASSUME s2c \in Seq(Packet), NEW r \in Packet, s2c' = Append(s2c, r), UNCHANGED delivered,
           OrderInv, Pubs' \subseteq Pubs \cup {r}, \A p \in Pubs' : p.type = "PUBLISH",
           \A p \in Pubs' : p = r \/ Owed(p)' =>
               (Owed(p) /\ p \in Pubs) \/ (~Heard(p.msg) /\ p \notin Pubs),
           r.type = "PUBREL" => \A p \in Pubs' : p.id = r.id => ~Owed(p)'
    PROVE  OrderInv' /\ Again' \subseteq Again
<1>1. /\ Len(s2c) \in Nat /\ Len(s2c') = Len(s2c) + 1 /\ s2c'[Len(s2c) + 1] = r
      /\ \A k \in 1..Len(s2c) : s2c'[k] = s2c[k]
      /\ \A k \in 1..Len(s2c') : k \in 1..Len(s2c) \/ k = Len(s2c) + 1
  BY AppendGrows
<1>2. /\ \A p : \A j \in 0..Len(s2c) : Ahead(p, j)' => Ahead(p, j) \/ p = r \/ Owed(p)'
      /\ \A p : \A j \in {Len(s2c) + 1} : Ahead(p, j)' => Owed(p)'
  BY AppendAhead
<1>3. \A k : Heard(k)' <=> Heard(k)
  BY DEF Heard
<1>4. ASSUME NEW p \in Pubs', NEW j \in 0..Len(s2c), Ahead(p, j)'
      PROVE  (p \in Pubs /\ Ahead(p, j)) \/ (~Heard(p.msg) /\ p \notin Pubs)
  <2>1. Owed(p) => Ahead(p, j)
    BY DEF Ahead
  <2>2. CASE p = r \/ Owed(p)'
    BY <2>1, <2>2
  <2>3. CASE p # r /\ ~Owed(p)'
    <3>1. p \in Pubs
      BY <2>3
    <3>2. Ahead(p, j)
      BY <1>2, <1>4, <2>3, Zenon
    <3> QED BY <3>1, <3>2
  <2> QED BY <2>2, <2>3
<1>5. OrderInv'
  <2> SUFFICES ASSUME NEW j \in 1..Len(s2c'), s2c'[j].type = "PUBREL",
                      NEW p \in Pubs', p.id = s2c'[j].id, Ahead(p, j)'
               PROVE  ~Heard(p.msg) /\ \A i \in 1..j - 1 : s2c'[i] # p
    BY <1>3 DEF OrderInv
  <2>1. CASE j = Len(s2c) + 1
    <3>1. Owed(p)'
      BY <1>2, <2>1
    <3> QED BY <1>1, <2>1, <3>1
  <2>2. CASE j \in 1..Len(s2c)
    <3>1. s2c[j] = s2c'[j] /\ j \in 0..Len(s2c) /\ \A i \in 1..j - 1 : i \in 1..Len(s2c) /\ s2c'[i] = s2c[i]
      BY <1>1, <2>2
    <3>2. CASE p \in Pubs /\ Ahead(p, j)
      <4>1. ~Heard(p.msg) /\ \A i \in 1..j - 1 : s2c[i] # p
        BY <2>2, <3>1, <3>2 DEF OrderInv
      <4> QED BY <3>1, <4>1
    <3>3. CASE ~Heard(p.msg) /\ p \notin Pubs
      <4>1. \A i \in 1..Len(s2c) : s2c[i] # p
        BY <3>3 DEF Pubs
      <4> QED BY <3>1, <3>3, <4>1
    <3> QED BY <1>4, <3>1, <3>2, <3>3
  <2> QED BY <1>1, <2>1, <2>2
<1>6. Again' \subseteq Again
  <2> SUFFICES ASSUME NEW p \in Again' PROVE p \in Again
    OBVIOUS
  <2>1. p \in Pubs' /\ Ahead(p, 0)' /\ Heard(p.msg)
    BY <1>3 DEF Again
  <2>2. 0 \in 0..Len(s2c)
    BY <1>1
  <2> QED BY <1>4, <2>1, <2>2 DEF Again
<1> QED BY <1>5, <1>6

LEMMA SaysKeeps ==
    ASSUME s2c \in Seq(Packet), UNCHANGED setup, MessageInv, OrderInv, NEW r, Says(r)
    PROVE  MessageInv' /\ OrderInv' /\ Again' \subseteq Again /\ Pubs' \subseteq Pubs
<1>1. /\ r \in Packet /\ r.type \notin {"PUBLISH", "PUBREL"} /\ s2c' = Append(s2c, r)
      /\ b_out' \subseteq b_out /\ sent' = sent /\ delivered' = delivered /\ MaxSent' = MaxSent
  BY DEF Says, MaxSent
<1>2. Pubs' \subseteq Pubs \cup {m.pub : m \in b_out'} \cup {q \in {r} : q.type = "PUBLISH"}
  BY <1>1, AppendAhead
<1>3. Pubs' \subseteq Pubs
  BY <1>1, <1>2 DEF Pubs
<1>4. MessageInv'
  BY <1>1, <1>3 DEF MessageInv
<1>5. \A p \in Pubs' : p.type = "PUBLISH" /\ p # r /\ (Owed(p)' => Owed(p))
  BY <1>1, <1>4 DEF MessageInv, Owed
<1> QED BY <1>1, <1>3, <1>4, <1>5, AppendOrder

LEMMA RepeatsKeeps ==
    ASSUME MqttTypes, UNCHANGED setup, MessageInv, OrderInv, NEW m, Repeats(m)
    PROVE  MessageInv' /\ OrderInv' /\ Again' \subseteq Again /\ Pubs' \subseteq Pubs
<1> DEFINE r == m.pub
<1>0. s2c \in Seq(Packet)
  BY DEF MqttTypes, NetTypes
<1>1. /\ m \in b_out /\ ~m.rel /\ s2c' = Append(s2c, r)
      /\ b_out' = b_out /\ sent' = sent /\ delivered' = delivered /\ MaxSent' = MaxSent
  BY DEF Repeats, MaxSent
<1>2. r \in Packet
  BY <1>1 DEF MqttTypes, BrokerTypes, Message
<1>3. r \in Pubs /\ Owed(r)
  BY <1>1 DEF Pubs, Owed
<1>4. Pubs' \subseteq Pubs \cup {n.pub : n \in b_out'} \cup {q \in {r} : q.type = "PUBLISH"}
  BY <1>0, <1>1, <1>2, AppendAhead
<1>5. Pubs' \subseteq Pubs
  BY <1>1, <1>3, <1>4 DEF Pubs
<1>6. MessageInv'
  BY <1>1, <1>5 DEF MessageInv
<1>7. \A p \in Pubs' : p.type = "PUBLISH" /\ p \in Pubs /\ (p = r \/ Owed(p)' => Owed(p))
  BY <1>1, <1>3, <1>5, <1>6 DEF MessageInv, Owed
<1>8. r.type # "PUBREL"
  BY <1>3 DEF MessageInv
<1> HIDE DEF r
<1> QED BY <1>0, <1>1, <1>2, <1>5, <1>6, <1>7, <1>8, AppendOrder

\* A PUBREL is sent when no message with its id is owed.
LEMMA ReleasesKeeps ==
    ASSUME MqttTypes, UNCHANGED setup, MessageInv, OrderInv, NEW r, NEW mine, Releases(r, mine)
    PROVE  MessageInv' /\ OrderInv' /\ Again' \subseteq Again /\ Pubs' \subseteq Pubs
<1>0. s2c \in Seq(Packet) /\ b_out \subseteq [pub : Message, rel : BOOLEAN]
  BY DEF MqttTypes, NetTypes, BrokerTypes
<1>1. /\ r \in Packet /\ r.type = "PUBREL" /\ s2c' = Append(s2c, r) /\ mine \subseteq b_out
      /\ b_out' = (b_out \ mine) \cup {[m EXCEPT !.rel = TRUE] : m \in mine}
      /\ \A m \in b_out \ mine : m.rel \/ m.pub.id # r.id
      /\ sent' = sent /\ delivered' = delivered /\ MaxSent' = MaxSent
  BY DEF Releases, MaxSent
<1>2. \A m \in b_out' : \/ m \in b_out \ mine
                        \/ m.rel /\ \E n \in mine : m = [n EXCEPT !.rel = TRUE] /\ m.pub = n.pub
  BY <1>0, <1>1
<1>3. \A m \in b_out' : \E n \in b_out : m.pub = n.pub
  BY <1>1, <1>2
<1>4. Pubs' \subseteq Pubs \cup {m.pub : m \in b_out'} \cup {q \in {r} : q.type = "PUBLISH"}
  BY <1>0, <1>1, AppendAhead
<1>5. Pubs' \subseteq Pubs
  BY <1>1, <1>3, <1>4 DEF Pubs
<1>6. ASSUME NEW m \in b_out', NEW n \in b_out', m.pub.id = n.pub.id PROVE m = n
  <2>1. PICK k \in b_out : /\ k.pub = m.pub
                           /\ (k \notin mine /\ m = k) \/ (k \in mine /\ m = [k EXCEPT !.rel = TRUE])
    BY <1>1, <1>2
  <2>2. PICK l \in b_out : /\ l.pub = n.pub
                           /\ (l \notin mine /\ n = l) \/ (l \in mine /\ n = [l EXCEPT !.rel = TRUE])
    BY <1>1, <1>2
  <2>3. k = l
    BY <1>6, <2>1, <2>2 DEF MessageInv
  <2> QED BY <2>1, <2>2, <2>3
<1>7. MessageInv'
  BY <1>1, <1>5, <1>6 DEF MessageInv
<1>8. \A p : Owed(p)' => Owed(p) /\ p.id # r.id
  BY <1>1, <1>2 DEF Owed
<1>9. \A p \in Pubs' : p.type = "PUBLISH" /\ p \in Pubs /\ p # r
  BY <1>1, <1>5, <1>7 DEF MessageInv
<1> QED BY <1>0, <1>1, <1>5, <1>7, <1>8, <1>9, AppendOrder

\* A new message: nobody has heard of it.
LEMMA PublishesKeeps ==
    ASSUME MqttTypes, UNCHANGED setup, MessageInv, OrderInv, NEW r, Publishes(r)
    PROVE  MessageInv' /\ OrderInv' /\ Again' \subseteq Again
<1> DEFINE new == [pub |-> r, rel |-> FALSE]
<1>0. s2c \in Seq(Packet) /\ sent \in Nat /\ MaxSent \in Nat
  BY SetupTypes DEF MqttTypes, NetTypes, CountTypes
<1>1. /\ r \in Packet /\ r.type = "PUBLISH" /\ r.code = 2 /\ r.id # 0 /\ r.topic \in Topics
      /\ r.msg = sent + 1 /\ s2c' = Append(s2c, r) /\ b_out' = b_out \cup {new}
      /\ \A m \in b_out : m.pub.id # r.id
      /\ sent < MaxSent /\ sent' = sent + 1 /\ delivered' = delivered /\ MaxSent' = MaxSent
  BY DEF Publishes, Message, MaxSent
<1>2. new.pub = r
  OBVIOUS
<1> HIDE DEF new
<1>3. Pubs' \subseteq Pubs \cup {m.pub : m \in b_out'} \cup {q \in {r} : q.type = "PUBLISH"}
  BY <1>0, <1>1, AppendAhead
<1>4. Pubs' \subseteq Pubs \cup {r}
  BY <1>1, <1>2, <1>3 DEF Pubs
<1>5. r \notin Pubs /\ \A p \in Pubs : p.msg # r.msg
  BY <1>0, <1>1 DEF MessageInv
<1>6. ~Heard(r.msg)
  <2>1. r.msg \in sent + 1..MaxSent
    BY <1>0, <1>1
  <2> QED BY <2>1 DEF MessageInv, Heard
<1>7. MessageInv'
  <2>1. ASSUME NEW p \in Pubs'
        PROVE  /\ p.type = "PUBLISH" /\ p.code = 2 /\ p.id # 0
               /\ p.topic \in Topics /\ p.msg \in 1..sent'
    BY <1>0, <1>1, <1>4 DEF MessageInv
  <2>2. \A p, q \in Pubs' : p.msg = q.msg => p = q
    BY <1>4, <1>5 DEF MessageInv
  <2>3. \A m, n \in b_out' : m.pub.id = n.pub.id => m = n
    BY <1>1, <1>2 DEF MessageInv
  <2>4. \A n \in sent' + 1..MaxSent' : delivered'[n] = 0
    BY <1>0, <1>1 DEF MessageInv
  <2> QED BY <2>1, <2>2, <2>3, <2>4 DEF MessageInv
<1>8. ASSUME NEW p \in Pubs', p = r \/ Owed(p)'
      PROVE  (Owed(p) /\ p \in Pubs) \/ (~Heard(p.msg) /\ p \notin Pubs)
  <2>1. CASE p = r
    BY <1>5, <1>6, <2>1
  <2>2. CASE p # r /\ Owed(p)'
    BY <1>1, <1>2, <1>4, <2>2 DEF Owed
  <2> QED BY <1>8, <2>1, <2>2
<1>9. \A p \in Pubs' : p.type = "PUBLISH"
  BY <1>7 DEF MessageInv
<1>10. r.type # "PUBREL"
  BY <1>1
<1> QED BY <1>0, <1>1, <1>4, <1>7, <1>8, <1>9, <1>10, AppendOrder

-----------------------------------------------------------------------------
(* The ids the client knows *)

LEMMA Smallest ==
    ASSUME NEW S \in SUBSET Nat, S # {}
    PROVE  \E i \in S : \A j \in S : i <= j
<1>1. IsWellFoundedOn(OpToRel(<, Nat), Nat)
  BY NatLessThanWellFounded
<1>2. PICK i \in S : \A j \in S : <<j, i>> \notin OpToRel(<, Nat)
  BY <1>1, WFMin
<1>3. \A j \in S : ~(j < i)
  <2> SUFFICES ASSUME NEW j \in S PROVE ~(j < i)
    OBVIOUS
  <2>1. <<j, i>> \notin OpToRel(<, Nat) /\ j \in Nat /\ i \in Nat
    BY <1>2
  <2> QED BY <2>1, Zenon DEF OpToRel
<1> QED BY <1>3

\* A new id takes a free slot and no other id's.
LEMMA Remembers ==
    ASSUME SessionTypes, NEW id \in Ids, FreeSlots # {}, Remember(id)
    PROVE  /\ KnownId(id)'
           /\ \A q : q # 0 /\ KnownId(q) => KnownId(q)'
<1> DEFINE first == CHOOSE i \in FreeSlots : \A j \in FreeSlots : i <= j
<1>1. FreeSlots \subseteq Nat
  BY SizeAssumption DEF FreeSlots, Incoming
<1>2. first \in FreeSlots
  BY <1>1, Smallest
<1>3. first \in Incoming /\ incomingQoS2messages[first] = 0
  BY <1>2 DEF FreeSlots
<1>4. incomingQoS2messages' = [incomingQoS2messages EXCEPT ![first] = id]
  BY DEF Remember
<1> HIDE DEF first
<1>5. incomingQoS2messages'[first] = id
  BY <1>3, <1>4 DEF SessionTypes
<1>6. ASSUME NEW q, q # 0, KnownId(q) PROVE KnownId(q)'
  <2>1. PICK i \in Incoming : incomingQoS2messages[i] = q
    BY <1>6 DEF KnownId
  <2>2. i # first
    BY <1>3, <1>6, <2>1
  <2>3. incomingQoS2messages'[i] = q
    BY <1>4, <2>1, <2>2 DEF SessionTypes
  <2> QED BY <2>1, <2>3 DEF KnownId
<1> QED BY <1>3, <1>5, <1>6 DEF KnownId

\* Who hears a message: the handlers, of which a client that is not connected
\* has none.
LEMMA DeliverHears ==
    ASSUME MqttTypes, NEW p \in Packet, p.topic \in Topics, Deliver(p)
    PROVE  /\ \A n \in 1..MaxSent : n # p.msg => delivered'[n] = delivered[n]
           /\ messageHandlers = NoHandlers => \A n \in 1..MaxSent : delivered'[n] = delivered[n]
           /\ \A n \in 1..MaxSent : delivered[n] = 0 /\ MaxHandlers <= 1 => delivered'[n] <= 1
<1> DEFINE S == {i \in Slots : messageHandlers[i] = p.topic}
           N == Cardinality(S)
<1>1. MaxHandlers \in Nat /\ delivered \in [1..MaxSent -> Nat]
  BY SetupTypes DEF MqttTypes, CountTypes
<1>2. IsFiniteSet(Slots) /\ Cardinality(Slots) = MaxHandlers
  <2>1. 1 \in Int /\ MaxHandlers \in Int
    BY <1>1
  <2>2. /\ IsFiniteSet(1..MaxHandlers)
        /\ Cardinality(1..MaxHandlers) = IF 1 > MaxHandlers THEN 0 ELSE MaxHandlers - 1 + 1
    BY <2>1, FS_Interval
  <2> QED BY <1>1, <2>2 DEF Slots
<1>3. S \in SUBSET Slots
  OBVIOUS
<1>4. IsFiniteSet(S) /\ N <= MaxHandlers
  <2>1. IsFiniteSet(S) /\ Cardinality(S) <= Cardinality(Slots)
    BY <1>2, <1>3, FS_Subset
  <2> QED BY <1>2, <2>1
<1>5. N \in Nat
  BY <1>4, FS_CardinalityType
<1>6. messageHandlers = NoHandlers => N = 0
  <2>1. messageHandlers = NoHandlers => S = {}
    BY TopicAssumption DEF NoHandlers
  <2> QED BY <2>1, FS_EmptySet
<1>7. delivered' = [delivered EXCEPT ![p.msg] = @ + N]
  BY DEF Deliver
<1> HIDE DEF N
<1>8. ASSUME NEW n \in 1..MaxSent
      PROVE  /\ n # p.msg => delivered'[n] = delivered[n]
             /\ n = p.msg => delivered'[n] = delivered[n] + N
             /\ delivered[n] \in Nat
  BY <1>1, <1>7
<1> QED BY <1>1, <1>4, <1>5, <1>6, <1>8

-----------------------------------------------------------------------------
(* What the steps have in common *)

mail == <<s2c, b_out, b_subs, sent, delivered>>
ears == <<isconnected, messageHandlers, incomingQoS2messages>>

\* The client is cleaned up, keeps what it is, changes a handler, or has read
\* the broker's acceptance.
Hears ==
    \/ isconnected' = FALSE /\ messageHandlers' = NoHandlers'
    \/ UNCHANGED ears
    \/ isconnected /\ isconnected' /\ UNCHANGED incomingQoS2messages
    \/ GotAccept /\ isconnected' /\ UNCHANGED incomingQoS2messages

Aside == UNCHANGED mail /\ Hears

\* A cycle takes a packet and delivers nothing; a PUBREL may free its id.
ReadsOn ==
    /\ s2c # <<>> /\ s2c' = Tail(s2c) /\ UNCHANGED <<b_out, b_subs, sent, delivered>>
    /\ UNCHANGED <<isconnected, messageHandlers>>
    /\ \A i \in Incoming :
          \/ incomingQoS2messages'[i] = incomingQoS2messages[i]
          \/ Head(s2c).type = "PUBREL" /\ incomingQoS2messages[i] = Head(s2c).id

\* A cycle delivers a message.
ReadsNew(p) ==
    /\ s2c # <<>> /\ p = Head(s2c) /\ p.type = "PUBLISH" /\ s2c' = Tail(s2c)
    /\ ~KnownId(p.id) /\ FreeSlots # {} /\ Remember(p.id) /\ Deliver(p)
    /\ UNCHANGED <<b_out, b_subs, sent, isconnected, messageHandlers>>

\* The broker, or the network, moves.
Outside ==
    /\ UNCHANGED ears
    /\ \/ Shrinks(0)
       \/ \E r : Says(r) \/ Repeats(r) \/ Publishes(r) \/ \E mine : Releases(r, mine)

\* Nobody subscribes.
Calm == \A t \in Topics : b_subs'[t] >= 0 => b_subs[t] >= 0

LEMMA AsideKeeps ==
    ASSUME UNCHANGED setup, OnceInv, Aside
    PROVE  MessageInv' /\ OrderInv' /\ KnownInv' /\ DeafInv' /\ (Busy' <=> Busy)
<1>1. UNCHANGED mail
  BY DEF Aside
<1>2. MessageInv' /\ OrderInv' /\ (Busy' <=> Busy) /\ Again' = Again /\ Pubs' = Pubs
  <2>1. \A p, j : Ahead(p, j)' <=> Ahead(p, j)
    BY <1>1 DEF mail, Ahead, Owed
  <2>2. Pubs' = Pubs
    BY <1>1 DEF mail, Pubs
  <2>3. \A k : Heard(k)' <=> Heard(k)
    BY <1>1 DEF mail, Heard
  <2>4. MaxSent' = MaxSent
    BY DEF MaxSent
  <2>5. MessageInv'
    BY <1>1, <2>2, <2>4 DEF OnceInv, MessageInv, mail
  <2>6. OrderInv'
    BY <1>1, <2>1, <2>2, <2>3 DEF OnceInv, OrderInv, mail
  <2> QED BY <1>1, <2>1, <2>2, <2>3, <2>5, <2>6 DEF Again, Busy, mail
<1>3. NoHandlers' = NoHandlers
  BY DEF NoHandlers, Slots, MaxHandlers
<1>4. UNCHANGED incomingQoS2messages => \A q : KnownId(q)' <=> KnownId(q)
  BY DEF KnownId, Incoming
<1>5. CASE isconnected' = FALSE /\ messageHandlers' = NoHandlers'
  BY <1>2, <1>5 DEF KnownInv, DeafInv
<1>6. CASE UNCHANGED ears
  BY <1>2, <1>3, <1>4, <1>6 DEF ears, OnceInv, KnownInv, DeafInv
<1>7. CASE isconnected /\ isconnected' /\ UNCHANGED incomingQoS2messages
  BY <1>2, <1>4, <1>7 DEF OnceInv, KnownInv, DeafInv
<1>8. CASE GotAccept /\ isconnected' /\ UNCHANGED incomingQoS2messages
  <2>1. Again = {}
    BY <1>8 DEF OnceInv, BusyInv, Begun, Busy, Again
  <2> QED BY <1>2, <1>8, <2>1 DEF KnownInv, DeafInv
<1> QED BY <1>2, <1>5, <1>6, <1>7, <1>8 DEF Aside, Hears

LEMMA ReadsOnLeaves ==
    ASSUME MqttTypes, UNCHANGED setup, OnceInv, ReadsOn
    PROVE  MessageInv' /\ OrderInv' /\ KnownInv' /\ DeafInv' /\ (Busy' => Busy)
<1>0. s2c \in Seq(Packet)
  BY DEF MqttTypes, NetTypes
<1>1. /\ s2c' \in Seq(Packet) /\ Shifted(1) /\ Head(s2c) = s2c[1] /\ 1 \in 1..Len(s2c)
  BY <1>0, TailShifts DEF ReadsOn
<1>2. Shrinks(1)
  BY <1>0, <1>1 DEF Shrinks, ReadsOn
<1>3. /\ MessageInv' /\ OrderInv' /\ Again' \subseteq Again
      /\ \A p \in Again' : s2c[1].type = "PUBREL" => p.id # s2c[1].id
  BY <1>0, <1>2, ShrinksKeeps DEF OnceInv
<1>4. Pubs' \subseteq Pubs
  BY <1>0, <1>2, PubsShrink
<1>5. Busy' => Busy
  BY <1>4 DEF Busy, ReadsOn
<1>6. KnownInv'
  <2> SUFFICES ASSUME isconnected', NEW p \in Again' PROVE KnownId(p.id)'
    BY DEF KnownInv
  <2>1. PICK i \in Incoming : incomingQoS2messages[i] = p.id
    BY <1>3 DEF OnceInv, KnownInv, KnownId, ReadsOn
  <2>2. incomingQoS2messages'[i] = p.id
    BY <1>1, <1>3, <2>1 DEF ReadsOn
  <2> QED BY <2>1, <2>2 DEF KnownId, Incoming
<1>7. DeafInv'
  BY DEF OnceInv, DeafInv, ReadsOn, NoHandlers, Slots, MaxHandlers
<1> QED BY <1>3, <1>5, <1>6, <1>7

\* What is delivered was never heard before.
LEMMA ReadsNewKeeps ==
    ASSUME MqttTypes, UNCHANGED setup, OnceInv, NEW p, ReadsNew(p)
    PROVE  /\ MessageInv' /\ OrderInv' /\ KnownInv' /\ DeafInv' /\ (Busy' => Busy)
           /\ \A n \in 1..MaxSent : Heard(n) => delivered'[n] = delivered[n]
           /\ \A n \in 1..MaxSent : MaxHandlers <= 1 /\ delivered[n] <= 1 => delivered'[n] <= 1
<1>0. s2c \in Seq(Packet) /\ SessionTypes /\ delivered \in [1..MaxSent -> Nat]
  BY DEF MqttTypes, NetTypes, CountTypes
<1>1. /\ s2c' \in Seq(Packet) /\ Shifted(1) /\ p = s2c[1] /\ 1 \in 1..Len(s2c) /\ p \in Packet
  BY <1>0, TailShifts DEF ReadsNew
<1>2. p \in Pubs
  BY <1>1 DEF Pubs, ReadsNew
<1>3. p.topic \in Topics /\ p.id \in Ids /\ p.id # 0
  BY <1>1, <1>2 DEF OnceInv, MessageInv, Packet
<1>4. /\ \A n \in 1..MaxSent : n # p.msg => delivered'[n] = delivered[n]
      /\ messageHandlers = NoHandlers => \A n \in 1..MaxSent : delivered'[n] = delivered[n]
      /\ \A n \in 1..MaxSent : delivered[n] = 0 /\ MaxHandlers <= 1 => delivered'[n] <= 1
  BY <1>1, <1>3, DeliverHears DEF ReadsNew
<1>5. Delivers(p)
  BY <1>4 DEF Delivers, ReadsNew
<1>6. MessageInv' /\ OrderInv' /\ Again' \subseteq Again \cup {p} /\ Ahead(p, 0)
  BY <1>5, DeliversKeeps DEF OnceInv
<1>7. isconnected => ~Heard(p.msg)
  BY <1>2, <1>6 DEF OnceInv, KnownInv, Again, ReadsNew
<1>8. ~isconnected => \A n \in 1..MaxSent : delivered'[n] = delivered[n]
  BY <1>4 DEF OnceInv, DeafInv
<1>9. /\ \A n \in 1..MaxSent : Heard(n) => delivered'[n] = delivered[n]
      /\ \A n \in 1..MaxSent : MaxHandlers <= 1 /\ delivered[n] <= 1 => delivered'[n] <= 1
  <2> SUFFICES ASSUME NEW n \in 1..MaxSent
               PROVE  /\ Heard(n) => delivered'[n] = delivered[n]
                      /\ MaxHandlers <= 1 /\ delivered[n] <= 1 => delivered'[n] <= 1
    OBVIOUS
  <2>1. CASE ~isconnected \/ n # p.msg
    BY <1>4, <1>8, <2>1
  <2>2. CASE isconnected /\ n = p.msg
    <3>1. ~Heard(n) /\ delivered[n] = 0
      BY <1>0, <1>7, <2>2 DEF Heard
    <3> QED BY <1>4, <3>1
  <2> QED BY <2>1, <2>2
<1>10. /\ KnownId(p.id)' /\ \A q : q # 0 /\ KnownId(q) => KnownId(q)'
  BY <1>0, <1>3, Remembers DEF ReadsNew
<1>11. KnownInv'
  <2> SUFFICES ASSUME isconnected', NEW q \in Again', q # p PROVE KnownId(q.id)'
    BY <1>10 DEF KnownInv
  <2>1. q \in Again /\ isconnected
    BY <1>6 DEF ReadsNew
  <2>2. KnownId(q.id) /\ q.id # 0
    BY <2>1 DEF OnceInv, KnownInv, Again, MessageInv
  <2> QED BY <1>10, <2>2
<1>12. DeafInv'
  BY DEF OnceInv, DeafInv, ReadsNew, NoHandlers, Slots, MaxHandlers
<1>13. Busy' => Busy
  BY <1>2 DEF Busy
<1> QED BY <1>6, <1>9, <1>11, <1>12, <1>13

LEMMA OutsideKeeps ==
    ASSUME MqttTypes, UNCHANGED setup, OnceInv, Outside
    PROVE  MessageInv' /\ OrderInv' /\ KnownInv' /\ DeafInv' /\ (Calm /\ Busy' => Busy)
<1>0. s2c \in Seq(Packet) /\ MessageInv /\ OrderInv
  BY DEF MqttTypes, NetTypes, OnceInv
<1>1. MessageInv' /\ OrderInv' /\ Again' \subseteq Again /\ (Busy \/ Pubs' \subseteq Pubs)
  <2>1. CASE Shrinks(0)
    BY <1>0, <2>1, ShrinksKeeps, PubsShrink
  <2>2. ASSUME NEW r, Says(r) \/ Repeats(r) \/ Publishes(r) \/ \E mine : Releases(r, mine)
        PROVE  MessageInv' /\ OrderInv' /\ Again' \subseteq Again /\ (Busy \/ Pubs' \subseteq Pubs)
    <3>1. CASE Says(r)
      BY <1>0, <3>1, SaysKeeps
    <3>2. CASE Repeats(r)
      BY <1>0, <3>2, RepeatsKeeps
    <3>3. CASE Publishes(r)
      BY <1>0, <3>3, PublishesKeeps DEF Publishes
    <3>4. CASE \E mine : Releases(r, mine)
      BY <1>0, <3>4, ReleasesKeeps
    <3> QED BY <2>2, <3>1, <3>2, <3>3, <3>4
  <2> QED BY <2>1, <2>2 DEF Outside
<1>2. \A q : KnownId(q)' <=> KnownId(q)
  BY DEF Outside, ears, KnownId, Incoming
<1>3. KnownInv'
  BY <1>1, <1>2 DEF OnceInv, KnownInv, Outside, ears
<1>4. DeafInv'
  BY DEF OnceInv, DeafInv, Outside, ears, NoHandlers, Slots, MaxHandlers
<1>5. Calm /\ Busy' => Busy
  BY <1>1 DEF Busy, Calm
<1> QED BY <1>1, <1>3, <1>4, <1>5

-----------------------------------------------------------------------------
(* Every action is one of these steps *)

\* The connection, as far as it matters here: a new one carries nothing.
Linked == UNCHANGED <<up, b_connected>> \/ ~up' \/ b_connected' \/ ~Busy'

OnceStep ==
    /\ \/ Aside \/ ReadsOn \/ \E p : ReadsNew(p)
       \/ Outside /\ (Calm \/ \E r : Replied(r))
    /\ Linked

\* The connection goes on, ends, or the broker accepts the client.
Joined == UNCHANGED <<up, b_connected>> \/ ~up' \/ b_connected'

LEMMA RepliedBegins ==
    ASSUME MqttTypes, SessionInv, NEW r, Replied(r)
    PROVE  Begun'
<1>0. s2c \in Seq(Packet) /\ c2s \in Seq(Sendable)
  BY DEF MqttTypes, NetTypes
<1>1. /\ UNCHANGED <<call, up, b_connected>> /\ b_connected /\ c2s # <<>> /\ Head(c2s) \in Asks
      /\ c2s' = Tail(c2s) /\ s2c' = Append(s2c, r) /\ r \in Packet /\ r \notin Accepts
  BY DEF Replied, client, Replies, Accepts
<1>2. ~None(c2s, Asks)
  BY <1>0, <1>1, BrokerTakes
<1>3. None(s2c, Accepts) /\ ~GotAccept
  BY <1>2 DEF SessionInv, AskInv, Quiet
<1>4. None(s2c', Accepts)
  BY <1>0, <1>1, <1>3, BrokerSends
<1> QED BY <1>1, <1>3, <1>4 DEF Begun, GotAccept

LEMMA BegunStays ==
    ASSUME MqttTypes, SessionInv, Begun, Joined,
           \/ Over \/ Enters \/ Reads \/ Waits \/ Breaks \/ Renews \/ Admitted \/ BrokerTalks
           \/ \E op, type : Starts(op, type)
           \/ \E op, type, p : AsksFor(op, type, p)
           \/ \E r : Replied(r)
    PROVE  Begun'
<1>0. s2c \in Seq(Packet) /\ c2s \in Seq(Sendable)
  BY DEF MqttTypes, NetTypes
<1>1. CASE \E r : Replied(r)
  BY <1>1, RepliedBegins
<1>2. CASE Over \/ Enters \/ Reads \/ Waits
  <2>1. CASE Over \/ Enters
    BY <1>2, <2>1 DEF Over, Enters, NoCall, Begun, GotAccept
  <2>2. CASE Waits
    <3>1. CallInv' /\ ~GotAccept'
      BY <2>2, EndsCall DEF Waits
    <3> QED BY <1>2, <2>2, <3>1 DEF Waits, Begun
  <2>3. CASE Reads
    <3>1. None(s2c', Accepts) /\ Head(s2c) \notin Accepts
      BY <1>2, <2>3, ReadsTail DEF Begun
    <3>2. ~GotAccept'
      <4>1. CASE UNCHANGED <<call, ret>> \/ Ends
        BY <2>3, <4>1, EndsCall DEF Reads
      <4>2. CASE call' = [call EXCEPT !.at = "got", !.got = Head(s2c)]
        <5>1. call'.got = Head(s2c)
          BY <4>2 DEF MqttTypes, CallTypes, CallValues
        <5> QED BY <3>1, <5>1 DEF GotAccept
      <4> QED BY <2>3, <4>1, <4>2 DEF Reads
    <3> QED BY <1>2, <2>3, <3>1, <3>2 DEF Reads, Begun
  <2> QED BY <1>2, <2>1, <2>2, <2>3
<1>3. CASE Breaks \/ BrokerTalks
  <2>1. UNCHANGED call
    BY <1>3 DEF Breaks, BrokerTalks, client
  <2>2. CASE Breaks
    <3>1. PICK n \in 0..Len(s2c) : s2c' = SubSeq(s2c, 1, n)
      BY <2>2 DEF Breaks
    <3>2. None(s2c', Accepts)
      BY <1>0, <3>1, Cut DEF Begun
    <3> QED BY <2>1, <2>2, <3>2 DEF Breaks, Begun, GotAccept
  <2>3. CASE BrokerTalks
    <3>1. None(s2c', Accepts)
      <4>1. CASE s2c' = s2c
        BY <4>1 DEF Begun
      <4>2. CASE \E r \in Packet \ (Replies \cup Accepts) : s2c' = Append(s2c, r)
        BY <1>0, <4>2, BrokerSends DEF Begun
      <4> QED BY <2>3, <4>1, <4>2 DEF BrokerTalks
    <3> QED BY <2>1, <2>3, <3>1 DEF BrokerTalks, Begun, GotAccept
  <2> QED BY <1>3, <2>2, <2>3
<1>4. ~Admitted /\ ~Renews
  BY DEF Admitted, Renews, Joined, Begun
<1>5. CASE (\E op, type : Starts(op, type)) \/ \E op, type, p : AsksFor(op, type, p)
  <2>1. call'.at = "wait" /\ UNCHANGED <<up, b_connected, s2c>>
    BY <1>5 DEF Starts, AsksFor, Waiting
  <2> QED BY <1>5, <2>1 DEF Begun, GotAccept
<1> QED BY <1>1, <1>2, <1>3, <1>4, <1>5

\* Messages and subscriptions come when the broker has answered a request.
LEMMA BeginsWell ==
    ASSUME MqttTypes, SessionInv, BusyInv, Linked,
           Busy' => Busy \/ \E r : Replied(r),
           \/ Over \/ Enters \/ Reads \/ Waits \/ Breaks \/ Renews \/ Admitted \/ BrokerTalks
           \/ \E op, type : Starts(op, type)
           \/ \E op, type, p : AsksFor(op, type, p)
           \/ \E r : Replied(r)
    PROVE  BusyInv'
<1> SUFFICES ASSUME Busy' PROVE Begun'
  BY DEF BusyInv
<1>1. Joined
  BY DEF Linked, Joined
<1> QED BY <1>1, BegunStays, RepliedBegins DEF BusyInv

LEMMA CleanUpHears == UNCHANGED setup /\ CleanUp => Hears
  BY DEF CleanUp, Hears, NoHandlers, Slots, MaxHandlers

LEMMA AsideSteps ==
    ASSUME UNCHANGED <<s2c, broker, sent, history, up>>, Hears
    PROVE  OnceStep
  BY DEF broker, history, mail, Aside, Linked, OnceStep

LEMMA CallsOnce ==
    ASSUME MqttTypes, CleanSession, UNCHANGED setup,
           \/ Connect \/ Disconnect \/ Yield
           \/ \E t \in Topics, q \in 0..2 : Subscribe(t, q) \/ Unsubscribe(t) \/ Publish(t, q)
    PROVE  OnceStep
<1>0. UNCHANGED session => Hears
  BY DEF session, Hears, ears
<1>1. CASE Connect \/ Yield
  BY <1>0, <1>1, AsideSteps DEF Connect, Yield, network
<1>2. CASE Disconnect
  BY <1>2, CleanUpHears, AsideSteps DEF Disconnect
<1>3. ASSUME NEW op, NEW type, NEW answer, NEW t, NEW q, AskFor(op, type, answer, t, q)
      PROVE  OnceStep
  BY <1>0, <1>3, CleanUpHears, AsideSteps DEF AskFor
<1>4. ASSUME NEW t, NEW q, Publish(t, q) PROVE OnceStep
  <2> DEFINE p == Pub(IF isconnected /\ q > 0 THEN packetid' ELSE 0, q, t, calls')
  <2>1. /\ UNCHANGED <<up, s2c, broker, sent, history>>
        /\ \/ isconnected /\ PublishPacket("publish", p, inflight)
           \/ UNCHANGED session
    BY <1>4 DEF Publish
  <2> HIDE DEF p
  <2>2. PublishPacket("publish", p, inflight) =>
           \/ CleanUp
           \/ /\ isconnected' = (isconnected \/ p.code # 1)
              /\ UNCHANGED <<messageHandlers, ping_outstanding, incomingQoS2messages>>
    BY Zenon DEF PublishPacket
  <2>3. Hears
    BY <1>0, <2>1, <2>2, CleanUpHears DEF Hears
  <2> QED BY <2>1, <2>3, AsideSteps
<1> QED BY <1>1, <1>2, <1>3, <1>4 DEF Subscribe, Unsubscribe

LEMMA CyclesOnce ==
    ASSUME MqttTypes, Exactly, UNCHANGED setup, MessageInv, Cycle \/ Expire
    PROVE  OnceStep
<1> DEFINE p == Head(s2c)
<1>0. Linked \/ ~UNCHANGED <<up, b_connected>>
  BY DEF Linked
<1>1. CASE CycleAck
  <2>1. ReadsOn /\ UNCHANGED <<up, b_connected>>
    BY <1>1 DEF CycleAck, ReadPacket, ReadsOn, broker, history
  <2> QED BY <1>0, <2>1 DEF OnceStep
<1>2. CASE CycleRelease
  <2>1. /\ ReadPacket /\ UNCHANGED <<isconnected, messageHandlers, up, broker, sent, history>>
        /\ \/ incomingQoS2messages' = [i \in Incoming |->
                     IF p.type = "PUBREL" /\ incomingQoS2messages[i] = p.id
                     THEN 0 ELSE incomingQoS2messages[i]]
           \/ UNCHANGED incomingQoS2messages
    BY <1>2, Zenon DEF CycleRelease
  <2>2. ReadsOn /\ UNCHANGED <<up, b_connected>>
    BY <2>1 DEF ReadPacket, ReadsOn, broker, history
  <2> QED BY <1>0, <2>2 DEF OnceStep
<1>3. CASE CyclePublish
  <2>1. s2c \in Seq(Packet) /\ s2c # <<>> /\ p.type = "PUBLISH"
    BY <1>3 DEF CyclePublish, ReadPacket, MqttTypes, NetTypes
  <2>2. p = s2c[1] /\ 1 \in 1..Len(s2c)
    BY <2>1
  <2>3. p.code = 2 /\ QOS2
    BY <2>1, <2>2 DEF MessageInv, Pubs, Exactly
  <2>4. /\ ReadPacket /\ UNCHANGED <<isconnected, messageHandlers, up, broker, sent>>
        /\ \/ ~KnownId(p.id) /\ FreeSlots # {} /\ Remember(p.id) /\ Deliver(p)
           \/ UNCHANGED <<incomingQoS2messages, delivered>>
    BY <1>3, <2>3, Zenon DEF CyclePublish
  <2>5. CASE ~KnownId(p.id) /\ FreeSlots # {} /\ Remember(p.id) /\ Deliver(p)
    <3>1. ReadsNew(p) /\ UNCHANGED <<up, b_connected>>
      BY <2>1, <2>4, <2>5 DEF ReadPacket, ReadsNew, broker
    <3> QED BY <1>0, <3>1 DEF OnceStep
  <2>6. CASE UNCHANGED <<incomingQoS2messages, delivered>>
    <3>1. ReadsOn /\ UNCHANGED <<up, b_connected>>
      BY <2>1, <2>4, <2>6 DEF ReadPacket, ReadsOn, broker
    <3> QED BY <1>0, <3>1 DEF OnceStep
  <2> QED BY <2>4, <2>5, <2>6
<1>4. CASE CycleFails \/ Expire
  <2>1. UNCHANGED <<isconnected, messageHandlers, incomingQoS2messages, up, s2c, broker, sent, history>>
    BY <1>4 DEF CycleFails, Expire, session, network
  <2> QED BY <2>1, AsideSteps DEF Hears, ears
<1> QED BY <1>1, <1>2, <1>3, <1>4 DEF Cycle

LEMMA FinishesOnce ==
    ASSUME MqttTypes, SessionInv, UNCHANGED setup, Finish
    PROVE  OnceStep
<1>0. isconnected \in BOOLEAN /\ inflight.id = 0 /\ ~(inflight.id > 0)
  BY DEF MqttTypes, SessionTypes, SessionInv, CallInv
<1>1. CASE FinishConnect
  <2>1. /\ Done("connect", "CONNACK") /\ UNCHANGED <<up, s2c, broker, sent, history>>
        /\ isconnected' = Accepted /\ UNCHANGED <<messageHandlers, incomingQoS2messages>>
    BY <1>0, <1>1, Zenon DEF FinishConnect
  <2>2. ~isconnected
    BY <2>1 DEF Done, SessionInv, CallInv
  <2>3. CASE Accepted
    <3>1. call.got \in Packet /\ call.got.type = "CONNACK"
      BY <2>1, <2>3 DEF Accepted, Answered, Done, SessionInv, CallInv, MqttTypes, CallTypes, CallValues
    <3>2. GotAccept
      BY <2>3, <3>1 DEF Accepted, Answered, GotAccept, Accepts
    <3> QED BY <2>1, <2>3, <3>2, AsideSteps DEF Hears
  <2>4. CASE ~Accepted
    <3>1. isconnected = FALSE /\ isconnected' = FALSE
      BY <1>0, <2>1, <2>2, <2>4 DEF Accepted, Answered
    <3> QED BY <2>1, <3>1, AsideSteps DEF Hears, ears
  <2> QED BY <2>3, <2>4
<1>2. CASE FinishSubscribe
  <2>1. /\ Done("subscribe", "SUBACK") /\ UNCHANGED <<network, broker, sent, history>>
        /\ CleanUp \/ UNCHANGED session \/ UNCHANGED <<isconnected, incomingQoS2messages>>
    BY <1>2, Zenon DEF FinishSubscribe
  <2>2. isconnected
    BY <2>1 DEF Done, Asking, SessionInv, CallInv
  <2>3. Hears
    BY <1>0, <2>1, <2>2, CleanUpHears DEF Hears, session
  <2> QED BY <2>1, <2>3, AsideSteps DEF network
<1>3. CASE FinishUnsubscribe
  <2>1. /\ Done("unsubscribe", "UNSUBACK") /\ UNCHANGED <<network, broker, sent, history>>
        /\ CleanUp \/ UNCHANGED <<isconnected, incomingQoS2messages>>
    BY <1>3, Zenon DEF FinishUnsubscribe
  <2>2. isconnected
    BY <2>1 DEF Done, Asking, SessionInv, CallInv
  <2>3. Hears
    BY <1>0, <2>1, <2>2, CleanUpHears DEF Hears
  <2> QED BY <2>1, <2>3, AsideSteps DEF network
<1>4. CASE FinishPublish
  <2>1. /\ Done(call.op, "PUBACK") /\ UNCHANGED <<network, broker, sent, history>>
        /\ CleanUp \/ (isconnected' = TRUE /\ UNCHANGED <<messageHandlers, incomingQoS2messages>>)
    BY <1>4, Zenon DEF FinishPublish
  <2>2. isconnected
    BY <2>1 DEF Done, Asking, SessionInv, CallInv
  <2>3. Hears
    BY <1>0, <2>1, <2>2, CleanUpHears DEF Hears
  <2> QED BY <2>1, <2>3, AsideSteps DEF network
<1> QED BY <1>1, <1>2, <1>3, <1>4 DEF Finish

\* With the connection goes what the broker kept for a clean session.
LEMMA ClosesOnce ==
    ASSUME MqttTypes, CleanSession, BrokerCloses, UNCHANGED <<session, sent, history>>,
           s2c' \in Seq(Packet), Shifted(0)
    PROVE  /\ Outside /\ Calm
           /\ s2c' = <<>> => ~Busy'
<1>1. b_subs' = [t \in Topics |-> -1] /\ b_out' = {}
  BY DEF BrokerCloses
<1>2. Shrinks(0)
  BY <1>1 DEF MqttTypes, NetTypes, Shrinks, history
<1>3. Calm /\ ~(\E t \in Topics : b_subs'[t] >= 0)
  BY <1>1 DEF Calm
<1>4. s2c' = <<>> => Pubs' = {}
  BY <1>1 DEF Pubs
<1> QED BY <1>2, <1>3, <1>4 DEF Outside, ears, session, Busy

LEMMA NetworkOnce ==
    ASSUME MqttTypes, CleanSession,
           \/ ConnectionFails \/ NewConnection \/ BrokerHangsUp
           \/ SendingDue \/ ReceivingDue \/ UNCHANGED vars
    PROVE  OnceStep
<1>0. s2c \in Seq(Packet)
  BY DEF MqttTypes, NetTypes
<1>1. CASE ConnectionFails
  <2>1. s2c' \in Seq(Packet) /\ Shifted(0) /\ up' = FALSE
    BY <1>0, <1>1, PrefixShifts DEF ConnectionFails
  <2> QED BY <1>1, <2>1, ClosesOnce DEF ConnectionFails, OnceStep, Linked
<1>2. CASE NewConnection
  <2>1. s2c' \in Seq(Packet) /\ Shifted(0) /\ s2c' = <<>>
    BY <1>2 DEF NewConnection, Shifted
  <2> QED BY <1>2, <2>1, ClosesOnce DEF NewConnection, OnceStep, Linked
<1>3. CASE BrokerHangsUp
  <2>1. s2c' = s2c /\ up' = FALSE
    BY <1>3 DEF BrokerHangsUp
  <2>2. s2c' \in Seq(Packet) /\ Shifted(0)
    BY <1>0, <2>1 DEF Shifted
  <2> QED BY <1>3, <2>1, <2>2, ClosesOnce DEF BrokerHangsUp, OnceStep, Linked
<1>4. CASE SendingDue \/ ReceivingDue \/ UNCHANGED vars
  <2>1. UNCHANGED <<session, network, broker, sent, history>>
    BY <1>4 DEF SendingDue, ReceivingDue, vars
  <2> QED BY <2>1, AsideSteps DEF Hears, ears, session, network
<1> QED BY <1>1, <1>2, <1>3, <1>4

\* The broker says something that is not about its messages.
LEMMA SaysOnce ==
    ASSUME MqttTypes, NEW type \in AckTypes \ {"PUBREL"}, NEW id \in Ids, NEW code \in Codes,
           Answers(Ack(type, id, code)), b_out' \subseteq b_out,
           UNCHANGED <<session, up, sent, delivered>>
    PROVE  Outside
<1> DEFINE r == Ack(type, id, code)
<1>1. r \in Packet
  BY AckTyped
<1>2. r.type = type /\ type \notin {"PUBLISH", "PUBREL"} /\ s2c' = Append(s2c, r)
  BY DEF Ack, AckTypes, Answers
<1> HIDE DEF r
<1>3. Says(r)
  BY <1>1, <1>2 DEF Says
<1> QED BY <1>3 DEF Outside, ears, session

LEMMA AnswersOnce ==
    ASSUME MqttTypes,
           \/ BrokerAccepts \/ BrokerSubscribes \/ BrokerUnsubscribes \/ BrokerReceives
           \/ BrokerReleases \/ BrokerAnswersPing
    PROVE  OnceStep
<1> DEFINE p == Head(c2s)
<1>0. ASSUME NEW type, Takes(type) PROVE p.id \in Ids /\ p \in Sendable /\ p.type = type
  BY <1>0, TakesTyped
<1>1. CASE BrokerAccepts
  <2>1. /\ UNCHANGED <<session, up, b_subs, b_out, sent, delivered>>
        /\ Answers(Ack("CONNACK", 0, 0)) \/ Answers(Ack("CONNACK", 0, 5))
        /\ b_connected' \/ UNCHANGED b_connected
    BY <1>1 DEF BrokerAccepts, ClientSide
  <2>2. Outside
    BY <2>1, SaysOnce, NoneTyped DEF AckTypes
  <2> QED BY <2>1, <2>2 DEF OnceStep, Calm, Linked
<1>2. CASE BrokerSubscribes
  <2>1. /\ Takes("SUBSCRIBE") /\ b_connected /\ UNCHANGED <<ClientSide, b_connected, b_out, received>>
        /\ Answers(Ack("SUBACK", p.id, p.code)) \/ Answers(Ack("SUBACK", p.id, Refused))
    BY <1>2 DEF BrokerSubscribes
  <2>2. p.code \in Codes /\ Refused \in Codes /\ p.id \in Ids
    BY <1>0, <2>1, NoneTyped DEF Sendable, Packet
  <2> HIDE DEF p
  <2>3. UNCHANGED <<session, up, sent, delivered, client>>
    BY <2>1 DEF ClientSide, session, client
  <2>4. Outside
    BY <2>1, <2>2, <2>3, SaysOnce DEF AckTypes
  <2>5. \E r : Replied(r)
    BY <2>1, <2>2, <2>3, BrokerAnswersSteps DEF p
  <2> QED BY <2>1, <2>3, <2>4, <2>5 DEF OnceStep, Linked
<1>3. CASE BrokerUnsubscribes
  <2>1. /\ Takes("UNSUBSCRIBE") /\ UNCHANGED <<session, up, b_connected, b_out, sent, delivered>>
        /\ Answers(Ack("UNSUBACK", p.id, 0)) /\ b_subs' = [b_subs EXCEPT ![p.topic] = -1]
    BY <1>3 DEF BrokerUnsubscribes, ClientSide
  <2>2. Outside
    BY <1>0, <2>1, SaysOnce, NoneTyped DEF AckTypes
  <2>3. Calm
    BY <2>1 DEF Calm, MqttTypes, BrokerTypes
  <2> QED BY <2>1, <2>2, <2>3 DEF OnceStep, Linked
<1>4. CASE BrokerReceives
  <2>1. /\ Takes("PUBLISH") /\ UNCHANGED <<session, up, b_connected, b_subs, b_out, sent, delivered>>
        /\ CASE p.code = 0 -> UNCHANGED s2c
             [] p.code = 1 -> Answers(Ack("PUBACK", p.id, 0))
             [] p.code = 2 -> Answers(Ack("PUBREC", p.id, 0))
    BY <1>4 DEF BrokerReceives, ClientSide
  <2>2. p.id \in Ids /\ p.code \in 0..2
    BY <1>0, <2>1 DEF Sendable
  <2>3. CASE p.code = 0
    <3> HIDE DEF p
    <3>1. s2c' = s2c
      BY <2>1, <2>3
    <3>2. Shrinks(0)
      BY <2>1, <3>1 DEF Shrinks, Shifted, MqttTypes, NetTypes
    <3> QED BY <2>1, <3>2 DEF Outside, ears, session, OnceStep, Calm, Linked
  <2>4. CASE p.code # 0
    <3>1. Answers(Ack("PUBACK", p.id, 0)) \/ Answers(Ack("PUBREC", p.id, 0))
      <4>1. p.code = 1 \/ p.code = 2
        BY <2>2, <2>4
      <4> HIDE DEF p
      <4>2. CASE p.code = 1
        BY <2>1, <4>2
      <4>3. CASE p.code = 2
        BY <2>1, <4>3
      <4> QED BY <4>1, <4>2, <4>3
    <3>2. Outside
      BY <2>1, <2>2, <3>1, SaysOnce, NoneTyped DEF AckTypes
    <3> QED BY <2>1, <3>2 DEF OnceStep, Calm, Linked
  <2> QED BY <2>3, <2>4
<1>5. CASE BrokerReleases
  <2>1. /\ Takes("PUBREL") /\ UNCHANGED <<session, up, b_connected, b_subs, b_out, sent, delivered>>
        /\ Answers(Ack("PUBCOMP", p.id, 0))
    BY <1>5 DEF BrokerReleases, ClientSide
  <2>2. Outside
    BY <1>0, <2>1, SaysOnce, NoneTyped DEF AckTypes
  <2> QED BY <2>1, <2>2 DEF OnceStep, Calm, Linked
<1>6. CASE BrokerAnswersPing
  <2>1. /\ UNCHANGED <<session, up, b_connected, b_subs, b_out, sent, delivered>>
        /\ Answers(Ack("PINGRESP", 0, 0))
    BY <1>6 DEF BrokerAnswersPing, ClientSide, broker
  <2>2. Outside
    BY <2>1, SaysOnce, NoneTyped DEF AckTypes
  <2> QED BY <2>1, <2>2 DEF OnceStep, Calm, Linked
<1> QED BY <1>1, <1>2, <1>3, <1>4, <1>5, <1>6

\* What the broker does with its messages.
LEMMA MessagesOnce ==
    ASSUME MqttTypes, Exactly, MessageInv, BrokerAcked \/ BrokerRetries \/ BrokerPublishes
    PROVE  OnceStep
<1> DEFINE p == Head(c2s)
<1>0. s2c \in Seq(Packet) /\ \A m \in b_out : m.pub.code = 2 /\ m.pub.id \in Ids
  BY DEF MqttTypes, NetTypes, BrokerTypes, Message, Packet, MessageInv, Pubs
<1>1. CASE BrokerAcked
  <2>1. /\ UNCHANGED <<session, up, b_connected, b_subs, sent, delivered>>
        /\ \E type : Takes(type)
    BY <1>1, Zenon DEF BrokerAcked, ClientSide
  <2>2. p.id \in Ids
    BY <2>1, TakesTyped
  <2>3. CASE p.type = "PUBREC"
    <3> DEFINE r    == Ack("PUBREL", p.id, 0)
               mine == {m \in b_out : m.pub.id = p.id /\ m.pub.code = 2}
    <3>1. {m \in b_out : m.pub.id = p.id /\
                IF p.type = "PUBACK" THEN m.pub.code = 1
                ELSE m.pub.code = 2 /\ (p.type = "PUBCOMP" => m.rel)} = mine
      BY <2>3
    <3>2. /\ b_out' = (b_out \ mine) \cup {[m EXCEPT !.rel = TRUE] : m \in mine}
          /\ s2c' = Append(s2c, r)
      BY <1>1, <2>3, <3>1 DEF BrokerAcked, Answers
    <3>3. r \in Packet /\ r.type = "PUBREL" /\ r.id = p.id
      <4>1. r \in Packet
        BY <2>2, AckTyped, NoneTyped DEF AckTypes
      <4> QED BY <4>1 DEF Ack
    <3>4. \A m \in b_out \ mine : m.pub.id # r.id
      BY <1>0, <3>3
    <3>5. mine \subseteq b_out
      OBVIOUS
    <3> HIDE DEF r, mine
    <3>6. Releases(r, mine)
      BY <2>1, <3>2, <3>3, <3>4, <3>5 DEF Releases
    <3> QED BY <2>1, <3>6 DEF Outside, ears, session, OnceStep, Calm, Linked
  <2>4. CASE p.type # "PUBREC"
    <3>1. b_out' \subseteq b_out /\ s2c' = s2c
      BY <1>1, <2>4 DEF BrokerAcked
    <3>2. Shrinks(0)
      BY <1>0, <2>1, <3>1 DEF Shrinks, Shifted
    <3> QED BY <2>1, <3>2 DEF Outside, ears, session, OnceStep, Calm, Linked
  <2> QED BY <2>3, <2>4
<1>2. CASE BrokerRetries
  <2>1. PICK m \in b_out : Answers(IF m.rel THEN Ack("PUBREL", m.pub.id, 0) ELSE m.pub)
    BY <1>2 DEF BrokerRetries
  <2>2. UNCHANGED <<session, up, b_connected, b_subs, b_out, sent, delivered>>
    BY <1>2 DEF BrokerRetries, broker, history
  <2>3. CASE m.rel
    <3> DEFINE r == Ack("PUBREL", m.pub.id, 0)
    <3>1. s2c' = Append(s2c, r)
      BY <2>1, <2>3 DEF Answers
    <3>2. r \in Packet /\ r.type = "PUBREL" /\ r.id = m.pub.id
      <4>1. r \in Packet
        BY <1>0, AckTyped, NoneTyped DEF AckTypes
      <4> QED BY <4>1 DEF Ack
    <3>3. \A n \in b_out : n.rel \/ n.pub.id # r.id
      BY <2>3, <3>2 DEF MessageInv
    <3> HIDE DEF r
    <3>4. b_out' = (b_out \ {}) \cup {[n EXCEPT !.rel = TRUE] : n \in {}}
      BY <2>2
    <3>5. Releases(r, {})
      BY <2>2, <3>1, <3>2, <3>3, <3>4 DEF Releases
    <3> QED BY <2>2, <3>5 DEF Outside, ears, session, OnceStep, Calm, Linked
  <2>4. CASE ~m.rel
    <3>1. Repeats(m)
      BY <2>1, <2>2, <2>4 DEF Repeats, Answers
    <3> QED BY <2>2, <3>1 DEF Outside, ears, session, OnceStep, Calm, Linked
  <2> QED BY <2>3, <2>4
<1>3. CASE BrokerPublishes
  <2>1. PICK t \in TopicsUsed, q \in QosUsed :
           /\ up /\ b_connected /\ sent < MaxSent /\ q <= b_subs[t]
           /\ \E id \in IF q = 0 THEN {0} ELSE Ids \ ({0} \cup {m.pub.id : m \in b_out}) :
                /\ Answers(Pub(id, q, t, sent + 1))
                /\ b_out' = IF q = 0 THEN b_out
                            ELSE b_out \cup {[pub |-> Pub(id, q, t, sent + 1), rel |-> FALSE]}
           /\ sent' = sent + 1
    BY <1>3, Zenon DEF BrokerPublishes
  <2>2. UNCHANGED <<session, up, b_connected, b_subs, delivered>>
    BY <1>3 DEF BrokerPublishes, history
  <2>3. q = 2 /\ t \in Topics /\ sent \in Nat /\ sent + 1 \in Nat
    BY SetupTypes DEF Exactly, MqttTypes, CountTypes
  <2>4. PICK id \in Ids \ ({0} \cup {m.pub.id : m \in b_out}) :
                /\ Answers(Pub(id, q, t, sent + 1))
                /\ b_out' = b_out \cup {[pub |-> Pub(id, q, t, sent + 1), rel |-> FALSE]}
    BY <2>1, <2>3
  <2> DEFINE r == Pub(id, q, t, sent + 1)
  <2>5. r \in Message
    BY <2>3, PubTyped
  <2>6. r.code = 2 /\ r.id = id /\ r.topic = t /\ r.msg = sent + 1
    BY <2>3 DEF Pub
  <2>7. Busy
    BY <2>1, <2>3 DEF Busy, MqttTypes, BrokerTypes
  <2>8. s2c' = Append(s2c, r) /\ b_out' = b_out \cup {[pub |-> r, rel |-> FALSE]}
    BY <2>4 DEF Answers
  <2> HIDE DEF r
  <2>9. Publishes(r)
    BY <2>1, <2>2, <2>3, <2>4, <2>5, <2>6, <2>7, <2>8 DEF Publishes
  <2> QED BY <2>2, <2>9 DEF Outside, ears, session, OnceStep, Calm, Linked
<1> QED BY <1>1, <1>2, <1>3

LEMMA NextOnceSteps ==
    ASSUME MqttTypes, SessionInv, Exactly, MessageInv, [Next]_<<setup, vars>>
    PROVE  OnceStep /\ UNCHANGED setup
<1>0. setup \in Setup /\ TopicsUsed \subseteq Topics /\ QosUsed \subseteq 0..2 /\ CleanSession
  BY SetupTypes DEF MqttTypes, Exactly
<1>1. CASE UNCHANGED <<setup, vars>>
  BY <1>0, <1>1, NetworkOnce
<1>2. CASE UNCHANGED setup /\ Application
  <2>1. CASE NewConnection
    BY <1>0, <1>2, <2>1, NetworkOnce
  <2>2. CASE \/ Connect \/ Disconnect \/ Yield
             \/ \E t \in Topics, q \in 0..2 : Subscribe(t, q) \/ Unsubscribe(t) \/ Publish(t, q)
    BY <1>0, <1>2, <2>2, CallsOnce
  <2>3. CASE \E t \in TopicsUsed : Unsubscribe(t)
    <3>1. \E t \in Topics, q \in 0..2 : Subscribe(t, q) \/ Unsubscribe(t) \/ Publish(t, q)
      BY <1>0, <2>3, 0 \in 0..2
    <3> QED BY <2>2, <3>1
  <2>4. CASE \E t \in TopicsUsed, q \in QosUsed : Subscribe(t, q) \/ Publish(t, q)
    <3>1. \E t \in Topics, q \in 0..2 : Subscribe(t, q) \/ Unsubscribe(t) \/ Publish(t, q)
      BY <1>0, <2>4
    <3> QED BY <2>2, <3>1
  <2> QED BY <1>2, <2>1, <2>2, <2>3, <2>4 DEF Application
<1>3. CASE UNCHANGED setup /\ (Cycle \/ Expire)
  BY <1>3, CyclesOnce
<1>4. CASE UNCHANGED setup /\ Finish
  BY <1>4, FinishesOnce
<1>5. CASE UNCHANGED setup /\ (ConnectionFails \/ SendingDue \/ ReceivingDue)
  BY <1>0, <1>5, NetworkOnce
<1>6. CASE UNCHANGED setup /\ Broker
  BY <1>0, <1>6, NetworkOnce, AnswersOnce, MessagesOnce DEF Broker
<1> QED BY <1>1, <1>2, <1>3, <1>4, <1>5, <1>6 DEF Next

-----------------------------------------------------------------------------
(* The theorems *)

\* Nothing heard is heard again, and with one handler nothing more than once.
Never == \A n \in 1..MaxSent : Heard(n) => delivered'[n] = delivered[n]
AtMost == MaxHandlers <= 1 => \A n \in 1..MaxSent : delivered[n] <= 1

LEMMA StepOnce ==
    ASSUME MqttTypes, SessionInv, Exactly, OnceInv, [Next]_<<setup, vars>>
    PROVE  OnceInv' /\ Never /\ (AtMost => AtMost')
<1>1. OnceStep /\ UNCHANGED setup /\ BusyInv
  BY NextOnceSteps DEF OnceInv
<1>2. MaxHandlers' = MaxHandlers /\ MaxSent' = MaxSent
  BY <1>1 DEF MaxHandlers, MaxSent
<1>3. UNCHANGED delivered => Never /\ (AtMost => AtMost')
  BY <1>2 DEF Never, AtMost
<1>4. /\ MessageInv' /\ OrderInv' /\ KnownInv' /\ DeafInv'
      /\ Busy' => Busy \/ \E r : Replied(r)
      /\ Never /\ (AtMost => AtMost')
  <2>1. CASE Aside
    <3>1. UNCHANGED delivered
      BY <2>1 DEF Aside, mail
    <3> QED BY <1>1, <1>3, <2>1, <3>1, AsideKeeps
  <2>2. CASE ReadsOn
    <3>1. UNCHANGED delivered
      BY <2>2 DEF ReadsOn
    <3> QED BY <1>1, <1>3, <2>2, <3>1, ReadsOnLeaves
  <2>3. CASE \E p : ReadsNew(p)
    <3>1. PICK p : ReadsNew(p)
      BY <2>3
    <3> QED BY <1>1, <1>2, <3>1, ReadsNewKeeps DEF Never, AtMost
  <2>4. CASE Outside /\ (Calm \/ \E r : Replied(r))
    <3>1. UNCHANGED delivered
      BY <2>4 DEF Outside, Shrinks, Says, Repeats, Publishes, Releases
    <3> QED BY <1>1, <1>3, <2>4, <3>1, OutsideKeeps
  <2> QED BY <1>1, <2>1, <2>2, <2>3, <2>4 DEF OnceStep
<1>5. BusyInv'
  <2>1. CleanSession /\ Linked
    BY <1>1 DEF Exactly, OnceStep
  <2> QED BY <1>1, <1>4, <2>1, NextSteps, BeginsWell
<1> QED BY <1>4, <1>5 DEF OnceInv

LEMMA InitOnce == Init => OnceInv /\ AtMost
<1> SUFFICES ASSUME Init PROVE OnceInv /\ AtMost
  OBVIOUS
<1>1. s2c = <<>> /\ b_out = {} /\ b_subs = [t \in Topics |-> -1] /\ messageHandlers = NoHandlers
      /\ ~isconnected /\ delivered = [n \in 1..MaxSent |-> 0] /\ sent = 0
  BY DEF Init
<1>2. Pubs = {} /\ ~Busy
  BY <1>1 DEF Pubs, Busy
<1>3. MessageInv
  BY <1>1, <1>2 DEF MessageInv
<1>4. OrderInv /\ KnownInv /\ DeafInv /\ BusyInv
  BY <1>1, <1>2 DEF OrderInv, KnownInv, DeafInv, BusyInv
<1> QED BY <1>1, <1>3, <1>4 DEF OnceInv, AtMost

Once == Exactly => OnceInv /\ AtMost

LEMMA NextOnce ==
    ASSUME MqttTypes, CleanInv, Once, [Next]_<<setup, vars>>
    PROVE  Once' /\ (Exactly => Never)
<1>1. setup' = setup
  BY DEF Next
<1>2. Exactly' <=> Exactly
  BY <1>1 DEF Exactly, CleanSession, QOS2, QosUsed
<1>3. Exactly => SessionInv
  BY DEF Exactly, CleanInv
<1> QED BY <1>2, <1>3, StepOnce DEF Once

\* THEOREM: with QoS 2, clean sessions and one handler at most, a message is
\* handed to the application at most once, whatever is lost, or sent again.
THEOREM HandedOnce == Spec => [](Exactly /\ MaxHandlers <= 1 => DeliveredOnce)
<1>1. Init => Once
  BY InitOnce DEF Once
<1>2. MqttTypes /\ CleanInv /\ Once /\ [Next]_<<setup, vars>> => Once'
  BY NextOnce
<1>3. Once => (Exactly /\ MaxHandlers <= 1 => DeliveredOnce)
  BY DEF Once, AtMost, DeliveredOnce
<1> QED BY <1>1, <1>2, <1>3, AlwaysClean, PTL DEF Spec

\* THEOREM: with any number of handlers, a message that was handed to them is
\* never handed to them again.
THEOREM NeverAgain ==
    Spec => [][Exactly => \A n \in 1..MaxSent : delivered[n] > 0
                              => delivered'[n] = delivered[n]]_<<setup, vars>>
<1>1. Init => Once
  BY InitOnce DEF Once
<1>2. MqttTypes /\ CleanInv /\ Once /\ [Next]_<<setup, vars>> => Once'
  BY NextOnce
<1>3. MqttTypes /\ CleanInv /\ Once /\ [Next]_<<setup, vars>>
        => [Exactly => \A n \in 1..MaxSent : delivered[n] > 0
                           => delivered'[n] = delivered[n]]_<<setup, vars>>
  BY NextOnce DEF Never, Heard
<1> QED BY <1>1, <1>2, <1>3, AlwaysClean, PTL DEF Spec

-----------------------------------------------------------------------------
(***************************************************************************)
(* What is proved of handlers: a client with clean sessions reads no       *)
(* message for the first time when there is no handler to take it, if it   *)
(* makes no use of the table of QoS 2 ids, or (below) uses it for all.     *)
(*                                                                         *)
(* The broker's subscriptions and the client's handlers differ by what is  *)
(* on the way: at each place of the connection a topic is served if there  *)
(* is a handler, or a SUBACK of the call before that place, and no         *)
(* UNSUBACK of the call before it.                                         *)
(***************************************************************************)

Plain == CleanSession /\ (~QOS2 \/ 2 \notin QosUsed)
Room  == MaxCalls <= MaxHandlers \/ (MaxHandlers > 0 /\ \E t \in Topics : TopicsUsed = {t})

-----------------------------------------------------------------------------
(* The invariant *)

\* The client is connected and has not given its call up.
Live == isconnected /\ call.at # "expired"

\* A packet of some type is read before what is at place k of the connection.
Before(type, k) == \E j \in 1..Len(s2c) : j < k /\ s2c[j].type = type

\* The call is about topic t and its answer is read before place k.
Acked(type, t, k) ==
    /\ call.at # "idle" /\ call.wait = type /\ call.req.topic = t
    /\ call.at = "got" \/ Before(type, k)

\* What is read at place k about topic t finds a handler.
Served(t, k) == Acked("SUBACK", t, k) \/ (HandlerFor(t) /\ ~Acked("UNSUBACK", t, k))

First(p, i) == s2c[i] = p /\ \A j \in 1..Len(s2c) : j < i => s2c[j] # p
Awaits(p)   == \E i \in 1..Len(s2c) : First(p, i) /\ Served(p.topic, i)

SubsServed == \A t \in Topics : b_subs[t] >= 0 => Served(t, Len(s2c) + 1)
PubsServed == \A p \in Pubs : ~Heard(p.msg) => Awaits(p)
ServedInv  == Live => SubsServed /\ PubsServed

MailInv == \A p \in Pubs : /\ p.type = "PUBLISH" /\ p.topic \in Topics
                           /\ p.code \in QosUsed /\ p.msg \in 1..sent

\* A call waits for the answer to its request.
Fits ==
    /\ call.wait = "SUBACK" => call.req.type = "SUBSCRIBE" /\ call.req.topic \in TopicsUsed
    /\ call.wait = "UNSUBACK" => call.req.type = "UNSUBSCRIBE"
    /\ call.wait = "PUBACK" => call.req.type = "PUBLISH"
ReqInv == call.at # "idle" => Fits

\* No more handlers than calls that are over.
RoomInv ==
    /\ call.at # "idle" => calls > 0
    /\ \A i \in Slots : messageHandlers[i] # NoTopic =>
          /\ messageHandlers[i] \in TopicsUsed /\ i <= calls
          /\ call.at # "idle" => i < calls

HeardInv == MailInv /\ ReqInv /\ RoomInv /\ ServedInv

-----------------------------------------------------------------------------
(* Places of the connection *)

LEMMA StayPlaces ==
    ASSUME UNCHANGED <<s2c, b_out>>
    PROVE  /\ Pubs' = Pubs
           /\ \A type, k : Before(type, k)' <=> Before(type, k)
           /\ \A p, i : First(p, i)' <=> First(p, i)
  BY DEF Pubs, Before, First

LEMMA TailPlaces ==
    ASSUME s2c \in Seq(Packet), s2c # <<>>, s2c' = Tail(s2c), UNCHANGED b_out
    PROVE  /\ Pubs' \subseteq Pubs
           /\ Len(s2c) \in Nat /\ Len(s2c') = Len(s2c) - 1
           /\ \A type : \A k \in Nat \ {0} :
                 Before(type, k + 1) <=> Before(type, k)' \/ Head(s2c).type = type
           /\ \A p : \A i \in 1..Len(s2c) : First(p, i) /\ p # Head(s2c)
                 => i - 1 \in 1..Len(s2c') /\ First(p, i - 1)'
<1>1. /\ Len(s2c) \in Nat /\ Len(s2c') = Len(s2c) - 1
      /\ Head(s2c) = s2c[1] /\ 1 \in 1..Len(s2c)
  OBVIOUS
<1>2. \A k \in 1..Len(s2c') : k \in Nat /\ k + 1 \in 1..Len(s2c) /\ s2c'[k] = s2c[k + 1]
  OBVIOUS
<1>3. Pubs' \subseteq Pubs
  BY <1>2 DEF Pubs
<1>4. \A k \in 1..Len(s2c) : k # 1 => k - 1 \in 1..Len(s2c') /\ s2c'[k - 1] = s2c[k]
  <2> SUFFICES ASSUME NEW k \in 1..Len(s2c), k # 1
               PROVE  k - 1 \in 1..Len(s2c') /\ s2c'[k - 1] = s2c[k]
    OBVIOUS
  <2>1. k - 1 \in 1..Len(s2c') /\ (k - 1) + 1 = k
    BY <1>1
  <2> QED BY <1>2, <2>1
<1>5. ASSUME NEW type, NEW k \in Nat \ {0}
      PROVE  Before(type, k + 1) <=> Before(type, k)' \/ Head(s2c).type = type
  <2>1. ASSUME Before(type, k + 1) PROVE Before(type, k)' \/ Head(s2c).type = type
    <3>1. PICK j \in 1..Len(s2c) : j < k + 1 /\ s2c[j].type = type
      BY <2>1 DEF Before
    <3>2. CASE j = 1
      BY <1>1, <3>1, <3>2
    <3>3. CASE j # 1
      <4>1. j - 1 \in 1..Len(s2c') /\ s2c'[j - 1].type = type
        BY <1>4, <3>1, <3>3
      <4>2. j - 1 < k
        BY <3>1
      <4> QED BY <4>1, <4>2 DEF Before
    <3> QED BY <3>2, <3>3
  <2>2. ASSUME Before(type, k)' PROVE Before(type, k + 1)
    <3>1. PICK j \in 1..Len(s2c') : j < k /\ s2c'[j].type = type
      BY <2>2 DEF Before
    <3>2. j + 1 \in 1..Len(s2c) /\ s2c[j + 1].type = type /\ j + 1 < k + 1
      BY <1>2, <3>1
    <3> QED BY <3>2 DEF Before
  <2>3. ASSUME Head(s2c).type = type PROVE Before(type, k + 1)
    <3>1. 1 < k + 1
      OBVIOUS
    <3> QED BY <1>1, <2>3, <3>1 DEF Before
  <2> QED BY <2>1, <2>2, <2>3
<1>6. ASSUME NEW p, NEW i \in 1..Len(s2c), First(p, i), p # Head(s2c)
      PROVE  i - 1 \in 1..Len(s2c') /\ First(p, i - 1)'
  <2>1. i # 1
    BY <1>1, <1>6 DEF First
  <2>2. i - 1 \in 1..Len(s2c') /\ s2c'[i - 1] = p
    BY <1>4, <1>6, <2>1 DEF First
  <2>3. ASSUME NEW j \in 1..Len(s2c'), j < i - 1 PROVE s2c'[j] # p
    <3>1. j + 1 \in 1..Len(s2c) /\ j + 1 < i /\ s2c'[j] = s2c[j + 1]
      BY <1>2, <2>3
    <3> QED BY <1>6, <3>1 DEF First
  <2> QED BY <2>2, <2>3 DEF First
<1> QED BY <1>1, <1>3, <1>5, <1>6

LEMMA AppendPlaces ==
    ASSUME s2c \in Seq(Packet), NEW r \in Packet, s2c' = Append(s2c, r), NEW n \in {Len(s2c) + 1}
    PROVE  /\ n \in Nat /\ Len(s2c') = n /\ Len(s2c) = n - 1
           /\ \A type : \A k \in 1..n : Before(type, k)' <=> Before(type, k)
           /\ \A type : Before(type, n + 1)' <=> Before(type, n) \/ r.type = type
           /\ \A p : \A i \in 1..Len(s2c) : First(p, i) => i \in 1..Len(s2c') /\ First(p, i)'
           /\ (\A i \in 1..Len(s2c) : s2c[i] # r) => First(r, n)'
<1>1. /\ n \in Nat /\ Len(s2c') = n /\ Len(s2c) = n - 1 /\ s2c'[n] = r /\ n \in 1..Len(s2c')
      /\ \A k \in 1..Len(s2c) : k \in 1..Len(s2c') /\ k < n /\ s2c'[k] = s2c[k]
      /\ \A k \in 1..Len(s2c') : k <= n /\ (k < n => k \in 1..Len(s2c))
  BY AppendGrows
<1>2. ASSUME NEW type, NEW k \in 1..n PROVE Before(type, k)' <=> Before(type, k)
  <2>1. \A j \in 1..Len(s2c') : j < k => j < n
    BY <1>1
  <2> QED BY <1>1, <2>1 DEF Before
<1>3. ASSUME NEW type PROVE Before(type, n + 1)' <=> Before(type, n) \/ r.type = type
  <2>1. \A j \in 1..Len(s2c') : j < n + 1 /\ (j < n \/ j = n)
    BY <1>1
  <2> QED BY <1>1, <2>1 DEF Before
<1>4. ASSUME NEW p, NEW i \in 1..Len(s2c), First(p, i)
      PROVE  i \in 1..Len(s2c') /\ First(p, i)'
  <2>1. \A j \in 1..Len(s2c') : j < i => j < n
    BY <1>1
  <2> QED BY <1>1, <1>4, <2>1 DEF First
<1>5. (\A i \in 1..Len(s2c) : s2c[i] # r) => First(r, n)'
  BY <1>1 DEF First
<1> QED BY <1>1, <1>2, <1>3, <1>4, <1>5

LEMMA CutPlaces ==
    ASSUME s2c \in Seq(Packet), NEW n \in 0..Len(s2c), s2c' = SubSeq(s2c, 1, n), b_out' = {}
    PROVE  /\ Pubs' \subseteq Pubs
           /\ \A p \in Pubs' : \E i \in 1..n : s2c[i] = p
           /\ Len(s2c') = n /\ n \in Nat
           /\ \A type : \A k \in 1..n : Before(type, k)' <=> Before(type, k)
           /\ \A p : \A i \in 1..n : First(p, i) => First(p, i)'
<1>1. /\ n \in Nat /\ Len(s2c') = n /\ \A k \in 1..n : k \in 1..Len(s2c) /\ s2c'[k] = s2c[k]
      /\ \A k \in 1..Len(s2c) : k <= n => k \in 1..n
  OBVIOUS
<1>2. Pubs' \subseteq Pubs /\ \A p \in Pubs' : \E i \in 1..n : s2c[i] = p
  BY <1>1 DEF Pubs
<1>3. ASSUME NEW type, NEW k \in 1..n PROVE Before(type, k)' <=> Before(type, k)
  <2>1. \A j \in 1..Len(s2c) : j < k => j \in 1..n
    BY <1>1
  <2> QED BY <1>1, <2>1 DEF Before
<1>4. ASSUME NEW p, NEW i \in 1..n, First(p, i) PROVE First(p, i)'
  BY <1>1, <1>4 DEF First
<1> QED BY <1>1, <1>2, <1>3, <1>4

-----------------------------------------------------------------------------
(* What keeps everything served *)

LEMMA ServedStays ==
    ASSUME UNCHANGED <<setup, messageHandlers, call>>, NEW t, NEW k, NEW l,
           \A type \in {"SUBACK", "UNSUBACK"} : Before(type, l)' <=> Before(type, k)
    PROVE  Served(t, l)' <=> Served(t, k)
<1>1. HandlerFor(t)' <=> HandlerFor(t)
  BY DEF HandlerFor, Slots, MaxHandlers
<1>2. ASSUME NEW type \in {"SUBACK", "UNSUBACK"} PROVE Acked(type, t, l)' <=> Acked(type, t, k)
  BY DEF Acked
<1> QED BY <1>1, <1>2 DEF Served

\* The client moves and the mail stays.
LEMMA RestsServed ==
    ASSUME MqttTypes, MailInv, ServedInv, UNCHANGED <<s2c, b_out, b_subs, delivered>>,
           Live' => Live /\ \A t \in Topics : \A k \in Nat : Served(t, k) => Served(t, k)'
    PROVE  ServedInv'
<1> SUFFICES ASSUME Live' PROVE SubsServed' /\ PubsServed'
  BY DEF ServedInv
<1>1. SubsServed /\ PubsServed /\ \A t \in Topics : \A k \in Nat : Served(t, k) => Served(t, k)'
  BY DEF ServedInv
<1>2. Len(s2c) \in Nat /\ Len(s2c) + 1 \in Nat
  BY DEF MqttTypes, NetTypes
<1>3. SubsServed'
  BY <1>1, <1>2 DEF SubsServed
<1>4. Pubs' = Pubs /\ \A p, i : First(p, i)' <=> First(p, i)
  BY StayPlaces
<1>5. ASSUME NEW p \in Pubs', ~Heard(p.msg)' PROVE Awaits(p)'
  <2>1. p \in Pubs /\ ~Heard(p.msg)
    BY <1>4, <1>5 DEF Heard
  <2>2. PICK i \in 1..Len(s2c) : First(p, i) /\ Served(p.topic, i)
    BY <1>1, <2>1 DEF PubsServed, Awaits
  <2>3. p.topic \in Topics /\ i \in Nat
    BY <2>1, <2>2 DEF MailInv
  <2>4. First(p, i)' /\ Served(p.topic, i)' /\ i \in 1..Len(s2c')
    BY <1>1, <1>4, <2>2, <2>3
  <2> QED BY <2>4 DEF Awaits
<1> QED BY <1>3, <1>5 DEF PubsServed

\* A packet is read; what it meant for the call, the call knows.
LEMMA HearsServed ==
    ASSUME MqttTypes, MailInv, ServedInv, s2c # <<>>, s2c' = Tail(s2c), UNCHANGED <<b_out, b_subs>>,
           UNCHANGED sent, \A n \in 1..MaxSent : Heard(n) => Heard(n)',
           NEW h \in {Head(s2c)}, h.type = "PUBLISH" /\ Served(h.topic, 1) => Heard(h.msg)',
           Live' => Live /\ \A t \in Topics : \A k \in Nat \ {0} : Served(t, k + 1) => Served(t, k)'
    PROVE  ServedInv'
<1> SUFFICES ASSUME Live' PROVE SubsServed' /\ PubsServed'
  BY DEF ServedInv
<1>0. s2c \in Seq(Packet)
  BY DEF MqttTypes, NetTypes
<1>1. /\ SubsServed /\ PubsServed
      /\ \A t \in Topics : \A k \in Nat \ {0} : Served(t, k + 1) => Served(t, k)'
  BY DEF ServedInv
<1>2. /\ Pubs' \subseteq Pubs
      /\ Len(s2c) \in Nat /\ Len(s2c') = Len(s2c) - 1
      /\ \A p : \A i \in 1..Len(s2c) : First(p, i) /\ p # Head(s2c)
                 => i - 1 \in 1..Len(s2c') /\ First(p, i - 1)'
  BY <1>0, TailPlaces
<1>3. SubsServed'
  <2>0. Len(s2c') \in Nat
    <3>1. s2c' \in Seq(Packet)
      BY <1>0
    <3> QED BY <3>1
  <2>1. PICK n \in Nat : n = Len(s2c')
    BY <2>0
  <2>2. Len(s2c) = n + 1 /\ n + 1 \in Nat \ {0}
    BY <1>2, <2>1
  <2> SUFFICES ASSUME NEW t \in Topics, b_subs'[t] >= 0 PROVE Served(t, n + 1)'
    BY <2>1 DEF SubsServed
  <2>3. Served(t, (n + 1) + 1)
    BY <1>1, <2>2 DEF SubsServed
  <2> QED BY <1>1, <2>2, <2>3
<1>4. ASSUME NEW p \in Pubs', ~Heard(p.msg)' PROVE Awaits(p)'
  <2>0. p \in Pubs /\ p.msg \in 1..sent /\ sent \in 0..MaxSent /\ MaxSent \in Nat
    BY <1>2, SetupTypes DEF MailInv, MqttTypes, CountTypes
  <2>1. p \in Pubs /\ ~Heard(p.msg)
    BY <1>4, <2>0
  <2>2. PICK i \in 1..Len(s2c) : First(p, i) /\ Served(p.topic, i)
    BY <1>1, <2>1 DEF PubsServed, Awaits
  <2>3. p.type = "PUBLISH" /\ p.topic \in Topics
    BY <2>1 DEF MailInv
  <2>4. p # h
    <3> SUFFICES ASSUME p = h PROVE FALSE
      OBVIOUS
    <3>1. h = s2c[1] /\ 1 \in 1..Len(s2c)
      BY <1>0
    <3>2. i = 1
      BY <1>2, <2>2, <3>1 DEF First
    <3> QED BY <1>4, <2>2, <2>3, <3>2
  <2>5. i - 1 \in 1..Len(s2c') /\ First(p, i - 1)'
    BY <1>2, <2>2, <2>4
  <2>6. PICK k \in Nat \ {0} : k = i - 1 /\ k + 1 = i
    BY <1>2, <2>2, <2>5
  <2>7. Served(p.topic, k)'
    BY <1>1, <2>2, <2>3, <2>6
  <2> QED BY <2>5, <2>6, <2>7 DEF Awaits
<1> QED BY <1>3, <1>4 DEF PubsServed

\* The connection is cut, and the broker forgets the client.
LEMMA CutServed ==
    ASSUME MqttTypes, MailInv, ServedInv, UNCHANGED <<setup, isconnected, messageHandlers, call, delivered>>,
           NEW n \in 0..Len(s2c), s2c' = SubSeq(s2c, 1, n), b_out' = {},
           \A t \in Topics : ~(b_subs'[t] >= 0)
    PROVE  ServedInv'
<1> SUFFICES ASSUME Live' PROVE PubsServed'
  BY DEF ServedInv, SubsServed
<1>0. s2c \in Seq(Packet)
  BY DEF MqttTypes, NetTypes
<1>1. /\ Pubs' \subseteq Pubs
      /\ \A p \in Pubs' : \E i \in 1..n : s2c[i] = p
      /\ Len(s2c') = n /\ n \in Nat
      /\ \A type : \A k \in 1..n : Before(type, k)' <=> Before(type, k)
      /\ \A p : \A i \in 1..n : First(p, i) => First(p, i)'
  BY <1>0, CutPlaces
<1>2. PubsServed
  BY DEF ServedInv, Live
<1>3. ASSUME NEW p \in Pubs', ~Heard(p.msg)' PROVE Awaits(p)'
  <2>1. p \in Pubs /\ ~Heard(p.msg)
    BY <1>1, <1>3 DEF Heard
  <2>2. PICK i \in 1..Len(s2c) : First(p, i) /\ Served(p.topic, i)
    BY <1>2, <2>1 DEF PubsServed, Awaits
  <2>3. PICK j \in 1..n : s2c[j] = p
    BY <1>1
  <2>4. i \in 1..n
    <3>1. Len(s2c) \in Nat /\ j \in 1..Len(s2c)
      BY <1>0
    <3>2. ~(j < i)
      BY <2>2, <2>3, <3>1 DEF First
    <3> QED BY <1>1, <2>2, <3>1, <3>2
  <2>5. Served(p.topic, i)'
    BY <1>1, <2>2, <2>4, ServedStays
  <2> QED BY <1>1, <2>2, <2>4, <2>5 DEF Awaits
<1> QED BY <1>3 DEF PubsServed

\* The broker sends nothing, and wants less.
LEMMA SilentServed ==
    ASSUME MqttTypes, MailInv, ServedInv,
           UNCHANGED <<setup, isconnected, messageHandlers, call, delivered, s2c>>,
           Pubs' \subseteq Pubs, \A t \in Topics : b_subs'[t] >= 0 => b_subs[t] >= 0
    PROVE  ServedInv'
<1> SUFFICES ASSUME Live' PROVE SubsServed' /\ PubsServed'
  BY DEF ServedInv
<1>1. SubsServed /\ PubsServed
  BY DEF ServedInv, Live
<1>2. \A t, k : Served(t, k)' <=> Served(t, k)
  <2>1. \A type, k : Before(type, k)' <=> Before(type, k)
    BY DEF Before
  <2> QED BY <2>1, ServedStays
<1>3. \A p, i : First(p, i)' <=> First(p, i)
  BY DEF First
<1>4. SubsServed'
  BY <1>1, <1>2 DEF SubsServed
<1>5. \A p : Awaits(p) => Awaits(p)'
  BY <1>2, <1>3 DEF Awaits
<1> QED BY <1>1, <1>4, <1>5 DEF PubsServed, Heard

\* The broker sends a packet: a message for a topic that is served, or
\* something else.
LEMMA SendsServed ==
    ASSUME MqttTypes, MailInv, ServedInv,
           UNCHANGED <<setup, isconnected, messageHandlers, call, delivered>>,
           NEW r \in Packet, s2c' = Append(s2c, r), Pubs' \subseteq Pubs \cup {r},
           r \in Pubs' /\ r \notin Pubs => r.type = "PUBLISH" /\ (Live => Served(r.topic, Len(s2c) + 1)),
           \A t \in Topics : Live /\ b_subs'[t] >= 0 =>
               \/ b_subs[t] >= 0 /\ (call.wait = "UNSUBACK" /\ call.req.topic = t => r.type # "UNSUBACK")
               \/ r.type = "SUBACK" /\ call.at # "idle" /\ call.wait = "SUBACK" /\ call.req.topic = t
    PROVE  ServedInv'
<1> SUFFICES ASSUME Live' PROVE SubsServed' /\ PubsServed'
  BY DEF ServedInv
<1>0. s2c \in Seq(Packet)
  BY DEF MqttTypes, NetTypes
<1>1. SubsServed /\ PubsServed /\ Live
  BY DEF ServedInv, Live
<1>2. PICK n \in Nat : n = Len(s2c) + 1
  BY <1>0
<1>3. /\ Len(s2c') = n /\ Len(s2c) = n - 1
      /\ \A type : \A k \in 1..n : Before(type, k)' <=> Before(type, k)
      /\ \A type : Before(type, n + 1)' <=> Before(type, n) \/ r.type = type
      /\ \A p : \A i \in 1..Len(s2c) : First(p, i) => i \in 1..Len(s2c') /\ First(p, i)'
      /\ (\A i \in 1..Len(s2c) : s2c[i] # r) => First(r, n)'
  BY <1>0, <1>2, AppendPlaces
<1>4. \A t : \A k \in 1..n : Served(t, k)' <=> Served(t, k)
  BY <1>3, ServedStays
<1>5. SubsServed'
  <2> SUFFICES ASSUME NEW t \in Topics, b_subs'[t] >= 0 PROVE Served(t, n + 1)'
    BY <1>3 DEF SubsServed
  <2>1. HandlerFor(t)' <=> HandlerFor(t)
    BY DEF HandlerFor, Slots, MaxHandlers
  <2>2. CASE r.type = "SUBACK" /\ call.at # "idle" /\ call.wait = "SUBACK" /\ call.req.topic = t
    BY <1>3, <2>2 DEF Served, Acked
  <2>3. CASE b_subs[t] >= 0 /\ (call.wait = "UNSUBACK" /\ call.req.topic = t => r.type # "UNSUBACK")
    <3>1. Served(t, n)
      BY <1>1, <1>2, <2>3 DEF SubsServed
    <3>2. Acked("SUBACK", t, n) => Acked("SUBACK", t, n + 1)'
      BY <1>3 DEF Acked
    <3>3. Acked("UNSUBACK", t, n + 1)' => Acked("UNSUBACK", t, n)
      BY <1>3, <2>3 DEF Acked
    <3> QED BY <2>1, <3>1, <3>2, <3>3 DEF Served
  <2> QED BY <1>1, <2>2, <2>3
<1>6. \A p : Awaits(p) => Awaits(p)'
  <2> SUFFICES ASSUME NEW p, Awaits(p) PROVE Awaits(p)'
    OBVIOUS
  <2>1. PICK i \in 1..Len(s2c) : First(p, i) /\ Served(p.topic, i)
    BY DEF Awaits
  <2>2. i \in 1..n /\ i \in 1..Len(s2c') /\ First(p, i)'
    BY <1>2, <1>3, <2>1
  <2> QED BY <1>4, <2>1, <2>2 DEF Awaits
<1>7. ASSUME r \in Pubs', r \notin Pubs PROVE Awaits(r)'
  <2>1. Served(r.topic, n) /\ n \in 1..n
    BY <1>1, <1>2, <1>7
  <2>2. n \in 1..Len(s2c') /\ Served(r.topic, n)'
    BY <1>3, <1>4, <2>1
  <2>3. \A i \in 1..Len(s2c) : s2c[i] # r
    BY <1>7 DEF Pubs
  <2>4. First(r, n)'
    BY <1>3, <2>3
  <2> QED BY <2>2, <2>4 DEF Awaits
<1>8. PubsServed'
  <2> SUFFICES ASSUME NEW p \in Pubs', ~Heard(p.msg)' PROVE Awaits(p)'
    BY DEF PubsServed
  <2>1. ~Heard(p.msg)
    BY DEF Heard
  <2> QED BY <1>1, <1>6, <1>7, <2>1 DEF PubsServed
<1> QED BY <1>5, <1>8

-----------------------------------------------------------------------------
(* The steps of the client *)

CallStep ==
    /\ call.at = "idle" /\ calls' = calls + 1 /\ UNCHANGED <<mail, up, b_connected>>
    /\ \/ UNCHANGED messageHandlers /\ (isconnected' => isconnected)
       \/ messageHandlers' = NoHandlers' /\ ~isconnected'
    /\ call'.at = "idle" \/ (call'.at = "wait" /\ Fits')

\* The handlers have heard of what is read.
Told == /\ \A n \in 1..MaxSent : Heard(n) => Heard(n)'
        /\ \A h \in {Head(s2c)} : h.type = "PUBLISH" /\ HandlerFor(h.topic) => Heard(h.msg)'

\* What a cycle makes of the call.
Turns ==
    \/ call' = call
    \/ call.op = "yield" /\ call' = NoCall
    \/ call' = [call EXCEPT !.at = "expired"]
    \/ s2c # <<>> /\ Head(s2c).type = call.wait /\ call' = [call EXCEPT !.at = "got", !.got = Head(s2c)]

CycleStep ==
    /\ call.at = "wait" /\ Turns
    /\ UNCHANGED <<isconnected, messageHandlers, calls, sent, b_out, b_subs, up, b_connected>>
    /\ \/ UNCHANGED <<s2c, delivered>> /\ call'.at # "got"
       \/ /\ s2c # <<>> /\ s2c' = Tail(s2c) /\ Told
          /\ Head(s2c).type = call.wait => call' # call

FreeFor  == {i \in Slots : messageHandlers[i] = NoTopic}
Installs == /\ call.wait = "SUBACK"
            /\ \/ \E first \in FreeFor :
                      /\ \A j \in FreeFor : first <= j
                      /\ messageHandlers' = [messageHandlers EXCEPT ![first] = call.req.topic]
               \/ FreeFor = {} /\ UNCHANGED messageHandlers
Removes  == /\ call.wait = "UNSUBACK"
            /\ messageHandlers' \in [Slots -> Topics \cup {NoTopic}]
            /\ \A i \in Slots :
                  \/ messageHandlers'[i] = messageHandlers[i]
                  \/ messageHandlers[i] = call.req.topic /\ messageHandlers'[i] = NoTopic

FinishStep ==
    /\ call.at \in {"got", "expired"} /\ call'.at = "idle" /\ UNCHANGED <<mail, calls, up, b_connected>>
    /\ \/ ~isconnected' /\ (messageHandlers' = NoHandlers' \/ UNCHANGED messageHandlers)
       \/ GotAccept /\ UNCHANGED messageHandlers
       \/ /\ call.at = "got" /\ isconnected
          /\ (call.wait = "PUBACK" /\ UNCHANGED messageHandlers) \/ Installs \/ Removes

\* What stays of messages and of the call.
LEMMA MailStays ==
    ASSUME MqttTypes, UNCHANGED setup, MailInv, Pubs' \subseteq Pubs, UNCHANGED sent
    PROVE  MailInv'
  BY DEF MailInv, QosUsed

LEMMA BusyStays ==
    ASSUME Pubs' \subseteq Pubs, UNCHANGED b_subs, UNCHANGED <<up, b_connected>>
    PROVE  (Busy' => Busy) /\ Linked
  BY DEF Busy, Linked

LEMMA CallStepKeeps ==
    ASSUME MqttTypes, SessionInv, HeardInv, UNCHANGED setup, CallStep
    PROVE  HeardInv' /\ (Busy' => Busy) /\ Linked
<1>1. UNCHANGED <<s2c, b_out, b_subs, sent, delivered, up, b_connected>>
  BY DEF CallStep, mail
<1>2. Pubs' = Pubs
  BY <1>1, StayPlaces
<1>3. MailInv' /\ (Busy' => Busy) /\ Linked
  BY <1>1, <1>2, MailStays, BusyStays DEF HeardInv
<1>4. ReqInv'
  BY DEF CallStep, ReqInv
<1>5. RoomInv'
  <2>1. Slots' = Slots /\ TopicsUsed' = TopicsUsed /\ calls \in Nat /\ calls' = calls + 1 /\ calls' > 0
    BY DEF Slots, MaxHandlers, TopicsUsed, CallStep, MqttTypes, CountTypes
  <2>2. CASE UNCHANGED messageHandlers
    <3>1. \A i \in Slots : i \in Int
      BY SetupTypes DEF Slots, MqttTypes
    <3> QED BY <2>1, <2>2, <3>1 DEF HeardInv, RoomInv, CallStep
  <2>3. CASE messageHandlers' = NoHandlers'
    BY <2>1, <2>3 DEF RoomInv, NoHandlers
  <2> QED BY <2>2, <2>3 DEF CallStep
<1>6. ServedInv'
  <2>1. ASSUME Live' PROVE Live /\ \A t \in Topics : \A k \in Nat : Served(t, k) => Served(t, k)'
    <3>1. isconnected /\ UNCHANGED messageHandlers /\ Live
      BY <2>1 DEF Live, CallStep
    <3>2. None(s2c, Replies) /\ s2c \in Seq(Packet)
      BY <3>1 DEF SessionInv, AskInv, Asking, Quiet, CallStep, MqttTypes, NetTypes
    <3>3. \A k : ~Before("UNSUBACK", k)
      BY <3>2 DEF Before, None, Replies
    <3>4. \A k : ~Before("UNSUBACK", k)'
      BY <1>1, <3>3, StayPlaces
    <3>5. \A t, k : ~Acked("UNSUBACK", t, k)'
      BY <3>4 DEF Acked, CallStep
    <3>6. \A t : HandlerFor(t)' <=> HandlerFor(t)
      BY <3>1 DEF HandlerFor, Slots, MaxHandlers
    <3>7. \A t, k : Served(t, k) => HandlerFor(t)
      BY DEF Served, Acked, CallStep
    <3> QED BY <3>1, <3>5, <3>6, <3>7 DEF Served
  <2> QED BY <1>1, <2>1, RestsServed DEF HeardInv
<1> QED BY <1>3, <1>4, <1>5, <1>6 DEF HeardInv

\* The call goes on, ends, or has its answer.
LEMMA TurnsCall ==
    ASSUME MqttTypes, CallInv, call.at = "wait", Turns
    PROVE  /\ call'.at # "idle" => call'.op = call.op /\ call'.wait = call.wait /\ call'.req = call.req
           /\ call' = call \/ call'.at \in {"expired", "got"} \/ (call'.at = "idle" /\ call.wait = "PINGREQ")
           /\ call'.at = "got" => Head(s2c).type = call.wait
<1>1. call \in CallValues
  BY DEF MqttTypes, CallTypes
<1>2. CASE call' = call
  BY <1>2
<1>3. CASE call.op = "yield" /\ call' = NoCall
  <2>1. call.wait = "PINGREQ"
    BY <1>3 DEF CallInv
  <2> QED BY <1>3, <2>1 DEF NoCall
<1>4. CASE call' = [call EXCEPT !.at = "expired"]
  BY <1>1, <1>4 DEF CallValues
<1>5. CASE Head(s2c).type = call.wait /\ call' = [call EXCEPT !.at = "got", !.got = Head(s2c)]
  BY <1>1, <1>5 DEF CallValues
<1> QED BY <1>2, <1>3, <1>4, <1>5 DEF Turns

LEMMA CycleStepKeeps ==
    ASSUME MqttTypes, SessionInv, HeardInv, UNCHANGED setup, CycleStep
    PROVE  HeardInv' /\ (Busy' => Busy) /\ Linked
<1>0. s2c \in Seq(Packet) /\ CallInv
  BY DEF MqttTypes, NetTypes, SessionInv
<1>1. /\ call.at = "wait" /\ UNCHANGED <<isconnected, messageHandlers, calls, sent, b_out, b_subs>>
      /\ UNCHANGED <<up, b_connected>>
      /\ call'.at # "idle" => call'.op = call.op /\ call'.wait = call.wait /\ call'.req = call.req
      /\ call' = call \/ call'.at \in {"expired", "got"} \/ (call'.at = "idle" /\ call.wait = "PINGREQ")
      /\ call'.at = "got" => Head(s2c).type = call.wait
  BY <1>0, TurnsCall DEF CycleStep
<1>2. Pubs' \subseteq Pubs
  <2>1. CASE UNCHANGED s2c
    BY <1>1, <2>1, StayPlaces
  <2>2. CASE s2c # <<>> /\ s2c' = Tail(s2c)
    BY <1>0, <1>1, <2>2, TailPlaces
  <2> QED BY <2>1, <2>2 DEF CycleStep
<1>3. MailInv' /\ (Busy' => Busy) /\ Linked
  BY <1>1, <1>2, MailStays, BusyStays DEF HeardInv
<1>4. ReqInv'
  BY <1>1 DEF HeardInv, ReqInv, Fits, TopicsUsed
<1>5. RoomInv'
  <2>1. Slots' = Slots /\ TopicsUsed' = TopicsUsed
    BY DEF Slots, MaxHandlers, TopicsUsed
  <2> QED BY <1>1, <2>1 DEF HeardInv, RoomInv
<1>6. \A t : HandlerFor(t)' <=> HandlerFor(t)
  BY <1>1 DEF HandlerFor, Slots, MaxHandlers
<1>7. Live' => Live
  BY <1>1 DEF Live
<1>8. ServedInv'
  <2>1. CASE UNCHANGED <<s2c, delivered>> /\ call'.at # "got"
    <3>1. \A type, k : Before(type, k)' <=> Before(type, k)
      BY <1>1, <2>1, StayPlaces
    <3>2. \A t, k : Live' /\ Served(t, k) => Served(t, k)'
      BY <1>1, <1>6, <2>1, <3>1 DEF Live, Served, Acked
    <3> QED BY <1>1, <1>7, <2>1, <3>2, RestsServed DEF HeardInv
  <2>2. CASE s2c # <<>> /\ s2c' = Tail(s2c) /\ Told /\ (Head(s2c).type = call.wait => call' # call)
    <3>1. PICK h \in {Head(s2c)} : TRUE
      OBVIOUS
    <3>2. h.type = "PUBLISH" /\ Served(h.topic, 1) => Heard(h.msg)'
      <4>1. ~Before("SUBACK", 1)
        BY <1>0 DEF Before
      <4>2. Served(h.topic, 1) => HandlerFor(h.topic)
        BY <1>1, <4>1 DEF Served, Acked
      <4> QED BY <2>2, <3>1, <4>2 DEF Told
    <3>3. \A type : \A k \in Nat \ {0} :
             Before(type, k + 1) <=> Before(type, k)' \/ Head(s2c).type = type
      BY <1>0, <1>1, <2>2, TailPlaces
    <3>4. ASSUME Live', NEW t \in Topics, NEW k \in Nat \ {0}, Served(t, k + 1) PROVE Served(t, k)'
      <4>1. Acked("SUBACK", t, k + 1) => Acked("SUBACK", t, k)'
        BY <1>1, <2>2, <3>3, <3>4 DEF Acked, Live
      <4>2. Acked("UNSUBACK", t, k)' => Acked("UNSUBACK", t, k + 1)
        BY <1>1, <2>2, <3>3, <3>4 DEF Acked, Live
      <4> QED BY <1>6, <3>4, <4>1, <4>2 DEF Served
    <3>5. \A n \in 1..MaxSent : Heard(n) => Heard(n)'
      BY <2>2 DEF Told
    <3>6. MailInv /\ ServedInv
      BY DEF HeardInv
    <3> QED BY <1>1, <1>7, <2>2, <3>1, <3>2, <3>4, <3>5, <3>6, HearsServed
  <2> QED BY <2>1, <2>2 DEF CycleStep
<1> QED BY <1>3, <1>4, <1>5, <1>8 DEF HeardInv

\* There is a slot for the handler of a subscribe that succeeded, or it is
\* there already.
LEMMA RoomLeft ==
    ASSUME MqttTypes, ReqInv, RoomInv, Room, FreeFor = {}, call.at # "idle", call.wait = "SUBACK"
    PROVE  HandlerFor(call.req.topic)
<1>1. /\ MaxHandlers \in Nat /\ MaxCalls \in Nat /\ calls \in 0..MaxCalls /\ calls > 0
      /\ call.req.topic \in TopicsUsed
  BY SetupTypes DEF MqttTypes, CountTypes, RoomInv, ReqInv, Fits
<1>2. \A i \in Slots : messageHandlers[i] \in TopicsUsed /\ i < calls
  BY DEF FreeFor, RoomInv
<1>3. ~(MaxCalls <= MaxHandlers)
  <2> SUFFICES ASSUME MaxCalls <= MaxHandlers PROVE FALSE
    OBVIOUS
  <2>1. calls \in Slots /\ ~(calls < calls)
    BY <1>1 DEF Slots
  <2> QED BY <1>2, <2>1
<1>4. PICK u \in Topics : TopicsUsed = {u}
  BY <1>3 DEF Room
<1>5. 1 \in Slots
  BY <1>1, <1>3 DEF Room, Slots
<1>6. messageHandlers[1] = call.req.topic
  BY <1>1, <1>2, <1>4, <1>5
<1> QED BY <1>5, <1>6 DEF HandlerFor

LEMMA FinishStepKeeps ==
    ASSUME MqttTypes, SessionInv, HeardInv, BusyInv, Room, UNCHANGED setup, FinishStep
    PROVE  HeardInv' /\ (Busy' => Busy) /\ Linked
<1>1. /\ UNCHANGED <<s2c, b_out, b_subs, sent, delivered, up, b_connected, calls>>
      /\ call.at \in {"got", "expired"} /\ call'.at = "idle"
  BY DEF FinishStep, mail
<1>2. Pubs' = Pubs
  BY <1>1, StayPlaces
<1>3. MailInv' /\ (Busy' => Busy) /\ Linked
  BY <1>1, <1>2, MailStays, BusyStays DEF HeardInv
<1>4. ReqInv'
  BY <1>1 DEF ReqInv
<1>5. /\ Slots' = Slots /\ TopicsUsed' = TopicsUsed /\ MaxHandlers \in Nat
      /\ messageHandlers \in [Slots -> Topics \cup {NoTopic}]
      /\ calls \in Nat /\ calls > 0
  BY <1>1, SetupTypes DEF Slots, MaxHandlers, TopicsUsed, MqttTypes, SessionTypes, CountTypes,
     HeardInv, RoomInv
<1>6. \A i \in Slots : messageHandlers[i] # NoTopic =>
          messageHandlers[i] \in TopicsUsed /\ i <= calls /\ i < calls
  BY <1>1 DEF HeardInv, RoomInv
<1>7. RoomInv'
  <2>1. SUFFICES ASSUME NEW i \in Slots, messageHandlers'[i] # NoTopic
                 PROVE  messageHandlers'[i] \in TopicsUsed /\ i <= calls
    BY <1>1, <1>5 DEF RoomInv
  <2>2. CASE messageHandlers'[i] = messageHandlers[i]
    BY <1>6, <2>1, <2>2
  <2>3. CASE messageHandlers' = NoHandlers'
    BY <1>5, <2>1, <2>3 DEF NoHandlers
  <2>4. CASE Installs
    <3>1. CASE UNCHANGED messageHandlers
      BY <2>2, <3>1
    <3>2. ASSUME NEW first \in FreeFor, \A j \in FreeFor : first <= j,
                 messageHandlers' = [messageHandlers EXCEPT ![first] = call.req.topic]
          PROVE  messageHandlers'[i] \in TopicsUsed /\ i <= calls
      <4>1. CASE i # first
        BY <1>5, <2>2, <3>2, <4>1
      <4>2. CASE i = first
        <5>1. messageHandlers'[i] = call.req.topic /\ call.req.topic \in TopicsUsed
          BY <1>1, <1>5, <2>1, <2>4, <3>2, <4>2 DEF HeardInv, ReqInv, Fits, Installs
        <5>2. i <= calls
          <6>1. i \in 1..MaxHandlers
            BY <2>1 DEF Slots
          <6>2. CASE calls \in 1..MaxHandlers
            <7>1. calls \in FreeFor
              <8>1. calls \in Slots /\ ~(calls < calls)
                BY <1>5, <6>2 DEF Slots
              <8> QED BY <1>6, <8>1 DEF FreeFor
            <7> QED BY <3>2, <4>2, <7>1
          <6>3. CASE calls > MaxHandlers
            BY <1>5, <6>1, <6>3
          <6> QED BY <1>5, <6>2, <6>3
        <5> QED BY <5>1, <5>2
      <4> QED BY <4>1, <4>2
    <3> QED BY <2>4, <3>1, <3>2 DEF Installs
  <2>5. CASE Removes
    BY <2>1, <2>2, <2>5 DEF Removes
  <2> QED BY <2>2, <2>3, <2>4, <2>5 DEF FinishStep
<1>8. \A t, k : Served(t, k)' <=> HandlerFor(t)'
  BY <1>1 DEF Served, Acked
<1>9. ServedInv'
  <2>1. CASE ~isconnected'
    BY <2>1 DEF ServedInv, Live
  <2>2. CASE GotAccept
    <3>1. ~Busy
      BY <2>2 DEF BusyInv, Begun
    <3> QED BY <1>1, <1>2, <3>1 DEF Busy, ServedInv, SubsServed, PubsServed
  <2>3. ASSUME /\ call.at = "got" /\ isconnected
               /\ (call.wait = "PUBACK" /\ UNCHANGED messageHandlers) \/ Installs \/ Removes
        PROVE  Live /\ \A t \in Topics : \A k \in Nat : Served(t, k) => Served(t, k)'
    <3>1. SUFFICES ASSUME NEW t \in Topics, NEW k \in Nat, Served(t, k) PROVE HandlerFor(t)'
      BY <1>8, <2>3 DEF Live
    <3>2. UNCHANGED messageHandlers => (HandlerFor(t)' <=> HandlerFor(t))
      BY <1>5 DEF HandlerFor
    <3>3. CASE call.wait = "PUBACK" /\ UNCHANGED messageHandlers
      BY <3>1, <3>2, <3>3 DEF Served, Acked
    <3>4. CASE Installs
      <4>1. CASE FreeFor = {} /\ UNCHANGED messageHandlers
        <5>1. HandlerFor(call.req.topic)
          BY <2>3, <3>4, <4>1, RoomLeft DEF HeardInv, Installs
        <5> QED BY <3>1, <3>2, <4>1, <5>1 DEF Served, Acked
      <4>2. ASSUME NEW first \in FreeFor,
                   messageHandlers' = [messageHandlers EXCEPT ![first] = call.req.topic]
            PROVE  HandlerFor(t)'
        <5>1. first \in Slots /\ messageHandlers[first] = NoTopic /\ messageHandlers'[first] = call.req.topic
          BY <1>5, <4>2 DEF FreeFor
        <5>2. CASE call.req.topic = t
          BY <1>5, <5>1, <5>2 DEF HandlerFor
        <5>3. CASE HandlerFor(t)
          <6>1. PICK i \in Slots : messageHandlers[i] = t
            BY <5>3 DEF HandlerFor
          <6>2. i # first
            BY <5>1, <6>1, TopicAssumption
          <6> QED BY <1>5, <4>2, <6>1, <6>2 DEF HandlerFor
        <5> QED BY <3>1, <5>2, <5>3 DEF Served, Acked
      <4> QED BY <3>4, <4>1, <4>2 DEF Installs
    <3>5. CASE Removes
      <4>1. call.req.topic # t /\ HandlerFor(t)
        BY <2>3, <3>1, <3>5 DEF Served, Acked, Removes
      <4>2. PICK i \in Slots : messageHandlers[i] = t
        BY <4>1 DEF HandlerFor
      <4> QED BY <1>5, <3>5, <4>1, <4>2 DEF Removes, HandlerFor
    <3> QED BY <2>3, <3>3, <3>4, <3>5
  <2>4. CASE /\ call.at = "got" /\ isconnected
             /\ (call.wait = "PUBACK" /\ UNCHANGED messageHandlers) \/ Installs \/ Removes
    BY <1>1, <2>3, <2>4, RestsServed DEF HeardInv
  <2> QED BY <2>1, <2>2, <2>4 DEF FinishStep
<1> QED BY <1>3, <1>4, <1>7, <1>9 DEF HeardInv

-----------------------------------------------------------------------------
(* The steps of the network and the broker *)

LEMMA ClientKept ==
    ASSUME MqttTypes, HeardInv, UNCHANGED <<setup, messageHandlers, call>>,
           calls' = calls \/ (calls' = calls + 1 /\ call.at = "idle")
    PROVE  ReqInv' /\ RoomInv'
<1>1. Slots' = Slots /\ TopicsUsed' = TopicsUsed /\ calls \in Nat /\ MaxHandlers \in Nat
  BY SetupTypes DEF Slots, MaxHandlers, TopicsUsed, MqttTypes, CountTypes
<1>2. ReqInv'
  BY <1>1 DEF HeardInv, ReqInv, Fits
<1>3. \A i \in Slots : i \in Int
  BY <1>1 DEF Slots
<1> QED BY <1>1, <1>2, <1>3 DEF HeardInv, RoomInv

LEMMA CutKeeps ==
    ASSUME MqttTypes, HeardInv, CleanSession, UNCHANGED setup,
           ConnectionFails \/ NewConnection \/ BrokerHangsUp
    PROVE  HeardInv' /\ (Busy' => Busy) /\ Linked
<1>0. s2c \in Seq(Packet) /\ Len(s2c) \in Nat
  BY DEF MqttTypes, NetTypes
<1>1. /\ UNCHANGED <<isconnected, messageHandlers, call, delivered, sent>> /\ BrokerCloses
      /\ calls' = calls \/ (calls' = calls + 1 /\ call.at = "idle")
  BY DEF ConnectionFails, NewConnection, BrokerHangsUp, session, history, Calling
<1>2. PICK n \in 0..Len(s2c) : s2c' = SubSeq(s2c, 1, n)
  <2>1. CASE ConnectionFails
    BY <2>1 DEF ConnectionFails
  <2>2. CASE NewConnection
    <3>1. 0 \in 0..Len(s2c) /\ SubSeq(s2c, 1, 0) = <<>>
      BY <1>0
    <3> QED BY <2>2, <3>1 DEF NewConnection
  <2>3. CASE BrokerHangsUp
    <3>1. Len(s2c) \in 0..Len(s2c) /\ s2c = SubSeq(s2c, 1, Len(s2c)) /\ s2c' = s2c
      BY <1>0, <2>3 DEF BrokerHangsUp
    <3> QED BY <3>1
  <2> QED BY <2>1, <2>2, <2>3
<1>3. b_out' = {} /\ \A t \in Topics : ~(b_subs'[t] >= 0)
  BY <1>1 DEF BrokerCloses
<1>4. Pubs' \subseteq Pubs
  BY <1>0, <1>2, <1>3, CutPlaces
<1>5. ReqInv' /\ RoomInv' /\ MailInv' /\ ServedInv'
  BY <1>1, <1>2, <1>3, <1>4, ClientKept, MailStays, CutServed DEF HeardInv
<1>6. Linked
  BY NetworkOnce DEF OnceStep
<1> QED BY <1>3, <1>4, <1>5, <1>6 DEF HeardInv, Busy

LEMMA SilentKeeps ==
    ASSUME MqttTypes, HeardInv, Pubs' \subseteq Pubs,
           UNCHANGED <<setup, isconnected, messageHandlers, call, delivered, s2c, sent, calls>>,
           UNCHANGED <<b_subs, up, b_connected>>
    PROVE  HeardInv' /\ (Busy' => Busy) /\ Linked
<1>1. ReqInv' /\ RoomInv' /\ MailInv' /\ ServedInv'
  BY ClientKept, MailStays, SilentServed DEF HeardInv
<1> QED BY <1>1, BusyStays DEF HeardInv

\* The messages of a connection that carries one more packet.
LEMMA SendsPubs ==
    ASSUME MqttTypes, NEW r \in Packet, s2c' = Append(s2c, r),
           \A m \in b_out' : m.pub = r \/ \E n \in b_out : m.pub = n.pub
    PROVE  Pubs' \subseteq Pubs \cup {r}
<1>1. s2c \in Seq(Packet)
  BY DEF MqttTypes, NetTypes
<1>2. Pubs' \subseteq Pubs \cup {m.pub : m \in b_out'} \cup {q \in {r} : q.type = "PUBLISH"}
  BY <1>1, AppendAhead
<1>3. {m.pub : m \in b_out'} \subseteq Pubs \cup {r}
  BY DEF Pubs
<1> QED BY <1>2, <1>3

LEMMA SendsKeeps ==
    ASSUME MqttTypes, HeardInv, UNCHANGED <<setup, isconnected, messageHandlers, call, delivered>>,
           UNCHANGED <<calls, sent, b_subs>>,
           NEW r \in Packet, s2c' = Append(s2c, r), r.type \notin {"PUBLISH", "UNSUBACK"} \/ r \in Pubs,
           \A m \in b_out' : \E n \in b_out : m.pub = n.pub
    PROVE  HeardInv' /\ (Busy' => Busy)
<1>1. Pubs' \subseteq Pubs \cup {r}
  BY SendsPubs
<1>2. s2c \in Seq(Packet)
  BY DEF MqttTypes, NetTypes
<1>3. Pubs' \subseteq Pubs
  <2>1. Pubs' \subseteq Pubs \cup {m.pub : m \in b_out'} \cup {q \in {r} : q.type = "PUBLISH"}
    BY <1>2, AppendAhead
  <2>2. {m.pub : m \in b_out'} \subseteq Pubs
    BY DEF Pubs
  <2> QED BY <2>1, <2>2
<1>4. r.type # "UNSUBACK"
  BY DEF HeardInv, MailInv
<1>5. ServedInv'
  BY <1>1, <1>3, <1>4, SendsServed DEF HeardInv
<1>6. ReqInv' /\ RoomInv' /\ MailInv'
  BY <1>3, ClientKept, MailStays DEF HeardInv
<1> QED BY <1>3, <1>5, <1>6 DEF HeardInv, Busy

\* The broker's answers to a live client are to the request of its call.
LEMMA AsksOwn ==
    ASSUME MqttTypes, SessionInv, ReqInv, Live, NEW p, p = Head(c2s), c2s # <<>>, p \in Asks
    PROVE  /\ call.at = "wait" /\ p = call.req
           /\ p.type = "SUBSCRIBE" <=> call.wait = "SUBACK"
           /\ p.type = "UNSUBSCRIBE" <=> call.wait = "UNSUBACK"
<1>1. c2s \in Seq(Sendable)
  BY DEF MqttTypes, NetTypes
<1>2. ~None(c2s, Asks)
  <2>1. p = c2s[1] /\ 1 \in 1..Len(c2s)
    BY <1>1
  <2> QED BY <2>1 DEF None
<1>3. Asking /\ call.at = "wait" /\ OneOut
  BY <1>2 DEF SessionInv, AskInv, Quiet, Live
<1>4. p = call.req
  <2>1. None(c2s, Asks \ {call.req})
    BY <1>3 DEF OneOut
  <2>2. p \notin Asks \ {call.req}
    BY <1>1, <2>1, Taken
  <2> QED BY <2>2
<1>5. Fits /\ call.wait \in {"SUBACK", "UNSUBACK", "PUBACK"}
  BY <1>3 DEF ReqInv, SessionInv, CallInv, Asking
<1> QED BY <1>3, <1>4, <1>5 DEF Fits

LEMMA SubscribingKeeps ==
    ASSUME MqttTypes, SessionInv, HeardInv, UNCHANGED setup, BrokerSubscribes \/ BrokerUnsubscribes
    PROVE  HeardInv' /\ (Busy' => Busy \/ \E r : Replied(r)) /\ Linked
<1> DEFINE p == Head(c2s)
<1>1. PICK type \in {"SUBACK", "UNSUBACK"}, code \in Codes :
         /\ Answers(Ack(type, p.id, code)) /\ Takes(IF type = "SUBACK" THEN "SUBSCRIBE" ELSE "UNSUBSCRIBE")
         /\ \/ b_subs' = b_subs /\ type = "SUBACK"
            \/ \E q : b_subs' = [b_subs EXCEPT ![p.topic] = q] /\ (type = "UNSUBACK" => q = -1)
  <2>1. CASE BrokerSubscribes
    <3>1. /\ Takes("SUBSCRIBE")
          /\ \/ Answers(Ack("SUBACK", p.id, p.code)) /\ b_subs' = [b_subs EXCEPT ![p.topic] = p.code]
             \/ Answers(Ack("SUBACK", p.id, Refused)) /\ b_subs' = b_subs
      BY <2>1 DEF BrokerSubscribes
    <3>2. p.code \in Codes /\ Refused \in Codes
      BY <3>1, TakesTyped, NoneTyped
    <3> QED BY <3>1, <3>2
  <2>2. CASE BrokerUnsubscribes
    <3>1. /\ Takes("UNSUBSCRIBE") /\ Answers(Ack("UNSUBACK", p.id, 0))
          /\ b_subs' = [b_subs EXCEPT ![p.topic] = -1]
      BY <2>2 DEF BrokerUnsubscribes
    <3> QED BY <3>1, NoneTyped
  <2> QED BY <2>1, <2>2
<1>2. /\ UNCHANGED <<session, call, ret, up, calls, sent, delivered, b_connected, b_out, received>> /\ b_connected
      /\ UNCHANGED <<isconnected, messageHandlers, client>>
  BY DEF BrokerSubscribes, BrokerUnsubscribes, ClientSide, session, client
<1>3. /\ p \in Sendable /\ p.id \in Ids /\ c2s # <<>> /\ p \in Packet
      /\ p.type = IF type = "SUBACK" THEN "SUBSCRIBE" ELSE "UNSUBSCRIBE"
  BY <1>1, TakesTyped DEF Sendable
<1>4. p \in Asks
  BY <1>3 DEF Asks
<1> DEFINE r == Ack(type, p.id, code)
<1>5. r \in Packet /\ r.type = type /\ s2c' = Append(s2c, r)
  <2>1. type \in AckTypes
    BY DEF AckTypes
  <2> QED BY <1>1, <1>3, <2>1, AckTyped DEF Ack, Answers
<1>6. \E s : Replied(s)
  <2>1. CASE type = "SUBACK"
    BY <1>1, <1>2, <2>1, BrokerAnswersSteps
  <2>2. CASE type = "UNSUBACK"
    BY <1>1, <1>2, <2>2, BrokerAnswersSteps
  <2> QED BY <2>1, <2>2
<1> HIDE DEF r
<1>7. Pubs' \subseteq Pubs
  <2>1. s2c \in Seq(Packet)
    BY DEF MqttTypes, NetTypes
  <2>2. Pubs' \subseteq Pubs \cup {m.pub : m \in b_out'} \cup {q \in {r} : q.type = "PUBLISH"}
    BY <1>5, <2>1, AppendAhead
  <2>3. {m.pub : m \in b_out'} \subseteq Pubs
    BY <1>2 DEF Pubs
  <2> QED BY <1>5, <2>2, <2>3
<1>8. ASSUME NEW t \in Topics, Live, b_subs'[t] >= 0
      PROVE  \/ b_subs[t] >= 0 /\ (call.wait = "UNSUBACK" /\ call.req.topic = t => r.type # "UNSUBACK")
             \/ r.type = "SUBACK" /\ call.at # "idle" /\ call.wait = "SUBACK" /\ call.req.topic = t
  <2>1. /\ call.at = "wait" /\ p = call.req
        /\ p.type = "SUBSCRIBE" <=> call.wait = "SUBACK"
        /\ p.type = "UNSUBSCRIBE" <=> call.wait = "UNSUBACK"
    BY <1>3, <1>4, <1>8, AsksOwn DEF HeardInv
  <2>2. CASE t = p.topic /\ type = "SUBACK"
    BY <1>3, <1>5, <2>1, <2>2
  <2>3. CASE t = p.topic /\ type = "UNSUBACK"
    <3>1. b_subs'[t] = -1
      BY <1>1, <2>3 DEF MqttTypes, BrokerTypes
    <3> QED BY <1>8, <3>1
  <2>4. CASE t # p.topic
    <3>1. b_subs'[t] = b_subs[t]
      BY <1>1, <2>4 DEF MqttTypes, BrokerTypes
    <3> QED BY <1>8, <2>1, <2>4, <3>1
  <2> QED BY <2>2, <2>3, <2>4
<1>9. ServedInv'
  BY <1>2, <1>5, <1>7, <1>8, SendsServed DEF HeardInv
<1>10. ReqInv' /\ RoomInv' /\ MailInv'
  BY <1>2, <1>7, ClientKept, MailStays DEF HeardInv
<1> QED BY <1>2, <1>6, <1>9, <1>10 DEF HeardInv, Linked

\* A new message is for a topic that is subscribed to, and not on the way yet.
LEMMA PublishingKeeps ==
    ASSUME MqttTypes, HeardInv, UNCHANGED setup, BrokerPublishes
    PROVE  HeardInv' /\ (Busy' => Busy) /\ Linked
<1>1. PICK t \in TopicsUsed, q \in QosUsed, id \in Ids :
         /\ q <= b_subs[t] /\ sent < MaxSent /\ Answers(Pub(id, q, t, sent + 1))
         /\ b_out' = IF q = 0 THEN b_out
                     ELSE b_out \cup {[pub |-> Pub(id, q, t, sent + 1), rel |-> FALSE]}
  <2>1. PICK t \in TopicsUsed, q \in QosUsed :
           /\ q <= b_subs[t] /\ sent < MaxSent
           /\ \E id \in IF q = 0 THEN {0} ELSE Ids \ ({0} \cup {m.pub.id : m \in b_out}) :
                 /\ Answers(Pub(id, q, t, sent + 1))
                 /\ b_out' = IF q = 0 THEN b_out
                             ELSE b_out \cup {[pub |-> Pub(id, q, t, sent + 1), rel |-> FALSE]}
    BY Zenon DEF BrokerPublishes
  <2>2. (IF q = 0 THEN {0} ELSE Ids \ ({0} \cup {m.pub.id : m \in b_out})) \subseteq Ids
    BY NoneTyped
  <2> QED BY <2>1, <2>2
<1>2. /\ UNCHANGED <<isconnected, messageHandlers, call, calls, delivered, b_subs, up, b_connected>>
      /\ sent' = sent + 1
  BY DEF BrokerPublishes, history, session
<1>3. t \in Topics /\ q \in 0..2 /\ sent \in Nat /\ sent + 1 \in Nat /\ b_subs[t] \in Int
  BY SetupTypes DEF MqttTypes, CountTypes, BrokerTypes
<1> DEFINE r == Pub(id, q, t, sent + 1)
<1>4. /\ r \in Packet /\ r.type = "PUBLISH" /\ r.topic = t /\ r.code = q /\ r.msg = sent + 1
      /\ s2c' = Append(s2c, r)
  <2>1. r \in Message
    BY <1>3, PubTyped
  <2> QED BY <1>1, <2>1 DEF Pub, Message, Answers
<1>5. \A m \in b_out' : m.pub = r \/ \E n \in b_out : m.pub = n.pub
  BY <1>1
<1> HIDE DEF r
<1>6. Pubs' \subseteq Pubs \cup {r}
  BY <1>4, <1>5, SendsPubs
<1>7. b_subs[t] >= 0
  BY <1>1, <1>3
<1>8. Live => Served(r.topic, Len(s2c) + 1)
  BY <1>3, <1>4, <1>7 DEF HeardInv, ServedInv, SubsServed
<1>9. ServedInv'
  BY <1>2, <1>4, <1>6, <1>8, SendsServed DEF HeardInv
<1>10. MailInv'
  <2>1. \A p \in Pubs : p.msg \in 1..sent'
    BY <1>2, <1>3 DEF HeardInv, MailInv
  <2>2. r.msg \in 1..sent'
    BY <1>2, <1>3, <1>4
  <2> QED BY <1>3, <1>4, <1>6, <2>1, <2>2 DEF HeardInv, MailInv, QosUsed
<1>11. ReqInv' /\ RoomInv'
  BY <1>2, ClientKept
<1>12. Busy /\ Linked
  BY <1>2, <1>3, <1>7 DEF Busy, Linked
<1> QED BY <1>9, <1>10, <1>11, <1>12 DEF HeardInv

\* The broker's other packets.
LEMMA AckKeeps ==
    ASSUME MqttTypes, HeardInv, UNCHANGED <<setup, isconnected, messageHandlers, call, delivered>>,
           UNCHANGED <<calls, sent, b_subs>>,
           NEW type \in AckTypes \ {"UNSUBACK"}, NEW id \in Ids, NEW code \in Codes,
           Answers(Ack(type, id, code)), \A m \in b_out' : \E n \in b_out : m.pub = n.pub
    PROVE  HeardInv' /\ (Busy' => Busy)
<1> DEFINE r == Ack(type, id, code)
<1>1. r \in Packet /\ r.type = type /\ type \notin {"PUBLISH", "UNSUBACK"} /\ s2c' = Append(s2c, r)
  BY AckTyped DEF Ack, AckTypes, Answers
<1> HIDE DEF r
<1> QED BY <1>1, SendsKeeps

LEMMA AnsweringKeeps ==
    ASSUME MqttTypes, HeardInv, UNCHANGED setup,
           BrokerAccepts \/ BrokerReceives \/ BrokerReleases \/ BrokerAnswersPing
    PROVE  HeardInv' /\ (Busy' => Busy) /\ Linked
<1> DEFINE p == Head(c2s)
<1>1. /\ UNCHANGED <<isconnected, messageHandlers, call, delivered, calls, sent, b_subs, b_out, up>>
      /\ b_connected' \/ UNCHANGED b_connected
  BY DEF BrokerAccepts, BrokerReceives, BrokerReleases, BrokerAnswersPing, ClientSide, session, broker
<1>2. Linked
  BY <1>1 DEF Linked
<1>3. \A m \in b_out' : \E n \in b_out : m.pub = n.pub
  BY <1>1
<1>4. CASE BrokerAccepts
  <2>1. Answers(Ack("CONNACK", 0, 0)) \/ Answers(Ack("CONNACK", 0, 5))
    BY <1>4 DEF BrokerAccepts
  <2> QED BY <1>1, <1>2, <1>3, <2>1, AckKeeps, NoneTyped DEF AckTypes
<1>5. CASE BrokerReceives
  <2>1. /\ Takes("PUBLISH")
        /\ CASE p.code = 0 -> UNCHANGED s2c
             [] p.code = 1 -> Answers(Ack("PUBACK", p.id, 0))
             [] p.code = 2 -> Answers(Ack("PUBREC", p.id, 0))
    BY <1>5 DEF BrokerReceives
  <2>2. p.id \in Ids /\ p.code \in 0..2
    BY <2>1, TakesTyped DEF Sendable
  <2>3. CASE p.code = 0
    <3> HIDE DEF p
    <3>1. s2c' = s2c
      BY <2>1, <2>3
    <3>2. Pubs' \subseteq Pubs
      BY <1>1, <3>1, StayPlaces
    <3> QED BY <1>1, <1>5, <3>1, <3>2, SilentKeeps DEF BrokerReceives
  <2>4. CASE p.code # 0
    <3>1. Answers(Ack("PUBACK", p.id, 0)) \/ Answers(Ack("PUBREC", p.id, 0))
      <4>1. p.code = 1 \/ p.code = 2
        BY <2>2, <2>4
      <4> HIDE DEF p
      <4>2. CASE p.code = 1
        BY <2>1, <4>2
      <4>3. CASE p.code = 2
        BY <2>1, <4>3
      <4> QED BY <4>1, <4>2, <4>3
    <3> QED BY <1>1, <1>2, <1>3, <2>2, <3>1, AckKeeps, NoneTyped DEF AckTypes
  <2> QED BY <2>3, <2>4
<1>6. CASE BrokerReleases
  <2>1. Takes("PUBREL") /\ Answers(Ack("PUBCOMP", p.id, 0))
    BY <1>6 DEF BrokerReleases
  <2>2. p.id \in Ids
    BY <2>1, TakesTyped
  <2> QED BY <1>1, <1>2, <1>3, <2>1, <2>2, AckKeeps, NoneTyped DEF AckTypes
<1>7. CASE BrokerAnswersPing
  <2>1. Answers(Ack("PINGRESP", 0, 0))
    BY <1>7 DEF BrokerAnswersPing
  <2> QED BY <1>1, <1>2, <1>3, <2>1, AckKeeps, NoneTyped DEF AckTypes
<1> QED BY <1>4, <1>5, <1>6, <1>7

LEMMA MessagesKeep ==
    ASSUME MqttTypes, HeardInv, UNCHANGED setup, BrokerAcked \/ BrokerRetries
    PROVE  HeardInv' /\ (Busy' => Busy) /\ Linked
<1> DEFINE p == Head(c2s)
<1>1. UNCHANGED <<isconnected, messageHandlers, call, delivered, calls, sent, b_subs, up, b_connected>>
  BY DEF BrokerAcked, BrokerRetries, ClientSide, session, broker, history
<1>2. Linked
  BY <1>1 DEF Linked
<1>3. CASE BrokerAcked
  <2>1. /\ \E type : Takes(type)
        /\ \E mine \in SUBSET b_out :
             \/ /\ b_out' = (b_out \ mine) \cup {[m EXCEPT !.rel = TRUE] : m \in mine}
                /\ Answers(Ack("PUBREL", p.id, 0))
             \/ b_out' = b_out \ mine /\ UNCHANGED s2c
    <3> DEFINE mine == {m \in b_out : m.pub.id = p.id /\
                          IF p.type = "PUBACK" THEN m.pub.code = 1
                          ELSE m.pub.code = 2 /\ (p.type = "PUBCOMP" => m.rel)}
    <3>1. /\ \E type : Takes(type)
          /\ \/ /\ b_out' = (b_out \ mine) \cup {[m EXCEPT !.rel = TRUE] : m \in mine}
                /\ Answers(Ack("PUBREL", p.id, 0))
             \/ b_out' = b_out \ mine /\ UNCHANGED s2c
      BY <1>3, Zenon DEF BrokerAcked
    <3>2. mine \in SUBSET b_out
      OBVIOUS
    <3> HIDE DEF mine
    <3> QED BY <3>1, <3>2
  <2>2. PICK mine \in SUBSET b_out :
             \/ /\ b_out' = (b_out \ mine) \cup {[m EXCEPT !.rel = TRUE] : m \in mine}
                /\ Answers(Ack("PUBREL", p.id, 0))
             \/ b_out' = b_out \ mine /\ UNCHANGED s2c
    BY <2>1
  <2>3. p.id \in Ids
    BY <2>1, TakesTyped
  <2>4. CASE /\ b_out' = (b_out \ mine) \cup {[m EXCEPT !.rel = TRUE] : m \in mine}
             /\ Answers(Ack("PUBREL", p.id, 0))
    <3>1. \A m \in mine : m \in b_out /\ [m EXCEPT !.rel = TRUE].pub = m.pub
      BY DEF MqttTypes, BrokerTypes
    <3>2. \A m \in b_out' : \E n \in b_out : m.pub = n.pub
      BY <2>4, <3>1
    <3> QED BY <1>1, <1>2, <2>3, <2>4, <3>2, AckKeeps, NoneTyped DEF AckTypes
  <2>5. CASE b_out' = b_out \ mine /\ UNCHANGED s2c
    <3>1. Pubs' \subseteq Pubs
      BY <2>5 DEF Pubs
    <3> QED BY <1>1, <2>5, <3>1, SilentKeeps
  <2> QED BY <2>2, <2>4, <2>5
<1>4. CASE BrokerRetries
  <2>1. PICK m \in b_out : Answers(IF m.rel THEN Ack("PUBREL", m.pub.id, 0) ELSE m.pub)
    BY <1>4 DEF BrokerRetries
  <2>2. UNCHANGED b_out /\ \A n \in b_out' : \E l \in b_out : n.pub = l.pub
    BY <1>4 DEF BrokerRetries, broker
  <2>3. m.pub \in Packet /\ m.pub.id \in Ids /\ m.pub \in Pubs
    BY DEF MqttTypes, BrokerTypes, Message, Packet, Pubs
  <2>4. CASE m.rel
    BY <1>1, <1>2, <2>1, <2>2, <2>3, <2>4, AckKeeps, NoneTyped DEF AckTypes
  <2>5. CASE ~m.rel
    <3>1. s2c' = Append(s2c, m.pub)
      BY <2>1, <2>5 DEF Answers
    <3> QED BY <1>1, <1>2, <2>2, <2>3, <3>1, SendsKeeps
  <2> QED BY <2>4, <2>5
<1> QED BY <1>3, <1>4

\* The timers, and steps that change nothing.
LEMMA TimersKeep ==
    ASSUME MqttTypes, HeardInv, UNCHANGED setup, SendingDue \/ ReceivingDue \/ UNCHANGED vars
    PROVE  HeardInv' /\ (Busy' => Busy) /\ Linked
<1>1. /\ UNCHANGED <<isconnected, messageHandlers, call, delivered, s2c, sent, calls>>
      /\ UNCHANGED <<b_subs, b_out, up, b_connected>>
  BY DEF SendingDue, ReceivingDue, vars, session, network, broker, history
<1>2. Pubs' = Pubs
  BY <1>1, StayPlaces
<1> QED BY <1>1, <1>2, SilentKeeps

-----------------------------------------------------------------------------
(* The calls are such steps *)

LEMMA CallSteps ==
    ASSUME UNCHANGED <<s2c, broker, sent, history, up>>, call.at = "idle", calls' = calls + 1,
           call'.at = "idle" \/ (call'.at = "wait" /\ Fits'),
           \/ UNCHANGED messageHandlers /\ (isconnected' => isconnected)
           \/ messageHandlers' = NoHandlers' /\ ~isconnected'
    PROVE  CallStep
  BY DEF CallStep, mail, broker, history

LEMMA CleanedUp == UNCHANGED setup /\ CleanUp => messageHandlers' = NoHandlers' /\ ~isconnected'
  BY DEF CleanUp, NoHandlers, Slots, MaxHandlers

LEMMA ReturnIdle == \A op, rc, req : Return(op, rc, req) => call'.at = "idle"
  BY DEF Return, NoCall

LEMMA WaitingFits ==
    ASSUME NEW op, NEW type, NEW req, Waiting(op, type, req),
           \/ type \in {"CONNACK", "PINGREQ"}
           \/ type = "SUBACK" /\ req.type = "SUBSCRIBE" /\ req.topic \in TopicsUsed'
           \/ type = "UNSUBACK" /\ req.type = "UNSUBSCRIBE"
           \/ type = "PUBACK" /\ req.type = "PUBLISH"
    PROVE  call'.at = "wait" /\ Fits'
<1>1. call'.at = "wait" /\ call'.wait = type /\ call'.req = req
  BY DEF Waiting
<1> QED BY <1>1 DEF Fits

LEMMA PlainCalls ==
    ASSUME CleanSession, UNCHANGED setup, Connect \/ Disconnect \/ Yield
    PROVE  CallStep
<1>0. /\ UNCHANGED <<s2c, broker, sent, history, up>> /\ call.at = "idle" /\ calls' = calls + 1
  BY DEF Connect, Disconnect, Yield, Calling, network
<1>1. CASE Connect \/ Yield
  <2>1. /\ UNCHANGED <<messageHandlers, isconnected>>
        /\ \/ Return("connect", FAILURE, NoInflight)
           \/ Waiting("connect", "CONNACK", NoInflight)
           \/ Waiting("yield", "PINGREQ", NoInflight)
    BY <1>1 DEF Connect, Yield, session
  <2>2. call'.at = "idle" \/ (call'.at = "wait" /\ Fits')
    BY <2>1, ReturnIdle, WaitingFits
  <2> QED BY <1>0, <2>1, <2>2, CallSteps
<1>2. CASE Disconnect
  <2>1. CleanUp /\ call'.at = "idle"
    BY <1>2, ReturnIdle DEF Disconnect
  <2> QED BY <1>0, <2>1, CleanedUp, CallSteps
<1> QED BY <1>1, <1>2

LEMMA AskCalls ==
    ASSUME UNCHANGED setup, NEW t \in TopicsUsed, NEW q, Subscribe(t, q) \/ Unsubscribe(t)
    PROVE  CallStep
<1>0. TopicsUsed' = TopicsUsed
  BY DEF TopicsUsed
<1>1. ASSUME NEW op, NEW type, NEW answer, NEW g, AskFor(op, type, answer, t, g),
             \/ type = "SUBSCRIBE" /\ answer = "SUBACK"
             \/ type = "UNSUBSCRIBE" /\ answer = "UNSUBACK"
      PROVE  CallStep
  <2> DEFINE p == Request(type, packetid', t, g)
  <2>1. /\ UNCHANGED <<s2c, broker, sent, history, up>> /\ call.at = "idle" /\ calls' = calls + 1
        /\ \/ Waiting(op, answer, p) /\ UNCHANGED <<messageHandlers, isconnected>>
           \/ CleanUp /\ Return(op, FAILURE, p)
    BY <1>1 DEF AskFor, Calling, session
  <2>2. p.type = type /\ p.topic = t
    BY DEF Request
  <2> HIDE DEF p
  <2>3. call'.at = "idle" \/ (call'.at = "wait" /\ Fits')
    BY <1>0, <1>1, <2>1, <2>2, ReturnIdle, WaitingFits
  <2> QED BY <2>1, <2>3, CleanedUp, CallSteps
<1>2. CASE Subscribe(t, q)
  BY <1>1, <1>2, Zenon DEF Subscribe
<1>3. CASE Unsubscribe(t)
  BY <1>1, <1>3, Zenon DEF Unsubscribe
<1> QED BY <1>2, <1>3

LEMMA PublishCalls ==
    ASSUME CleanSession, UNCHANGED setup, NEW t, NEW q, Publish(t, q)
    PROVE  CallStep
<1> DEFINE p == Pub(IF isconnected /\ q > 0 THEN packetid' ELSE 0, q, t, calls')
<1>1. /\ UNCHANGED <<s2c, broker, sent, history, up>> /\ call.at = "idle" /\ calls' = calls + 1
      /\ \/ isconnected /\ PublishPacket("publish", p, inflight)
         \/ Return("publish", FAILURE, p) /\ UNCHANGED session
  BY DEF Publish, Calling
<1>2. p.type = "PUBLISH"
  BY DEF Pub
<1> HIDE DEF p
<1>3. \/ CleanUp /\ Return("publish", FAILURE, p)
      \/ /\ isconnected /\ UNCHANGED messageHandlers
         /\ Waiting("publish", "PUBACK", p) \/ Return("publish", SUCCESS, p)
      \/ Return("publish", FAILURE, p) /\ UNCHANGED <<messageHandlers, isconnected>>
  BY <1>1, Zenon DEF PublishPacket, session
<1>4. call'.at = "idle" \/ (call'.at = "wait" /\ Fits')
  BY <1>2, <1>3, ReturnIdle, WaitingFits
<1> QED BY <1>1, <1>3, <1>4, CleanedUp, CallSteps

-----------------------------------------------------------------------------
(* The cycles are such steps *)

\* A message that finds a handler has been heard.
LEMMA DeliverTells ==
    ASSUME MqttTypes, NEW p \in Packet, p.msg \in 1..MaxSent, Deliver(p)
    PROVE  /\ \A n \in 1..MaxSent : delivered[n] > 0 => delivered'[n] > 0
           /\ HandlerFor(p.topic) => delivered'[p.msg] > 0
<1> DEFINE S == {i \in Slots : messageHandlers[i] = p.topic}
           N == Cardinality(S)
<1>1. MaxHandlers \in Nat /\ delivered \in [1..MaxSent -> Nat]
  BY SetupTypes DEF MqttTypes, CountTypes
<1>2. IsFiniteSet(Slots)
  BY <1>1, FS_Interval, 1 \in Int DEF Slots
<1>3. IsFiniteSet(S)
  <2>1. S \in SUBSET Slots
    OBVIOUS
  <2> QED BY <1>2, <2>1, FS_Subset
<1>4. N \in Nat
  BY <1>3, FS_CardinalityType
<1>5. HandlerFor(p.topic) => N # 0
  <2>1. HandlerFor(p.topic) => S # {}
    BY DEF HandlerFor
  <2> QED BY <1>3, <2>1, FS_EmptySet
<1>6. delivered' = [delivered EXCEPT ![p.msg] = @ + N]
  BY DEF Deliver
<1> HIDE DEF N
<1>7. ASSUME NEW n \in 1..MaxSent
      PROVE  /\ n # p.msg => delivered'[n] = delivered[n]
             /\ n = p.msg => delivered'[n] = delivered[n] + N
             /\ delivered[n] \in Nat
  BY <1>1, <1>6
<1>8. \A n \in 1..MaxSent : delivered[n] > 0 => delivered'[n] > 0
  BY <1>4, <1>7
<1>9. HandlerFor(p.topic) => delivered'[p.msg] > 0
  BY <1>4, <1>5, <1>7
<1> QED BY <1>8, <1>9

LEMMA EndsTurns == Ends => Turns
  BY DEF Ends, Turns

LEMMA AfterTurns ==
    ASSUME call \in CallValues, call.at = "wait", s2c # <<>>, NEW failed, AfterCycle(Head(s2c), failed)
    PROVE  Turns /\ (~failed /\ Head(s2c).type = call.wait => call' # call)
<1>1. UNCHANGED <<call, ret>> => Turns
  BY DEF Turns
<1>2. Turns
  <2>1. CASE Head(s2c).type = call.wait /\ call' = [call EXCEPT !.at = "got", !.got = Head(s2c)]
    BY <2>1 DEF Turns
  <2> QED BY <1>1, <2>1, EndsTurns, AfterCycleSteps
<1>3. ASSUME ~failed, Head(s2c).type = call.wait PROVE call' # call
  <2>1. call' = [call EXCEPT !.at = "got", !.got = Head(s2c)]
    BY <1>3, Zenon DEF AfterCycle
  <2>2. call'.at = "got"
    BY <2>1 DEF CallValues
  <2> QED BY <2>1, <2>2
<1> QED BY <1>2, <1>3

LEMMA ReadCycles ==
    ASSUME ReadPacket, Turns, Told, Head(s2c).type = call.wait => call' # call,
           UNCHANGED <<isconnected, messageHandlers, calls, sent, broker, up>>
    PROVE  CycleStep
  BY DEF ReadPacket, CycleStep, broker

\* The table of QoS 2 ids keeps no message from its handler that was not heard.
TableTells ==
    LET p == Head(s2c)
    IN  (/\ s2c # <<>> /\ p.type = "PUBLISH" /\ QOS2 /\ p.code = 2
         /\ KnownId(p.id) \/ FreeSlots = {}
         /\ HandlerFor(p.topic)) => Heard(p.msg)

LEMMA CycleIsStep ==
    ASSUME MqttTypes, SessionInv, HeardInv, TableTells, UNCHANGED setup, Cycle \/ Expire
    PROVE  CycleStep
<1> DEFINE p == Head(s2c)
<1>0. /\ s2c \in Seq(Packet) /\ call \in CallValues
      /\ ReadPacket => s2c # <<>> /\ p \in Packet /\ call.at = "wait"
  <2>1. s2c \in Seq(Packet) /\ call \in CallValues
    BY DEF MqttTypes, NetTypes, CallTypes
  <2> QED BY <2>1, StillPackets DEF ReadPacket
<1>1. ASSUME UNCHANGED delivered, p.type # "PUBLISH" PROVE Told
  BY <1>1 DEF Told, Heard
<1>2. \A type \in {"PUBLISH", "PUBREC", "PUBREL"} : call.at = "wait" => call.wait # type
  BY DEF SessionInv, CallInv
<1>3. CASE CycleAck
  <2>1. /\ ReadPacket /\ UNCHANGED <<isconnected, messageHandlers, calls, sent, broker, up, delivered>>
        /\ p.type # "PUBLISH" /\ AfterCycle(p, FALSE)
    BY <1>3 DEF CycleAck, history, AckTypes
  <2> QED BY <1>0, <1>1, <2>1, AfterTurns, ReadCycles
<1>4. CASE CycleRelease
  <2>1. /\ ReadPacket /\ UNCHANGED <<isconnected, messageHandlers, calls, sent, broker, up, delivered>>
        /\ p.type \in {"PUBREC", "PUBREL"}
        /\ AfterCycle(p, FALSE) \/ AfterCycle(p, TRUE) \/ AnswerTooLate
    BY <1>4, Zenon DEF CycleRelease, history
  <2>2. Turns
    BY <1>0, <2>1, AfterTurns, TooLateSteps, EndsTurns
  <2>3. p.type # call.wait /\ p.type # "PUBLISH"
    BY <1>0, <1>2, <2>1
  <2> QED BY <1>1, <2>1, <2>2, <2>3, ReadCycles
<1>5. CASE CyclePublish
  <2>1. ReadPacket /\ p.type = "PUBLISH"
    BY <1>5 DEF CyclePublish
  <2>2. p = s2c[1] /\ 1 \in 1..Len(s2c)
    BY <1>0, <2>1
  <2>3. p \in Pubs
    BY <2>1, <2>2 DEF Pubs
  <2>4. p.msg \in 1..sent
    BY <2>3 DEF HeardInv, MailInv
  <2>5. p.msg \in 1..MaxSent
    BY <2>4, SetupTypes DEF MqttTypes, CountTypes
  <2>6. /\ UNCHANGED <<isconnected, messageHandlers, calls, sent, broker, up>>
        /\ AfterCycle(p, FALSE) \/ AfterCycle(p, TRUE) \/ AnswerTooLate
        /\ \/ Deliver(p)
           \/ QOS2 /\ p.code = 2 /\ (KnownId(p.id) \/ FreeSlots = {}) /\ UNCHANGED delivered
    BY <1>5, Zenon DEF CyclePublish
  <2>7. Turns
    BY <1>0, <2>1, <2>6, AfterTurns, TooLateSteps, EndsTurns
  <2>8. /\ \A n \in 1..MaxSent : delivered[n] > 0 => delivered'[n] > 0
        /\ HandlerFor(p.topic) => delivered'[p.msg] > 0
    <3>1. CASE Deliver(p)
      BY <1>0, <2>1, <2>5, <3>1, DeliverTells
    <3>2. CASE QOS2 /\ p.code = 2 /\ (KnownId(p.id) \/ FreeSlots = {}) /\ UNCHANGED delivered
      <4>1. HandlerFor(p.topic) => Heard(p.msg)
        BY <1>0, <2>1, <3>2 DEF TableTells
      <4> QED BY <3>2, <4>1 DEF Heard
    <3> QED BY <2>6, <3>1, <3>2
  <2>9. Told
    <3>1. ASSUME NEW h \in {p}, HandlerFor(h.topic) PROVE delivered'[h.msg] > 0
      BY <2>8, <3>1
    <3> QED BY <2>8, <3>1 DEF Told, Heard
  <2>10. p.type # call.wait
    BY <1>0, <1>2, <2>1
  <2> QED BY <2>1, <2>6, <2>7, <2>9, <2>10, ReadCycles
<1>6. CASE CycleFails \/ Expire
  <2>1. /\ UNCHANGED <<isconnected, messageHandlers, calls, sent, broker, up, s2c, delivered>>
        /\ call.at = "wait"
    BY <1>6 DEF CycleFails, Expire, session, network, history
  <2>2. UNCHANGED <<call, ret>> \/ Ends
    <3>1. CASE CycleFails
      <4>1. AfterCycle(NoInflight, TRUE)
        BY <3>1 DEF CycleFails
      <4> QED BY <4>1, AfterCycleSteps
    <3>2. CASE Expire
      BY <3>2, ExpireSteps DEF Waits
    <3> QED BY <1>6, <3>1, <3>2
  <2>3. Turns /\ call'.at # "got"
    <3>1. CASE UNCHANGED call
      BY <2>1, <3>1 DEF Turns
    <3>2. CASE Ends
      <4>1. call'.at \in {"idle", "expired"}
        BY <1>0, <3>2 DEF Ends, NoCall, CallValues
      <4> QED BY <3>2, <4>1, EndsTurns
    <3> QED BY <2>2, <3>1, <3>2
  <2> QED BY <2>1, <2>3 DEF CycleStep, broker
<1> QED BY <1>3, <1>4, <1>5, <1>6 DEF Cycle

-----------------------------------------------------------------------------
(* What ends a call is such a step *)

LEMMA FinishSteps ==
    ASSUME UNCHANGED <<s2c, broker, sent, history, up, calls>>,
           call.at \in {"got", "expired"}, call'.at = "idle",
           \/ ~isconnected' /\ (messageHandlers' = NoHandlers' \/ UNCHANGED messageHandlers)
           \/ GotAccept /\ UNCHANGED messageHandlers
           \/ /\ call.at = "got" /\ isconnected
              /\ (call.wait = "PUBACK" /\ UNCHANGED messageHandlers) \/ Installs \/ Removes
    PROVE  FinishStep
  BY DEF FinishStep, mail, broker, history

LEMMA ConnectFinishes ==
    ASSUME MqttTypes, SessionInv, UNCHANGED setup, FinishConnect
    PROVE  FinishStep
<1>0. inflight.id = 0 /\ ~(inflight.id > 0)
  BY DEF SessionInv, CallInv
<1>1. /\ Done("connect", "CONNACK") /\ UNCHANGED <<up, s2c, broker, sent, history, calls>>
      /\ isconnected' = Accepted /\ UNCHANGED messageHandlers
      /\ \E rc : Return("connect", rc, NoInflight)
  BY <1>0, Zenon DEF FinishConnect
<1>2. call.at \in {"got", "expired"} /\ call'.at = "idle"
  BY <1>1, ReturnIdle DEF Done
<1>3. Accepted => GotAccept
  <2>1. Accepted => call.got \in Packet /\ call.got.type = "CONNACK"
    BY <1>1 DEF Accepted, Answered, Done, SessionInv, CallInv, MqttTypes, CallTypes, CallValues
  <2> QED BY <2>1 DEF Accepted, Answered, GotAccept, Accepts
<1>4. \/ ~isconnected' /\ UNCHANGED messageHandlers
      \/ GotAccept /\ UNCHANGED messageHandlers
  BY <1>1, <1>3
<1> QED BY <1>1, <1>2, <1>4, FinishSteps

LEMMA SubscribeFinishes ==
    ASSUME MqttTypes, SessionInv, UNCHANGED setup, FinishSubscribe
    PROVE  FinishStep
<1> DEFINE first == CHOOSE i \in FreeFor : \A j \in FreeFor : i <= j
           code  == IF Answered THEN call.got.code ELSE FAILURE
<1>1. /\ Done("subscribe", "SUBACK") /\ UNCHANGED <<network, broker, sent, history, calls>>
      /\ \E rc : Return("subscribe", rc, call.req)
      /\ \/ /\ Answered /\ FreeFor # {}
            /\ messageHandlers' = [messageHandlers EXCEPT ![first] = call.req.topic]
         \/ CleanUp
         \/ code = SUCCESS /\ ~(Answered /\ code # Refused /\ FreeFor # {}) /\ UNCHANGED session
  BY Zenon DEF FinishSubscribe, FreeFor
<1>2. /\ call.at \in {"got", "expired"} /\ call'.at = "idle" /\ call.wait = "SUBACK"
      /\ isconnected /\ UNCHANGED <<s2c, up>>
  BY <1>1, ReturnIdle DEF Done, SessionInv, CallInv, Asking, network
<1>3. CASE CleanUp
  BY <1>1, <1>2, <1>3, CleanedUp, FinishSteps
<1>4. CASE /\ Answered /\ FreeFor # {}
           /\ messageHandlers' = [messageHandlers EXCEPT ![first] = call.req.topic]
  <2>1. FreeFor \in SUBSET Nat
    BY SetupTypes DEF FreeFor, Slots, MqttTypes
  <2>2. first \in FreeFor /\ \A j \in FreeFor : first <= j
    BY <1>4, <2>1, Smallest
  <2> HIDE DEF first
  <2>3. Installs
    BY <1>2, <1>4, <2>2 DEF Installs
  <2> QED BY <1>1, <1>2, <1>4, <2>3, FinishSteps DEF Answered
<1>5. CASE code = SUCCESS /\ ~(Answered /\ code # Refused /\ FreeFor # {}) /\ UNCHANGED session
  <2>1. Answered /\ FreeFor = {}
    BY <1>5, Failures DEF SUCCESS, Refused
  <2>2. Installs
    BY <1>2, <1>5, <2>1 DEF Installs, session
  <2> QED BY <1>1, <1>2, <2>1, <2>2, FinishSteps DEF Answered
<1> QED BY <1>1, <1>3, <1>4, <1>5

LEMMA UnsubscribeFinishes ==
    ASSUME MqttTypes, SessionInv, UNCHANGED setup, FinishUnsubscribe
    PROVE  FinishStep
<1> DEFINE mine  == {i \in Slots : messageHandlers[i] = call.req.topic}
           first == CHOOSE i \in mine : \A j \in mine : i <= j
<1>1. /\ Done("unsubscribe", "UNSUBACK") /\ UNCHANGED <<network, broker, sent, history, calls>>
      /\ \E rc : Return("unsubscribe", rc, call.req)
      /\ \/ /\ Answered
            /\ messageHandlers' = [i \in Slots |-> IF mine # {} /\ i = first THEN NoTopic
                                                   ELSE messageHandlers[i]]
         \/ CleanUp
  BY Zenon DEF FinishUnsubscribe
<1>2. /\ call.at \in {"got", "expired"} /\ call'.at = "idle" /\ call.wait = "UNSUBACK"
      /\ isconnected /\ UNCHANGED <<s2c, up>>
  BY <1>1, ReturnIdle DEF Done, SessionInv, CallInv, Asking, network
<1>3. CASE CleanUp
  BY <1>1, <1>2, <1>3, CleanedUp, FinishSteps
<1>4. CASE /\ Answered
           /\ messageHandlers' = [i \in Slots |-> IF mine # {} /\ i = first THEN NoTopic
                                                  ELSE messageHandlers[i]]
  <2>1. mine \in SUBSET Nat
    BY SetupTypes DEF Slots, MqttTypes
  <2>2. mine # {} => first \in mine
    BY <2>1, Smallest
  <2>3. mine # {} => messageHandlers[first] = call.req.topic
    BY <2>2
  <2> HIDE DEF first, mine
  <2>4. messageHandlers \in [Slots -> Topics \cup {NoTopic}]
    BY DEF MqttTypes, SessionTypes
  <2>5. messageHandlers' \in [Slots -> Topics \cup {NoTopic}]
    BY <1>4, <2>4
  <2>6. \A i \in Slots :
           \/ messageHandlers'[i] = messageHandlers[i]
           \/ messageHandlers[i] = call.req.topic /\ messageHandlers'[i] = NoTopic
    BY <1>4, <2>3
  <2>7. Removes
    BY <1>2, <2>5, <2>6 DEF Removes
  <2> QED BY <1>1, <1>2, <1>4, <2>7, FinishSteps DEF Answered
<1> QED BY <1>1, <1>3, <1>4

LEMMA PublishFinishes ==
    ASSUME MqttTypes, SessionInv, UNCHANGED setup, FinishPublish
    PROVE  FinishStep
<1>1. /\ Done(call.op, "PUBACK") /\ UNCHANGED <<network, broker, sent, history, calls>>
      /\ \E op, rc : Return(op, rc, call.req)
      /\ (Answered /\ UNCHANGED messageHandlers) \/ CleanUp
  BY Zenon DEF FinishPublish
<1>2. /\ call.at \in {"got", "expired"} /\ call'.at = "idle" /\ call.wait = "PUBACK"
      /\ isconnected /\ UNCHANGED <<s2c, up>>
  BY <1>1, ReturnIdle DEF Done, SessionInv, CallInv, Asking, network
<1>3. CASE CleanUp
  BY <1>1, <1>2, <1>3, CleanedUp, FinishSteps
<1>4. CASE Answered /\ UNCHANGED messageHandlers
  BY <1>1, <1>2, <1>4, FinishSteps DEF Answered
<1> QED BY <1>1, <1>3, <1>4

-----------------------------------------------------------------------------
(* The theorem *)

LEMMA HeardSteps ==
    ASSUME MqttTypes, SessionInv, HeardInv, BusyInv, CleanSession, TableTells, Room, [Next]_<<setup, vars>>
    PROVE  HeardInv' /\ (Busy' => Busy \/ \E r : Replied(r)) /\ Linked
<1>0. TopicsUsed \subseteq Topics
  BY SetupTypes DEF MqttTypes
<1>1. CASE UNCHANGED <<setup, vars>>
  BY <1>1, TimersKeep
<1>2. CASE UNCHANGED setup /\ Application
  <2>1. CASE NewConnection
    BY <1>0, <1>2, <2>1, CutKeeps
  <2>2. ASSUME ~NewConnection PROVE CallStep
    <3>1. CASE Connect \/ Disconnect \/ Yield
      BY <1>0, <1>2, <3>1, PlainCalls
    <3>2. CASE \E t \in TopicsUsed : Unsubscribe(t)
      BY <1>2, <3>2, AskCalls
    <3>3. CASE \E t \in TopicsUsed, q \in QosUsed : Subscribe(t, q) \/ Publish(t, q)
      BY <1>0, <1>2, <3>3, AskCalls, PublishCalls
    <3> QED BY <1>2, <2>2, <3>1, <3>2, <3>3 DEF Application
  <2> QED BY <1>2, <2>1, <2>2, CallStepKeeps
<1>3. CASE UNCHANGED setup /\ (Cycle \/ Expire)
  BY <1>3, CycleIsStep, CycleStepKeeps
<1>4. CASE UNCHANGED setup /\ Finish
  <2>1. FinishStep
    BY <1>4, ConnectFinishes, SubscribeFinishes, UnsubscribeFinishes, PublishFinishes DEF Finish
  <2> QED BY <1>4, <2>1, FinishStepKeeps
<1>5. CASE UNCHANGED setup /\ (ConnectionFails \/ SendingDue \/ ReceivingDue)
  BY <1>0, <1>5, CutKeeps, TimersKeep
<1>6. CASE UNCHANGED setup /\ Broker
  BY <1>0, <1>6, CutKeeps, SubscribingKeeps, PublishingKeeps, AnsweringKeeps, MessagesKeep DEF Broker
<1> QED BY <1>1, <1>2, <1>3, <1>4, <1>5, <1>6 DEF Next

LEMMA StepHeard ==
    ASSUME MqttTypes, SessionInv, HeardInv, BusyInv, CleanSession, TableTells, Room, [Next]_<<setup, vars>>
    PROVE  HeardInv' /\ BusyInv'
<1>1. HeardInv' /\ (Busy' => Busy \/ \E r : Replied(r)) /\ Linked
  BY HeardSteps
<1> QED BY <1>1, NextSteps, BeginsWell

\* Without the table there is nothing to tell.
LEMMA PlainTells ==
    ASSUME MqttTypes, MailInv, Plain
    PROVE  TableTells
<1> SUFFICES ASSUME s2c # <<>>, Head(s2c).type = "PUBLISH", QOS2, Head(s2c).code = 2 PROVE FALSE
  BY DEF TableTells
<1>1. Head(s2c) = s2c[1] /\ 1 \in 1..Len(s2c)
  BY DEF MqttTypes, NetTypes
<1> QED BY <1>1 DEF Pubs, MailInv, Plain

\* What is at the head of the connection is served by a handler.
LEMMA HeadServed ==
    ASSUME MqttTypes, HeardInv, isconnected, call.at = "wait", s2c # <<>>,
           NEW p, p = Head(s2c), p.type = "PUBLISH", ~Heard(p.msg)
    PROVE  HandlerFor(p.topic)
<1>1. s2c \in Seq(Packet)
  BY DEF MqttTypes, NetTypes
<1>2. p = s2c[1] /\ 1 \in 1..Len(s2c)
  BY <1>1
<1>3. p \in Pubs
  BY <1>2 DEF Pubs
<1>4. Awaits(p)
  BY <1>3 DEF HeardInv, ServedInv, Live, PubsServed
<1>5. PICK i \in 1..Len(s2c) : First(p, i) /\ Served(p.topic, i)
  BY <1>4 DEF Awaits
<1>6. i = 1
  <2>1. i \in Nat /\ ~(1 < i) /\ i > 0
    BY <1>1, <1>2, <1>5 DEF First
  <2> QED BY <2>1
<1>7. ~Before("SUBACK", 1)
  BY <1>1 DEF Before
<1> QED BY <1>5, <1>6, <1>7 DEF Served, Acked

LEMMA InitHeard == Init => HeardInv /\ BusyInv
<1> SUFFICES ASSUME Init PROVE HeardInv /\ BusyInv
  OBVIOUS
<1>1. /\ s2c = <<>> /\ b_out = {} /\ b_subs = [t \in Topics |-> -1] /\ messageHandlers = NoHandlers
      /\ ~isconnected /\ call.at = "idle"
  BY DEF Init, NoCall
<1>2. Pubs = {} /\ ~Busy
  BY <1>1 DEF Pubs, Busy
<1>3. MailInv /\ ReqInv /\ RoomInv /\ ServedInv
  BY <1>1, <1>2 DEF MailInv, ReqInv, RoomInv, NoHandlers, ServedInv, Live
<1> QED BY <1>2, <1>3 DEF HeardInv, BusyInv

Listening == Plain /\ Room => HeardInv /\ BusyInv

LEMMA NextHeard == MqttTypes /\ CleanInv /\ Listening /\ [Next]_<<setup, vars>> => Listening'
<1> SUFFICES ASSUME MqttTypes, CleanInv, Listening, [Next]_<<setup, vars>>, Plain', Room'
             PROVE  HeardInv' /\ BusyInv'
  BY DEF Listening
<1>1. setup' = setup
  BY DEF Next
<1>2. Plain /\ Room
  BY <1>1 DEF Plain, Room, CleanSession, QOS2, QosUsed, MaxCalls, MaxHandlers, TopicsUsed
<1>3. SessionInv
  BY <1>2 DEF Plain, CleanInv
<1>4. TableTells /\ CleanSession
  BY <1>2, PlainTells DEF Listening, HeardInv, Plain
<1> QED BY <1>2, <1>3, <1>4, StepHeard DEF Listening

-----------------------------------------------------------------------------
(***************************************************************************)
(* What is proved of the table of QoS 2 ids, for one connection and a      *)
(* place in the table for every message.  An id is fresh, sending or       *)
(* releasing at the broker, and the order of its packets on the way, both  *)
(* ways, says what the table may hold: an id is not in the table when the  *)
(* broker uses it for a new message, so that none is taken for a message   *)
(* the client has seen.                                                    *)
(***************************************************************************)

\* Every packet of A stands before every packet of B.
InOrder(q, A, B) == \A k, l \in 1..Len(q) : q[k] \in A /\ q[l] \in B => k < l

LEMMA OrderAppended ==
    ASSUME NEW q \in Seq(Packet), NEW e \in Packet, NEW A, NEW B, A \cap B = {}
    PROVE  /\ InOrder(q, A, B) /\ e \notin A => InOrder(Append(q, e), A, B)
           /\ None(q, B) /\ e \notin B => InOrder(Append(q, e), A, B)
           /\ None(q, B) => InOrder(Append(q, e), A, B)
<1>1. /\ Len(Append(q, e)) = Len(q) + 1 /\ Len(q) \in Nat
      /\ \A k \in 1..Len(q) : Append(q, e)[k] = q[k]
      /\ Append(q, e)[Len(q) + 1] = e
  OBVIOUS
<1>2. \A k \in 1..Len(Append(q, e)) : (k \in 1..Len(q) /\ k < Len(q) + 1) \/ k = Len(q) + 1
  BY <1>1
<1>3. ASSUME InOrder(q, A, B), e \notin A PROVE InOrder(Append(q, e), A, B)
  BY <1>1, <1>2, <1>3 DEF InOrder
<1>4. ASSUME None(q, B) PROVE InOrder(Append(q, e), A, B)
  <2> SUFFICES ASSUME NEW k \in 1..Len(Append(q, e)), NEW l \in 1..Len(Append(q, e)),
                      Append(q, e)[k] \in A, Append(q, e)[l] \in B
               PROVE  k < l
    BY DEF InOrder
  <2>1. l = Len(q) + 1 /\ e \in B
    BY <1>1, <1>2, <1>4 DEF None
  <2>2. k # Len(q) + 1
    BY <1>1, <2>1
  <2> QED BY <1>2, <2>1, <2>2
<1> QED BY <1>3, <1>4

LEMMA OrderTaken ==
    ASSUME NEW q \in Seq(Packet), q # <<>>, NEW A, NEW B
    PROVE  /\ InOrder(q, A, B) => InOrder(Tail(q), A, B)
           /\ InOrder(q, A, B) /\ Head(q) \in B => None(q, A)
<1>1. /\ Head(q) = q[1] /\ 1 \in 1..Len(q) /\ Len(Tail(q)) \in Nat
      /\ \A k \in 1..Len(Tail(q)) : k + 1 \in 1..Len(q) /\ Tail(q)[k] = q[k + 1]
  OBVIOUS
<1>2. ASSUME InOrder(q, A, B) PROVE InOrder(Tail(q), A, B)
  <2> SUFFICES ASSUME NEW k \in 1..Len(Tail(q)), NEW l \in 1..Len(Tail(q)),
                      Tail(q)[k] \in A, Tail(q)[l] \in B
               PROVE  k < l
    BY DEF InOrder
  <2>1. k + 1 < l + 1
    BY <1>1, <1>2 DEF InOrder
  <2> QED BY <1>1, <2>1
<1>3. ASSUME InOrder(q, A, B), Head(q) \in B PROVE None(q, A)
  <2>1. \A k \in 1..Len(q) : ~(k < 1)
    OBVIOUS
  <2> QED BY <1>1, <1>3, <2>1 DEF InOrder, None
<1> QED BY <1>2, <1>3

LEMMA OrderNone ==
    ASSUME NEW q, NEW A, NEW B, None(q, A) \/ None(q, B)
    PROVE  InOrder(q, A, B)
  BY DEF InOrder, None

Recs(i)  == {p \in Packet : p.type = "PUBREC" /\ p.id = i}
Comps(i) == {p \in Packet : p.type = "PUBCOMP" /\ p.id = i}
Rels(i)  == {p \in Packet : p.type = "PUBREL" /\ p.id = i}
Msgs(i)  == {p \in Packet : p.type = "PUBLISH" /\ p.id = i}

\* What there can be of id i on the way from the client, c, and to it, s, when
\* the broker has no message under it, has sent one, or has released it.
Fresh(c, s, known, i) == ~known /\ None(c, Recs(i)) /\ None(s, Msgs(i))
Sending(c, s, known, i) ==
    /\ InOrder(c, Comps(i), Recs(i))
    /\ \/ None(s, Rels(i))
       \/ None(c, Recs(i)) /\ ~known /\ InOrder(s, Rels(i), Msgs(i))
Releasing(c, s, known, i) ==
    /\ InOrder(s, Msgs(i), Rels(i))
    /\ \/ None(c, Comps(i))
       \/ ~known /\ None(s, Msgs(i)) /\ InOrder(c, Recs(i), Comps(i))

LEMMA Apart ==
    ASSUME NEW i
    PROVE  /\ Comps(i) \cap Recs(i) = {} /\ Recs(i) \cap Comps(i) = {}
           /\ Rels(i) \cap Msgs(i) = {} /\ Msgs(i) \cap Rels(i) = {}
  BY DEF Recs, Comps, Rels, Msgs

\* A queue stays, loses its first packet, or gets one that is not of A or B.
Idle(q, r, A) ==
    \/ r = q
    \/ q # <<>> /\ r = Tail(q)
    \/ \E e \in Packet \ A : r = Append(q, e)

LEMMA IdleKeeps ==
    ASSUME NEW q \in Seq(Packet), NEW r, NEW A, NEW B, A \cap B = {}, Idle(q, r, A \cup B)
    PROVE  /\ None(q, A) => None(r, A)
           /\ None(q, B) => None(r, B)
           /\ InOrder(q, A, B) => InOrder(r, A, B)
           /\ InOrder(q, B, A) => InOrder(r, B, A)
<1>1. CASE r = q
  BY <1>1
<1>2. CASE q # <<>> /\ r = Tail(q)
  BY <1>2, OrderTaken, Taken
<1>3. CASE \E e \in Packet \ (A \cup B) : r = Append(q, e)
  <2>1. PICK e \in Packet : e \notin A /\ e \notin B /\ r = Append(q, e)
    BY <1>3
  <2>2. B \cap A = {}
    OBVIOUS
  <2>3. (None(q, A) => None(r, A)) /\ (None(q, B) => None(r, B))
    BY <2>1, Appended
  <2>4. (InOrder(q, A, B) => InOrder(r, A, B)) /\ (InOrder(q, B, A) => InOrder(r, B, A))
    BY <2>1, <2>2, OrderAppended
  <2> QED BY <2>3, <2>4
<1> QED BY <1>1, <1>2, <1>3 DEF Idle

\* Packets that are not of id i, or not of its handshake.
LEMMA IdleHand ==
    ASSUME NEW c \in Seq(Packet), NEW s \in Seq(Packet), NEW known, NEW d, NEW t, NEW knows, NEW i,
           Idle(c, d, Recs(i) \cup Comps(i)), Idle(s, t, Rels(i) \cup Msgs(i)), knows => known
    PROVE  /\ Fresh(c, s, known, i) => Fresh(d, t, knows, i)
           /\ Sending(c, s, known, i) => Sending(d, t, knows, i)
           /\ Releasing(c, s, known, i) => Releasing(d, t, knows, i)
<1>1. /\ None(c, Recs(i)) => None(d, Recs(i))
      /\ None(c, Comps(i)) => None(d, Comps(i))
      /\ InOrder(c, Recs(i), Comps(i)) => InOrder(d, Recs(i), Comps(i))
      /\ InOrder(c, Comps(i), Recs(i)) => InOrder(d, Comps(i), Recs(i))
  BY Apart, IdleKeeps
<1>2. /\ None(s, Rels(i)) => None(t, Rels(i))
      /\ None(s, Msgs(i)) => None(t, Msgs(i))
      /\ InOrder(s, Rels(i), Msgs(i)) => InOrder(t, Rels(i), Msgs(i))
      /\ InOrder(s, Msgs(i), Rels(i)) => InOrder(t, Msgs(i), Rels(i))
  BY Apart, IdleKeeps
<1> QED BY <1>1, <1>2 DEF Fresh, Sending, Releasing

LEMMA FreshSends ==
    ASSUME NEW c, NEW s, NEW known, NEW i, Fresh(c, s, known, i)
    PROVE  Sending(c, s, known, i)
  BY OrderNone DEF Fresh, Sending

\* The client reads a message, and may answer it.
LEMMA TakesHand ==
    ASSUME NEW c \in Seq(Packet), NEW s \in Seq(Packet), NEW known, NEW knows, NEW i, NEW d,
           s # <<>>, Head(s) \in Msgs(i), d = c \/ \E e \in Recs(i) : d = Append(c, e)
    PROVE  /\ ~Fresh(c, s, known, i)
           /\ Sending(c, s, known, i) => Sending(d, Tail(s), knows, i)
           /\ Releasing(c, s, known, i) => Releasing(d, Tail(s), knows, i)
<1>1. ~None(s, Msgs(i))
  BY Taken
<1>2. /\ InOrder(c, Comps(i), Recs(i)) => InOrder(d, Comps(i), Recs(i))
      /\ None(c, Comps(i)) => None(d, Comps(i))
  <2>1. CASE d = c
    BY <2>1
  <2>2. CASE \E e \in Recs(i) : d = Append(c, e)
    <3>1. PICK e \in Packet : d = Append(c, e) /\ e \notin Comps(i)
      BY <2>2 DEF Recs, Comps
    <3> QED BY <3>1, Apart, OrderAppended, Appended
  <2> QED BY <2>1, <2>2
<1>3. InOrder(s, Rels(i), Msgs(i)) => None(s, Rels(i))
  BY OrderTaken
<1>4. /\ None(s, Rels(i)) => None(Tail(s), Rels(i))
      /\ InOrder(s, Msgs(i), Rels(i)) => InOrder(Tail(s), Msgs(i), Rels(i))
  BY OrderTaken, Taken
<1> QED BY <1>1, <1>2, <1>3, <1>4 DEF Fresh, Sending, Releasing

\* The client reads a PUBREL, forgets the id and answers.
LEMMA FreesHand ==
    ASSUME NEW c \in Seq(Packet), NEW s \in Seq(Packet), NEW known, NEW i, NEW e \in Comps(i),
           s # <<>>, Head(s) \in Rels(i)
    PROVE  /\ Fresh(c, s, known, i) => Fresh(Append(c, e), Tail(s), FALSE, i)
           /\ Sending(c, s, known, i) => Sending(Append(c, e), Tail(s), FALSE, i)
           /\ Releasing(c, s, known, i) => Releasing(Append(c, e), Tail(s), FALSE, i)
<1>1. ~None(s, Rels(i))
  BY Taken
<1>2. InOrder(s, Msgs(i), Rels(i)) => None(s, Msgs(i))
  BY OrderTaken
<1>3. /\ None(s, Msgs(i)) => None(Tail(s), Msgs(i)) /\ InOrder(Tail(s), Msgs(i), Rels(i))
      /\ InOrder(s, Rels(i), Msgs(i)) => InOrder(Tail(s), Rels(i), Msgs(i))
  BY OrderTaken, Taken, OrderNone
<1>4. e \in Packet /\ e \notin Recs(i)
  BY DEF Recs, Comps
<1>5. None(c, Recs(i)) => None(Append(c, e), Recs(i)) /\ InOrder(Append(c, e), Comps(i), Recs(i))
  <2>1. None(c, Recs(i)) => None(Append(c, e), Recs(i))
    BY <1>4, Appended
  <2> QED BY <2>1, OrderNone
<1>6. None(c, Comps(i)) \/ InOrder(c, Recs(i), Comps(i)) => InOrder(Append(c, e), Recs(i), Comps(i))
  BY <1>4, Apart, OrderAppended
<1> QED BY <1>1, <1>2, <1>3, <1>5, <1>6 DEF Fresh, Sending, Releasing

\* The broker reads a PUBREC and releases.
LEMMA AcksHand ==
    ASSUME NEW c \in Seq(Packet), NEW s \in Seq(Packet), NEW known, NEW i, NEW e \in Rels(i),
           c # <<>>, Head(c) \in Recs(i)
    PROVE  /\ ~Fresh(c, s, known, i)
           /\ Sending(c, s, known, i) => Releasing(Tail(c), Append(s, e), known, i)
           /\ Releasing(c, s, known, i) => Releasing(Tail(c), Append(s, e), known, i)
<1>1. ~None(c, Recs(i))
  BY Taken
<1>2. InOrder(c, Comps(i), Recs(i)) => None(c, Comps(i))
  BY OrderTaken
<1>3. /\ None(c, Comps(i)) => None(Tail(c), Comps(i))
      /\ InOrder(c, Recs(i), Comps(i)) => InOrder(Tail(c), Recs(i), Comps(i))
  BY OrderTaken, Taken
<1>4. e \in Packet /\ e \notin Msgs(i)
  BY DEF Rels, Msgs
<1>5. /\ None(s, Rels(i)) \/ InOrder(s, Msgs(i), Rels(i)) => InOrder(Append(s, e), Msgs(i), Rels(i))
      /\ None(s, Msgs(i)) => None(Append(s, e), Msgs(i))
  BY <1>4, Apart, OrderAppended, Appended
<1> QED BY <1>1, <1>2, <1>3, <1>5 DEF Fresh, Sending, Releasing

\* The broker reads a PUBCOMP: the id is free.
LEMMA DoneHand ==
    ASSUME NEW c \in Seq(Packet), NEW s, NEW known, NEW i,
           c # <<>>, Head(c) \in Comps(i), Releasing(c, s, known, i)
    PROVE  Fresh(Tail(c), s, known, i)
<1>1. ~None(c, Comps(i))
  BY Taken
<1>2. InOrder(c, Recs(i), Comps(i)) => None(c, Recs(i))
  BY OrderTaken
<1>3. None(c, Recs(i)) => None(Tail(c), Recs(i))
  BY Taken
<1> QED BY <1>1, <1>2, <1>3 DEF Fresh, Releasing

\* The broker sends a message, a new one or once more, or a PUBREL once more.
LEMMA SendsHand ==
    ASSUME NEW c \in Seq(Packet), NEW s \in Seq(Packet), NEW known, NEW i, NEW e \in Msgs(i),
           Sending(c, s, known, i)
    PROVE  Sending(c, Append(s, e), known, i)
<1>1. e \in Packet /\ e \notin Rels(i)
  BY DEF Rels, Msgs
<1>2. /\ None(s, Rels(i)) => None(Append(s, e), Rels(i))
      /\ InOrder(s, Rels(i), Msgs(i)) => InOrder(Append(s, e), Rels(i), Msgs(i))
  BY <1>1, Apart, OrderAppended, Appended
<1> QED BY <1>2 DEF Sending

LEMMA ReleasesHand ==
    ASSUME NEW c \in Seq(Packet), NEW s \in Seq(Packet), NEW known, NEW i, NEW e \in Rels(i),
           Releasing(c, s, known, i)
    PROVE  Releasing(c, Append(s, e), known, i)
<1>1. e \in Packet /\ e \notin Msgs(i)
  BY DEF Rels, Msgs
<1>2. /\ None(s, Msgs(i)) => None(Append(s, e), Msgs(i))
      /\ InOrder(s, Msgs(i), Rels(i)) => InOrder(Append(s, e), Msgs(i), Rels(i))
  BY <1>1, Apart, OrderAppended, Appended
<1> QED BY <1>2 DEF Releasing

-----------------------------------------------------------------------------
(* The invariant of the table *)

\* One connection, and a place in the table for every message.
Whole == Exactly /\ ~Reconnects /\ MaxSent <= MaxIncoming

\* What the broker's view of id i allows on the way.
Hand(i) ==
    /\ \A m \in b_out : m.pub.id = i => IF m.rel THEN Releasing(c2s, s2c, KnownId(i), i)
                                                 ELSE Sending(c2s, s2c, KnownId(i), i)
    /\ (\A m \in b_out : m.pub.id # i) => Fresh(c2s, s2c, KnownId(i), i)
HandInv == up => \A i \in Ids \ {0} : Hand(i)

\* A message on the way has its id for itself, and a client that has not heard
\* it does not know its id.
OneEach == \A p, q \in Pubs : p.id = q.id => p = q
NewInv  == isconnected => \A p \in Pubs : ~Heard(p.msg) => ~KnownId(p.id)

\* The table holds at most the messages that were heard, and none before the
\* CONNACK was read.
Used      == {i \in Incoming : incomingQoS2messages[i] # 0}
HeardOnes == {n \in 1..MaxSent : Heard(n)}
SpaceInv  == isconnected => Cardinality(Used) <= Cardinality(HeardOnes)
UsedInv   == Used # {} => Begun

\* A message that is acknowledged, or will be, was heard.
Given(m) == m.rel \/ ~None(c2s, Recs(m.pub.id))
GivenInv == isconnected => \A m \in b_out : Given(m) => Heard(m.pub.msg)

TableInv == HandInv /\ OneEach /\ NewInv /\ SpaceInv /\ UsedInv /\ GivenInv

-----------------------------------------------------------------------------
(* Lemmas *)

\* Entries of the table stay or are freed.
Forgets == \A i \in Incoming : \/ incomingQoS2messages'[i] = incomingQoS2messages[i]
                               \/ incomingQoS2messages'[i] = 0

LEMMA ForgetsKnown ==
    ASSUME Forgets
    PROVE  /\ \A id : id # 0 /\ KnownId(id)' => KnownId(id)
           /\ Used' \subseteq Used
  BY DEF Forgets, KnownId, Used, Incoming

LEMMA Finite ==
    ASSUME MqttTypes
    PROVE  /\ IsFiniteSet(Used) /\ Cardinality(Used) \in Nat
           /\ IsFiniteSet(HeardOnes) /\ Cardinality(HeardOnes) \in Nat
           /\ IsFiniteSet(Incoming) /\ Cardinality(Incoming) = MaxIncoming
           /\ IsFiniteSet(1..MaxSent) /\ Cardinality(1..MaxSent) = MaxSent
<1>1. MaxIncoming \in Nat /\ MaxSent \in Nat
  BY SizeAssumption, SetupTypes DEF MqttTypes
<1>2. ASSUME NEW n \in Nat PROVE IsFiniteSet(1..n) /\ Cardinality(1..n) = n
  <2>1. 1 \in Int /\ n \in Int
    OBVIOUS
  <2>2. IsFiniteSet(1..n) /\ Cardinality(1..n) = IF 1 > n THEN 0 ELSE n - 1 + 1
    BY <2>1, FS_Interval
  <2> QED BY <2>2
<1>3. /\ IsFiniteSet(Incoming) /\ Cardinality(Incoming) = MaxIncoming
      /\ IsFiniteSet(1..MaxSent) /\ Cardinality(1..MaxSent) = MaxSent
  BY <1>1, <1>2 DEF Incoming
<1>4. Used \in SUBSET Incoming /\ HeardOnes \in SUBSET (1..MaxSent)
  BY DEF Used, HeardOnes
<1>5. IsFiniteSet(Used) /\ IsFiniteSet(HeardOnes)
  BY <1>3, <1>4, FS_Subset
<1> QED BY <1>3, <1>5, FS_CardinalityType

\* An unheard message finds a place.
LEMMA PlaceFound ==
    ASSUME MqttTypes, MaxSent <= MaxIncoming, SpaceInv, isconnected,
           NEW n \in 1..MaxSent, ~Heard(n)
    PROVE  FreeSlots # {}
<1> SUFFICES ASSUME FreeSlots = {} PROVE FALSE
  OBVIOUS
<1>1. Used = Incoming
  BY DEF FreeSlots, Used
<1>2. MaxIncoming <= Cardinality(HeardOnes) /\ Cardinality(HeardOnes) \in Nat /\ MaxSent \in Nat
  BY <1>1, Finite, SetupTypes DEF SpaceInv, MqttTypes
<1>3. HeardOnes \in SUBSET (1..MaxSent) /\ HeardOnes # 1..MaxSent
  BY DEF HeardOnes
<1>4. Cardinality(HeardOnes) < Cardinality(1..MaxSent)
  <2>1. /\ Cardinality(HeardOnes) <= Cardinality(1..MaxSent)
        /\ Cardinality(HeardOnes) = Cardinality(1..MaxSent) => HeardOnes = 1..MaxSent
    BY <1>3, Finite, FS_Subset
  <2> QED BY <1>2, <1>3, <2>1, Finite
<1> QED BY <1>2, <1>4, Finite, SizeAssumption

\* Nothing on the way but what was there.
LEMMA LessKeeps ==
    ASSUME MqttTypes, MqttTypes', OnceInv, TableInv, UNCHANGED <<setup, delivered>>, Pubs' \subseteq Pubs, Forgets,
           isconnected' => isconnected \/ GotAccept
    PROVE  OneEach' /\ NewInv' /\ SpaceInv' /\ (Used' # {} => Begun)
<1>1. Used' \subseteq Used /\ \A id : id # 0 /\ KnownId(id)' => KnownId(id)
  BY ForgetsKnown
<1>2. OneEach' /\ (Used' # {} => Begun)
  BY <1>1 DEF TableInv, OneEach, UsedInv
<1>3. HeardOnes' = HeardOnes /\ \A n : Heard(n)' <=> Heard(n)
  BY DEF HeardOnes, Heard, MaxSent
<1>4. CASE isconnected
  <2>1. NewInv'
    BY <1>1, <1>3, <1>4 DEF TableInv, NewInv, OnceInv, MessageInv
  <2>2. Cardinality(Used') <= Cardinality(Used)
    BY <1>1, Finite, FS_Subset
  <2>3. PICK n \in Nat : n = Cardinality(Used)
    BY Finite
  <2>4. PICK u \in Nat : u = Cardinality(Used')
    <3>1. Used' \in SUBSET Used
      BY <1>1
    <3>2. IsFiniteSet(Used')
      BY <3>1, Finite, FS_Subset
    <3> QED BY <3>2, FS_CardinalityType
  <2>5. PICK h \in Nat : h = Cardinality(HeardOnes)
    BY Finite
  <2>6. n <= h
    BY <1>4, <2>3, <2>5 DEF TableInv, SpaceInv
  <2>7. u <= h
    BY <2>2, <2>3, <2>4, <2>6
  <2> QED BY <1>2, <1>3, <2>1, <2>4, <2>5, <2>7 DEF SpaceInv
<1>5. CASE GotAccept
  <2>1. Pubs = {} /\ Used = {}
    BY <1>5 DEF OnceInv, BusyInv, Begun, Busy, TableInv, UsedInv
  <2>2. Cardinality(Used') = 0
    BY <1>1, <2>1, FS_EmptySet
  <2>3. NewInv'
    BY <2>1 DEF NewInv
  <2>4. 0 <= Cardinality(HeardOnes)
    <3>1. PICK h \in Nat : h = Cardinality(HeardOnes)
      BY Finite
    <3> QED BY <3>1
  <2> QED BY <1>2, <1>3, <2>2, <2>3, <2>4 DEF SpaceInv
<1>6. CASE ~isconnected'
  BY <1>2, <1>6 DEF NewInv, SpaceInv
<1> QED BY <1>4, <1>5, <1>6

LEMMA GivenKeeps ==
    ASSUME OnceInv, TableInv, isconnected' => isconnected \/ GotAccept,
           \A m \in b_out' : \E n \in b_out : n.pub = m.pub /\ (Given(m)' => Given(n)),
           \A m \in b_out : Heard(m.pub.msg) => Heard(m.pub.msg)'
    PROVE  GivenInv'
<1> SUFFICES ASSUME isconnected', NEW m \in b_out', Given(m)' PROVE Heard(m.pub.msg)'
  BY DEF GivenInv
<1>1. PICK n \in b_out : n.pub = m.pub /\ Given(n)
  OBVIOUS
<1>2. n.pub \in Pubs
  BY DEF Pubs
<1>3. isconnected
  BY <1>2 DEF OnceInv, BusyInv, Begun, Busy
<1>4. Heard(n.pub.msg)'
  BY <1>1, <1>3 DEF TableInv, GivenInv
<1> QED BY <1>1, <1>4 DEF Heard

\* An id nothing happens to.
LEMMA HandKeeps ==
    ASSUME c2s \in Seq(Packet), s2c \in Seq(Packet), NEW i, Hand(i),
           Idle(c2s, c2s', Recs(i) \cup Comps(i)), Idle(s2c, s2c', Rels(i) \cup Msgs(i)),
           KnownId(i)' => KnownId(i),
           \A m : m.pub.id = i => (m \in b_out' <=> m \in b_out)
    PROVE  Hand(i)'
<1>1. /\ Fresh(c2s, s2c, KnownId(i), i) => Fresh(c2s', s2c', KnownId(i)', i)
      /\ Sending(c2s, s2c, KnownId(i), i) => Sending(c2s', s2c', KnownId(i)', i)
      /\ Releasing(c2s, s2c, KnownId(i), i) => Releasing(c2s', s2c', KnownId(i)', i)
  BY IdleHand
<1> QED BY <1>1 DEF Hand

-----------------------------------------------------------------------------
(* The steps, as far as the table is concerned *)

Receipts   == {p \in Packet : p.type \in {"PUBREC", "PUBCOMP"}}
Deliveries == {p \in Packet : p.type \in {"PUBLISH", "PUBREL"}}

\* Nothing of the handshakes moves but what is read and needs no answer.
Rests ==
    /\ UNCHANGED <<b_out, delivered, up>> /\ Forgets
    /\ isconnected' => isconnected \/ GotAccept
    /\ Idle(c2s, c2s', Receipts) /\ Idle(s2c, s2c', Deliveries)

CutsOff ==
    /\ ~up' /\ b_out' = {} /\ Pubs' \subseteq Pubs
    /\ UNCHANGED <<isconnected, incomingQoS2messages, delivered>>

\* The client reads a message, and may answer it.
TakesMsg(p) ==
    /\ s2c # <<>> /\ p = Head(s2c) /\ p.type = "PUBLISH" /\ s2c' = Tail(s2c)
    /\ c2s' = c2s \/ \E e \in Recs(p.id) : c2s' = Append(c2s, e)
    /\ \/ ~KnownId(p.id) /\ FreeSlots # {} /\ Remember(p.id) /\ Deliver(p)
       \/ (KnownId(p.id) \/ FreeSlots = {}) /\ UNCHANGED <<incomingQoS2messages, delivered>>
    /\ UNCHANGED <<b_out, isconnected, up>>

\* It reads a PUBREL and answers that.
FreesId(p) ==
    /\ s2c # <<>> /\ p = Head(s2c) /\ p.type = "PUBREL" /\ s2c' = Tail(s2c)
    /\ IF up THEN \E e \in Comps(p.id) : c2s' = Append(c2s, e) ELSE c2s' = c2s
    /\ Forgets /\ (p.id # 0 => ~KnownId(p.id)')
    /\ UNCHANGED <<b_out, delivered, isconnected, up>>

\* The broker reads a PUBREC, or a PUBCOMP.
AcksMsg(p) ==
    /\ c2s # <<>> /\ p = Head(c2s) /\ p.type = "PUBREC" /\ c2s' = Tail(c2s)
    /\ \E e \in Rels(p.id) : s2c' = Append(s2c, e)
    /\ b_out' = {m \in b_out : m.pub.id # p.id}
                \cup {[m EXCEPT !.rel = TRUE] : m \in {n \in b_out : n.pub.id = p.id}}
    /\ UNCHANGED <<incomingQoS2messages, delivered, isconnected, up>>

DoneMsg(p) ==
    /\ c2s # <<>> /\ p = Head(c2s) /\ p.type = "PUBCOMP" /\ c2s' = Tail(c2s)
    /\ b_out' = {m \in b_out : m.pub.id # p.id \/ ~m.rel}
    /\ UNCHANGED <<s2c, incomingQoS2messages, delivered, isconnected, up>>

\* It sends a message, or what it sent before.
SendsMsg ==
    /\ \E p : Publishes(p)
    /\ up /\ UNCHANGED <<c2s, incomingQoS2messages, isconnected, up>>

SendsAgain(m) ==
    /\ m \in b_out
    /\ IF m.rel THEN \E e \in Rels(m.pub.id) : s2c' = Append(s2c, e) ELSE s2c' = Append(s2c, m.pub)
    /\ UNCHANGED <<b_out, c2s, incomingQoS2messages, delivered, isconnected, up>>

TableKept == HandInv' /\ OneEach' /\ NewInv' /\ SpaceInv' /\ GivenInv' /\ (Used' # {} => Begun)

-----------------------------------------------------------------------------

LEMMA Queues ==
    ASSUME MqttTypes
    PROVE  /\ c2s \in Seq(Packet) /\ s2c \in Seq(Packet)
           /\ \A m \in b_out : m.pub \in Packet /\ m.pub.id \in Ids /\ m.rel \in BOOLEAN /\ m.pub \in Pubs
<1>1. c2s \in Seq(Sendable) /\ Sendable \subseteq Packet
  BY DEF MqttTypes, NetTypes, Sendable
<1>2. c2s \in Seq(Packet)
  BY <1>1
<1> QED BY <1>2 DEF MqttTypes, NetTypes, BrokerTypes, Message, Packet, Pubs

LEMMA IdlePubs ==
    ASSUME MqttTypes, Idle(s2c, s2c', Deliveries), \A m \in b_out' : \E n \in b_out : n.pub = m.pub
    PROVE  Pubs' \subseteq Pubs
<1>0. s2c \in Seq(Packet) /\ {m.pub : m \in b_out'} \subseteq Pubs
  BY Queues DEF Pubs
<1>1. CASE s2c' = s2c
  BY <1>0, <1>1 DEF Pubs
<1>2. CASE s2c # <<>> /\ s2c' = Tail(s2c)
  <2>1. \A k \in 1..Len(s2c') : k + 1 \in 1..Len(s2c) /\ s2c'[k] = s2c[k + 1]
    BY <1>0, <1>2
  <2> QED BY <1>0, <2>1 DEF Pubs
<1>3. ASSUME NEW e \in Packet \ Deliveries, s2c' = Append(s2c, e) PROVE Pubs' \subseteq Pubs
  <2>1. Pubs' \subseteq Pubs \cup {m.pub : m \in b_out'} \cup {q \in {e} : q.type = "PUBLISH"}
    BY <1>0, <1>3, AppendAhead
  <2>2. e.type # "PUBLISH"
    BY <1>3 DEF Deliveries
  <2> QED BY <1>0, <2>1, <2>2
<1> QED BY <1>1, <1>2, <1>3 DEF Idle

LEMMA IdleLess ==
    ASSUME NEW q, NEW r
    PROVE  /\ Idle(q, r, Receipts) => \A i : Idle(q, r, Recs(i) \cup Comps(i))
           /\ Idle(q, r, Deliveries) => \A i : Idle(q, r, Rels(i) \cup Msgs(i))
<1>1. \A i : Recs(i) \cup Comps(i) \subseteq Receipts /\ Rels(i) \cup Msgs(i) \subseteq Deliveries
  BY DEF Recs, Comps, Rels, Msgs, Receipts, Deliveries
<1> QED BY <1>1 DEF Idle

\* Packets of another id.
LEMMA IdleOther ==
    ASSUME NEW q, NEW r, NEW i, NEW j, i # j
    PROVE  /\ (\E e \in Recs(j) \cup Comps(j) : r = Append(q, e)) => Idle(q, r, Recs(i) \cup Comps(i))
           /\ (\E e \in Rels(j) \cup Msgs(j) : r = Append(q, e)) => Idle(q, r, Rels(i) \cup Msgs(i))
  BY DEF Recs, Comps, Rels, Msgs, Idle

\* No PUBREC appears.
LEMMA NoRec ==
    ASSUME NEW q \in Seq(Packet), NEW r, NEW i,
           r = q \/ (q # <<>> /\ r = Tail(q)) \/ \E e \in Packet \ Recs(i) : r = Append(q, e),
           None(q, Recs(i))
    PROVE  None(r, Recs(i))
  BY Appended, Taken

LEMMA RestsKeeps ==
    ASSUME MqttTypes, MqttTypes', OnceInv, TableInv, UNCHANGED setup, Rests
    PROVE  TableKept
<1>1. c2s \in Seq(Packet) /\ s2c \in Seq(Packet)
  BY Queues
<1>2. /\ UNCHANGED <<b_out, delivered, up>> /\ Forgets
      /\ isconnected' => isconnected \/ GotAccept
      /\ Idle(c2s, c2s', Receipts) /\ Idle(s2c, s2c', Deliveries)
  BY DEF Rests
<1>3. Pubs' \subseteq Pubs
  BY <1>2, IdlePubs
<1>4. OneEach' /\ NewInv' /\ SpaceInv' /\ (Used' # {} => Begun)
  BY <1>2, <1>3, LessKeeps
<1>5. HandInv'
  <2> SUFFICES ASSUME up', NEW i \in Ids \ {0} PROVE Hand(i)'
    BY DEF HandInv
  <2>1. Hand(i)
    BY <1>2 DEF TableInv, HandInv
  <2>2. Idle(c2s, c2s', Recs(i) \cup Comps(i)) /\ Idle(s2c, s2c', Rels(i) \cup Msgs(i))
    BY <1>2, IdleLess
  <2>3. KnownId(i)' => KnownId(i)
    BY <1>2, ForgetsKnown
  <2> QED BY <1>1, <1>2, <2>1, <2>2, <2>3, HandKeeps
<1>6. GivenInv'
  <2>1. ASSUME NEW m \in b_out, Given(m)' PROVE Given(m)
    <3>1. CASE m.rel
      BY <3>1 DEF Given
    <3>2. CASE ~m.rel
      <4>1. ~None(c2s', Recs(m.pub.id))
        BY <2>1, <3>2 DEF Given
      <4>2. Recs(m.pub.id) \subseteq Receipts
        BY DEF Recs, Receipts
      <4>3. ~None(c2s, Recs(m.pub.id))
        BY <1>1, <1>2, <4>1, <4>2, NoRec DEF Idle
      <4> QED BY <4>3 DEF Given
    <3> QED BY <3>1, <3>2
  <2>2. \A m \in b_out' : \E n \in b_out : n.pub = m.pub /\ (Given(m)' => Given(n))
    BY <1>2, <2>1
  <2> QED BY <1>2, <2>2, GivenKeeps DEF Heard
<1> QED BY <1>4, <1>5, <1>6 DEF TableKept

LEMMA CutsOffKeeps ==
    ASSUME MqttTypes, MqttTypes', OnceInv, TableInv, UNCHANGED setup, CutsOff
    PROVE  TableKept
<1>1. /\ ~up' /\ b_out' = {} /\ Pubs' \subseteq Pubs
      /\ UNCHANGED <<isconnected, delivered>> /\ Forgets
  BY DEF CutsOff, Forgets
<1>2. OneEach' /\ NewInv' /\ SpaceInv' /\ (Used' # {} => Begun)
  BY <1>1, LessKeeps
<1> QED BY <1>1, <1>2 DEF TableKept, HandInv, GivenInv

LEMMA RemembersOne ==
    ASSUME SessionTypes, NEW id \in Ids, id # 0, FreeSlots # {}, Remember(id)
    PROVE  /\ \A q : q # id /\ q # 0 /\ KnownId(q)' => KnownId(q)
           /\ \E i \in Incoming : i \notin Used /\ Used' = Used \cup {i}
<1> DEFINE first == CHOOSE i \in FreeSlots : \A j \in FreeSlots : i <= j
<1>1. FreeSlots \subseteq Nat
  BY SizeAssumption DEF FreeSlots, Incoming
<1>2. first \in FreeSlots
  BY <1>1, Smallest
<1>3. first \in Incoming /\ incomingQoS2messages[first] = 0
  BY <1>2 DEF FreeSlots
<1>4. incomingQoS2messages' = [incomingQoS2messages EXCEPT ![first] = id]
  BY DEF Remember
<1> HIDE DEF first
<1>5. \A i \in Incoming : incomingQoS2messages'[i] = IF i = first THEN id ELSE incomingQoS2messages[i]
  BY <1>3, <1>4 DEF SessionTypes
<1>6. \A q : q # id /\ q # 0 /\ KnownId(q)' => KnownId(q)
  BY <1>5 DEF KnownId
<1>7. first \notin Used /\ Used' = Used \cup {first}
  BY <1>3, <1>5 DEF Used
<1> QED BY <1>3, <1>6, <1>7

LEMMA OneMore ==
    ASSUME MqttTypes, UNCHANGED setup, NEW i, i \notin Used, Used' = Used \cup {i},
           NEW n \in 1..MaxSent, ~Heard(n), Heard(n)', \A k \in 1..MaxSent : k # n => (Heard(k)' <=> Heard(k)),
           Cardinality(Used) <= Cardinality(HeardOnes)
    PROVE  Cardinality(Used') <= Cardinality(HeardOnes')
<1>1. n \notin HeardOnes /\ HeardOnes' = HeardOnes \cup {n}
  BY DEF HeardOnes, MaxSent
<1>2. Cardinality(Used') = Cardinality(Used) + 1
  BY Finite, FS_AddElement
<1>3. Cardinality(HeardOnes') = Cardinality(HeardOnes) + 1
  BY <1>1, Finite, FS_AddElement
<1>4. PICK u \in Nat : u = Cardinality(Used)
  BY Finite
<1>5. PICK h \in Nat : h = Cardinality(HeardOnes)
  BY Finite
<1>6. u + 1 <= h + 1
  BY <1>4, <1>5
<1> QED BY <1>2, <1>3, <1>4, <1>5, <1>6

LEMMA TakesMsgKeeps ==
    ASSUME MqttTypes, OnceInv, TableInv, UNCHANGED setup, MaxSent <= MaxIncoming,
           NEW p, TakesMsg(p), isconnected /\ ~Heard(p.msg) => HandlerFor(p.topic)
    PROVE  TableKept
<1>1. c2s \in Seq(Packet) /\ s2c \in Seq(Packet) /\ SessionTypes /\ MaxSent \in Nat /\ sent \in 0..MaxSent
  BY Queues, SetupTypes DEF MqttTypes, CountTypes
<1>2. /\ s2c # <<>> /\ p = Head(s2c) /\ p.type = "PUBLISH" /\ s2c' = Tail(s2c)
      /\ UNCHANGED <<b_out, isconnected, up>>
  BY DEF TakesMsg
<1>3. p \in Packet /\ p = s2c[1] /\ 1 \in 1..Len(s2c)
  BY <1>1, <1>2
<1>4. p \in Pubs /\ Ahead(p, 0)
  BY <1>2, <1>3 DEF Pubs, Ahead
<1>5. p.id \in Ids /\ p.id # 0 /\ p.topic \in Topics /\ p.msg \in 1..MaxSent /\ p \in Msgs(p.id)
  <2>1. p.id # 0 /\ p.topic \in Topics /\ p.msg \in 1..sent
    BY <1>4 DEF OnceInv, MessageInv
  <2>2. p.id \in Ids /\ p \in Msgs(p.id)
    BY <1>2, <1>3 DEF Packet, Msgs
  <2> QED BY <1>1, <2>1, <2>2
<1>6. Pubs' \subseteq Pubs
  BY <1>1, <1>2, IdlePubs DEF Idle
<1>7. /\ \A n \in 1..MaxSent : Heard(n) => Heard(n)'
      /\ \A n \in 1..MaxSent : n # p.msg => (Heard(n)' <=> Heard(n))
      /\ isconnected => Heard(p.msg)'
      /\ \A q : q # p.id /\ q # 0 /\ KnownId(q)' => KnownId(q)
      /\ SpaceInv'
  <2>1. CASE ~KnownId(p.id) /\ FreeSlots # {} /\ Remember(p.id) /\ Deliver(p)
    <3>1. /\ \A n \in 1..MaxSent : delivered[n] > 0 => delivered'[n] > 0
          /\ HandlerFor(p.topic) => delivered'[p.msg] > 0
      BY <1>3, <1>5, <2>1, DeliverTells
    <3>2. \A n \in 1..MaxSent : n # p.msg => delivered'[n] = delivered[n]
      BY <1>3, <1>5, <2>1, DeliverHears
    <3>3. isconnected => ~Heard(p.msg)
      BY <1>4, <2>1 DEF OnceInv, KnownInv, Again
    <3>4. /\ \A n \in 1..MaxSent : Heard(n) => Heard(n)'
          /\ \A n \in 1..MaxSent : n # p.msg => (Heard(n)' <=> Heard(n))
          /\ isconnected => Heard(p.msg)'
      BY <1>5, <3>1, <3>2, <3>3 DEF Heard
    <3>5. /\ \A q : q # p.id /\ q # 0 /\ KnownId(q)' => KnownId(q)
          /\ \E i \in Incoming : i \notin Used /\ Used' = Used \cup {i}
      BY <1>1, <1>5, <2>1, RemembersOne
    <3>6. SpaceInv'
      <4> SUFFICES ASSUME isconnected PROVE Cardinality(Used') <= Cardinality(HeardOnes')
        BY <1>2 DEF SpaceInv
      <4>1. PICK i : i \notin Used /\ Used' = Used \cup {i}
        BY <3>5
      <4>2. Cardinality(Used) <= Cardinality(HeardOnes)
        BY DEF TableInv, SpaceInv
      <4> QED BY <1>5, <3>3, <3>4, <4>1, <4>2, OneMore
    <3> QED BY <3>4, <3>5, <3>6
  <2>2. CASE (KnownId(p.id) \/ FreeSlots = {}) /\ UNCHANGED <<incomingQoS2messages, delivered>>
    <3>1. isconnected => Heard(p.msg)
      <4> SUFFICES ASSUME isconnected, ~Heard(p.msg) PROVE FALSE
        OBVIOUS
      <4>1. ~KnownId(p.id)
        BY <1>4 DEF TableInv, NewInv
      <4>2. FreeSlots # {}
        BY <1>5, PlaceFound DEF TableInv
      <4> QED BY <2>2, <4>1, <4>2
    <3>2. \A n : Heard(n)' <=> Heard(n)
      BY <2>2 DEF Heard
    <3>3. UNCHANGED <<Used, HeardOnes>>
      BY <2>2 DEF Used, HeardOnes, Heard, MaxSent
    <3>4. SpaceInv'
      BY <1>2, <3>3 DEF TableInv, SpaceInv
    <3>5. \A q : KnownId(q)' <=> KnownId(q)
      BY <2>2 DEF KnownId
    <3> QED BY <3>1, <3>2, <3>4, <3>5
  <2> QED BY <2>1, <2>2 DEF TakesMsg
<1>8. OneEach' /\ (Used' # {} => Begun)
  BY <1>4, <1>6 DEF TableInv, OneEach, OnceInv, BusyInv, Busy
<1>9. NewInv'
  <2> SUFFICES ASSUME isconnected, NEW q \in Pubs', ~Heard(q.msg)', KnownId(q.id)' PROVE FALSE
    BY <1>2 DEF NewInv
  <2>1. q # p /\ q \in Pubs
    BY <1>6, <1>7
  <2>2. q.id # p.id /\ q.id # 0 /\ q.msg \in 1..MaxSent
    BY <1>1, <1>4, <2>1 DEF TableInv, OneEach, OnceInv, MessageInv
  <2>3. ~Heard(q.msg)
    <3>1. PICK n \in 1..MaxSent : n = q.msg
      BY <2>2
    <3> QED BY <1>7, <3>1
  <2> QED BY <1>7, <2>1, <2>2, <2>3 DEF TableInv, NewInv
<1>10. HandInv'
  <2> SUFFICES ASSUME up', NEW i \in Ids \ {0} PROVE Hand(i)'
    BY DEF HandInv
  <2>1. Hand(i)
    BY <1>2 DEF TableInv, HandInv
  <2>2. c2s' = c2s \/ \E e \in Recs(p.id) : c2s' = Append(c2s, e)
    BY DEF TakesMsg
  <2>3. CASE i = p.id
    <3>1. /\ ~Fresh(c2s, s2c, KnownId(i), i)
          /\ Sending(c2s, s2c, KnownId(i), i) => Sending(c2s', Tail(s2c), KnownId(i)', i)
          /\ Releasing(c2s, s2c, KnownId(i), i) => Releasing(c2s', Tail(s2c), KnownId(i)', i)
      BY <1>1, <1>2, <1>5, <2>2, <2>3, TakesHand
    <3> QED BY <1>2, <2>1, <3>1 DEF Hand
  <2>4. CASE i # p.id
    <3>1. Idle(c2s, c2s', Recs(i) \cup Comps(i))
      <4>1. CASE c2s' = c2s
        BY <4>1 DEF Idle
      <4>2. CASE \E e \in Recs(p.id) : c2s' = Append(c2s, e)
        BY <2>4, <4>2, IdleOther
      <4> QED BY <2>2, <4>1, <4>2
    <3>2. Idle(s2c, s2c', Rels(i) \cup Msgs(i))
      BY <1>2 DEF Idle
    <3>3. KnownId(i)' => KnownId(i)
      BY <1>7, <2>4
    <3> QED BY <1>1, <1>2, <2>1, <3>1, <3>2, <3>3, HandKeeps
  <2> QED BY <2>3, <2>4
<1>11. GivenInv'
  <2> SUFFICES ASSUME isconnected, NEW m \in b_out, Given(m)' PROVE Heard(m.pub.msg)'
    BY <1>2 DEF GivenInv
  <2>1. m.pub \in Pubs /\ m.pub.msg \in 1..MaxSent
    BY <1>1, Queues DEF OnceInv, MessageInv
  <2>2. CASE m.pub.id = p.id
    <3>1. m.pub = p
      BY <1>4, <2>1, <2>2 DEF TableInv, OneEach
    <3> QED BY <1>7, <3>1
  <2>3. CASE m.pub.id # p.id
    <3>1. None(c2s, Recs(m.pub.id)) => None(c2s', Recs(m.pub.id))
      <4>1. c2s' = c2s \/ \E e \in Packet \ Recs(m.pub.id) : c2s' = Append(c2s, e)
        BY <2>3 DEF TakesMsg, Recs
      <4> QED BY <1>1, <4>1, NoRec
    <3>2. Given(m)
      BY <3>1 DEF Given
    <3>3. Heard(m.pub.msg)
      BY <3>2 DEF TableInv, GivenInv
    <3>4. PICK n \in 1..MaxSent : n = m.pub.msg
      BY <2>1
    <3> QED BY <1>7, <3>3, <3>4
  <2> QED BY <2>2, <2>3
<1> QED BY <1>7, <1>8, <1>9, <1>10, <1>11 DEF TableKept

LEMMA FreesIdKeeps ==
    ASSUME MqttTypes, MqttTypes', OnceInv, TableInv, UNCHANGED setup, NEW p, FreesId(p)
    PROVE  TableKept
<1>1. c2s \in Seq(Packet) /\ s2c \in Seq(Packet)
  BY Queues
<1>2. /\ s2c # <<>> /\ p = Head(s2c) /\ p.type = "PUBREL" /\ s2c' = Tail(s2c)
      /\ IF up THEN \E e \in Comps(p.id) : c2s' = Append(c2s, e) ELSE c2s' = c2s
      /\ Forgets /\ (p.id # 0 => ~KnownId(p.id)')
      /\ UNCHANGED <<b_out, delivered, isconnected, up>>
  BY DEF FreesId
<1>3. p \in Packet /\ p \in Rels(p.id)
  BY <1>1, <1>2 DEF Rels
<1>4. Pubs' \subseteq Pubs
  BY <1>1, <1>2, IdlePubs DEF Idle
<1>5. OneEach' /\ NewInv' /\ SpaceInv' /\ (Used' # {} => Begun)
  BY <1>2, <1>4, LessKeeps
<1>6. HandInv'
  <2> SUFFICES ASSUME up', NEW i \in Ids \ {0} PROVE Hand(i)'
    BY DEF HandInv
  <2>1. Hand(i)
    BY <1>2 DEF TableInv, HandInv
  <2>2. PICK e \in Comps(p.id) : c2s' = Append(c2s, e)
    BY <1>2
  <2>3. CASE i = p.id
    <3>1. /\ Fresh(c2s, s2c, KnownId(i), i) => Fresh(Append(c2s, e), Tail(s2c), FALSE, i)
          /\ Sending(c2s, s2c, KnownId(i), i) => Sending(Append(c2s, e), Tail(s2c), FALSE, i)
          /\ Releasing(c2s, s2c, KnownId(i), i) => Releasing(Append(c2s, e), Tail(s2c), FALSE, i)
      BY <1>1, <1>2, <1>3, <2>3, FreesHand
    <3>2. KnownId(i)' = FALSE
      BY <1>2, <2>3 DEF KnownId
    <3> QED BY <1>2, <2>1, <2>2, <3>1, <3>2 DEF Hand
  <2>4. CASE i # p.id
    <3>1. Idle(c2s, c2s', Recs(i) \cup Comps(i))
      BY <2>2, <2>4, IdleOther
    <3>2. Idle(s2c, s2c', Rels(i) \cup Msgs(i))
      BY <1>2 DEF Idle
    <3>3. KnownId(i)' => KnownId(i)
      BY <1>2, ForgetsKnown
    <3> QED BY <1>1, <1>2, <2>1, <3>1, <3>2, <3>3, HandKeeps
  <2> QED BY <2>3, <2>4
<1>7. GivenInv'
  <2>1. ASSUME NEW m \in b_out, Given(m)' PROVE Given(m)
    <3>1. c2s' = c2s \/ \E e \in Packet \ Recs(m.pub.id) : c2s' = Append(c2s, e)
      BY <1>2 DEF Comps, Recs
    <3>2. None(c2s, Recs(m.pub.id)) => None(c2s', Recs(m.pub.id))
      BY <1>1, <3>1, NoRec
    <3> QED BY <2>1, <3>2 DEF Given
  <2>2. \A m \in b_out' : \E n \in b_out : n.pub = m.pub /\ (Given(m)' => Given(n))
    BY <1>2, <2>1
  <2> QED BY <1>2, <2>2, GivenKeeps DEF Heard
<1> QED BY <1>5, <1>6, <1>7 DEF TableKept

LEMMA AcksMsgKeeps ==
    ASSUME MqttTypes, MqttTypes', OnceInv, TableInv, UNCHANGED setup, NEW p, AcksMsg(p)
    PROVE  TableKept
<1>1. c2s \in Seq(Packet) /\ s2c \in Seq(Packet)
  BY Queues
<1> DEFINE mine == {n \in b_out : n.pub.id = p.id}
<1>2. /\ c2s # <<>> /\ p = Head(c2s) /\ p.type = "PUBREC" /\ c2s' = Tail(c2s)
      /\ \E e \in Rels(p.id) : s2c' = Append(s2c, e)
      /\ b_out' = {m \in b_out : m.pub.id # p.id} \cup {[m EXCEPT !.rel = TRUE] : m \in mine}
      /\ UNCHANGED <<incomingQoS2messages, delivered, isconnected, up>>
  BY DEF AcksMsg
<1>3. p \in Packet /\ p \in Recs(p.id)
  BY <1>1, <1>2 DEF Recs
<1>4. \A m \in b_out : [m EXCEPT !.rel = TRUE].pub = m.pub /\ [m EXCEPT !.rel = TRUE].rel = TRUE
  BY DEF MqttTypes, BrokerTypes
<1>5. /\ \A m \in b_out' : m.pub.id = p.id => m.rel /\ \E n \in b_out : n.pub = m.pub
      /\ \A m : m.pub.id # p.id => (m \in b_out' <=> m \in b_out)
      /\ (\E m \in b_out : m.pub.id = p.id) => \E m \in b_out' : m.pub.id = p.id
  BY <1>2, <1>4
<1> HIDE DEF mine
<1>6. PICK e \in Rels(p.id) : s2c' = Append(s2c, e)
  BY <1>2
<1>7. Pubs' \subseteq Pubs
  <2>1. \A m \in b_out' : \E n \in b_out : n.pub = m.pub
    BY <1>5
  <2>2. Pubs' \subseteq Pubs \cup {m.pub : m \in b_out'} \cup {q \in {e} : q.type = "PUBLISH"}
    BY <1>1, <1>6, AppendAhead DEF Rels
  <2>3. e.type # "PUBLISH"
    BY DEF Rels
  <2> QED BY <2>1, <2>2, <2>3 DEF Pubs
<1>8. Forgets
  BY <1>2 DEF Forgets
<1>9. OneEach' /\ NewInv' /\ SpaceInv' /\ (Used' # {} => Begun)
  BY <1>2, <1>7, <1>8, LessKeeps
<1>10. HandInv'
  <2> SUFFICES ASSUME up', NEW i \in Ids \ {0} PROVE Hand(i)'
    BY DEF HandInv
  <2>1. Hand(i)
    BY <1>2 DEF TableInv, HandInv
  <2>2. KnownId(i)' = KnownId(i)
    BY <1>2 DEF KnownId
  <2>3. CASE i = p.id
    <3>1. /\ ~Fresh(c2s, s2c, KnownId(i), i)
          /\ Sending(c2s, s2c, KnownId(i), i) => Releasing(Tail(c2s), Append(s2c, e), KnownId(i), i)
          /\ Releasing(c2s, s2c, KnownId(i), i) => Releasing(Tail(c2s), Append(s2c, e), KnownId(i), i)
      BY <1>1, <1>2, <1>3, <2>3, AcksHand
    <3>2. \E m \in b_out : m.pub.id = i
      BY <2>1, <3>1 DEF Hand
    <3>3. Releasing(c2s', s2c', KnownId(i)', i)
      BY <1>2, <1>6, <2>1, <2>2, <3>1, <3>2 DEF Hand
    <3> QED BY <1>5, <2>3, <3>2, <3>3 DEF Hand
  <2>4. CASE i # p.id
    <3>1. Idle(s2c, s2c', Rels(i) \cup Msgs(i))
      BY <1>6, <2>4, IdleOther
    <3>2. Idle(c2s, c2s', Recs(i) \cup Comps(i))
      BY <1>2 DEF Idle
    <3>3. \A m : m.pub.id = i => (m \in b_out' <=> m \in b_out)
      BY <1>5, <2>4
    <3> QED BY <1>1, <2>1, <2>2, <3>1, <3>2, <3>3, HandKeeps
  <2> QED BY <2>3, <2>4
<1>11. GivenInv'
  <2>1. ~None(c2s, Recs(p.id))
    BY <1>1, <1>2, <1>3, Taken
  <2>2. ASSUME NEW m \in b_out' PROVE \E n \in b_out : n.pub = m.pub /\ (Given(m)' => Given(n))
    <3>1. CASE m.pub.id = p.id
      BY <1>5, <2>1, <3>1 DEF Given
    <3>2. CASE m.pub.id # p.id
      <4>1. m \in b_out
        BY <1>5, <3>2
      <4>2. None(c2s, Recs(m.pub.id)) => None(c2s', Recs(m.pub.id))
        BY <1>1, <1>2, NoRec
      <4> QED BY <4>1, <4>2 DEF Given
    <3> QED BY <3>1, <3>2
  <2> QED BY <1>2, <2>2, GivenKeeps DEF Heard
<1> QED BY <1>9, <1>10, <1>11 DEF TableKept

LEMMA DoneMsgKeeps ==
    ASSUME MqttTypes, MqttTypes', OnceInv, TableInv, UNCHANGED setup, NEW p, DoneMsg(p)
    PROVE  TableKept
<1>1. c2s \in Seq(Packet) /\ s2c \in Seq(Packet)
  BY Queues
<1>2. /\ c2s # <<>> /\ p = Head(c2s) /\ p.type = "PUBCOMP" /\ c2s' = Tail(c2s)
      /\ b_out' = {m \in b_out : m.pub.id # p.id \/ ~m.rel}
      /\ UNCHANGED <<s2c, incomingQoS2messages, delivered, isconnected, up>>
  BY DEF DoneMsg
<1>3. p \in Packet /\ p \in Comps(p.id)
  BY <1>1, <1>2 DEF Comps
<1>4. Pubs' \subseteq Pubs /\ Forgets
  BY <1>2 DEF Pubs, Forgets
<1>5. OneEach' /\ NewInv' /\ SpaceInv' /\ (Used' # {} => Begun)
  BY <1>2, <1>4, LessKeeps
<1>6. HandInv'
  <2> SUFFICES ASSUME up', NEW i \in Ids \ {0} PROVE Hand(i)'
    BY DEF HandInv
  <2>1. Hand(i)
    BY <1>2 DEF TableInv, HandInv
  <2>2. KnownId(i)' = KnownId(i)
    BY <1>2 DEF KnownId
  <2>3. CASE i = p.id /\ \E m \in b_out : m.pub.id = i /\ m.rel
    <3>1. Releasing(c2s, s2c, KnownId(i), i)
      BY <2>1, <2>3 DEF Hand
    <3>2. Fresh(Tail(c2s), s2c, KnownId(i), i)
      BY <1>1, <1>2, <1>3, <2>3, <3>1, DoneHand
    <3>3. \A m \in b_out' : m.pub.id # i
      BY <1>2, <2>3 DEF OnceInv, MessageInv
    <3> QED BY <1>2, <2>2, <3>2, <3>3 DEF Hand
  <2>4. CASE ~(i = p.id /\ \E m \in b_out : m.pub.id = i /\ m.rel)
    <3>1. Idle(c2s, c2s', Recs(i) \cup Comps(i)) /\ Idle(s2c, s2c', Rels(i) \cup Msgs(i))
      BY <1>2 DEF Idle
    <3>2. \A m : m.pub.id = i => (m \in b_out' <=> m \in b_out)
      BY <1>2, <2>4
    <3> QED BY <1>1, <2>1, <2>2, <3>1, <3>2, HandKeeps
  <2> QED BY <2>3, <2>4
<1>7. GivenInv'
  <2>1. ASSUME NEW m \in b_out' PROVE m \in b_out /\ (Given(m)' => Given(m))
    <3>1. m \in b_out
      BY <1>2
    <3>2. None(c2s, Recs(m.pub.id)) => None(c2s', Recs(m.pub.id))
      BY <1>1, <1>2, NoRec
    <3> QED BY <3>1, <3>2 DEF Given
  <2> QED BY <1>2, <2>1, GivenKeeps DEF Heard
<1> QED BY <1>5, <1>6, <1>7 DEF TableKept

LEMMA SendsMsgKeeps ==
    ASSUME MqttTypes, MqttTypes', OnceInv, TableInv, UNCHANGED setup, SendsMsg
    PROVE  TableKept
<1>1. c2s \in Seq(Packet) /\ s2c \in Seq(Packet)
  BY Queues
<1>2. PICK p : Publishes(p)
  BY DEF SendsMsg
<1>3. /\ up /\ UNCHANGED <<c2s, incomingQoS2messages, isconnected, up, delivered>>
      /\ p \in Packet /\ p.type = "PUBLISH" /\ p.id \in Ids /\ p.id # 0 /\ p \in Msgs(p.id)
      /\ s2c' = Append(s2c, p) /\ b_out' = b_out \cup {[pub |-> p, rel |-> FALSE]}
      /\ \A m \in b_out : m.pub.id # p.id
  BY <1>2 DEF SendsMsg, Publishes, Message, Packet, Msgs
<1>4. Fresh(c2s, s2c, KnownId(p.id), p.id)
  BY <1>3 DEF TableInv, HandInv, Hand
<1>5. Pubs' \subseteq Pubs \cup {p}
  <2>1. Pubs' \subseteq Pubs \cup {m.pub : m \in b_out'} \cup {q \in {p} : q.type = "PUBLISH"}
    BY <1>1, <1>3, AppendAhead
  <2> QED BY <1>3, <2>1 DEF Pubs
<1>6. \A q \in Pubs : q.id # p.id
  <2>1. \A k \in 1..Len(s2c) : s2c[k].type = "PUBLISH" => s2c[k].id # p.id
    <3>1. \A k \in 1..Len(s2c) : s2c[k] \in Packet
      BY <1>1
    <3> QED BY <1>4, <3>1 DEF Fresh, None, Msgs
  <2> QED BY <1>3, <2>1 DEF Pubs
<1>7. \A q : KnownId(q)' = KnownId(q)
  BY <1>3 DEF KnownId
<1>8. UNCHANGED <<Used, HeardOnes>> /\ \A n : Heard(n)' <=> Heard(n)
  BY <1>3 DEF Used, HeardOnes, Heard, MaxSent
<1>9. OneEach'
  BY <1>5, <1>6 DEF TableInv, OneEach
<1>10. NewInv'
  BY <1>3, <1>4, <1>5, <1>7, <1>8 DEF TableInv, NewInv, Fresh
<1>11. SpaceInv' /\ (Used' # {} => Begun)
  BY <1>3, <1>8 DEF TableInv, SpaceInv, UsedInv
<1>12. HandInv'
  <2> SUFFICES ASSUME NEW i \in Ids \ {0} PROVE Hand(i)'
    BY DEF HandInv
  <2>1. Hand(i)
    BY <1>3 DEF TableInv, HandInv
  <2>2. CASE i = p.id
    <3>1. Sending(c2s, s2c, KnownId(i), i)
      BY <1>4, <2>2, FreshSends
    <3>2. Sending(c2s, Append(s2c, p), KnownId(i), i)
      BY <1>1, <1>3, <2>2, <3>1, SendsHand
    <3>3. Sending(c2s', s2c', KnownId(i)', i)
      BY <1>3, <1>7, <3>2
    <3>4. \A m \in b_out' : m.pub.id = i => m = [pub |-> p, rel |-> FALSE]
      BY <1>3, <2>2
    <3>5. [pub |-> p, rel |-> FALSE] \in b_out' /\ [pub |-> p, rel |-> FALSE].pub.id = i
      BY <1>3, <2>2
    <3> QED BY <3>3, <3>4, <3>5 DEF Hand
  <2>3. CASE i # p.id
    <3>1. Idle(s2c, s2c', Rels(i) \cup Msgs(i))
      BY <1>3, <2>3, IdleOther
    <3>2. Idle(c2s, c2s', Recs(i) \cup Comps(i))
      BY <1>3 DEF Idle
    <3>3. \A m : m.pub.id = i => (m \in b_out' <=> m \in b_out)
      BY <1>3, <2>3
    <3> QED BY <1>1, <1>7, <2>1, <3>1, <3>2, <3>3, HandKeeps
  <2> QED BY <2>2, <2>3
<1>13. GivenInv'
  <2> SUFFICES ASSUME isconnected, NEW m \in b_out', Given(m)' PROVE Heard(m.pub.msg)
    BY <1>3, <1>8 DEF GivenInv
  <2>1. CASE m \in b_out
    <3>1. Given(m)
      BY <1>3 DEF Given
    <3> QED BY <2>1, <3>1 DEF TableInv, GivenInv
  <2>2. CASE m = [pub |-> p, rel |-> FALSE]
    <3>1. None(c2s, Recs(p.id))
      BY <1>4 DEF Fresh
    <3> QED BY <1>3, <2>2, <3>1 DEF Given
  <2> QED BY <1>3, <2>1, <2>2
<1> QED BY <1>9, <1>10, <1>11, <1>12, <1>13 DEF TableKept

LEMMA SendsAgainKeeps ==
    ASSUME MqttTypes, MqttTypes', OnceInv, TableInv, UNCHANGED setup, NEW m, SendsAgain(m)
    PROVE  TableKept
<1>1. c2s \in Seq(Packet) /\ s2c \in Seq(Packet)
  BY Queues
<1>2. /\ m \in b_out
      /\ IF m.rel THEN \E e \in Rels(m.pub.id) : s2c' = Append(s2c, e) ELSE s2c' = Append(s2c, m.pub)
      /\ UNCHANGED <<b_out, c2s, incomingQoS2messages, delivered, isconnected, up>>
  BY DEF SendsAgain
<1>3. m.pub \in Packet /\ m.pub.type = "PUBLISH" /\ m.pub \in Msgs(m.pub.id) /\ m.pub \in Pubs
  BY <1>2, Queues DEF OnceInv, MessageInv, Msgs
<1>4. PICK e \in Packet : /\ s2c' = Append(s2c, e)
                          /\ IF m.rel THEN e \in Rels(m.pub.id) ELSE e = m.pub
  BY <1>2, <1>3 DEF Rels
<1>5. Pubs' \subseteq Pubs /\ Forgets
  <2>1. Pubs' \subseteq Pubs \cup {n.pub : n \in b_out'} \cup {q \in {e} : q.type = "PUBLISH"}
    BY <1>1, <1>4, AppendAhead
  <2>2. {n.pub : n \in b_out'} \subseteq Pubs
    BY <1>2 DEF Pubs
  <2>3. e.type = "PUBLISH" => e \in Pubs
    BY <1>3, <1>4 DEF Rels
  <2> QED BY <1>2, <2>1, <2>2, <2>3 DEF Forgets
<1>6. OneEach' /\ NewInv' /\ SpaceInv' /\ (Used' # {} => Begun)
  BY <1>2, <1>5, LessKeeps
<1>7. HandInv'
  <2> SUFFICES ASSUME up', NEW i \in Ids \ {0} PROVE Hand(i)'
    BY DEF HandInv
  <2>1. Hand(i) /\ KnownId(i)' = KnownId(i)
    BY <1>2 DEF TableInv, HandInv, KnownId
  <2>2. CASE i = m.pub.id
    <3>1. \A n \in b_out : n.pub.id = i => n = m
      BY <1>2, <2>2 DEF OnceInv, MessageInv
    <3>2. CASE m.rel
      <4>1. Releasing(c2s, s2c, KnownId(i), i) /\ e \in Rels(i)
        BY <1>2, <1>4, <2>1, <2>2, <3>2 DEF Hand
      <4>2. Releasing(c2s, Append(s2c, e), KnownId(i), i)
        BY <1>1, <4>1, ReleasesHand
      <4> QED BY <1>2, <1>4, <2>1, <2>2, <3>1, <3>2, <4>2 DEF Hand
    <3>3. CASE ~m.rel
      <4>1. Sending(c2s, s2c, KnownId(i), i) /\ e \in Msgs(i)
        BY <1>2, <1>3, <1>4, <2>1, <2>2, <3>3 DEF Hand
      <4>2. Sending(c2s, Append(s2c, e), KnownId(i), i)
        BY <1>1, <4>1, SendsHand
      <4> QED BY <1>2, <1>4, <2>1, <2>2, <3>1, <3>3, <4>2 DEF Hand
    <3> QED BY <3>2, <3>3
  <2>3. CASE i # m.pub.id
    <3>1. e \in Rels(m.pub.id) \cup Msgs(m.pub.id)
      BY <1>3, <1>4
    <3>2. Idle(s2c, s2c', Rels(i) \cup Msgs(i))
      BY <1>4, <2>3, <3>1, IdleOther
    <3>3. Idle(c2s, c2s', Recs(i) \cup Comps(i))
      BY <1>2 DEF Idle
    <3> QED BY <1>1, <1>2, <2>1, <3>2, <3>3, HandKeeps
  <2> QED BY <2>2, <2>3
<1>8. GivenInv'
  <2>1. \A n \in b_out : Given(n)' => Given(n)
    BY <1>2 DEF Given
  <2>2. \A n \in b_out' : \E k \in b_out : k.pub = n.pub /\ (Given(n)' => Given(k))
    BY <1>2, <2>1
  <2> QED BY <1>2, <2>2, GivenKeeps DEF Heard
<1> QED BY <1>6, <1>7, <1>8 DEF TableKept

LEMMA TableStepKeeps ==
    ASSUME MqttTypes, MqttTypes', OnceInv, TableInv, UNCHANGED setup, MaxSent <= MaxIncoming,
           \/ \E p : TakesMsg(p) /\ (isconnected /\ ~Heard(p.msg) => HandlerFor(p.topic))
           \/ Rests \/ CutsOff \/ SendsMsg
           \/ \E p : FreesId(p) \/ AcksMsg(p) \/ DoneMsg(p) \/ SendsAgain(p)
    PROVE  TableKept
<1>1. CASE Rests \/ CutsOff \/ SendsMsg
  BY <1>1, RestsKeeps, CutsOffKeeps, SendsMsgKeeps
<1>2. ASSUME NEW p, TakesMsg(p), isconnected /\ ~Heard(p.msg) => HandlerFor(p.topic) PROVE TableKept
  BY <1>2, TakesMsgKeeps
<1>3. ASSUME NEW p, FreesId(p) \/ AcksMsg(p) \/ DoneMsg(p) \/ SendsAgain(p) PROVE TableKept
  BY <1>3, FreesIdKeeps, AcksMsgKeeps, DoneMsgKeeps, SendsAgainKeeps
<1> QED BY <1>1, <1>2, <1>3

-----------------------------------------------------------------------------
(* Every action is one of these steps *)

\* What the client sends when it does not answer a message or a PUBREL.
Plainly == Idle(c2s, c2s', Receipts)

LEMMA SentPlainly ==
    ASSUME NEW p \in Packet, p.type \notin {"PUBREC", "PUBCOMP"}, Sent(p)
    PROVE  Plainly
  BY DEF Sent, Plainly, Idle, Receipts

LEMMA UnsentPlainly == SendFails \/ UNCHANGED c2s => Plainly
  BY DEF SendFails, Plainly, Idle

LEMMA PingPlainly == \A s, r, o : Keepalive(s, r, o) => Plainly
<1>1. Ack("PINGREQ", 0, 0) \in Packet /\ Ack("PINGREQ", 0, 0).type = "PINGREQ"
  <2>1. Ack("PINGREQ", 0, 0) \in Packet
    BY AckTyped, NoneTyped
  <2> QED BY <2>1 DEF Ack
<1>2. Sent(Ack("PINGREQ", 0, 0)) => Plainly
  BY <1>1, SentPlainly
<1> QED BY <1>2, UnsentPlainly, Zenon DEF Keepalive

LEMMA CleanForgets == CleanUp => Forgets /\ ~isconnected'
  BY DEF CleanUp, Forgets, NoIncoming

\* The client does something else than read.
LEMMA CallRests ==
    ASSUME UNCHANGED <<s2c, b_out, delivered, up>>, Plainly,
           CleanUp \/ (UNCHANGED incomingQoS2messages /\ (isconnected' => isconnected \/ GotAccept))
    PROVE  Rests
<1>1. Forgets /\ (isconnected' => isconnected \/ GotAccept)
  BY CleanForgets DEF Forgets
<1> QED BY <1>1 DEF Rests, Plainly, Idle

LEMMA AskRests ==
    ASSUME MqttTypes, NEW op, NEW type \in {"SUBSCRIBE", "UNSUBSCRIBE"}, NEW answer,
           NEW t \in Topics, NEW q \in 0..2, AskFor(op, type, answer, t, q)
    PROVE  Rests
<1> DEFINE p == Request(type, packetid', t, q)
<1>1. packetid' \in Ids
  BY NextIdTyped DEF AskFor, MqttTypes, CountTypes
<1>2. p \in Sendable /\ p.type = type
  BY <1>1, RequestTyped DEF Request
<1>3. p \in Packet
  BY <1>2 DEF Sendable
<1>4. /\ UNCHANGED <<up, s2c, broker, history>>
      /\ \/ Sent(p) /\ UNCHANGED session
         \/ CleanUp /\ (SendFails \/ UNCHANGED c2s)
  BY DEF AskFor
<1> HIDE DEF p
<1>5. Plainly
  BY <1>2, <1>3, <1>4, SentPlainly, UnsentPlainly
<1> QED BY <1>4, <1>5, CallRests DEF session, broker, history

LEMMA PublishRests ==
    ASSUME MqttTypes, CleanSession, NEW t \in Topics, NEW q \in 0..2, Publish(t, q)
    PROVE  Rests
<1> DEFINE p == Pub(IF isconnected /\ q > 0 THEN packetid' ELSE 0, q, t, calls')
<1>1. packetid' \in Ids /\ calls' \in Nat
  BY NextIdTyped DEF Publish, Calling, MqttTypes, CountTypes
<1>2. p \in Sendable /\ p.type = "PUBLISH"
  BY <1>1, PubTyped, NoneTyped DEF Pub
<1>3. p \in Packet
  BY <1>2 DEF Sendable
<1>4. /\ UNCHANGED <<up, s2c, broker, history>>
      /\ \/ isconnected /\ PublishPacket("publish", p, inflight)
         \/ UNCHANGED <<session, c2s>>
  BY DEF Publish
<1> HIDE DEF p
<1>5. PublishPacket("publish", p, inflight) =>
         \/ SendFails /\ CleanUp
         \/ Sent(p) /\ UNCHANGED incomingQoS2messages
  BY Zenon DEF PublishPacket
<1>6. Plainly
  BY <1>2, <1>3, <1>4, <1>5, SentPlainly, UnsentPlainly
<1>7. CleanUp \/ (UNCHANGED incomingQoS2messages /\ (isconnected' => isconnected))
  BY <1>4, <1>5 DEF session
<1> QED BY <1>4, <1>6, <1>7, CallRests DEF broker, history

LEMMA OtherCallsRest ==
    ASSUME MqttTypes, CleanSession, Connect \/ Disconnect \/ Yield
    PROVE  Rests
<1>1. ASSUME NEW type \in {"CONNECT", "DISCONNECT"}
      PROVE  /\ Request(type, 0, NoTopic, 0) \in Packet
             /\ Request(type, 0, NoTopic, 0).type \notin {"PUBREC", "PUBCOMP"}
  <2>1. Request(type, 0, NoTopic, 0) \in Sendable
    BY RequestTyped, NoneTyped, 0 \in 0..2
  <2> QED BY <2>1 DEF Request, Sendable
<1>2. CASE Connect
  <2>1. /\ UNCHANGED <<session, up, s2c, broker, history>>
        /\ UNCHANGED c2s \/ Sent(Request("CONNECT", 0, NoTopic, 0)) \/ SendFails
    BY <1>2 DEF Connect
  <2>2. Plainly
    BY <1>1, <2>1, SentPlainly, UnsentPlainly
  <2> QED BY <2>1, <2>2, CallRests DEF session, broker, history
<1>3. CASE Disconnect
  <2>1. /\ UNCHANGED <<up, s2c, broker, history>> /\ CleanUp
        /\ Sent(Request("DISCONNECT", 0, NoTopic, 0)) \/ SendFails
    BY <1>3 DEF Disconnect
  <2>2. Plainly
    BY <1>1, <2>1, SentPlainly, UnsentPlainly
  <2> QED BY <2>1, <2>2, CallRests DEF broker, history
<1>4. CASE Yield
  <2>1. UNCHANGED <<session, network, broker, history>>
    BY <1>4 DEF Yield
  <2> QED BY <2>1, UnsentPlainly, CallRests DEF session, network, broker, history
<1> QED BY <1>2, <1>3, <1>4

LEMMA FinishRests ==
    ASSUME MqttTypes, SessionInv, UNCHANGED setup, Finish
    PROVE  Rests
<1>0. inflight.id = 0 /\ ~(inflight.id > 0)
  BY DEF SessionInv, CallInv
<1>1. CASE FinishConnect
  <2>1. /\ Done("connect", "CONNACK") /\ UNCHANGED <<up, s2c, c2s, broker, history>>
        /\ isconnected' = Accepted /\ UNCHANGED incomingQoS2messages
    BY <1>0, <1>1, Zenon DEF FinishConnect
  <2>2. Accepted => GotAccept
    <3>1. Accepted => call.got \in Packet /\ call.got.type = "CONNACK"
      BY <2>1 DEF Accepted, Answered, Done, SessionInv, CallInv, MqttTypes, CallTypes, CallValues
    <3> QED BY <3>1 DEF Accepted, Answered, GotAccept, Accepts
  <2> QED BY <2>1, <2>2, UnsentPlainly, CallRests DEF broker, history
<1>2. CASE FinishSubscribe
  <2>1. /\ Done("subscribe", "SUBACK") /\ UNCHANGED <<network, broker, history>>
        /\ CleanUp \/ UNCHANGED session \/ UNCHANGED <<isconnected, incomingQoS2messages>>
    BY <1>2, Zenon DEF FinishSubscribe
  <2> QED BY <2>1, UnsentPlainly, CallRests DEF session, network, broker, history
<1>3. CASE FinishUnsubscribe
  <2>1. /\ UNCHANGED <<network, broker, history>>
        /\ CleanUp \/ UNCHANGED <<isconnected, incomingQoS2messages>>
    BY <1>3, Zenon DEF FinishUnsubscribe
  <2> QED BY <2>1, UnsentPlainly, CallRests DEF network, broker, history
<1>4. CASE FinishPublish
  <2>1. /\ Done(call.op, "PUBACK") /\ UNCHANGED <<network, broker, history>>
        /\ CleanUp \/ UNCHANGED incomingQoS2messages
    BY <1>4, Zenon DEF FinishPublish
  <2>2. isconnected
    BY <2>1 DEF Done, Asking, SessionInv, CallInv
  <2> QED BY <2>1, <2>2, UnsentPlainly, CallRests DEF network, broker, history
<1> QED BY <1>1, <1>2, <1>3, <1>4 DEF Finish

LEMMA ReadRests ==
    ASSUME s2c # <<>>, s2c' = Tail(s2c), UNCHANGED <<b_out, delivered, up, isconnected>>,
           Plainly, Forgets
    PROVE  Rests
  BY DEF Rests, Plainly, Idle

\* An answer to a packet, if it is sent.
LEMMA AnswerTyped ==
    ASSUME NEW type \in {"PUBREC", "PUBCOMP", "PUBREL"}, NEW id \in Ids
    PROVE  Ack(type, id, 0) \in Packet /\ Ack(type, id, 0).type = type /\ Ack(type, id, 0).id = id
<1>1. Ack(type, id, 0) \in Packet
  BY AckTyped, NoneTyped DEF AckTypes
<1> QED BY <1>1 DEF Ack

LEMMA ReleaseRests ==
    ASSUME MqttTypes, UNCHANGED setup, CycleRelease
    PROVE  Rests \/ \E p : FreesId(p)
<1>0. PICK p : p = Head(s2c)
  OBVIOUS
<1> DEFINE answer == IF p.type = "PUBREC" THEN "PUBREL" ELSE "PUBCOMP"
<1>1. /\ s2c \in Seq(Packet) /\ s2c # <<>> /\ s2c' = Tail(s2c) /\ p.type \in {"PUBREC", "PUBREL"}
      /\ UNCHANGED <<isconnected, up, b_out, delivered>>
  BY <1>0 DEF CycleRelease, ReadPacket, MqttTypes, NetTypes, broker, history
<1>2. p.id \in Ids
  <2>1. p \in Packet
    BY <1>0, <1>1
  <2> QED BY <2>1 DEF Packet
<1>3. \/ /\ Sent(Ack(answer, p.id, 0))
         /\ incomingQoS2messages' = [i \in Incoming |->
                IF p.type = "PUBREL" /\ incomingQoS2messages[i] = p.id
                THEN 0 ELSE incomingQoS2messages[i]]
      \/ UNCHANGED incomingQoS2messages /\ (SendFails \/ AnswerTooLate)
  BY <1>0, Zenon DEF CycleRelease
<1>4. CASE UNCHANGED incomingQoS2messages /\ (SendFails \/ AnswerTooLate)
  <2>1. Plainly
    BY <1>4, UnsentPlainly DEF AnswerTooLate
  <2> QED BY <1>1, <1>4, <2>1, ReadRests DEF Forgets
<1>5. CASE /\ Sent(Ack(answer, p.id, 0))
           /\ incomingQoS2messages' = [i \in Incoming |->
                IF p.type = "PUBREL" /\ incomingQoS2messages[i] = p.id
                THEN 0 ELSE incomingQoS2messages[i]]
  <2>1. Forgets
    BY <1>5 DEF Forgets
  <2>2. CASE p.type = "PUBREC"
    <3>1. Plainly
      BY <1>2, <1>5, <2>2, AnswerTyped, SentPlainly
    <3> QED BY <1>1, <2>1, <3>1, ReadRests
  <2>3. CASE p.type = "PUBREL"
    <3> DEFINE e == Ack("PUBCOMP", p.id, 0)
    <3>1. e \in Comps(p.id)
      BY <1>2, AnswerTyped DEF Comps
    <3>2. Sent(e)
      BY <1>5, <2>3
    <3> HIDE DEF e
    <3>3. IF up THEN c2s' = Append(c2s, e) ELSE c2s' = c2s
      BY <3>2 DEF Sent
    <3>4. p.id # 0 => ~KnownId(p.id)'
      BY <1>5, <2>3 DEF KnownId
    <3>5. IF up THEN \E d \in Comps(p.id) : c2s' = Append(c2s, d) ELSE c2s' = c2s
      BY <3>1, <3>3
    <3>6. FreesId(p)
      BY <1>0, <1>1, <2>1, <2>3, <3>4, <3>5 DEF FreesId
    <3> QED BY <3>6
  <2> QED BY <1>1, <2>2, <2>3
<1> QED BY <1>3, <1>4, <1>5

LEMMA MessageTaken ==
    ASSUME MqttTypes, QOS2, MessageInv, CyclePublish
    PROVE  call.at = "wait" /\ \E p : TakesMsg(p)
<1>0. PICK p : p = Head(s2c)
  OBVIOUS
<1>1. /\ s2c \in Seq(Packet) /\ s2c # <<>> /\ s2c' = Tail(s2c) /\ p.type = "PUBLISH" /\ call.at = "wait"
      /\ UNCHANGED <<isconnected, up, b_out>>
  BY <1>0 DEF CyclePublish, ReadPacket, MqttTypes, NetTypes, broker
<1>2. p = s2c[1] /\ 1 \in 1..Len(s2c)
  BY <1>0, <1>1
<1>3. p.code = 2
  BY <1>1, <1>2 DEF MessageInv, Pubs
<1>4. p.id \in Ids
  <2>1. p \in Packet
    BY <1>0, <1>1
  <2> QED BY <2>1 DEF Packet
<1>5. \/ ~KnownId(p.id) /\ FreeSlots # {} /\ Remember(p.id) /\ Deliver(p)
      \/ (KnownId(p.id) \/ FreeSlots = {}) /\ UNCHANGED <<incomingQoS2messages, delivered>>
  BY <1>0, <1>3, Zenon DEF CyclePublish
<1>6. Sent(Ack("PUBREC", p.id, 0)) \/ SendFails \/ AnswerTooLate
  <2>1. Sent(Ack(IF p.code = 1 THEN "PUBACK" ELSE "PUBREC", p.id, 0)) \/ SendFails \/ AnswerTooLate
    BY <1>0, <1>3, 2 # 0, Zenon DEF CyclePublish
  <2> QED BY <1>3, <2>1
<1>7. c2s' = c2s \/ \E e \in Recs(p.id) : c2s' = Append(c2s, e)
  <2>1. Ack("PUBREC", p.id, 0) \in Recs(p.id)
    BY <1>4, AnswerTyped DEF Recs
  <2> QED BY <1>6, <2>1 DEF Sent, SendFails, AnswerTooLate
<1>8. TakesMsg(p)
  BY <1>0, <1>1, <1>5, <1>7, Zenon DEF TakesMsg
<1> QED BY <1>1, <1>8

LEMMA CycleRests ==
    ASSUME MqttTypes, QOS2, MessageInv, UNCHANGED setup, Cycle \/ Expire
    PROVE  Rests \/ (\E p : FreesId(p)) \/ (call.at = "wait" /\ \E p : TakesMsg(p))
<1>1. CASE CycleAck
  <2>1. /\ s2c # <<>> /\ s2c' = Tail(s2c) /\ UNCHANGED <<isconnected, incomingQoS2messages, up, b_out, delivered>>
        /\ \E s, r, o : Keepalive(s, r, o)
    BY <1>1 DEF CycleAck, ReadPacket, broker, history
  <2> QED BY <2>1, PingPlainly, ReadRests DEF Forgets
<1>2. CASE CycleRelease
  BY <1>2, ReleaseRests
<1>3. CASE CyclePublish
  BY <1>3, MessageTaken
<1>4. CASE CycleFails
  <2>1. /\ UNCHANGED <<isconnected, incomingQoS2messages, up, s2c, broker, history>>
        /\ \E s, r, o : Keepalive(s, r, o)
    BY <1>4 DEF CycleFails
  <2> QED BY <2>1, PingPlainly, CallRests DEF broker, history
<1>5. CASE Expire
  <2>1. UNCHANGED <<session, network, broker, history>>
    BY <1>5 DEF Expire
  <2> QED BY <2>1, UnsentPlainly, CallRests DEF session, network, broker, history
<1> QED BY <1>1, <1>2, <1>3, <1>4, <1>5 DEF Cycle

LEMMA CutRests ==
    ASSUME MqttTypes, CleanSession, ConnectionFails \/ BrokerHangsUp
    PROVE  CutsOff
<1>0. s2c \in Seq(Packet) /\ Len(s2c) \in Nat
  BY DEF MqttTypes, NetTypes
<1>1. /\ UNCHANGED <<isconnected, incomingQoS2messages, delivered>> /\ BrokerCloses /\ ~up'
  BY DEF ConnectionFails, BrokerHangsUp, session, history
<1>2. b_out' = {}
  BY <1>1 DEF BrokerCloses
<1>3. PICK n \in 0..Len(s2c) : s2c' = SubSeq(s2c, 1, n)
  <2>1. CASE ConnectionFails
    BY <2>1 DEF ConnectionFails
  <2>2. CASE BrokerHangsUp
    <3>1. Len(s2c) \in 0..Len(s2c) /\ s2c = SubSeq(s2c, 1, Len(s2c)) /\ s2c' = s2c
      BY <1>0, <2>2 DEF BrokerHangsUp
    <3> QED BY <3>1
  <2> QED BY <2>1, <2>2
<1>4. Pubs' \subseteq Pubs
  BY <1>0, <1>2, <1>3, CutPlaces
<1> QED BY <1>1, <1>2, <1>4 DEF CutsOff

LEMMA TimersRest ==
    ASSUME SendingDue \/ ReceivingDue \/ UNCHANGED vars
    PROVE  Rests
<1>1. UNCHANGED <<session, network, broker, history>>
  BY DEF SendingDue, ReceivingDue, vars
<1> QED BY <1>1, UnsentPlainly, CallRests DEF session, network, broker, history

\* The broker reads a packet and says, if anything, something else.
LEMMA AnswerRests ==
    ASSUME c2s # <<>>, c2s' = Tail(c2s), UNCHANGED <<b_out, delivered, up, isconnected, incomingQoS2messages>>,
           \/ UNCHANGED s2c
           \/ \E type \in AckTypes \ {"PUBREL"}, id \in Ids, code \in Codes : Answers(Ack(type, id, code))
    PROVE  Rests
<1>1. Idle(s2c, s2c', Deliveries)
  <2>1. ASSUME NEW type \in AckTypes \ {"PUBREL"}, NEW id \in Ids, NEW code \in Codes,
               Answers(Ack(type, id, code))
        PROVE  \E e \in Packet \ Deliveries : s2c' = Append(s2c, e)
    <3>1. Ack(type, id, code) \in Packet
      BY AckTyped
    <3>2. Ack(type, id, code).type = type /\ type \notin {"PUBLISH", "PUBREL"}
      BY DEF Ack, AckTypes
    <3> QED BY <2>1, <3>1, <3>2 DEF Answers, Deliveries
  <2> QED BY <2>1 DEF Idle
<1> QED BY <1>1 DEF Rests, Idle, Forgets

LEMMA AnswersRest ==
    ASSUME MqttTypes,
           \/ BrokerAccepts \/ BrokerSubscribes \/ BrokerUnsubscribes \/ BrokerReceives
           \/ BrokerReleases \/ BrokerAnswersPing
    PROVE  Rests
<1>0. PICK p : p = Head(c2s)
  OBVIOUS
<1>1. /\ \E type : Takes(type)
      /\ UNCHANGED <<b_out, delivered, up, isconnected, incomingQoS2messages>>
  BY DEF BrokerAccepts, BrokerSubscribes, BrokerUnsubscribes, BrokerReceives, BrokerReleases,
     BrokerAnswersPing, ClientSide, session, broker
<1>2. p \in Sendable /\ p \in Packet /\ p.id \in Ids /\ p.code \in Codes
  <2>1. p \in Sendable
    BY <1>0, <1>1, TakesTyped
  <2> QED BY <2>1 DEF Sendable, Packet
<1>3. c2s # <<>> /\ c2s' = Tail(c2s)
  BY <1>1 DEF Takes
<1>4. \/ UNCHANGED s2c
      \/ \E type \in AckTypes \ {"PUBREL"}, id \in Ids, code \in Codes : Answers(Ack(type, id, code))
  <2>1. CASE BrokerAccepts
    <3>1. Answers(Ack("CONNACK", 0, 0)) \/ Answers(Ack("CONNACK", 0, 5))
      BY <2>1 DEF BrokerAccepts
    <3> QED BY <3>1, NoneTyped DEF AckTypes
  <2>2. CASE BrokerSubscribes
    <3>1. Answers(Ack("SUBACK", p.id, p.code)) \/ Answers(Ack("SUBACK", p.id, Refused))
      BY <1>0, <2>2 DEF BrokerSubscribes
    <3> QED BY <1>2, <3>1, NoneTyped DEF AckTypes
  <2>3. CASE BrokerUnsubscribes
    <3>1. Answers(Ack("UNSUBACK", p.id, 0))
      BY <1>0, <2>3 DEF BrokerUnsubscribes
    <3> QED BY <1>2, <3>1, NoneTyped DEF AckTypes
  <2>4. CASE BrokerReceives
    <3>1. /\ Takes("PUBLISH")
          /\ CASE p.code = 0 -> UNCHANGED s2c
               [] p.code = 1 -> Answers(Ack("PUBACK", p.id, 0))
               [] p.code = 2 -> Answers(Ack("PUBREC", p.id, 0))
      BY <1>0, <2>4 DEF BrokerReceives
    <3>2. p.type = "PUBLISH"
      BY <1>0, <3>1, TakesTyped
    <3>3. p.code \in 0..2
      BY <1>2, <3>2 DEF Sendable
    <3>4. CASE p.code = 0
      BY <3>1, <3>4
    <3>5. CASE p.code = 1
      BY <1>2, <3>1, <3>5, NoneTyped DEF AckTypes
    <3>6. CASE p.code = 2
      BY <1>2, <3>1, <3>6, NoneTyped DEF AckTypes
    <3> QED BY <3>3, <3>4, <3>5, <3>6
  <2>5. CASE BrokerReleases
    <3>1. Answers(Ack("PUBCOMP", p.id, 0))
      BY <1>0, <2>5 DEF BrokerReleases
    <3> QED BY <1>2, <3>1, NoneTyped DEF AckTypes
  <2>6. CASE BrokerAnswersPing
    <3>1. Answers(Ack("PINGRESP", 0, 0))
      BY <2>6 DEF BrokerAnswersPing
    <3> QED BY <3>1, NoneTyped DEF AckTypes
  <2> QED BY <2>1, <2>2, <2>3, <2>4, <2>5, <2>6
<1> QED BY <1>1, <1>3, <1>4, AnswerRests

LEMMA AckedSteps ==
    ASSUME MqttTypes, MessageInv, BrokerAcked
    PROVE  Rests \/ \E p : AcksMsg(p) \/ DoneMsg(p)
<1>0. PICK p : p = Head(c2s)
  OBVIOUS
<1>1. /\ p.type \in {"PUBACK", "PUBREC", "PUBCOMP"} /\ c2s # <<>> /\ c2s' = Tail(c2s)
      /\ UNCHANGED <<delivered, up, isconnected, incomingQoS2messages>>
      /\ \E type : Takes(type)
  BY <1>0 DEF BrokerAcked, Takes, ClientSide, session
<1>2. p.id \in Ids
  BY <1>0, <1>1, TakesTyped
<1>3. \A m \in b_out : m.pub.code = 2
  BY DEF MessageInv, Pubs
<1> DEFINE mine == {m \in b_out : m.pub.id = p.id /\
                        IF p.type = "PUBACK" THEN m.pub.code = 1
                        ELSE m.pub.code = 2 /\ (p.type = "PUBCOMP" => m.rel)}
<1>4. IF p.type = "PUBREC"
      THEN /\ b_out' = (b_out \ mine) \cup {[m EXCEPT !.rel = TRUE] : m \in mine}
           /\ Answers(Ack("PUBREL", p.id, 0))
      ELSE b_out' = b_out \ mine /\ UNCHANGED s2c
  BY <1>0, Zenon DEF BrokerAcked
<1>5. CASE p.type = "PUBREC"
  <2>1. mine = {n \in b_out : n.pub.id = p.id}
    BY <1>3, <1>5
  <2>2. b_out \ mine = {m \in b_out : m.pub.id # p.id}
    BY <2>1
  <2> HIDE DEF mine
  <2>3. b_out' = {m \in b_out : m.pub.id # p.id}
                 \cup {[m EXCEPT !.rel = TRUE] : m \in {n \in b_out : n.pub.id = p.id}}
    BY <1>4, <1>5, <2>1, <2>2
  <2>4. \E e \in Rels(p.id) : s2c' = Append(s2c, e)
    BY <1>2, <1>4, <1>5, AnswerTyped DEF Rels, Answers
  <2>5. AcksMsg(p)
    BY <1>0, <1>1, <1>5, <2>3, <2>4 DEF AcksMsg
  <2> QED BY <2>5
<1>6. CASE p.type = "PUBCOMP"
  <2>1. b_out \ mine = {m \in b_out : m.pub.id # p.id \/ ~m.rel}
    BY <1>3, <1>6
  <2> HIDE DEF mine
  <2>2. DoneMsg(p)
    BY <1>0, <1>1, <1>4, <1>6, <2>1 DEF DoneMsg
  <2> QED BY <2>2
<1>7. CASE p.type = "PUBACK"
  <2>1. mine = {}
    BY <1>3, <1>7
  <2> HIDE DEF mine
  <2>2. UNCHANGED <<b_out, s2c>>
    BY <1>4, <1>7, <2>1
  <2> QED BY <1>1, <2>2, AnswerRests
<1> QED BY <1>1, <1>5, <1>6, <1>7

LEMMA RetriesSteps ==
    ASSUME MqttTypes, BrokerRetries
    PROVE  \E m : SendsAgain(m)
<1>1. PICK m \in b_out : Answers(IF m.rel THEN Ack("PUBREL", m.pub.id, 0) ELSE m.pub)
  BY DEF BrokerRetries
<1>2. UNCHANGED <<b_out, c2s, incomingQoS2messages, delivered, isconnected, up>>
  BY DEF BrokerRetries, session, broker, history
<1>3. m.pub.id \in Ids
  BY Queues
<1>4. IF m.rel THEN \E e \in Rels(m.pub.id) : s2c' = Append(s2c, e) ELSE s2c' = Append(s2c, m.pub)
  <2>1. Ack("PUBREL", m.pub.id, 0) \in Rels(m.pub.id)
    BY <1>3, AnswerTyped DEF Rels
  <2> QED BY <1>1, <2>1 DEF Answers
<1>5. SendsAgain(m)
  BY <1>2, <1>4 DEF SendsAgain
<1> QED BY <1>5

\* With QoS 2 alone every message of the broker is one.
LEMMA PublishesNew ==
    ASSUME MqttTypes, Exactly, BrokerPublishes
    PROVE  \E r : Publishes(r)
<1>1. PICK t \in TopicsUsed, q \in QosUsed :
         /\ up /\ b_connected /\ sent < MaxSent /\ q <= b_subs[t]
         /\ \E id \in IF q = 0 THEN {0} ELSE Ids \ ({0} \cup {m.pub.id : m \in b_out}) :
              /\ Answers(Pub(id, q, t, sent + 1))
              /\ b_out' = IF q = 0 THEN b_out
                          ELSE b_out \cup {[pub |-> Pub(id, q, t, sent + 1), rel |-> FALSE]}
         /\ sent' = sent + 1
  BY Zenon DEF BrokerPublishes
<1>2. UNCHANGED delivered
  BY DEF BrokerPublishes, history
<1>3. q = 2 /\ t \in Topics /\ sent \in Nat /\ sent + 1 \in Nat
  BY SetupTypes DEF Exactly, MqttTypes, CountTypes
<1>4. PICK id \in Ids \ ({0} \cup {m.pub.id : m \in b_out}) :
              /\ Answers(Pub(id, q, t, sent + 1))
              /\ b_out' = b_out \cup {[pub |-> Pub(id, q, t, sent + 1), rel |-> FALSE]}
  BY <1>1, <1>3
<1> DEFINE r == Pub(id, q, t, sent + 1)
<1>5. r \in Message
  BY <1>3, PubTyped
<1>6. r.code = 2 /\ r.id = id /\ r.topic = t /\ r.msg = sent + 1
  BY <1>3 DEF Pub
<1>7. Busy
  BY <1>1, <1>3 DEF Busy, MqttTypes, BrokerTypes
<1>8. s2c' = Append(s2c, r) /\ b_out' = b_out \cup {[pub |-> r, rel |-> FALSE]}
  BY <1>4 DEF Answers
<1> HIDE DEF r
<1>9. Publishes(r)
  BY <1>1, <1>2, <1>3, <1>4, <1>5, <1>6, <1>7, <1>8 DEF Publishes
<1> QED BY <1>9

LEMMA PublishesStep ==
    ASSUME MqttTypes, Exactly, BrokerPublishes
    PROVE  SendsMsg
<1>1. up /\ UNCHANGED <<c2s, incomingQoS2messages, isconnected, up>>
  BY DEF BrokerPublishes, session
<1> QED BY <1>1, PublishesNew DEF SendsMsg

\* Every step of a client with one connection is one of the table's.
LEMMA NextTableSteps ==
    ASSUME MqttTypes, SessionInv, Exactly, MessageInv, ~Reconnects, [Next]_<<setup, vars>>
    PROVE  \/ call.at = "wait" /\ \E p : TakesMsg(p)
           \/ Rests \/ CutsOff \/ SendsMsg
           \/ \E p : FreesId(p) \/ AcksMsg(p) \/ DoneMsg(p) \/ SendsAgain(p)
<1>0. CleanSession /\ QOS2 /\ TopicsUsed \subseteq Topics /\ QosUsed \subseteq 0..2
  BY SetupTypes DEF Exactly, MqttTypes
<1>1. CASE UNCHANGED <<setup, vars>>
  BY <1>1, TimersRest
<1>2. CASE UNCHANGED setup /\ Application
  <2>1. ~NewConnection
    BY DEF NewConnection
  <2>2. CASE Connect \/ Disconnect \/ Yield
    BY <1>0, <2>2, OtherCallsRest
  <2>3. ASSUME NEW t \in TopicsUsed, Unsubscribe(t) PROVE Rests
    BY <1>0, <2>3, AskRests, 0 \in 0..2 DEF Unsubscribe
  <2>4. ASSUME NEW t \in TopicsUsed, NEW q \in QosUsed, Subscribe(t, q) PROVE Rests
    BY <1>0, <2>4, AskRests DEF Subscribe
  <2>5. ASSUME NEW t \in TopicsUsed, NEW q \in QosUsed, Publish(t, q) PROVE Rests
    BY <1>0, <2>5, PublishRests
  <2> QED BY <1>2, <2>1, <2>2, <2>3, <2>4, <2>5 DEF Application
<1>3. CASE UNCHANGED setup /\ (Cycle \/ Expire)
  BY <1>0, <1>3, CycleRests
<1>4. CASE UNCHANGED setup /\ Finish
  BY <1>4, FinishRests
<1>5. CASE UNCHANGED setup /\ (ConnectionFails \/ SendingDue \/ ReceivingDue)
  BY <1>0, <1>5, CutRests, TimersRest
<1>6. CASE UNCHANGED setup /\ Broker
  BY <1>0, <1>6, CutRests, AnswersRest, AckedSteps, PublishesStep, RetriesSteps DEF Broker
<1> QED BY <1>1, <1>2, <1>3, <1>4, <1>5, <1>6 DEF Next

LEMMA NextJoins ==
    ASSUME MqttTypes, ~Reconnects, [Next]_<<setup, vars>>
    PROVE  Joined
<1>0. UNCHANGED <<up, b_connected>> => Joined
  BY DEF Joined
<1>1. CASE UNCHANGED <<setup, vars>>
  BY <1>1 DEF Joined, vars, network, broker
<1>2. CASE Application
  <2>1. ~NewConnection
    BY DEF NewConnection
  <2>2. Connect \/ Disconnect \/ Yield => UNCHANGED <<up, b_connected>>
    BY DEF Connect, Disconnect, Yield, network, broker
  <2>3. \A t, q : Subscribe(t, q) \/ Unsubscribe(t) \/ Publish(t, q) => UNCHANGED <<up, b_connected>>
    BY DEF Subscribe, Unsubscribe, AskFor, Publish, broker
  <2> QED BY <1>0, <1>2, <2>1, <2>2, <2>3 DEF Application
<1>3. CASE Cycle \/ Expire
  BY <1>3 DEF Joined, Cycle, CycleAck, CycleRelease, CyclePublish, CycleFails, Expire, network, broker
<1>4. CASE Finish
  BY <1>4 DEF Joined, Finish, FinishConnect, FinishSubscribe, FinishUnsubscribe, FinishPublish, network, broker
<1>5. CASE ConnectionFails \/ SendingDue \/ ReceivingDue
  BY <1>5 DEF Joined, ConnectionFails, SendingDue, ReceivingDue, network, broker
<1>6. CASE Broker
  <2>1. BrokerHangsUp => ~up'
    BY DEF BrokerHangsUp
  <2>2. BrokerAccepts => UNCHANGED up /\ (b_connected' \/ UNCHANGED b_connected)
    BY DEF BrokerAccepts, ClientSide
  <2>3. BrokerSubscribes \/ BrokerUnsubscribes \/ BrokerReceives \/ BrokerReleases \/ BrokerAnswersPing
           \/ BrokerAcked => UNCHANGED <<up, b_connected>>
    BY DEF BrokerSubscribes, BrokerUnsubscribes, BrokerReceives, BrokerReleases, BrokerAnswersPing,
       BrokerAcked, ClientSide, broker
  <2>4. BrokerPublishes \/ BrokerRetries => UNCHANGED <<up, b_connected>>
    BY DEF BrokerPublishes, BrokerRetries, broker
  <2> QED BY <1>6, <2>1, <2>2, <2>3, <2>4 DEF Broker, Joined
<1> QED BY <1>1, <1>2, <1>3, <1>4, <1>5, <1>6 DEF Next

\* A message that is not delivered for the table was heard.
LEMMA WholeTells ==
    ASSUME MqttTypes, OnceInv, TableInv, MaxSent <= MaxIncoming
    PROVE  TableTells
<1> SUFFICES ASSUME s2c # <<>>, NEW p, p = Head(s2c), p.type = "PUBLISH",
                    KnownId(p.id) \/ FreeSlots = {}, HandlerFor(p.topic), ~Heard(p.msg)
             PROVE  FALSE
  BY DEF TableTells
<1>1. s2c \in Seq(Packet) /\ p = s2c[1] /\ 1 \in 1..Len(s2c)
  BY DEF MqttTypes, NetTypes
<1>2. p \in Pubs
  BY <1>1 DEF Pubs
<1>3. p.topic \in Topics /\ p.msg \in 1..sent
  BY <1>2 DEF OnceInv, MessageInv
<1>4. p.msg \in 1..MaxSent
  BY <1>3, SetupTypes DEF MqttTypes, CountTypes
<1>5. isconnected
  BY <1>3, TopicAssumption DEF OnceInv, DeafInv, NoHandlers, HandlerFor
<1>6. ~KnownId(p.id)
  BY <1>2, <1>5 DEF TableInv, NewInv
<1>7. FreeSlots # {}
  BY <1>4, <1>5, PlaceFound DEF TableInv
<1> QED BY <1>6, <1>7

LEMMA InitTable == Init => OnceInv /\ HeardInv /\ TableInv
<1> SUFFICES ASSUME Init PROVE TableInv
  BY InitOnce, InitHeard
<1>1. /\ s2c = <<>> /\ c2s = <<>> /\ b_out = {} /\ incomingQoS2messages = NoIncoming /\ ~isconnected
  BY DEF Init
<1>2. Pubs = {} /\ Used = {}
  BY <1>1 DEF Pubs, Used, NoIncoming
<1>3. ASSUME NEW i \in Ids \ {0} PROVE Hand(i)
  <2>1. ~KnownId(i)
    BY <1>1 DEF KnownId, NoIncoming
  <2>2. \A S : None(c2s, S) /\ None(s2c, S)
    BY <1>1, Nothing
  <2> QED BY <1>1, <2>1, <2>2 DEF Hand, Fresh
<1> QED BY <1>1, <1>2, <1>3 DEF TableInv, HandInv, OneEach, NewInv, SpaceInv, UsedInv, GivenInv

Minded == Whole /\ Room => OnceInv /\ HeardInv /\ TableInv

LEMMA NextTable ==
    ASSUME MqttTypes, MqttTypes', CleanInv, Minded, [Next]_<<setup, vars>>
    PROVE  Minded'
<1> SUFFICES ASSUME Whole', Room' PROVE OnceInv' /\ HeardInv' /\ TableInv'
  BY DEF Minded
<1>1. setup' = setup
  BY DEF Next
<1>2. Whole /\ Room
  BY <1>1 DEF Whole, Exactly, Room, CleanSession, QOS2, QosUsed, Reconnects, MaxSent, MaxCalls,
     MaxHandlers, TopicsUsed
<1>3. /\ OnceInv /\ HeardInv /\ TableInv /\ SessionInv
      /\ Exactly /\ CleanSession /\ ~Reconnects /\ MaxSent <= MaxIncoming
  BY <1>2 DEF Minded, CleanInv, Whole, Exactly
<1>4. OnceInv'
  BY <1>3, StepOnce
<1>5. HeardInv'
  BY <1>2, <1>3, WholeTells, StepHeard DEF OnceInv
<1>6. \/ \E p : TakesMsg(p) /\ (isconnected /\ ~Heard(p.msg) => HandlerFor(p.topic))
      \/ Rests \/ CutsOff \/ SendsMsg
      \/ \E p : FreesId(p) \/ AcksMsg(p) \/ DoneMsg(p) \/ SendsAgain(p)
  <2>1. \/ call.at = "wait" /\ \E p : TakesMsg(p)
        \/ Rests \/ CutsOff \/ SendsMsg
        \/ \E p : FreesId(p) \/ AcksMsg(p) \/ DoneMsg(p) \/ SendsAgain(p)
    BY <1>3, NextTableSteps DEF OnceInv
  <2>2. ASSUME NEW p, TakesMsg(p), call.at = "wait", isconnected, ~Heard(p.msg)
        PROVE  HandlerFor(p.topic)
    <3>1. s2c # <<>> /\ p = Head(s2c) /\ p.type = "PUBLISH"
      BY <2>2 DEF TakesMsg
    <3> QED BY <1>3, <2>2, <3>1, HeadServed
  <2> QED BY <2>1, <2>2
<1>7. TableKept
  BY <1>1, <1>3, <1>6, TableStepKeeps
<1>8. UsedInv'
  <2>1. Begun => Begun'
    BY <1>3, NextJoins, NextSteps, BegunStays
  <2> QED BY <1>7, <2>1 DEF TableKept, UsedInv
<1> QED BY <1>4, <1>5, <1>7, <1>8 DEF TableKept, TableInv

-----------------------------------------------------------------------------
(* The theorems *)

LEMMA AlwaysServed == Spec => [](MqttTypes /\ Listening /\ Minded)
<1>1. Init => Listening /\ Minded
  BY InitHeard, InitTable DEF Listening, Minded
<1>2. MqttTypes /\ CleanInv /\ Listening /\ [Next]_<<setup, vars>> => Listening'
  BY NextHeard
<1>3. MqttTypes /\ MqttTypes' /\ CleanInv /\ Minded /\ [Next]_<<setup, vars>> => Minded'
  BY NextTable
<1> QED BY <1>1, <1>2, <1>3, AlwaysClean, PTL DEF Spec

\* THEOREM: with clean sessions and room for its handlers, a client reads no
\* message for the first time when there is no handler to take it: the SUBACK is
\* processed before the first message and the UNSUBACK after the last, whatever
\* is lost or given up.  Stated of clients that make no use of the table of QoS 2
\* ids, and of those that receive every message through it.
THEOREM HandlersInPlace == Spec => [](~QOS2 \/ 2 \notin QosUsed \/ QosUsed = {2} => NoMessageUnhandled)
<1>1. MqttTypes /\ Listening /\ Minded => (~QOS2 \/ 2 \notin QosUsed \/ QosUsed = {2} => NoMessageUnhandled)
  <2> SUFFICES ASSUME MqttTypes, Listening, Minded, ~QOS2 \/ 2 \notin QosUsed \/ QosUsed = {2}, HandlersLast,
                      isconnected, call.at = "wait", s2c # <<>>,
                      NEW p, p = Head(s2c), p.type = "PUBLISH", delivered[p.msg] = 0
               PROVE  HandlerFor(p.topic)
    BY DEF NoMessageUnhandled
  <2>1. Room /\ CleanSession
    BY DEF Room, HandlersLast
  <2>2. HeardInv
    <3>1. CASE ~QOS2 \/ 2 \notin QosUsed
      BY <2>1, <3>1 DEF Listening, Plain
    <3>2. CASE QOS2 /\ 2 \in QosUsed
      BY <2>1, <3>2 DEF Minded, Whole, Exactly, HandlersLast
    <3> QED BY <3>1, <3>2 DEF QOS2
  <2>3. ~Heard(p.msg)
    BY DEF Heard
  <2> QED BY <2>2, <2>3, HeadServed
<1> QED BY <1>1, AlwaysServed, PTL

\* THEOREM: with clean sessions, room for its handlers and a table large enough,
\* a QoS 2 message of which the broker has the PUBREC was handed to a handler:
\* no id that is still in the table makes the client take it for a duplicate.
THEOREM AcknowledgedDelivered == Spec => [](CleanSession /\ QOS2 /\ Room => AcknowledgedWasDelivered)
<1>1. Minded => (CleanSession /\ QOS2 /\ Room => AcknowledgedWasDelivered)
  BY DEF Minded, Whole, Exactly, AcknowledgedWasDelivered, TableInv, GivenInv, Given, Heard
<1> QED BY <1>1, AlwaysServed, PTL
=============================================================================

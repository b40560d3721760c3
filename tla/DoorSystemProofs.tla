-------------------------- MODULE DoorSystemProofs --------------------------
(***************************************************************************)
(* Door, broker and console implement AccessControl, for every number of   *)
(* cards, tabs and packets.  The inductive invariant follows a question    *)
(* from the door's send buffer to the page, and its verdict back:          *)
(*                                                                         *)
(*   shown < in_asks < c_out <= decided < c_in < out_asks <= asked         *)
(*                                                                         *)
(* orders the numbers of the questions on each part of the way, and each   *)
(* part says of its question what was asked and decided.                   *)
(***************************************************************************)
EXTENDS DoorSystem, DoorControllerProofs

-----------------------------------------------------------------------------
(* The invariant *)

\* Only the tab in charge has packets under way.
OneInCharge ==
    /\ \A t \in Tabs : t \notin connected => c_in[t] = <<>> /\ c_out[t] = <<>>
    /\ \A t \in Tabs : t \notin subscribed => c_in[t] = <<>>

\* The n-th question of those in s is about the card with these data.
Asks(s, n, key) == n \in 1..Len(s) /\ OfOneCard(key) /\ key.uid = s[n]

\* The questions: what they ask, and their order.
QuestionsFaithful ==
    /\ \A k \in 1..Len(outbox) : outbox[k].cmd = "rawdata" => Asks(asked, out_asks[k], outbox[k].key)
    /\ \A t \in Tabs : \A k \in 1..Len(c_in[t]) :
          c_in[t][k].msg.cmd = "rawdata" => Asks(asked, c_in[t][k].ask, c_in[t][k].msg.key)

\* Numbers of questions on their way, 0 for a packet that asks nothing: after
\* the last one decided, d, in their order, and of the n asked.
OutOrder(o, n, d) ==
    /\ \A k \in 1..Len(o) : o[k] > 0 => d < o[k] /\ o[k] <= n
    /\ \A k, l \in 1..Len(o) : k < l /\ o[k] > 0 /\ o[l] > 0 => o[k] < o[l]

\* The same of those that have reached the page before those in o.
InOrder(q, o, n, d) ==
    /\ \A k \in 1..Len(q) : q[k].ask > 0 =>
          /\ d < q[k].ask /\ q[k].ask <= n
          /\ \A l \in 1..Len(o) : o[l] > 0 => q[k].ask < o[l]
    /\ \A k, l \in 1..Len(q) :
          k < l /\ q[k].ask > 0 /\ q[l].ask > 0 => q[k].ask < q[l].ask

QuestionsInOrder ==
    /\ AC!LastAsk(decided) \in 0..Len(asked)
    /\ OutOrder(out_asks, Len(asked), AC!LastAsk(decided))
    /\ \A t \in Tabs : InOrder(c_in[t], out_asks, Len(asked), AC!LastAsk(decided))

\* The verdicts: the k-th answer on its way to the lamps grants.
Grants(k) ==
    IF pc # "light" THEN inbox[k] = "grant"
    ELSE IF k = 1 THEN lighting = "green" ELSE inbox[k - 1] = "grant"

Among(s, v) == \E i \in 1..Len(s) : s[i] = v

AnswersFaithful ==
    /\ \A t \in Tabs : \A k \in 1..Len(c_out[t]) : Among(decided, c_out[t][k])
    /\ \A k \in 1..Len(in_asks) : Among(decided, [ask |-> in_asks[k], granted |-> Grants(k)])

\* Numbers of verdicts on their way to the lamps: after the last one shown,
\* s, in their order, and of those decided.
BackOrder(o, d, s) ==
    /\ \A k \in 1..Len(o) : s < o[k] /\ o[k] <= d
    /\ \A k, l \in 1..Len(o) : k < l => o[k] < o[l]

\* The same of those that have not yet reached the door.
AnswerOrder(q, o, d, s) ==
    /\ \A k \in 1..Len(q) :
          /\ s < q[k].ask /\ q[k].ask <= d
          /\ \A l \in 1..Len(o) : o[l] < q[k].ask
    /\ \A k, l \in 1..Len(q) : k < l => q[k].ask < q[l].ask

AnswersInOrder ==
    /\ AC!LastAsk(shown) \in 0..AC!LastAsk(decided)
    /\ BackOrder(in_asks, AC!LastAsk(decided), AC!LastAsk(shown))
    /\ \A t \in Tabs : AnswerOrder(c_out[t], in_asks, AC!LastAsk(decided), AC!LastAsk(shown))

SystemInv ==
    /\ SystemTypeOK /\ ReadingOneCard /\ OneInCharge
    /\ QuestionsFaithful /\ QuestionsInOrder
    /\ AnswersFaithful /\ AnswersInOrder

-----------------------------------------------------------------------------
(* Type correctness *)

LEMMA DoorSteps ==
    ASSUME [SystemNext]_system
    PROVE  [Next]_vars \/ \E t \in Tabs : BrokerAnswers(t)
<1>1. CASE DoorQuiet \/ DoorPings \/ DoorAsks
  BY <1>1 DEF DoorQuiet, DoorPings, DoorAsks, Next, MainThread, Environment
<1>2. CASE DoorHears \/ DoorShows \/ DoorLoses
  BY <1>2 DEF DoorHears, DoorShows, DoorLoses, Next, MainThread, Environment
<1>3. CASE BrokerForwards
  BY <1>3 DEF BrokerForwards, BrokerTakes, Next, Environment
<1>4. CASE ConsoleNext
  BY <1>4 DEF ConsoleNext, OpenPage, OnConnect, OnConnectionLost, OnPing, OnRawData,
              OnUnknownRoom, OnNullKey, Arrives, SelectLocks
<1>5. CASE UNCHANGED system
  BY <1>5 DEF system
<1> QED BY <1>1, <1>2, <1>3, <1>4, <1>5 DEF SystemNext, DoorNext

LEMMA SystemDoorType ==
    ASSUME SystemTypeOK, [SystemNext]_system
    PROVE  TypeOK'
<1>1. CASE [Next]_vars
  BY <1>1, MainType, LampType, ReaderType, NetType DEF SystemTypeOK, TypeOK
<1>2. ASSUME NEW t \in Tabs, BrokerAnswers(t)
      PROVE  TypeOK'
  <2>1. inbox' = inbox \/ inbox' = Append(inbox, "grant") \/ inbox' = Append(inbox, "deny")
    BY <1>2 DEF BrokerAnswers
  <2>2. inbox \in Seq(Answers)
    BY DEF SystemTypeOK, TypeOK, NetTypeOK
  <2>3. inbox' \in Seq(Answers)
    BY <2>1, <2>2 DEF Answers
  <2>4. UNCHANGED <<main, lamps, reader, session, up, outbox, serial, inputs>>
    BY <1>2 DEF BrokerAnswers
  <2>5. MainTypeOK' /\ LampTypeOK' /\ ReaderTypeOK'
    BY <2>4 DEF SystemTypeOK, TypeOK, MainTypeOK, LampTypeOK, ReaderTypeOK, main, lamps, reader
  <2>6. NetTypeOK'
    BY <2>3, <2>4 DEF SystemTypeOK, TypeOK, NetTypeOK, serial
  <2> QED BY <2>5, <2>6 DEF TypeOK
<1> QED BY <1>1, <1>2, DoorSteps

\* The console's part of the type invariant, and the one of the packets.
Items == [ask : Nat, msg : Sendable]

ConsoleTypeOK ==
    /\ \A t, u \in connected : t = u
    /\ connected \subseteq Tabs /\ subscribed \subseteq connected
    /\ known \in [Tabs -> BOOLEAN] /\ rule \in [Tabs -> SUBSET Cards]
    /\ opens \in 0..MaxOpens

PacketTypeOK ==
    /\ c_in \in [Tabs -> Seq(Items)] /\ c_out \in [Tabs -> Seq(Verdicts)]
    /\ asked \in Seq(Cards) /\ decided \in Seq(Verdicts) /\ shown \in Seq(Verdicts)

LogTypeOK ==
    /\ out_asks \in Seq(Nat) /\ Len(out_asks) = Len(outbox)
    /\ in_asks \in Seq(Nat \ {0})
    /\ Len(in_asks) = Len(inbox) + (IF pc = "light" THEN 1 ELSE 0)

LEMMA TypeParts == SystemTypeOK <=> TypeOK /\ ConsoleTypeOK /\ PacketTypeOK /\ LogTypeOK
  BY DEF SystemTypeOK, ConsoleTypeOK, PacketTypeOK, LogTypeOK, Items

LEMMA ConsoleType ==
    ASSUME ConsoleTypeOK, [SystemNext]_system
    PROVE  ConsoleTypeOK'
<1>1. CASE UNCHANGED <<connected, subscribed, known, rule, opens>>
  BY <1>1 DEF ConsoleTypeOK
<1>2. CASE DoorNext \/ UNCHANGED system
  BY <1>1, <1>2 DEF DoorNext, DoorQuiet, DoorPings, DoorAsks, DoorHears, DoorShows, DoorLoses,
                    system, console, links, pages
<1>3. CASE BrokerForwards \/ \E t \in Tabs : BrokerAnswers(t)
  BY <1>1, <1>3 DEF BrokerForwards, BrokerAnswers, pages
<1>4. ASSUME NEW t \in Tabs, OpenPage(t) PROVE ConsoleTypeOK'
  BY <1>4, OpensAssumption DEF OpenPage, TakeOver, NoneKnown, NoRules, ConsoleTypeOK
<1>5. ASSUME NEW t \in Tabs, OnConnect(t) PROVE ConsoleTypeOK'
  BY <1>5 DEF OnConnect, pages, ConsoleTypeOK
<1>6. ASSUME NEW t \in Tabs, OnConnectionLost(t) PROVE ConsoleTypeOK'
  BY <1>6 DEF OnConnectionLost, ConsoleTypeOK
<1>7. ASSUME NEW t \in Tabs, OnPing(t) \/ OnRawData(t) \/ OnUnknownRoom(t) \/ OnNullKey(t)
      PROVE  ConsoleTypeOK'
  <2>1. UNCHANGED <<connected, subscribed, rule, opens>>
    BY <1>7 DEF OnPing, OnRawData, OnUnknownRoom, OnNullKey, Arrives
  <2>2. known' = known \/ known' = [known EXCEPT ![t] = TRUE]
    BY <1>7 DEF OnPing, OnRawData, OnUnknownRoom, OnNullKey
  <2> QED BY <2>1, <2>2 DEF ConsoleTypeOK
<1>8. ASSUME NEW t \in Tabs, SelectLocks(t) PROVE ConsoleTypeOK'
  BY <1>8 DEF SelectLocks, links, ConsoleTypeOK
<1> QED BY <1>2, <1>3, <1>4, <1>5, <1>6, <1>7, <1>8 DEF SystemNext, ConsoleNext

\* What publishing one packet does to the send buffer and its log.
LEMMA LoggedSteps ==
    ASSUME TypeOK, LogTypeOK, NEW m \in Sendable, Publish(m), NEW n \in Nat, Logged(n)
    PROVE  \/ UNCHANGED <<outbox, out_asks>>
           \/ outbox' = Append(outbox, m) /\ out_asks' = Append(out_asks, n)
<1>1. CASE outbox' = outbox
  BY <1>1 DEF Logged
<1>2. CASE outbox' = Append(outbox, m)
  <2>1. Len(outbox') = Len(outbox) + 1
    BY <1>2 DEF TypeOK, NetTypeOK
  <2> QED BY <1>2, <2>1 DEF Logged, TypeOK, NetTypeOK
<1> QED BY <1>1, <1>2 DEF Publish

LEMMA PublishedKinds ==
    ASSUME TypeOK
    PROVE  /\ Ping \in Sendable
           /\ (IF heap = 0 THEN NullKey ELSE RawData(key_data)) \in Sendable
  BY DEF Sendable, TypeOK, MainTypeOK

LEMMA LogType ==
    ASSUME SystemTypeOK, [SystemNext]_system
    PROVE  LogTypeOK'
<1>0. TypeOK /\ LogTypeOK /\ PacketTypeOK
  BY TypeParts
<1>1. outbox \in Seq(Sendable) /\ inbox \in Seq(Answers)
  BY <1>0 DEF TypeOK, NetTypeOK
<1>2. CASE UNCHANGED <<outbox, out_asks, inbox, in_asks>> /\ (pc' = "light" <=> pc = "light")
  BY <1>0, <1>2 DEF LogTypeOK
<1>3. CASE DoorQuiet
  <2>1. UNCHANGED <<outbox, inbox>>
    BY <1>3 DEF DoorQuiet, Sub, InitDoor, PingNotDue, YieldReturn, PollMiss, PollHit, SameCard,
                Authenticate, Read28, Read29, LedTimeout, Tick, CardArrives, CardLeaves, net
  <2>2. pc' = "light" <=> pc = "light"
    BY <1>3 DEF DoorQuiet, Sub, InitDoor, PingNotDue, YieldReturn, PollMiss, PollHit, SameCard,
                Authenticate, Read28, Read29, LedTimeout, Tick, CardArrives, CardLeaves, main
  <2> QED BY <1>2, <1>3, <2>1, <2>2 DEF DoorQuiet, records
<1>4. ASSUME UNCHANGED <<inbox, in_asks>>, pc # "light", pc' # "light",
             NEW m \in Sendable, Publish(m), NEW n \in Nat, Logged(n)
      PROVE  LogTypeOK'
  <2>1. \/ UNCHANGED <<outbox, out_asks>>
        \/ outbox' = Append(outbox, m) /\ out_asks' = Append(out_asks, n)
    BY <1>0, <1>4, LoggedSteps
  <2>2. out_asks' \in Seq(Nat) /\ Len(out_asks') = Len(outbox')
    <3>1. CASE UNCHANGED <<outbox, out_asks>>
      BY <1>0, <3>1 DEF LogTypeOK
    <3>2. CASE outbox' = Append(outbox, m) /\ out_asks' = Append(out_asks, n)
      <4>1. out_asks \in Seq(Nat) /\ Len(out_asks) = Len(outbox)
        BY <1>0 DEF LogTypeOK
      <4> QED BY <1>1, <3>2, <4>1
    <3> QED BY <2>1, <3>1, <3>2
  <2>3. in_asks' = in_asks /\ inbox' = inbox /\ pc # "light" /\ pc' # "light"
    BY <1>4
  <2> QED BY <1>0, <1>1, <2>2, <2>3 DEF LogTypeOK
<1>5. CASE DoorPings
  <2>1. /\ Publish(Ping) /\ Logged(0) /\ UNCHANGED <<inbox, in_asks>>
        /\ pc \in {"hello", "top"} /\ pc' \in {"top", "cycle"}
    BY <1>5 DEF DoorPings, Hello, PingDue
  <2>2. Ping \in Sendable /\ 0 \in Nat
    BY <1>0, PublishedKinds
  <2> QED BY <1>4, <2>1, <2>2
<1>6. CASE DoorAsks
  <2>1. PICK n \in Nat : Logged(n)
    BY <1>0, <1>6 DEF DoorAsks, PacketTypeOK
  <2> QED BY <1>0, <1>4, <1>6, <2>1, PublishedKinds DEF DoorAsks, SendKey
<1>7. CASE DoorHears
  <2>1. /\ pc # "light" /\ pc' \in {"light", "yield"} /\ inbox # <<>> /\ inbox' = Tail(inbox)
        /\ UNCHANGED <<outbox, out_asks>>
        /\ in_asks' = IF pc' = "light" THEN in_asks ELSE Tail(in_asks)
    BY <1>7 DEF DoorHears, YieldDeliver, MessageArrived
  <2> QED BY <1>0, <1>1, <2>1 DEF LogTypeOK
<1>8. CASE DoorShows
  <2>1. /\ pc = "light" /\ pc' = "yield" /\ UNCHANGED <<inbox, outbox, out_asks>>
        /\ in_asks' = Tail(in_asks)
    BY <1>8 DEF DoorShows, Light, net
  <2> QED BY <1>0, <1>1, <2>1 DEF LogTypeOK
<1>9. CASE DoorLoses
  <2>1. /\ pc' = pc /\ UNCHANGED <<inbox, in_asks>> /\ outbox' = <<>> /\ out_asks' = <<>>
    BY <1>9 DEF DoorLoses, LinkFails, main
  <2> QED BY <1>0, <1>1, <2>1 DEF LogTypeOK
<1>10. CASE BrokerForwards
  <2>1. /\ pc' = pc /\ UNCHANGED <<inbox, in_asks>> /\ outbox # <<>>
        /\ outbox' = Tail(outbox) /\ out_asks' = Tail(out_asks)
    BY <1>10 DEF BrokerForwards, main
  <2> QED BY <1>0, <1>1, <2>1 DEF LogTypeOK
<1>11. ASSUME NEW t \in Tabs, BrokerAnswers(t) PROVE LogTypeOK'
  <2>1. pc' = pc /\ UNCHANGED <<outbox, out_asks>> /\ c_out[t] # <<>>
    BY <1>11 DEF BrokerAnswers, main
  <2>2. CASE UNCHANGED <<inbox, in_asks>>
    BY <1>2, <2>1, <2>2
  <2>3. CASE \E a \in Answers : inbox' = Append(inbox, a) /\ in_asks' = Append(in_asks, Head(c_out[t]).ask)
    <3>0. c_out[t] \in Seq(Verdicts) /\ Head(c_out[t]) \in Verdicts
      BY <1>0, <2>1 DEF PacketTypeOK
    <3>1. Head(c_out[t]).ask \in Nat \ {0}
      BY <3>0 DEF Verdicts
    <3>2. Len(inbox') = Len(inbox) + 1 /\ Len(in_asks') = Len(in_asks) + 1
      BY <1>0, <1>1, <2>3, <3>1 DEF LogTypeOK
    <3>3. in_asks' \in Seq(Nat \ {0})
      BY <1>0, <2>3, <3>1 DEF LogTypeOK
    <3> QED BY <1>0, <1>1, <2>1, <3>2, <3>3 DEF LogTypeOK
  <2> QED BY <1>11, <2>2, <2>3 DEF BrokerAnswers, Answers
<1>12. CASE ConsoleNext \/ UNCHANGED system
  BY <1>2, <1>12 DEF ConsoleNext, OpenPage, OnConnect, OnConnectionLost, OnPing, OnRawData,
                     OnUnknownRoom, OnNullKey, Arrives, SelectLocks, system, vars, records, main, net
<1> QED BY <1>3, <1>5, <1>6, <1>7, <1>8, <1>9, <1>10, <1>11, <1>12 DEF SystemNext, DoorNext

\* The verdict of a page, and the packet it answers.
LEMMA PageDecides ==
    ASSUME PacketTypeOK, NEW t \in Tabs, OnRawData(t)
    PROVE  \E c \in Cards : \E item \in Items :
              /\ c_in[t] # <<>> /\ item = Head(c_in[t]) /\ item.msg.cmd = "rawdata"
              /\ item.msg.key.body = <<c, 28>>
              /\ c_in' = [c_in EXCEPT ![t] = Tail(c_in[t])]
              /\ c_out' = [c_out EXCEPT ![t] = Append(c_out[t], [ask |-> item.ask, granted |-> c \in rule[t]])]
              /\ decided' = Append(decided, [ask |-> item.ask, granted |-> c \in rule[t]])
<1>1. PICK c \in Cards :
         /\ RoomOf(Head(c_in[t]).msg.key, c)
         /\ c_out' = [c_out EXCEPT ![t] = Append(c_out[t], [ask |-> Head(c_in[t]).ask, granted |-> c \in rule[t]])]
         /\ decided' = Append(decided, [ask |-> Head(c_in[t]).ask, granted |-> c \in rule[t]])
  BY DEF OnRawData
<1>2. c_in[t] # <<>> /\ Head(c_in[t]).msg.cmd = "rawdata" /\ c_in' = [c_in EXCEPT ![t] = Tail(c_in[t])]
  BY DEF OnRawData, Arrives
<1>3. Head(c_in[t]) \in Items
  BY <1>2 DEF PacketTypeOK
<1>4. Head(c_in[t]).msg.key.body = <<c, 28>>
  BY <1>1 DEF RoomOf
<1> QED BY <1>1, <1>2, <1>3, <1>4

\* A verdict is about a question that was asked.
LEMMA VerdictType ==
    ASSUME PacketTypeOK, QuestionsFaithful, NEW t \in Tabs, c_in[t] # <<>>,
           NEW item, item = Head(c_in[t]), item.msg.cmd = "rawdata"
    PROVE  /\ Asks(asked, item.ask, item.msg.key)
           /\ \A g \in BOOLEAN : [ask |-> item.ask, granted |-> g] \in Verdicts
<1>1. c_in[t] \in Seq(Items) /\ asked \in Seq(Cards)
  BY DEF PacketTypeOK
<1>2. 1 \in 1..Len(c_in[t]) /\ item = c_in[t][1]
  BY <1>1
<1>3. Asks(asked, item.ask, item.msg.key)
  BY <1>2 DEF QuestionsFaithful
<1>4. item.ask \in Nat \ {0}
  BY <1>1, <1>3 DEF Asks
<1> QED BY <1>3, <1>4 DEF Verdicts

-----------------------------------------------------------------------------
(* What a step does to the questions *)

QuestionsKept == UNCHANGED <<c_in, asked, decided, outbox, out_asks>>

AboutNothing == \E m \in Sendable :
    /\ m.cmd # "rawdata"
    /\ outbox' = Append(outbox, m) /\ out_asks' = Append(out_asks, 0)
    /\ UNCHANGED <<c_in, asked, decided>>

Asking == \E key \in Key :
    /\ OfOneCard(key)
    /\ outbox' = Append(outbox, RawData(key)) /\ out_asks' = Append(out_asks, Len(asked) + 1)
    /\ asked' = Append(asked, key.uid)
    /\ UNCHANGED <<c_in, decided>>

QuestionsLost ==
    /\ outbox' = <<>> /\ out_asks' = <<>>
    /\ UNCHANGED <<c_in, asked, decided>>

Forwarding ==
    /\ outbox # <<>> /\ outbox' = Tail(outbox) /\ out_asks' = Tail(out_asks)
    /\ c_in' = [t \in Tabs |-> IF t \in subscribed
                               THEN Append(c_in[t], [ask |-> Head(out_asks), msg |-> Head(outbox)])
                               ELSE c_in[t]]
    /\ UNCHANGED <<asked, decided>>

PagesLost ==
    /\ c_in' \in [Tabs -> Seq(Items)]
    /\ \A t \in Tabs : c_in'[t] = c_in[t] \/ c_in'[t] = <<>>
    /\ UNCHANGED <<asked, decided, outbox, out_asks>>

Taking == \E t \in Tabs :
    /\ c_in[t] # <<>> /\ c_in' = [c_in EXCEPT ![t] = Tail(c_in[t])]
    /\ UNCHANGED <<asked, decided, outbox, out_asks>>

Deciding(t, item, g) ==
    /\ c_in[t] # <<>> /\ item = Head(c_in[t]) /\ item.msg.cmd = "rawdata"
    /\ c_in' = [c_in EXCEPT ![t] = Tail(c_in[t])]
    /\ decided' = Append(decided, [ask |-> item.ask, granted |-> g])
    /\ UNCHANGED <<asked, outbox, out_asks>>

LEMMA QuestionSteps ==
    ASSUME SystemTypeOK, ReadingOneCard, [SystemNext]_system
    PROVE  \/ QuestionsKept \/ AboutNothing \/ Asking \/ QuestionsLost
           \/ Forwarding \/ PagesLost \/ Taking
           \/ \E t \in Tabs, item \in Items, g \in BOOLEAN : Deciding(t, item, g)
<1>0. TypeOK /\ LogTypeOK /\ PacketTypeOK /\ ConsoleTypeOK
  BY TypeParts
<1>1. CASE DoorQuiet
  BY <1>1 DEF DoorQuiet, Sub, InitDoor, PingNotDue, YieldReturn, PollMiss, PollHit, SameCard,
              Authenticate, Read28, Read29, LedTimeout, Tick, CardArrives, CardLeaves,
              net, console, links, records, QuestionsKept
<1>2. CASE DoorHears \/ DoorShows \/ UNCHANGED system
  BY <1>2 DEF DoorHears, YieldDeliver, DoorShows, Light, system, vars, net, console, links,
              records, QuestionsKept
<1>3. CASE DoorPings
  <2>1. /\ Publish(Ping) /\ Logged(0) /\ UNCHANGED <<c_in, asked, decided>>
    BY <1>3 DEF DoorPings, Hello, PingDue, console, links
  <2>2. Ping \in Sendable /\ 0 \in Nat /\ Ping.cmd # "rawdata"
    BY <1>0, PublishedKinds DEF Ping
  <2>3. \/ UNCHANGED <<outbox, out_asks>>
        \/ outbox' = Append(outbox, Ping) /\ out_asks' = Append(out_asks, 0)
    BY <1>0, <2>1, <2>2, LoggedSteps
  <2> QED BY <2>1, <2>2, <2>3 DEF QuestionsKept, AboutNothing
<1>4. CASE DoorAsks
  <2>1. pc = "send" /\ UNCHANGED <<c_in, decided>>
    BY <1>4 DEF DoorAsks, SendKey, console, links
  <2>2. CASE heap = 0
    <3>1. Publish(NullKey) /\ Logged(0) /\ asked' = asked
      BY <1>4, <2>2 DEF DoorAsks, SendKey
    <3>2. NullKey \in Sendable /\ 0 \in Nat /\ NullKey.cmd # "rawdata"
      BY DEF NullKey, Sendable
    <3>3. \/ UNCHANGED <<outbox, out_asks>>
          \/ outbox' = Append(outbox, NullKey) /\ out_asks' = Append(out_asks, 0)
      BY <1>0, <3>1, <3>2, LoggedSteps
    <3> QED BY <2>1, <3>1, <3>2, <3>3 DEF QuestionsKept, AboutNothing
  <2>3. CASE heap # 0
    <3>1. Len(asked) + 1 \in Nat \ {0}
      BY <1>0 DEF PacketTypeOK
    <3>2. /\ Publish(RawData(key_data)) /\ Logged(Len(asked) + 1)
          /\ asked' = IF outbox' # outbox THEN Append(asked, key_data.uid) ELSE asked
      BY <1>4, <2>3, <3>1 DEF DoorAsks, SendKey
    <3>3. key_data \in Key /\ RawData(key_data) \in Sendable
      BY <1>0 DEF TypeOK, MainTypeOK, Sendable
    <3>4. OfOneCard(key_data)
      BY <2>1 DEF ReadingOneCard, OfOneCard
    <3>5. \/ UNCHANGED <<outbox, out_asks>>
          \/ /\ outbox' = Append(outbox, RawData(key_data))
             /\ out_asks' = Append(out_asks, Len(asked) + 1)
      BY <1>0, <3>1, <3>2, <3>3, LoggedSteps
    <3>6. outbox' = Append(outbox, RawData(key_data)) => outbox' # outbox
      <4>1. outbox \in Seq(Sendable)
        BY <1>0 DEF TypeOK, NetTypeOK
      <4> QED BY <3>3, <4>1
    <3> QED BY <2>1, <3>2, <3>3, <3>4, <3>5, <3>6 DEF QuestionsKept, Asking
  <2> QED BY <2>2, <2>3
<1>5. CASE DoorLoses
  BY <1>5 DEF DoorLoses, LinkFails, console, links, QuestionsLost
<1>6. CASE BrokerForwards
  BY <1>6 DEF BrokerForwards, Forwarding
<1>7. CASE \E t \in Tabs : BrokerAnswers(t)
  BY <1>7 DEF BrokerAnswers, QuestionsKept
<1>8. ASSUME NEW t \in Tabs, OpenPage(t) \/ OnConnectionLost(t)
      PROVE  PagesLost
  <2>1. UNCHANGED <<asked, decided, outbox, out_asks>>
    BY <1>8 DEF OpenPage, OnConnectionLost, vars, net, records
  <2>2. c_in' = NoPackets \/ c_in' = [c_in EXCEPT ![t] = <<>>]
    BY <1>8 DEF OpenPage, TakeOver, OnConnectionLost
  <2>3. c_in \in [Tabs -> Seq(Items)] /\ <<>> \in Seq(Items)
    BY <1>0 DEF PacketTypeOK
  <2>4. CASE c_in' = NoPackets
    BY <2>1, <2>3, <2>4 DEF NoPackets, PagesLost
  <2>5. CASE c_in' = [c_in EXCEPT ![t] = <<>>]
    <3>1. c_in' \in [Tabs -> Seq(Items)]
      BY <2>3, <2>5
    <3>2. \A u \in Tabs : c_in'[u] = c_in[u] \/ c_in'[u] = <<>>
      BY <2>3, <2>5
    <3> QED BY <2>1, <3>1, <3>2 DEF PagesLost
  <2> QED BY <2>2, <2>4, <2>5
<1>9. ASSUME NEW t \in Tabs, OnConnect(t) \/ SelectLocks(t)
      PROVE  QuestionsKept
  BY <1>9 DEF OnConnect, SelectLocks, links, records, vars, net, QuestionsKept
<1>10. ASSUME NEW t \in Tabs, OnPing(t) \/ OnUnknownRoom(t) \/ OnNullKey(t)
       PROVE  Taking
  BY <1>10 DEF OnPing, OnUnknownRoom, OnNullKey, Arrives, vars, net, Taking
<1>11. ASSUME NEW t \in Tabs, OnRawData(t)
       PROVE  \E item \in Items, g \in BOOLEAN : Deciding(t, item, g)
  <2>1. UNCHANGED <<asked, outbox, out_asks>>
    BY <1>11 DEF OnRawData, Arrives, vars, net
  <2>2. PICK c \in Cards, item \in Items :
           /\ c_in[t] # <<>> /\ item = Head(c_in[t]) /\ item.msg.cmd = "rawdata"
           /\ c_in' = [c_in EXCEPT ![t] = Tail(c_in[t])]
           /\ decided' = Append(decided, [ask |-> item.ask, granted |-> c \in rule[t]])
    BY <1>0, <1>11, PageDecides
  <2>3. (c \in rule[t]) \in BOOLEAN
    OBVIOUS
  <2>4. Deciding(t, item, c \in rule[t])
    BY <2>1, <2>2 DEF Deciding
  <2> QED BY <2>3, <2>4, Zenon
<1> QED BY <1>1, <1>2, <1>3, <1>4, <1>5, <1>6, <1>7, <1>8, <1>9, <1>10, <1>11
        DEF SystemNext, DoorNext, ConsoleNext

-----------------------------------------------------------------------------
(* Queues *)

LEMMA Dequeued ==
    ASSUME NEW S, NEW s \in Seq(S), s # <<>>
    PROVE  /\ Tail(s) \in Seq(S) /\ Head(s) \in S /\ Head(s) = s[1] /\ 1 \in 1..Len(s)
           /\ Len(Tail(s)) = Len(s) - 1
           /\ \A i \in 1..Len(Tail(s)) : i + 1 \in 1..Len(s) /\ Tail(s)[i] = s[i + 1]
  OBVIOUS

LEMMA Enqueued ==
    ASSUME NEW S, NEW s \in Seq(S), NEW e \in S
    PROVE  /\ Append(s, e) \in Seq(S) /\ Len(Append(s, e)) = Len(s) + 1
           /\ Append(s, e)[Len(s) + 1] = e
           /\ \A i \in 1..Len(s) : Append(s, e)[i] = s[i]
           /\ \A i \in 1..Len(Append(s, e)) : i \in 1..Len(s) \/ i = Len(s) + 1
  OBVIOUS

LEMMA LastAskOfAppend ==
    ASSUME NEW S, NEW s \in Seq(S), NEW v \in S
    PROVE  AC!LastAsk(Append(s, v)) = v.ask
<1>1. Append(s, v) # <<>> /\ Append(s, v)[Len(Append(s, v))] = v
  BY Enqueued
<1> QED BY <1>1 DEF AC!LastAsk

LEMMA OutOrderSteps ==
    ASSUME NEW o \in Seq(Nat), NEW n \in Nat, NEW d \in 0..n, OutOrder(o, n, d)
    PROVE  /\ OutOrder(<<>>, n, d)
           /\ OutOrder(Append(o, 0), n, d)
           /\ OutOrder(Append(o, n + 1), n + 1, d)
           /\ o # <<>> => OutOrder(Tail(o), n, d)
           /\ \A e \in 0..n : (\A l \in 1..Len(o) : o[l] > 0 => e < o[l]) => OutOrder(o, n, e)
<1>1. OutOrder(Append(o, 0), n, d)
  BY Enqueued, 0 \in Nat DEF OutOrder
<1>2. OutOrder(Append(o, n + 1), n + 1, d)
  <2>1. n + 1 \in Nat /\ \A k \in 1..Len(o) : o[k] \in Nat
    OBVIOUS
  <2> QED BY <2>1, Enqueued DEF OutOrder
<1>3. o # <<>> => OutOrder(Tail(o), n, d)
  BY Dequeued DEF OutOrder
<1>4. \A e \in 0..n : (\A l \in 1..Len(o) : o[l] > 0 => e < o[l]) => OutOrder(o, n, e)
  BY DEF OutOrder
<1>5. OutOrder(<<>>, n, d)
  BY DEF OutOrder
<1> QED BY <1>1, <1>2, <1>3, <1>4, <1>5

LEMMA InOrderSteps ==
    ASSUME NEW o \in Seq(Nat), NEW n \in Nat, NEW d \in 0..n, OutOrder(o, n, d),
           NEW q \in Seq(Items), InOrder(q, o, n, d)
    PROVE  /\ InOrder(<<>>, o, n, d)
           /\ InOrder(q, <<>>, n, d)
           /\ InOrder(q, Append(o, 0), n, d)
           /\ InOrder(q, Append(o, n + 1), n + 1, d)
           /\ o # <<>> => InOrder(q, Tail(o), n, d)
           /\ o # <<>> => \A m \in Sendable : InOrder(Append(q, [ask |-> Head(o), msg |-> m]), Tail(o), n, d)
           /\ q # <<>> => InOrder(Tail(q), o, n, d)
           /\ q # <<>> /\ q[1].ask > 0 => InOrder(Tail(q), o, n, q[1].ask) /\ OutOrder(o, n, q[1].ask)
<1>1. ASSUME NEW k \in 1..Len(q) PROVE q[k].ask \in Nat
  <2>1. q[k] \in Items
    OBVIOUS
  <2> QED BY <2>1 DEF Items
<1>2. \A k \in 1..Len(o) : o[k] \in Nat
  OBVIOUS
<1>3. InOrder(<<>>, o, n, d) /\ InOrder(q, <<>>, n, d)
  <2>1. 1..Len(<<>>) = {}
    OBVIOUS
  <2>2. InOrder(<<>>, o, n, d)
    BY <2>1, Zenon DEF InOrder
  <2>3. InOrder(q, <<>>, n, d)
    BY <2>1, Zenon DEF InOrder
  <2> QED BY <2>2, <2>3
<1>4. InOrder(q, Append(o, 0), n, d)
  <2>1. \A l \in 1..Len(Append(o, 0)) :
           Append(o, 0)[l] > 0 => l \in 1..Len(o) /\ Append(o, 0)[l] = o[l]
    BY Enqueued, 0 \in Nat
  <2> QED BY <2>1 DEF InOrder
<1>5. InOrder(q, Append(o, n + 1), n + 1, d)
  <2>1. \A l \in 1..Len(Append(o, n + 1)) :
           \/ l \in 1..Len(o) /\ Append(o, n + 1)[l] = o[l]
           \/ Append(o, n + 1)[l] = n + 1
    BY Enqueued, n + 1 \in Nat
  <2>2. \A k \in 1..Len(q) : q[k].ask > 0 => d < q[k].ask /\ q[k].ask <= n
    BY DEF InOrder
  <2>3. ASSUME NEW k \in 1..Len(q), q[k].ask > 0
        PROVE  /\ q[k].ask <= n + 1 /\ q[k].ask < n + 1
    BY <1>1, <2>2, <2>3
  <2> QED BY <2>1, <2>2, <2>3 DEF InOrder
<1>6. ASSUME o # <<>> PROVE InOrder(q, Tail(o), n, d)
  BY <1>1, <1>2, <1>6, Dequeued DEF InOrder
<1>7. ASSUME o # <<>>, NEW m \in Sendable
      PROVE  InOrder(Append(q, [ask |-> Head(o), msg |-> m]), Tail(o), n, d)
  <2>1. PICK e \in Items : e = [ask |-> Head(o), msg |-> m]
    BY <1>7, Dequeued DEF Items
  <2>2. e.ask = o[1] /\ 1 \in 1..Len(o)
    BY <1>7, <2>1, Dequeued
  <2>3. e.ask > 0 => d < e.ask /\ e.ask <= n
    BY <2>2 DEF OutOrder
  <2>4. \A l \in 1..Len(Tail(o)) : e.ask > 0 /\ Tail(o)[l] > 0 => e.ask < Tail(o)[l]
    BY <1>2, <1>7, <2>2, Dequeued DEF OutOrder
  <2>5. \A k \in 1..Len(q) : q[k].ask > 0 /\ e.ask > 0 => q[k].ask < e.ask
    BY <2>2 DEF InOrder
  <2>6. InOrder(q, Tail(o), n, d)
    BY <1>6, <1>7
  <2>7. InOrder(Append(q, e), Tail(o), n, d)
    BY <1>1, <2>3, <2>4, <2>5, <2>6, Enqueued DEF InOrder
  <2> QED BY <2>1, <2>7
<1>8. ASSUME q # <<>> PROVE InOrder(Tail(q), o, n, d)
  <2>1. \A k \in 1..Len(Tail(q)) : Tail(q)[k] = q[k + 1] /\ k + 1 \in 1..Len(q) /\ k \in Nat
    BY <1>8, Dequeued
  <2>2. ASSUME NEW k \in 1..Len(Tail(q)), Tail(q)[k].ask > 0
        PROVE  /\ d < Tail(q)[k].ask /\ Tail(q)[k].ask <= n
               /\ \A l \in 1..Len(o) : o[l] > 0 => Tail(q)[k].ask < o[l]
    BY <2>1, <2>2 DEF InOrder
  <2>3. ASSUME NEW k \in 1..Len(Tail(q)), NEW l \in 1..Len(Tail(q)), k < l,
               Tail(q)[k].ask > 0, Tail(q)[l].ask > 0
        PROVE  Tail(q)[k].ask < Tail(q)[l].ask
    <3>1. k + 1 < l + 1
      BY <2>1, <2>3
    <3> QED BY <2>1, <2>3, <3>1 DEF InOrder
  <2> QED BY <2>2, <2>3 DEF InOrder
<1>9. ASSUME q # <<>>, q[1].ask > 0
      PROVE  InOrder(Tail(q), o, n, q[1].ask) /\ OutOrder(o, n, q[1].ask)
  <2>1. \A k \in 1..Len(Tail(q)) : Tail(q)[k] = q[k + 1] /\ k + 1 \in 1..Len(q) /\ 1 \in 1..Len(q)
    BY <1>9, Dequeued
  <2>2. InOrder(Tail(q), o, n, q[1].ask)
    BY <1>1, <1>8, <1>9, <2>1 DEF InOrder
  <2>3. 1 \in 1..Len(q)
    BY <1>9, Dequeued
  <2>4. OutOrder(o, n, q[1].ask)
    BY <1>9, <2>3 DEF OutOrder, InOrder
  <2> QED BY <2>2, <2>4
<1> QED BY <1>3, <1>4, <1>5, <1>6, <1>7, <1>8, <1>9

-----------------------------------------------------------------------------
(* The questions stay faithful and in order *)

\* What the questions rest on.
QuestionsInv ==
    /\ SystemTypeOK /\ ReadingOneCard /\ OneInCharge
    /\ QuestionsFaithful /\ QuestionsInOrder

LEMMA QuestionTypes ==
    ASSUME QuestionsInv
    PROVE  /\ outbox \in Seq(Sendable) /\ out_asks \in Seq(Nat) /\ Len(out_asks) = Len(outbox)
           /\ c_in \in [Tabs -> Seq(Items)] /\ asked \in Seq(Cards) /\ decided \in Seq(Verdicts)
  BY TypeParts DEF QuestionsInv, TypeOK, NetTypeOK, LogTypeOK, PacketTypeOK

\* A question about to be decided: what it asks, and that no other is
\* on its way to another page.
LEMMA DecidingFacts ==
    ASSUME QuestionsInv, NEW t \in Tabs, NEW item \in Items, NEW g \in BOOLEAN,
           Deciding(t, item, g)
    PROVE  /\ Asks(asked, item.ask, item.msg.key) /\ item = c_in[t][1] /\ 1 \in 1..Len(c_in[t])
           /\ item.ask \in 1..Len(asked) /\ AC!LastAsk(decided) < item.ask
           /\ [ask |-> item.ask, granted |-> g] \in Verdicts
           /\ AC!LastAsk(decided') = item.ask
           /\ \A u \in Tabs : u # t => c_in[u] = <<>> /\ c_out[u] = <<>>
           /\ t \in connected
<1>1. PacketTypeOK /\ ConsoleTypeOK
  BY TypeParts DEF QuestionsInv
<1>2. c_in[t] \in Seq(Items) /\ c_in[t] # <<>> /\ item = Head(c_in[t])
  BY <1>1 DEF Deciding, PacketTypeOK
<1>3. item = c_in[t][1] /\ 1 \in 1..Len(c_in[t])
  BY <1>2, Dequeued
<1>4. Asks(asked, item.ask, item.msg.key) /\ [ask |-> item.ask, granted |-> g] \in Verdicts
  BY <1>1, <1>2, VerdictType DEF QuestionsInv, Deciding
<1>5. item.ask \in 1..Len(asked)
  BY <1>4 DEF Asks
<1>6. AC!LastAsk(decided) < item.ask
  <2>1. InOrder(c_in[t], out_asks, Len(asked), AC!LastAsk(decided))
    BY DEF QuestionsInv, QuestionsInOrder
  <2>2. item.ask > 0
    BY <1>5, QuestionTypes
  <2> QED BY <1>3, <2>1, <2>2 DEF InOrder
<1>7. AC!LastAsk(decided') = item.ask
  <2>1. PICK v \in Verdicts : v = [ask |-> item.ask, granted |-> g]
    BY <1>4
  <2>2. AC!LastAsk(Append(decided, v)) = v.ask
    BY QuestionTypes, LastAskOfAppend
  <2> QED BY <2>1, <2>2 DEF Deciding
<1>8. \A u \in Tabs : u # t => c_in[u] = <<>> /\ c_out[u] = <<>>
  BY <1>1, <1>2 DEF QuestionsInv, OneInCharge, ConsoleTypeOK
<1>9. t \in connected
  BY <1>2 DEF QuestionsInv, OneInCharge
<1> QED BY <1>3, <1>4, <1>5, <1>6, <1>7, <1>8, <1>9

LEMMA QuestionsOrdered ==
    ASSUME QuestionsInv, [SystemNext]_system
    PROVE  QuestionsInOrder'
<1>1. PICK n, d : n = Len(asked) /\ d = AC!LastAsk(decided)
  OBVIOUS
<1>2. /\ n \in Nat /\ d \in 0..n /\ out_asks \in Seq(Nat) /\ OutOrder(out_asks, n, d)
      /\ \A t \in Tabs : c_in[t] \in Seq(Items) /\ InOrder(c_in[t], out_asks, n, d)
  BY <1>1, QuestionTypes DEF QuestionsInv, QuestionsInOrder
<1>3. ASSUME UNCHANGED <<asked, decided>>
      PROVE  AC!LastAsk(decided') = d /\ Len(asked') = n
  BY <1>1, <1>3
<1>4. ASSUME NEW m \in Nat, NEW e \in 0..m, m = Len(asked'), e = AC!LastAsk(decided'),
             OutOrder(out_asks', m, e), \A t \in Tabs : InOrder(c_in'[t], out_asks', m, e)
      PROVE  QuestionsInOrder'
  BY <1>4 DEF QuestionsInOrder
<1>5. CASE QuestionsKept
  BY <1>2, <1>3, <1>4, <1>5 DEF QuestionsKept
<1>6. CASE AboutNothing
  <2>1. out_asks' = Append(out_asks, 0) /\ c_in' = c_in /\ UNCHANGED <<asked, decided>>
    BY <1>6 DEF AboutNothing
  <2>2. OutOrder(out_asks', n, d) /\ \A t \in Tabs : InOrder(c_in'[t], out_asks', n, d)
    BY <1>2, <2>1, OutOrderSteps, InOrderSteps
  <2> QED BY <1>2, <1>3, <1>4, <2>1, <2>2
<1>7. CASE Asking
  <2>1. PICK key \in Key : OfOneCard(key) /\ asked' = Append(asked, key.uid)
    BY <1>7 DEF Asking
  <2>2. out_asks' = Append(out_asks, n + 1) /\ c_in' = c_in /\ decided' = decided
    BY <1>1, <1>7 DEF Asking
  <2>3. Len(asked') = n + 1
    BY <1>1, <2>1, QuestionTypes, Enqueued DEF OfOneCard
  <2>4. OutOrder(out_asks', n + 1, d) /\ \A t \in Tabs : InOrder(c_in'[t], out_asks', n + 1, d)
    BY <1>2, <2>2, OutOrderSteps, InOrderSteps
  <2>5. n + 1 \in Nat /\ d \in 0..(n + 1) /\ d = AC!LastAsk(decided')
    BY <1>1, <1>2, <2>2
  <2> QED BY <1>4, <2>3, <2>4, <2>5
<1>8. CASE QuestionsLost
  <2>1. out_asks' = <<>> /\ c_in' = c_in /\ UNCHANGED <<asked, decided>>
    BY <1>8 DEF QuestionsLost
  <2>2. OutOrder(out_asks', n, d) /\ \A t \in Tabs : InOrder(c_in'[t], out_asks', n, d)
    BY <1>2, <2>1, OutOrderSteps, InOrderSteps
  <2> QED BY <1>2, <1>3, <1>4, <2>1, <2>2
<1>9. CASE Forwarding
  <2>1. /\ out_asks # <<>> /\ out_asks' = Tail(out_asks) /\ UNCHANGED <<asked, decided>>
        /\ Head(outbox) \in Sendable
    BY <1>9, QuestionTypes DEF Forwarding
  <2>2. ASSUME NEW t \in Tabs PROVE InOrder(c_in'[t], out_asks', n, d)
    <3>1. \/ c_in'[t] = c_in[t]
          \/ c_in'[t] = Append(c_in[t], [ask |-> Head(out_asks), msg |-> Head(outbox)])
      BY <1>9 DEF Forwarding
    <3>2. c_in[t] \in Seq(Items) /\ InOrder(c_in[t], out_asks, n, d)
      BY <1>2
    <3> QED BY <1>2, <2>1, <3>1, <3>2, InOrderSteps
  <2>3. OutOrder(out_asks', n, d)
    BY <1>2, <2>1, OutOrderSteps
  <2> QED BY <1>2, <1>3, <1>4, <2>1, <2>2, <2>3
<1>10. CASE PagesLost
  <2>1. out_asks' = out_asks /\ UNCHANGED <<asked, decided>>
    BY <1>10 DEF PagesLost
  <2>2. ASSUME NEW t \in Tabs PROVE InOrder(c_in'[t], out_asks', n, d)
    <3>1. c_in'[t] = c_in[t] \/ c_in'[t] = <<>>
      BY <1>10 DEF PagesLost
    <3>2. c_in[t] \in Seq(Items) /\ InOrder(c_in[t], out_asks, n, d)
      BY <1>2
    <3> QED BY <1>2, <2>1, <3>1, <3>2, InOrderSteps
  <2> QED BY <1>2, <1>3, <1>4, <2>1, <2>2
<1>11. CASE Taking
  <2>1. PICK t \in Tabs : c_in[t] # <<>> /\ c_in' = [c_in EXCEPT ![t] = Tail(c_in[t])]
    BY <1>11 DEF Taking
  <2>2. out_asks' = out_asks /\ UNCHANGED <<asked, decided>>
    BY <1>11 DEF Taking
  <2>3. ASSUME NEW u \in Tabs PROVE InOrder(c_in'[u], out_asks', n, d)
    <3>1. c_in'[u] = c_in[u] \/ (c_in[u] # <<>> /\ c_in'[u] = Tail(c_in[u]))
      BY <2>1, QuestionTypes
    <3>2. c_in[u] \in Seq(Items) /\ InOrder(c_in[u], out_asks, n, d)
      BY <1>2
    <3> QED BY <1>2, <2>2, <3>1, <3>2, InOrderSteps
  <2> QED BY <1>2, <1>3, <1>4, <2>2, <2>3
<1>12. ASSUME NEW t \in Tabs, NEW item \in Items, NEW g \in BOOLEAN, Deciding(t, item, g)
       PROVE  QuestionsInOrder'
  <2>1. /\ item = c_in[t][1] /\ item.ask \in 1..n /\ AC!LastAsk(decided') = item.ask
        /\ \A u \in Tabs : u # t => c_in[u] = <<>>
    BY <1>1, <1>12, DecidingFacts
  <2>2. /\ c_in[t] # <<>> /\ c_in' = [c_in EXCEPT ![t] = Tail(c_in[t])]
        /\ out_asks' = out_asks /\ asked' = asked
    BY <1>12 DEF Deciding
  <2>3. InOrder(Tail(c_in[t]), out_asks, n, item.ask) /\ OutOrder(out_asks, n, item.ask)
    <3>1. c_in[t] \in Seq(Items) /\ InOrder(c_in[t], out_asks, n, d) /\ c_in[t][1].ask > 0
      BY <1>2, <2>1
    <3> QED BY <1>2, <2>1, <2>2, <3>1, InOrderSteps
  <2>4. ASSUME NEW u \in Tabs PROVE InOrder(c_in'[u], out_asks', n, item.ask)
    <3>1. CASE u = t
      BY <2>2, <2>3, <3>1, QuestionTypes
    <3>2. CASE u # t
      <4>1. c_in'[u] = <<>>
        BY <2>1, <2>2, <3>2, QuestionTypes
      <4> QED BY <4>1 DEF InOrder
    <3> QED BY <3>1, <3>2
  <2>5. item.ask \in 0..n /\ n = Len(asked')
    BY <1>1, <2>1, <2>2
  <2> QED BY <1>2, <1>4, <2>1, <2>2, <2>3, <2>4, <2>5
<1> QED BY <1>5, <1>6, <1>7, <1>8, <1>9, <1>10, <1>11, <1>12, QuestionSteps DEF QuestionsInv

LEMMA QuestionsAsked ==
    ASSUME QuestionsInv, [SystemNext]_system
    PROVE  QuestionsFaithful'
<1>1. /\ outbox \in Seq(Sendable) /\ out_asks \in Seq(Nat) /\ Len(out_asks) = Len(outbox)
      /\ c_in \in [Tabs -> Seq(Items)] /\ asked \in Seq(Cards)
  BY QuestionTypes
<1>2. /\ \A k \in 1..Len(outbox) : outbox[k].cmd = "rawdata" => Asks(asked, out_asks[k], outbox[k].key)
      /\ \A t \in Tabs : \A k \in 1..Len(c_in[t]) :
            c_in[t][k].msg.cmd = "rawdata" => Asks(asked, c_in[t][k].ask, c_in[t][k].msg.key)
  BY DEF QuestionsInv, QuestionsFaithful
<1>3. CASE QuestionsKept
  BY <1>2, <1>3 DEF QuestionsKept, QuestionsFaithful, Asks
<1>4. CASE AboutNothing
  <2>1. PICK m \in Sendable : m.cmd # "rawdata" /\ outbox' = Append(outbox, m)
    BY <1>4 DEF AboutNothing
  <2>2. out_asks' = Append(out_asks, 0) /\ UNCHANGED <<c_in, asked>>
    BY <1>4 DEF AboutNothing
  <2>3. ASSUME NEW k \in 1..Len(outbox'), outbox'[k].cmd = "rawdata"
        PROVE  Asks(asked, out_asks'[k], outbox'[k].key)
    <3>1. k \in 1..Len(outbox) /\ outbox'[k] = outbox[k] /\ out_asks'[k] = out_asks[k]
      BY <1>1, <2>1, <2>2, <2>3
    <3> QED BY <1>2, <2>3, <3>1
  <2> QED BY <1>2, <2>2, <2>3 DEF QuestionsFaithful, Asks
<1>5. CASE Asking
  <2>1. PICK key \in Key : /\ OfOneCard(key) /\ asked' = Append(asked, key.uid)
                           /\ outbox' = Append(outbox, RawData(key))
    BY <1>5 DEF Asking
  <2>2. out_asks' = Append(out_asks, Len(asked) + 1) /\ c_in' = c_in
    BY <1>5 DEF Asking
  <2>3. key.uid \in Cards /\ RawData(key) \in Sendable /\ RawData(key).key = key
    BY <2>1 DEF OfOneCard, Sendable, RawData
  <2>4. ASSUME NEW n, NEW k1, Asks(asked, n, k1) PROVE Asks(asked', n, k1)
    BY <1>1, <2>1, <2>3, <2>4, Enqueued DEF Asks, OfOneCard
  <2>5. ASSUME NEW k \in 1..Len(outbox'), outbox'[k].cmd = "rawdata"
        PROVE  Asks(asked', out_asks'[k], outbox'[k].key)
    <3>1. CASE k \in 1..Len(outbox)
      <4>1. outbox'[k] = outbox[k] /\ out_asks'[k] = out_asks[k]
        BY <1>1, <2>1, <2>2, <2>3, <3>1, Enqueued
      <4>2. Asks(asked, out_asks[k], outbox[k].key)
        BY <1>2, <2>5, <3>1, <4>1
      <4> QED BY <2>4, <4>1, <4>2
    <3>2. CASE k = Len(outbox) + 1
      <4>1. outbox'[k] = RawData(key) /\ out_asks'[k] = Len(asked) + 1
        BY <1>1, <2>1, <2>2, <2>3, <3>2
      <4>2. Len(asked) + 1 \in 1..Len(asked') /\ asked'[Len(asked) + 1] = key.uid
        BY <1>1, <2>1, <2>3
      <4> QED BY <2>1, <2>3, <4>1, <4>2 DEF Asks, OfOneCard
    <3> QED BY <1>1, <2>1, <2>3, <3>1, <3>2
  <2>6. ASSUME NEW t \in Tabs, NEW k \in 1..Len(c_in'[t]), c_in'[t][k].msg.cmd = "rawdata"
        PROVE  Asks(asked', c_in'[t][k].ask, c_in'[t][k].msg.key)
    BY <1>2, <2>2, <2>4, <2>6
  <2> QED BY <2>5, <2>6 DEF QuestionsFaithful
<1>6. CASE QuestionsLost
  BY <1>2, <1>6 DEF QuestionsLost, QuestionsFaithful, Asks
<1>7. CASE Forwarding
  <2>1. /\ outbox # <<>> /\ outbox' = Tail(outbox) /\ out_asks' = Tail(out_asks) /\ asked' = asked
    BY <1>7 DEF Forwarding
  <2>2. ASSUME NEW k \in 1..Len(outbox'), outbox'[k].cmd = "rawdata"
        PROVE  Asks(asked, out_asks'[k], outbox'[k].key)
    <3>1. k + 1 \in 1..Len(outbox) /\ outbox'[k] = outbox[k + 1] /\ out_asks'[k] = out_asks[k + 1]
      BY <1>1, <2>1
    <3> QED BY <1>2, <2>2, <3>1
  <2>3. ASSUME NEW t \in Tabs, NEW k \in 1..Len(c_in'[t]), c_in'[t][k].msg.cmd = "rawdata"
        PROVE  Asks(asked, c_in'[t][k].ask, c_in'[t][k].msg.key)
    <3>1. CASE k \in 1..Len(c_in[t]) /\ c_in'[t][k] = c_in[t][k]
      BY <1>2, <2>3, <3>1
    <3>2. CASE c_in'[t][k] = [ask |-> out_asks[1], msg |-> outbox[1]]
      <4>1. 1 \in 1..Len(outbox)
        BY <1>1, <2>1
      <4> QED BY <1>2, <2>3, <3>2, <4>1
    <3>0. Head(out_asks) \in Nat /\ Head(outbox) \in Sendable
      BY <1>1, <2>1
    <3>3. PICK e \in Items : e = [ask |-> Head(out_asks), msg |-> Head(outbox)]
      BY <3>0 DEF Items
    <3>4. e = [ask |-> out_asks[1], msg |-> outbox[1]]
      BY <1>1, <2>1, <3>3
    <3>5. c_in'[t] = c_in[t] \/ c_in'[t] = Append(c_in[t], e)
      BY <1>7, <3>3 DEF Forwarding
    <3>6. c_in[t] \in Seq(Items)
      BY <1>1
    <3> QED BY <3>1, <3>2, <3>4, <3>5, <3>6, Enqueued
  <2> QED BY <2>1, <2>2, <2>3 DEF QuestionsFaithful, Asks
<1>8. CASE PagesLost
  BY <1>2, <1>8 DEF PagesLost, QuestionsFaithful, Asks
<1>9. CASE Taking \/ \E t \in Tabs, item \in Items, g \in BOOLEAN : Deciding(t, item, g)
  <2>1. PICK t \in Tabs : c_in[t] # <<>> /\ c_in' = [c_in EXCEPT ![t] = Tail(c_in[t])]
    BY <1>9 DEF Taking, Deciding
  <2>2. UNCHANGED <<outbox, out_asks, asked>>
    BY <1>9 DEF Taking, Deciding
  <2>3. ASSUME NEW u \in Tabs, NEW k \in 1..Len(c_in'[u]), c_in'[u][k].msg.cmd = "rawdata"
        PROVE  Asks(asked, c_in'[u][k].ask, c_in'[u][k].msg.key)
    <3>1. PICK j \in 1..Len(c_in[u]) : c_in'[u][k] = c_in[u][j]
      <4>1. CASE u = t
        <5>1. c_in[u] \in Seq(Items) /\ c_in[u] # <<>> /\ c_in'[u] = Tail(c_in[u])
          BY <1>1, <2>1, <4>1
        <5> QED BY <5>1, Dequeued
      <4>2. CASE u # t
        BY <1>1, <2>1, <4>2
      <4> QED BY <4>1, <4>2
    <3> QED BY <1>2, <2>3, <3>1
  <2> QED BY <1>2, <2>2, <2>3 DEF QuestionsFaithful, Asks
<1> QED BY <1>3, <1>4, <1>5, <1>6, <1>7, <1>8, <1>9, QuestionSteps DEF QuestionsInv

LEMMA QuestionsTyped ==
    ASSUME QuestionsInv, [SystemNext]_system
    PROVE  c_in' \in [Tabs -> Seq(Items)] /\ asked' \in Seq(Cards) /\ decided' \in Seq(Verdicts)
<1>1. /\ outbox \in Seq(Sendable) /\ out_asks \in Seq(Nat) /\ Len(out_asks) = Len(outbox)
      /\ c_in \in [Tabs -> Seq(Items)] /\ asked \in Seq(Cards) /\ decided \in Seq(Verdicts)
  BY QuestionTypes
<1>2. CASE QuestionsKept \/ AboutNothing \/ QuestionsLost \/ PagesLost
  BY <1>1, <1>2 DEF QuestionsKept, AboutNothing, QuestionsLost, PagesLost
<1>3. CASE Asking
  BY <1>1, <1>3 DEF Asking, OfOneCard
<1>4. CASE Forwarding
  <2>0. Head(out_asks) \in Nat /\ Head(outbox) \in Sendable
    BY <1>1, <1>4 DEF Forwarding
  <2>1. PICK e \in Items : e = [ask |-> Head(out_asks), msg |-> Head(outbox)]
    BY <2>0 DEF Items
  <2> QED BY <1>1, <1>4, <2>1 DEF Forwarding
<1>5. CASE Taking
  BY <1>1, <1>5 DEF Taking
<1>6. ASSUME NEW t \in Tabs, NEW item \in Items, NEW g \in BOOLEAN, Deciding(t, item, g)
      PROVE  c_in' \in [Tabs -> Seq(Items)] /\ asked' = asked /\ decided' \in Seq(Verdicts)
  <2>1. c_in' = [c_in EXCEPT ![t] = Tail(c_in[t])] /\ c_in[t] # <<>> /\ asked' = asked
        /\ decided' = Append(decided, [ask |-> item.ask, granted |-> g])
    BY <1>6 DEF Deciding
  <2>2. [ask |-> item.ask, granted |-> g] \in Verdicts
    BY <1>6, DecidingFacts
  <2>3. c_in' \in [Tabs -> Seq(Items)]
    BY <1>1, <2>1
  <2>4. decided' \in Seq(Verdicts)
    BY <1>1, <2>1, <2>2, Enqueued
  <2> QED BY <2>1, <2>3, <2>4
<1> QED BY <1>1, <1>2, <1>3, <1>4, <1>5, <1>6, QuestionSteps DEF QuestionsInv

LEMMA SystemReading ==
    ASSUME QuestionsInv, [SystemNext]_system
    PROVE  ReadingOneCard'
<1>1. CASE [Next]_vars
  BY <1>1, ReadingStep, TypeParts DEF QuestionsInv
<1>2. CASE \E t \in Tabs : BrokerAnswers(t)
  BY <1>2 DEF BrokerAnswers, main, reader, QuestionsInv, ReadingOneCard
<1> QED BY <1>1, <1>2, DoorSteps

LEMMA StillOneInCharge ==
    ASSUME SystemTypeOK, OneInCharge, [SystemNext]_system
    PROVE  OneInCharge'
<1>0. ConsoleTypeOK /\ c_in \in [Tabs -> Seq(Items)] /\ c_out \in [Tabs -> Seq(Verdicts)]
  BY TypeParts DEF PacketTypeOK
<1>1. CASE UNCHANGED links
  BY <1>1 DEF links, OneInCharge
<1>2. CASE DoorNext \/ UNCHANGED system
  BY <1>1, <1>2 DEF DoorNext, DoorQuiet, DoorPings, DoorAsks, DoorHears, DoorShows, DoorLoses,
                    system, console
<1>3. CASE BrokerForwards
  <2>1. UNCHANGED <<connected, subscribed, c_out>>
    BY <1>3 DEF BrokerForwards
  <2>2. \A t \in Tabs : t \notin subscribed => c_in'[t] = c_in[t]
    BY <1>3 DEF BrokerForwards
  <2>3. \A t \in Tabs : t \notin connected => t \notin subscribed
    BY <1>0 DEF ConsoleTypeOK
  <2> QED BY <2>1, <2>2, <2>3 DEF OneInCharge
<1>4. ASSUME NEW t \in Tabs, BrokerAnswers(t) PROVE OneInCharge'
  <2>1. UNCHANGED <<connected, subscribed, c_in>> /\ c_out[t] # <<>>
        /\ c_out' = [c_out EXCEPT ![t] = Tail(c_out[t])]
    BY <1>4 DEF BrokerAnswers
  <2> QED BY <1>0, <2>1 DEF OneInCharge
<1>5. ASSUME NEW t \in Tabs, OpenPage(t) PROVE OneInCharge'
  BY <1>5 DEF OpenPage, TakeOver, NoPackets, OneInCharge
<1>6. ASSUME NEW t \in Tabs, OnConnect(t) PROVE OneInCharge'
  BY <1>6 DEF OnConnect, OneInCharge
<1>7. ASSUME NEW t \in Tabs, OnConnectionLost(t) PROVE OneInCharge'
  <2>1. /\ connected' = connected \ {t} /\ subscribed' = subscribed \ {t}
        /\ c_in' = [c_in EXCEPT ![t] = <<>>] /\ c_out' = [c_out EXCEPT ![t] = <<>>]
    BY <1>7 DEF OnConnectionLost
  <2>2. c_in'[t] = <<>> /\ c_out'[t] = <<>>
    BY <1>0, <2>1
  <2>3. \A u \in Tabs : u # t => c_in'[u] = c_in[u] /\ c_out'[u] = c_out[u]
    BY <1>0, <2>1
  <2> QED BY <2>1, <2>2, <2>3 DEF OneInCharge
<1>8. ASSUME NEW t \in Tabs, OnPing(t) \/ OnRawData(t) \/ OnUnknownRoom(t) \/ OnNullKey(t)
      PROVE  OneInCharge'
  <2>1. /\ UNCHANGED <<connected, subscribed>>
        /\ c_in[t] # <<>> /\ c_in' = [c_in EXCEPT ![t] = Tail(c_in[t])]
    BY <1>8 DEF OnPing, OnRawData, OnUnknownRoom, OnNullKey, Arrives
  <2>2. \A u \in Tabs : u # t => c_out'[u] = c_out[u]
    BY <1>0, <1>8 DEF OnPing, OnRawData, OnUnknownRoom, OnNullKey
  <2>3. t \in subscribed /\ t \in connected
    BY <1>0, <2>1 DEF OneInCharge, ConsoleTypeOK
  <2> QED BY <1>0, <2>1, <2>2, <2>3 DEF OneInCharge
<1>9. ASSUME NEW t \in Tabs, SelectLocks(t) PROVE OneInCharge'
  BY <1>1, <1>9 DEF SelectLocks
<1> QED BY <1>2, <1>3, <1>4, <1>5, <1>6, <1>7, <1>8, <1>9 DEF SystemNext, ConsoleNext

-----------------------------------------------------------------------------
(* What a step does to the answers *)

AnswersKept ==
    /\ UNCHANGED <<c_out, in_asks, inbox, decided, shown>>
    /\ UNCHANGED <<pc, lighting>> \/ (pc # "light" /\ pc' # "light")

Hearing ==
    /\ pc # "light" /\ pc' = "light"
    /\ inbox # <<>> /\ inbox' = Tail(inbox)
    /\ lighting' = IF Head(inbox) = "grant" THEN "green" ELSE "red"
    /\ UNCHANGED <<c_out, in_asks, decided, shown>>

Dropping ==
    /\ pc # "light" /\ pc' # "light"
    /\ inbox # <<>> /\ inbox' = Tail(inbox) /\ in_asks' = Tail(in_asks)
    /\ UNCHANGED <<c_out, decided, shown>>

Showing ==
    /\ pc = "light" /\ pc' # "light"
    /\ shown' = Append(shown, [ask |-> Head(in_asks), granted |-> lighting = "green"])
    /\ in_asks' = Tail(in_asks)
    /\ UNCHANGED <<c_out, inbox, decided>>

Answering(t) ==
    /\ c_out[t] # <<>> /\ c_out' = [c_out EXCEPT ![t] = Tail(c_out[t])]
    /\ \/ UNCHANGED <<inbox, in_asks>>
       \/ /\ inbox' = Append(inbox, IF Head(c_out[t]).granted THEN "grant" ELSE "deny")
          /\ in_asks' = Append(in_asks, Head(c_out[t]).ask)
    /\ UNCHANGED <<pc, lighting, decided, shown>>

AnswersLost ==
    /\ c_out' \in [Tabs -> Seq(Verdicts)]
    /\ \A t \in Tabs : c_out'[t] = c_out[t] \/ c_out'[t] = <<>>
    /\ UNCHANGED <<pc, lighting, in_asks, inbox, decided, shown>>

Answered(t, v) ==
    /\ AC!LastAsk(decided) < v.ask
    /\ c_out' = [c_out EXCEPT ![t] = Append(c_out[t], v)]
    /\ decided' = Append(decided, v)
    /\ UNCHANGED <<pc, lighting, in_asks, inbox, shown>>

LEMMA AnswerSteps ==
    ASSUME QuestionsInv, [SystemNext]_system
    PROVE  \/ AnswersKept \/ Hearing \/ Dropping \/ Showing
           \/ \E t \in Tabs : Answering(t)
           \/ AnswersLost
           \/ \E t \in Tabs, v \in Verdicts : Answered(t, v)
<1>0. TypeOK /\ c_out \in [Tabs -> Seq(Verdicts)]
  BY TypeParts DEF PacketTypeOK, QuestionsInv
<1>1. CASE DoorQuiet
  <2>1. inbox' = inbox /\ UNCHANGED <<c_out, in_asks, decided, shown>>
    BY <1>1 DEF DoorQuiet, Sub, InitDoor, PingNotDue, YieldReturn, PollMiss, PollHit, SameCard,
                Authenticate, Read28, Read29, LedTimeout, Tick, CardArrives, CardLeaves, net,
                console, links, records
  <2>2. UNCHANGED <<pc, lighting>> \/ (pc # "light" /\ pc' # "light")
    BY <1>1 DEF DoorQuiet, Sub, InitDoor, PingNotDue, YieldReturn, PollMiss, PollHit, SameCard,
                Authenticate, Read28, Read29, LedTimeout, Tick, CardArrives, CardLeaves, main
  <2> QED BY <2>1, <2>2 DEF AnswersKept
<1>2. CASE DoorPings \/ DoorAsks \/ DoorLoses \/ BrokerForwards
  BY <1>2 DEF DoorPings, Hello, PingDue, DoorAsks, SendKey, DoorLoses, LinkFails, BrokerForwards,
              main, console, links, AnswersKept
<1>3. CASE DoorHears
  BY <1>3 DEF DoorHears, YieldDeliver, MessageArrived, console, links, Hearing, Dropping
<1>4. CASE DoorShows
  BY <1>4 DEF DoorShows, Light, net, console, links, Showing
<1>5. ASSUME NEW t \in Tabs, BrokerAnswers(t) PROVE Answering(t)
  BY <1>5 DEF BrokerAnswers, main, Answering
<1>6. ASSUME NEW t \in Tabs, OpenPage(t) \/ OnConnectionLost(t) PROVE AnswersLost
  <2>1. UNCHANGED <<pc, lighting, in_asks, inbox, decided, shown>>
    BY <1>6 DEF OpenPage, OnConnectionLost, vars, main, net, records
  <2>2. CASE c_out' = NoPackets
    BY <2>1, <2>2 DEF NoPackets, AnswersLost
  <2>3. CASE c_out' = [c_out EXCEPT ![t] = <<>>]
    <3>1. c_out' \in [Tabs -> Seq(Verdicts)]
      BY <1>0, <2>3
    <3>2. \A u \in Tabs : c_out'[u] = c_out[u] \/ c_out'[u] = <<>>
      BY <1>0, <2>3
    <3> QED BY <2>1, <3>1, <3>2 DEF AnswersLost
  <2> QED BY <1>6, <2>2, <2>3 DEF OpenPage, TakeOver, OnConnectionLost
<1>7. ASSUME NEW t \in Tabs,
             OnConnect(t) \/ SelectLocks(t) \/ OnPing(t) \/ OnUnknownRoom(t) \/ OnNullKey(t)
      PROVE  AnswersKept
  BY <1>7 DEF OnConnect, SelectLocks, OnPing, OnUnknownRoom, OnNullKey, Arrives, vars, main, net,
              links, records, AnswersKept
<1>8. ASSUME NEW t \in Tabs, OnRawData(t) PROVE \E v \in Verdicts : Answered(t, v)
  <2>1. UNCHANGED <<pc, lighting, in_asks, inbox, shown>>
    BY <1>8 DEF OnRawData, Arrives, vars, main, net
  <2>2. PacketTypeOK /\ QuestionsFaithful
    BY TypeParts DEF QuestionsInv
  <2>3. PICK c \in Cards, item \in Items :
           /\ c_in[t] # <<>> /\ item = Head(c_in[t]) /\ item.msg.cmd = "rawdata"
           /\ c_in' = [c_in EXCEPT ![t] = Tail(c_in[t])]
           /\ c_out' = [c_out EXCEPT ![t] = Append(c_out[t], [ask |-> item.ask, granted |-> c \in rule[t]])]
           /\ decided' = Append(decided, [ask |-> item.ask, granted |-> c \in rule[t]])
    BY <1>8, <2>2, PageDecides
  <2>4. (c \in rule[t]) \in BOOLEAN
    OBVIOUS
  <2>5. UNCHANGED <<asked, outbox, out_asks>>
    BY <1>8 DEF OnRawData, Arrives, vars, net
  <2>6. Deciding(t, item, c \in rule[t])
    BY <2>3, <2>5 DEF Deciding
  <2>7. AC!LastAsk(decided) < item.ask /\ [ask |-> item.ask, granted |-> c \in rule[t]] \in Verdicts
    BY <2>4, <2>6, DecidingFacts
  <2>8. PICK v \in Verdicts : v = [ask |-> item.ask, granted |-> c \in rule[t]]
    BY <2>7
  <2>9. v.ask = item.ask
    BY <2>8
  <2> QED BY <2>1, <2>3, <2>7, <2>8, <2>9 DEF Answered
<1>9. CASE UNCHANGED system
  BY <1>9 DEF system, vars, main, net, console, links, records, AnswersKept
<1> QED BY <1>1, <1>2, <1>3, <1>4, <1>5, <1>6, <1>7, <1>8, <1>9 DEF SystemNext, DoorNext, ConsoleNext

-----------------------------------------------------------------------------
(* The answers stay faithful and in order *)

AnswersInv == AnswersFaithful /\ AnswersInOrder

LEMMA AnswerTypes ==
    ASSUME SystemTypeOK
    PROVE  /\ inbox \in Seq(Answers) /\ in_asks \in Seq(Nat \ {0})
           /\ Len(in_asks) = Len(inbox) + (IF pc = "light" THEN 1 ELSE 0)
           /\ c_out \in [Tabs -> Seq(Verdicts)] /\ decided \in Seq(Verdicts) /\ shown \in Seq(Verdicts)
  BY TypeParts DEF TypeOK, NetTypeOK, LogTypeOK, PacketTypeOK

LEMMA VerdictAsks ==
    ASSUME NEW q \in Seq(Verdicts)
    PROVE  \A k \in 1..Len(q) : q[k] \in Verdicts /\ q[k].ask \in Nat \ {0}
<1>1. ASSUME NEW k \in 1..Len(q) PROVE q[k] \in Verdicts /\ q[k].ask \in Nat \ {0}
  <2>1. q[k] \in Verdicts
    OBVIOUS
  <2> QED BY <2>1 DEF Verdicts
<1> QED BY <1>1

LEMMA BackOrderSteps ==
    ASSUME NEW o \in Seq(Nat \ {0}), NEW d \in Nat, NEW s \in 0..d, BackOrder(o, d, s)
    PROVE  /\ o # <<>> => BackOrder(Tail(o), d, s)
           /\ o # <<>> => BackOrder(Tail(o), d, o[1]) /\ o[1] \in 0..d
           /\ \A e \in Nat : d < e => BackOrder(o, e, s)
<1>1. \A k \in 1..Len(o) : o[k] \in Nat
  OBVIOUS
<1>2. ASSUME o # <<>> PROVE BackOrder(Tail(o), d, s) /\ BackOrder(Tail(o), d, o[1]) /\ o[1] \in 0..d
  <2>1. /\ 1 \in 1..Len(o)
        /\ \A k \in 1..Len(Tail(o)) : Tail(o)[k] = o[k + 1] /\ k + 1 \in 1..Len(o) /\ 1 < k + 1
    BY <1>2, Dequeued
  <2>2. \A k, l \in 1..Len(Tail(o)) : k < l => k + 1 < l + 1
    OBVIOUS
  <2> QED BY <1>1, <2>1, <2>2 DEF BackOrder
<1>3. ASSUME NEW e \in Nat, d < e PROVE BackOrder(o, e, s)
  BY <1>1, <1>3 DEF BackOrder
<1> QED BY <1>2, <1>3

LEMMA AnswerOrderSteps ==
    ASSUME NEW o \in Seq(Nat \ {0}), NEW d \in Nat, NEW s \in 0..d, BackOrder(o, d, s),
           NEW q \in Seq(Verdicts), AnswerOrder(q, o, d, s)
    PROVE  /\ o # <<>> => AnswerOrder(q, Tail(o), d, s) /\ AnswerOrder(q, Tail(o), d, o[1])
           /\ q # <<>> => AnswerOrder(Tail(q), o, d, s)
           /\ q # <<>> => /\ AnswerOrder(Tail(q), Append(o, q[1].ask), d, s)
                          /\ BackOrder(Append(o, q[1].ask), d, s)
           /\ \A v \in Verdicts : d < v.ask =>
                 AnswerOrder(q, o, v.ask, s) /\ AnswerOrder(Append(q, v), o, v.ask, s)
<1>1. \A k \in 1..Len(o) : o[k] \in Nat
  OBVIOUS
<1>2. \A k \in 1..Len(q) : q[k] \in Verdicts /\ q[k].ask \in Nat
  BY VerdictAsks
<1>3. ASSUME o # <<>> PROVE AnswerOrder(q, Tail(o), d, s) /\ AnswerOrder(q, Tail(o), d, o[1])
  <2>1. 1 \in 1..Len(o) /\ \A k \in 1..Len(Tail(o)) : Tail(o)[k] = o[k + 1] /\ k + 1 \in 1..Len(o)
    BY <1>3, Dequeued
  <2> QED BY <1>1, <1>2, <2>1 DEF AnswerOrder
<1>4. ASSUME q # <<>>
      PROVE  /\ AnswerOrder(Tail(q), o, d, s)
             /\ AnswerOrder(Tail(q), Append(o, q[1].ask), d, s) /\ BackOrder(Append(o, q[1].ask), d, s)
  <2>1. /\ 1 \in 1..Len(q)
        /\ \A k \in 1..Len(Tail(q)) : Tail(q)[k] = q[k + 1] /\ k + 1 \in 1..Len(q) /\ 1 < k + 1
    BY <1>4, Dequeued
  <2>2. \A k, l \in 1..Len(Tail(q)) : k < l => k + 1 < l + 1
    OBVIOUS
  <2>3. AnswerOrder(Tail(q), o, d, s)
    BY <1>2, <2>1, <2>2 DEF AnswerOrder
  <2>4. PICK a \in Nat \ {0} : a = q[1].ask
    BY <2>1, VerdictAsks
  <2>5. \A k \in 1..Len(Tail(q)) : a < Tail(q)[k].ask
    BY <2>1, <2>4 DEF AnswerOrder
  <2>6. s < a /\ a <= d /\ \A l \in 1..Len(o) : o[l] < a
    BY <2>1, <2>4 DEF AnswerOrder
  <2>7. AnswerOrder(Tail(q), Append(o, a), d, s)
    BY <2>3, <2>4, <2>5, Enqueued DEF AnswerOrder
  <2>8. BackOrder(Append(o, a), d, s)
    BY <1>1, <2>4, <2>6, Enqueued DEF BackOrder
  <2> QED BY <2>3, <2>4, <2>7, <2>8
<1>5. ASSUME NEW v \in Verdicts, d < v.ask
      PROVE  AnswerOrder(q, o, v.ask, s) /\ AnswerOrder(Append(q, v), o, v.ask, s)
  <2>1. v.ask \in Nat
    BY DEF Verdicts
  <2>2. AnswerOrder(q, o, v.ask, s)
    BY <1>2, <1>5, <2>1 DEF AnswerOrder
  <2>3. \A l \in 1..Len(o) : o[l] < v.ask
    BY <1>1, <1>5, <2>1 DEF BackOrder
  <2>4. \A k \in 1..Len(q) : q[k].ask < v.ask
    BY <1>2, <1>5, <2>1 DEF AnswerOrder
  <2>5. AnswerOrder(Append(q, v), o, v.ask, s)
    BY <1>2, <1>5, <2>1, <2>2, <2>3, <2>4, Enqueued DEF AnswerOrder
  <2> QED BY <2>2, <2>5
<1> QED BY <1>3, <1>4, <1>5

LEMMA AnswersOrdered ==
    ASSUME QuestionsInv, AnswersInv, [SystemNext]_system
    PROVE  AnswersInOrder'
<1>1. PICK d, s : d = AC!LastAsk(decided) /\ s = AC!LastAsk(shown)
  OBVIOUS
<1>2. /\ d \in Nat /\ s \in 0..d /\ in_asks \in Seq(Nat \ {0}) /\ BackOrder(in_asks, d, s)
      /\ \A t \in Tabs : c_out[t] \in Seq(Verdicts) /\ AnswerOrder(c_out[t], in_asks, d, s)
      /\ c_out \in [Tabs -> Seq(Verdicts)]
  <2>1. d \in Nat
    BY <1>1, QuestionTypes DEF QuestionsInv, QuestionsInOrder
  <2> QED BY <1>1, <2>1, AnswerTypes DEF QuestionsInv, AnswersInv, AnswersInOrder
<1>3. ASSUME NEW e \in Nat, NEW r \in 0..e, e = AC!LastAsk(decided'), r = AC!LastAsk(shown'),
             BackOrder(in_asks', e, r), \A t \in Tabs : AnswerOrder(c_out'[t], in_asks', e, r)
      PROVE  AnswersInOrder'
  BY <1>3 DEF AnswersInOrder
<1>4. UNCHANGED decided => d = AC!LastAsk(decided')
  BY <1>1
<1>5. UNCHANGED shown => s = AC!LastAsk(shown')
  BY <1>1
<1>6. CASE AnswersKept \/ Hearing
  BY <1>2, <1>3, <1>4, <1>5, <1>6 DEF AnswersKept, Hearing
<1>7. in_asks = <<>> => pc # "light" /\ inbox = <<>>
  <2>1. /\ inbox \in Seq(Answers) /\ in_asks \in Seq(Nat \ {0})
        /\ Len(in_asks) = Len(inbox) + (IF pc = "light" THEN 1 ELSE 0)
    BY AnswerTypes DEF QuestionsInv
  <2> QED BY <2>1
<1>8. CASE Dropping
  <2>1. in_asks # <<>> /\ in_asks' = Tail(in_asks) /\ UNCHANGED <<c_out, decided, shown>>
    BY <1>7, <1>8 DEF Dropping
  <2>2. BackOrder(in_asks', d, s)
    BY <1>2, <2>1, BackOrderSteps
  <2>3. \A t \in Tabs : AnswerOrder(c_out'[t], in_asks', d, s)
    BY <1>2, <2>1, AnswerOrderSteps
  <2> QED BY <1>2, <1>3, <1>4, <1>5, <2>1, <2>2, <2>3
<1>9. CASE Showing
  <2>1. in_asks # <<>> /\ in_asks' = Tail(in_asks) /\ UNCHANGED <<c_out, decided>>
    BY <1>7, <1>9 DEF Showing
  <2>2. AC!LastAsk(shown') = in_asks[1]
    <3>1. Head(in_asks) \in Nat \ {0} /\ Head(in_asks) = in_asks[1]
      BY <1>2, <2>1
    <3>2. (lighting = "green") \in BOOLEAN
      OBVIOUS
    <3>3. PICK v \in Verdicts : v = [ask |-> Head(in_asks), granted |-> lighting = "green"]
      BY <3>1, <3>2 DEF Verdicts
    <3>4. shown' = Append(shown, v)
      BY <1>9, <3>3 DEF Showing
    <3>5. v.ask = Head(in_asks)
      BY <3>3
    <3> QED BY <3>1, <3>4, <3>5, AnswerTypes, LastAskOfAppend DEF QuestionsInv
  <2>3. BackOrder(in_asks', d, in_asks[1]) /\ in_asks[1] \in 0..d
    BY <1>2, <2>1, BackOrderSteps
  <2>4. \A t \in Tabs : AnswerOrder(c_out'[t], in_asks', d, in_asks[1])
    BY <1>2, <2>1, AnswerOrderSteps
  <2> QED BY <1>2, <1>3, <1>4, <2>1, <2>2, <2>3, <2>4
<1>10. ASSUME NEW t \in Tabs, Answering(t) PROVE AnswersInOrder'
  <2>1. /\ c_out[t] # <<>> /\ c_out[t] \in Seq(Verdicts) /\ Head(c_out[t]) = c_out[t][1]
        /\ c_out'[t] = Tail(c_out[t]) /\ UNCHANGED <<decided, shown>>
    BY <1>2, <1>10 DEF Answering
  <2>2. \A u \in Tabs : u # t => c_out[u] = <<>> /\ c_out'[u] = <<>>
    <3>1. \A u \in Tabs : u # t => c_out[u] = <<>>
      BY <2>1, TypeParts DEF QuestionsInv, OneInCharge, ConsoleTypeOK
    <3> QED BY <1>2, <1>10, <3>1 DEF Answering
  <2>3. in_asks' = in_asks \/ in_asks' = Append(in_asks, c_out[t][1].ask)
    BY <1>10, <2>1 DEF Answering
  <2>4. BackOrder(in_asks', d, s) /\ AnswerOrder(c_out'[t], in_asks', d, s)
    BY <1>2, <2>1, <2>3, AnswerOrderSteps
  <2>5. \A u \in Tabs : AnswerOrder(c_out'[u], in_asks', d, s)
    BY <2>2, <2>4 DEF AnswerOrder
  <2> QED BY <1>2, <1>3, <1>4, <1>5, <2>1, <2>4, <2>5
<1>11. CASE AnswersLost
  <2>1. \A t \in Tabs : AnswerOrder(c_out'[t], in_asks, d, s)
    BY <1>2, <1>11 DEF AnswersLost, AnswerOrder
  <2> QED BY <1>2, <1>3, <1>4, <1>5, <1>11, <2>1 DEF AnswersLost
<1>12. ASSUME NEW t \in Tabs, NEW v \in Verdicts, Answered(t, v) PROVE AnswersInOrder'
  <2>1. /\ d < v.ask /\ v.ask \in Nat /\ UNCHANGED <<in_asks, shown>>
        /\ c_out' = [c_out EXCEPT ![t] = Append(c_out[t], v)] /\ decided' = Append(decided, v)
    BY <1>1, <1>12 DEF Answered, Verdicts
  <2>2. AC!LastAsk(decided') = v.ask
    BY <2>1, QuestionTypes, LastAskOfAppend
  <2>3. BackOrder(in_asks, v.ask, s)
    BY <1>2, <2>1, BackOrderSteps
  <2>4. ASSUME NEW u \in Tabs PROVE AnswerOrder(c_out'[u], in_asks, v.ask, s)
    <3>1. c_out'[u] = c_out[u] \/ c_out'[u] = Append(c_out[u], v)
      BY <1>2, <2>1
    <3> QED BY <1>2, <2>1, <3>1, AnswerOrderSteps
  <2>5. s \in 0..v.ask
    BY <1>2, <2>1
  <2> QED BY <1>3, <1>5, <2>1, <2>2, <2>3, <2>4, <2>5
<1> QED BY <1>6, <1>8, <1>9, <1>10, <1>11, <1>12, AnswerSteps

LEMMA AnswersDecided ==
    ASSUME QuestionsInv, AnswersInv, [SystemNext]_system
    PROVE  AnswersFaithful'
<1>1. /\ inbox \in Seq(Answers) /\ in_asks \in Seq(Nat \ {0})
      /\ Len(in_asks) = Len(inbox) + (IF pc = "light" THEN 1 ELSE 0)
      /\ c_out \in [Tabs -> Seq(Verdicts)] /\ decided \in Seq(Verdicts)
  BY AnswerTypes DEF QuestionsInv
<1>2. /\ \A t \in Tabs : \A k \in 1..Len(c_out[t]) : Among(decided, c_out[t][k])
      /\ \A k \in 1..Len(in_asks) : Among(decided, [ask |-> in_asks[k], granted |-> Grants(k)])
  BY DEF AnswersInv, AnswersFaithful
<1>3. CASE AnswersKept
  <2>1. \A k \in 1..Len(in_asks) : Grants(k)' = Grants(k)
    BY <1>3 DEF AnswersKept, Grants
  <2> QED BY <1>2, <1>3, <2>1 DEF AnswersKept, AnswersFaithful
<1>4. CASE Hearing
  <2>1. UNCHANGED <<c_out, in_asks, decided>>
    BY <1>4 DEF Hearing
  <2>2. ASSUME NEW k \in 1..Len(in_asks)
        PROVE  Grants(k)' = Grants(k)
    <3>1. /\ pc # "light" /\ pc' = "light" /\ inbox # <<>> /\ inbox' = Tail(inbox)
          /\ lighting' = IF inbox[1] = "grant" THEN "green" ELSE "red"
      BY <1>1, <1>4 DEF Hearing
    <3>2. Grants(k) = (inbox[k] = "grant")
      BY <3>1 DEF Grants
    <3>3. CASE k = 1
      BY <3>1, <3>2, <3>3 DEF Grants
    <3>4. CASE k # 1
      <4>1. k - 1 \in 1..Len(Tail(inbox)) /\ Tail(inbox)[k - 1] = inbox[k]
        BY <1>1, <2>2, <3>1, <3>4
      <4> QED BY <3>1, <3>2, <3>4, <4>1 DEF Grants
    <3> QED BY <3>3, <3>4
  <2> QED BY <1>2, <2>1, <2>2 DEF AnswersFaithful
<1>5. CASE Dropping
  <2>1. UNCHANGED <<c_out, decided>> /\ inbox # <<>> /\ in_asks' = Tail(in_asks) /\ inbox' = Tail(inbox)
        /\ pc # "light" /\ pc' # "light"
    BY <1>5 DEF Dropping
  <2>2. ASSUME NEW k \in 1..Len(in_asks')
        PROVE  k + 1 \in 1..Len(in_asks) /\ in_asks'[k] = in_asks[k + 1] /\ Grants(k)' = Grants(k + 1)
    <3>1. k + 1 \in 1..Len(in_asks) /\ in_asks'[k] = in_asks[k + 1] /\ inbox'[k] = inbox[k + 1]
      BY <1>1, <2>1
    <3> QED BY <2>1, <3>1 DEF Grants
  <2> QED BY <1>2, <2>1, <2>2 DEF AnswersFaithful
<1>6. CASE Showing
  <2>1. UNCHANGED <<c_out, decided, inbox>> /\ in_asks' = Tail(in_asks) /\ pc = "light" /\ pc' # "light"
    BY <1>6 DEF Showing
  <2>2. ASSUME NEW k \in 1..Len(in_asks')
        PROVE  k + 1 \in 1..Len(in_asks) /\ in_asks'[k] = in_asks[k + 1] /\ Grants(k)' = Grants(k + 1)
    <3>1. k + 1 \in 1..Len(in_asks) /\ in_asks'[k] = in_asks[k + 1]
      BY <1>1, <2>1
    <3>2. k + 1 # 1 /\ (k + 1) - 1 = k
      OBVIOUS
    <3> QED BY <2>1, <3>1, <3>2 DEF Grants
  <2> QED BY <1>2, <2>1, <2>2 DEF AnswersFaithful
<1>7. ASSUME NEW t \in Tabs, Answering(t) PROVE AnswersFaithful'
  <2>1. /\ c_out[t] # <<>> /\ c_out' = [c_out EXCEPT ![t] = Tail(c_out[t])]
        /\ UNCHANGED <<pc, lighting, decided>>
    BY <1>7 DEF Answering
  <2>2. ASSUME NEW u \in Tabs, NEW k \in 1..Len(c_out'[u]) PROVE Among(decided, c_out'[u][k])
    <3>1. PICK j \in 1..Len(c_out[u]) : c_out'[u][k] = c_out[u][j]
      <4>1. CASE u = t
        <5>1. c_out[u] \in Seq(Verdicts) /\ c_out[u] # <<>> /\ c_out'[u] = Tail(c_out[u])
          BY <1>1, <2>1, <4>1
        <5> QED BY <5>1, Dequeued
      <4>2. CASE u # t
        BY <1>1, <2>1, <4>2
      <4> QED BY <4>1, <4>2
    <3> QED BY <1>2, <3>1
  <2>3. CASE UNCHANGED <<inbox, in_asks>>
    <3>1. \A k \in 1..Len(in_asks) : Grants(k)' = Grants(k)
      BY <2>1, <2>3 DEF Grants
    <3> QED BY <1>2, <2>1, <2>2, <2>3, <3>1 DEF AnswersFaithful
  <2>4. CASE /\ inbox' = Append(inbox, IF Head(c_out[t]).granted THEN "grant" ELSE "deny")
             /\ in_asks' = Append(in_asks, Head(c_out[t]).ask)
    <3>1. PICK v \in Verdicts : v = Head(c_out[t]) /\ Among(decided, v)
      <4>1. c_out[t] \in Seq(Verdicts)
        BY <1>1
      <4>2. Head(c_out[t]) \in Verdicts /\ Head(c_out[t]) = c_out[t][1] /\ 1 \in 1..Len(c_out[t])
        BY <2>1, <4>1, Dequeued
      <4> QED BY <1>2, <4>2
    <3>2. PICK a \in Answers : a = (IF v.granted THEN "grant" ELSE "deny")
      BY DEF Answers
    <3>3. inbox' = Append(inbox, a) /\ in_asks' = Append(in_asks, v.ask) /\ v.ask \in Nat \ {0}
      BY <2>4, <3>1, <3>2 DEF Verdicts
    <3>4. ASSUME NEW k \in 1..Len(in_asks'), k \in 1..Len(in_asks)
          PROVE  Among(decided, [ask |-> in_asks'[k], granted |-> Grants(k)'])
      <4>1. in_asks'[k] = in_asks[k]
        BY <1>1, <3>3, <3>4, Enqueued
      <4>2. Grants(k)' = Grants(k)
        <5>1. \A j \in 1..Len(inbox) : inbox'[j] = inbox[j]
          BY <1>1, <3>3, Enqueued
        <5>2. pc # "light" => k \in 1..Len(inbox)
          BY <1>1, <3>4
        <5>3. pc = "light" /\ k # 1 => k - 1 \in 1..Len(inbox)
          BY <1>1, <3>4
        <5> QED BY <2>1, <5>1, <5>2, <5>3 DEF Grants
      <4> QED BY <1>2, <3>4, <4>1, <4>2
    <3>5. ASSUME NEW k \in 1..Len(in_asks'), k = Len(in_asks) + 1
          PROVE  Among(decided, [ask |-> in_asks'[k], granted |-> Grants(k)'])
      <4>1. in_asks'[k] = v.ask
        BY <1>1, <3>3, <3>5, Enqueued
      <4>2. inbox'[Len(inbox) + 1] = a
        BY <1>1, <3>3, Enqueued
      <4>3. Grants(k)' = (a = "grant")
        <5>1. CASE pc = "light"
          <6>1. k # 1 /\ k - 1 = Len(inbox) + 1
            BY <1>1, <3>5, <5>1
          <6> QED BY <2>1, <4>2, <5>1, <6>1 DEF Grants
        <5>2. CASE pc # "light"
          <6>1. k = Len(inbox) + 1
            BY <1>1, <3>5, <5>2
          <6> QED BY <2>1, <4>2, <5>2, <6>1 DEF Grants
        <5> QED BY <5>1, <5>2
      <4>4. [ask |-> in_asks'[k], granted |-> Grants(k)'] = v
        BY <3>2, <4>1, <4>3 DEF Verdicts
      <4> QED BY <3>1, <4>4
    <3>6. \A k \in 1..Len(in_asks') : k \in 1..Len(in_asks) \/ k = Len(in_asks) + 1
      BY <1>1, <3>3, Enqueued
    <3>7. \A k \in 1..Len(in_asks') : Among(decided, [ask |-> in_asks'[k], granted |-> Grants(k)'])
      BY <3>4, <3>5, <3>6
    <3>8. \A u \in Tabs : \A k \in 1..Len(c_out'[u]) : Among(decided, c_out'[u][k])
      BY <2>2
    <3>9. decided' = decided
      BY <2>1
    <3> QED BY <3>7, <3>8, <3>9, Zenon DEF AnswersFaithful, Among
  <2> QED BY <1>7, <2>3, <2>4 DEF Answering
<1>8. CASE AnswersLost
  <2>1. \A k \in 1..Len(in_asks) : Grants(k)' = Grants(k)
    BY <1>8 DEF AnswersLost, Grants
  <2> QED BY <1>2, <1>8, <2>1 DEF AnswersLost, AnswersFaithful
<1>9. ASSUME NEW t \in Tabs, NEW v \in Verdicts, Answered(t, v) PROVE AnswersFaithful'
  <2>1. /\ c_out' = [c_out EXCEPT ![t] = Append(c_out[t], v)] /\ decided' = Append(decided, v)
        /\ UNCHANGED <<pc, lighting, in_asks, inbox>>
    BY <1>9 DEF Answered
  <2>2. Among(decided', v) /\ \A w : Among(decided, w) => Among(decided', w)
    <3>1. /\ Len(decided') = Len(decided) + 1 /\ decided'[Len(decided) + 1] = v
          /\ \A i \in 1..Len(decided) : decided'[i] = decided[i] /\ i \in 1..Len(decided')
          /\ Len(decided) + 1 \in 1..Len(decided')
      BY <1>1, <2>1
    <3> QED BY <3>1 DEF Among
  <2>3. \A k \in 1..Len(in_asks) : Grants(k)' = Grants(k)
    BY <2>1 DEF Grants
  <2>4. ASSUME NEW u \in Tabs, NEW k \in 1..Len(c_out'[u]) PROVE Among(decided', c_out'[u][k])
    <3>1. c_out[u] \in Seq(Verdicts)
      BY <1>1
    <3>2. c_out'[u] = c_out[u] \/ c_out'[u] = Append(c_out[u], v)
      BY <1>1, <2>1
    <3>3. (k \in 1..Len(c_out[u]) /\ c_out'[u][k] = c_out[u][k]) \/ c_out'[u][k] = v
      BY <3>1, <3>2, Enqueued
    <3> QED BY <1>2, <2>2, <3>3
  <2> QED BY <1>2, <2>1, <2>2, <2>3, <2>4 DEF AnswersFaithful
<1> QED BY <1>3, <1>4, <1>5, <1>6, <1>7, <1>8, <1>9, AnswerSteps

LEMMA AnswersTyped ==
    ASSUME QuestionsInv, [SystemNext]_system
    PROVE  c_out' \in [Tabs -> Seq(Verdicts)] /\ shown' \in Seq(Verdicts)
<1>1. /\ inbox \in Seq(Answers) /\ in_asks \in Seq(Nat \ {0})
      /\ Len(in_asks) = Len(inbox) + (IF pc = "light" THEN 1 ELSE 0)
      /\ c_out \in [Tabs -> Seq(Verdicts)] /\ shown \in Seq(Verdicts)
  BY AnswerTypes DEF QuestionsInv
<1>2. CASE AnswersKept \/ Hearing \/ Dropping \/ AnswersLost
  BY <1>1, <1>2 DEF AnswersKept, Hearing, Dropping, AnswersLost
<1>3. CASE Showing
  <2>1. Head(in_asks) \in Nat \ {0}
    BY <1>1, <1>3 DEF Showing
  <2>2. (lighting = "green") \in BOOLEAN
    OBVIOUS
  <2>3. [ask |-> Head(in_asks), granted |-> lighting = "green"] \in Verdicts
    BY <2>1, <2>2 DEF Verdicts
  <2> QED BY <1>1, <1>3, <2>3 DEF Showing
<1>4. ASSUME NEW t \in Tabs, Answering(t)
      PROVE  c_out' \in [Tabs -> Seq(Verdicts)] /\ shown' = shown
  BY <1>1, <1>4 DEF Answering
<1>5. ASSUME NEW t \in Tabs, NEW v \in Verdicts, Answered(t, v)
      PROVE  c_out' \in [Tabs -> Seq(Verdicts)] /\ shown' = shown
  BY <1>1, <1>5 DEF Answered
<1> QED BY <1>1, <1>2, <1>3, <1>4, <1>5, AnswerSteps

-----------------------------------------------------------------------------
(* The invariant, and the refinement *)

\* THEOREM: the type invariant of door, broker and console, what follows a
\* question on its way and what follows its verdict hold in every state.
THEOREM SystemInvariant == SystemSpec => []SystemInv
<1>1. SystemInit => SystemInv
  <2> SUFFICES ASSUME SystemInit PROVE SystemInv
    OBVIOUS
  <2>1. TypeOK /\ ReadingOneCard
    <3>1. HeapBlocks \in Nat /\ MaxInputs \in Nat
      BY BoundAssumption
    <3>2. key_data \in Key /\ buf \in Contents
      BY DEF SystemInit, Init, Key, Contents
    <3>3. MainTypeOK
      BY <3>1, <3>2, TimeAssumption DEF SystemInit, Init, MainTypeOK, PcValues
    <3>4. led_green \in BOOLEAN /\ led_red \in BOOLEAN /\ armed \in BOOLEAN /\ led_timeout = 0
          /\ green_age = 0 /\ green_limit = 0
      BY Zenon DEF SystemInit, Init
    <3>5. LampTypeOK
      BY <3>4, TimeAssumption DEF LampTypeOK
    <3>6. ReaderTypeOK
      BY DEF SystemInit, Init, ReaderTypeOK
    <3>7. /\ up \in BOOLEAN /\ session \in BOOLEAN /\ inputs = 0
          /\ outbox = <<>> /\ inbox = <<>> /\ rx = <<>>
      BY DEF SystemInit, Init
    <3>8. NetTypeOK
      BY <3>1, <3>7 DEF NetTypeOK
    <3> QED BY <3>3, <3>5, <3>6, <3>8 DEF TypeOK, SystemInit, Init, ReadingOneCard
  <2>2. /\ connected = {} /\ subscribed = {} /\ opens = 0
        /\ known = NoneKnown /\ rule = NoRules /\ c_in = NoPackets /\ c_out = NoPackets
        /\ asked = <<>> /\ decided = <<>> /\ shown = <<>> /\ out_asks = <<>> /\ in_asks = <<>>
        /\ outbox = <<>> /\ inbox = <<>> /\ pc = "sub"
    BY DEF SystemInit, Init
  <2>3. ConsoleTypeOK
    BY <2>2, OpensAssumption DEF ConsoleTypeOK, NoneKnown, NoRules
  <2>4. PacketTypeOK
    BY <2>2 DEF PacketTypeOK, NoPackets
  <2>5. LogTypeOK
    BY <2>2 DEF LogTypeOK
  <2>6. SystemTypeOK
    BY <2>1, <2>3, <2>4, <2>5, TypeParts
  <2>7. OneInCharge
    BY <2>2 DEF OneInCharge, NoPackets
  <2>8. QuestionsFaithful /\ AnswersFaithful
    BY <2>2 DEF QuestionsFaithful, AnswersFaithful, NoPackets
  <2>9. AC!LastAsk(decided) = 0 /\ AC!LastAsk(shown) = 0 /\ Len(asked) = 0
    BY <2>2 DEF AC!LastAsk
  <2>10. QuestionsInOrder
    BY <2>2, <2>9 DEF QuestionsInOrder, OutOrder, InOrder, NoPackets
  <2>11. AnswersInOrder
    BY <2>2, <2>9 DEF AnswersInOrder, BackOrder, AnswerOrder, NoPackets
  <2> QED BY <2>1, <2>6, <2>7, <2>8, <2>10, <2>11 DEF SystemInv
<1>2. SystemInv /\ [SystemNext]_system => SystemInv'
  <2> SUFFICES ASSUME SystemInv, [SystemNext]_system PROVE SystemInv'
    OBVIOUS
  <2>1. QuestionsInv /\ AnswersInv
    BY DEF SystemInv, QuestionsInv, AnswersInv
  <2>2. TypeOK' /\ LogTypeOK'
    BY SystemDoorType, LogType DEF SystemInv
  <2>3. ConsoleTypeOK'
    BY ConsoleType, TypeParts DEF SystemInv
  <2>4. PacketTypeOK'
    BY <2>1, QuestionsTyped, AnswersTyped DEF PacketTypeOK
  <2>5. SystemTypeOK'
    BY <2>2, <2>3, <2>4 DEF SystemTypeOK, ConsoleTypeOK, PacketTypeOK, LogTypeOK, Items
  <2>6. ReadingOneCard' /\ OneInCharge'
    BY <2>1, SystemReading, StillOneInCharge DEF SystemInv
  <2>7. QuestionsFaithful' /\ QuestionsInOrder'
    BY <2>1, QuestionsAsked, QuestionsOrdered
  <2>8. AnswersFaithful' /\ AnswersInOrder'
    BY <2>1, AnswersDecided, AnswersOrdered
  <2> QED BY <2>5, <2>6, <2>7, <2>8 DEF SystemInv
<1> QED BY <1>1, <1>2, PTL DEF SystemSpec

\* The policy is the rules of the tab in charge.
LEMMA PolicyOf ==
    ASSUME SystemTypeOK, NEW t \in connected
    PROVE  Policy = rule[t]
<1>1. (CHOOSE u \in connected : TRUE) = t
  <2>1. (CHOOSE u \in connected : TRUE) \in connected
    OBVIOUS
  <2> QED BY <2>1 DEF SystemTypeOK
<1> QED BY <1>1 DEF Policy

LEMMA PolicyType == ASSUME SystemTypeOK PROVE Policy \in SUBSET Cards
<1>1. CASE connected = {}
  BY <1>1 DEF Policy
<1>2. CASE connected # {}
  <2>1. PICK t \in connected : TRUE
    BY <1>2
  <2>2. Policy = rule[t]
    BY <2>1, PolicyOf
  <2> QED BY <2>1, <2>2 DEF SystemTypeOK
<1> QED BY <1>1, <1>2

Opened == led_green /\ ~Booting

\* What the steps of the door do to the green lamp.
LEMMA LampKept ==
    ASSUME DoorPings \/ DoorAsks \/ DoorHears \/ DoorLoses
    PROVE  Opened' <=> Opened
<1>1. led_green' = led_green
  BY DEF DoorPings, Hello, PingDue, DoorAsks, SendKey, DoorHears, YieldDeliver, MessageArrived,
         DoorLoses, LinkFails, lamps
<1>2. (~Booting /\ ~Booting') \/ pc' = pc
  BY DEF DoorPings, Hello, PingDue, DoorAsks, SendKey, DoorHears, YieldDeliver, MessageArrived,
         DoorLoses, LinkFails, main, Booting
<1> QED BY <1>1, <1>2 DEF Opened, Booting

LEMMA LampLit ==
    ASSUME DoorShows
    PROVE  Opened' <=> Opened \/ lighting = "green"
<1>1. led_green' = (IF lighting = "green" THEN TRUE ELSE led_green) /\ ~Booting /\ ~Booting'
  BY DEF DoorShows, Light, LightUp, Booting
<1> QED BY <1>1, Zenon DEF Opened

LEMMA LampOut ==
    ASSUME DoorQuiet
    PROVE  (Opened' <=> Opened) \/ ~Opened'
<1>1. CASE led_green' = FALSE \/ Booting'
  BY <1>1 DEF Opened
<1>2. CASE led_green' = led_green /\ ~Booting /\ ~Booting'
  BY <1>2, Zenon DEF Opened
<1>3. CASE led_green' = led_green /\ pc' = pc
  BY <1>3, Zenon DEF Opened, Booting
<1>4. CASE LedTimeout \/ InitDoor
  BY <1>1, <1>4 DEF LedTimeout, InitDoor, LampsOff
<1>5. CASE Sub
  BY <1>1, <1>5 DEF Sub, Booting
<1>6. CASE Tick \/ CardArrives \/ CardLeaves
  BY <1>3, <1>6 DEF Tick, CardArrives, CardLeaves, main, lamps
<1>7. CASE PingNotDue \/ YieldReturn \/ PollMiss \/ PollHit \/ SameCard \/ Authenticate \/ Read28 \/ Read29
  BY <1>2, <1>7 DEF PingNotDue, YieldReturn, PollMiss, PollHit, SameCard, Authenticate,
                    Read28, Read29, lamps, Booting
<1> QED BY <1>4, <1>5, <1>6, <1>7 DEF DoorQuiet

\* A step of the page or the broker leaves the lamp alone.
LEMMA LampOfOthers ==
    ASSUME ConsoleNext \/ BrokerForwards \/ (\E t \in Tabs : BrokerAnswers(t)) \/ UNCHANGED system
    PROVE  Opened' <=> Opened
<1>1. led_green' = led_green /\ pc' = pc
  BY DEF ConsoleNext, OpenPage, OnConnect, OnConnectionLost, OnPing, OnRawData, OnUnknownRoom,
         OnNullKey, Arrives, SelectLocks, BrokerForwards, BrokerAnswers, system, vars, main, lamps
<1> QED BY <1>1, Zenon DEF Opened, Booting

\* The policy changes when an administrator chooses rules, or with the page
\* in charge; nothing else happens in that step.
LEMMA PolicySteps ==
    ASSUME SystemTypeOK, [SystemNext]_system
    PROVE  Policy' = Policy \/ UNCHANGED <<asked, decided, shown, pc, led_green>>
<1>1. CASE UNCHANGED <<connected, rule>>
  BY <1>1 DEF Policy
<1>2. CASE DoorNext \/ BrokerForwards \/ (\E t \in Tabs : BrokerAnswers(t)) \/ UNCHANGED system
  BY <1>1, <1>2 DEF DoorNext, DoorQuiet, DoorPings, DoorAsks, DoorHears, DoorShows, DoorLoses,
                    BrokerForwards, BrokerAnswers, system, console, links, pages
<1>3. ASSUME NEW t \in Tabs, OnConnect(t) \/ OnPing(t) \/ OnRawData(t) \/ OnUnknownRoom(t) \/ OnNullKey(t)
      PROVE  UNCHANGED <<connected, rule>>
  BY <1>3 DEF OnConnect, OnPing, OnRawData, OnUnknownRoom, OnNullKey, Arrives, pages
<1>4. ASSUME NEW t \in Tabs, OpenPage(t) \/ OnConnectionLost(t) \/ SelectLocks(t)
      PROVE  UNCHANGED <<asked, decided, shown, pc, led_green>>
  BY <1>4 DEF OpenPage, OnConnectionLost, SelectLocks, vars, main, lamps, records
<1> QED BY <1>1, <1>2, <1>3, <1>4 DEF SystemNext, ConsoleNext

\* What each step of door, broker and console is in AccessControl.
LEMMA StepRefines ==
    ASSUME SystemInv, SystemInv', (Policy \in SUBSET Cards)', [SystemNext]_system
    PROVE  [AC!Next]_(AC!vars)
<1> USE DEF Opened
<1>0. QuestionsInv /\ AnswersInv /\ SystemTypeOK /\ SystemTypeOK'
  BY DEF SystemInv, QuestionsInv, AnswersInv
<1>1. ASSUME Opened' <=> Opened PROVE UNCHANGED (led_green /\ ~Booting)
  BY <1>1
<1>2. CASE UNCHANGED <<asked, decided, shown, pc, led_green>>
  <2>1. Policy' \in SUBSET Cards
    OBVIOUS
  <2>2. UNCHANGED (led_green /\ ~Booting)
    BY <1>2 DEF Booting
  <2> QED BY <1>2, <2>1, <2>2 DEF AC!Next, AC!Administer
<1>3. CASE Policy' = Policy /\ DoorQuiet
  <2>1. UNCHANGED <<asked, decided, shown>>
    BY <1>3 DEF DoorQuiet, records
  <2>2. CASE Opened' <=> Opened
    BY <1>1, <1>3, <2>1, <2>2 DEF AC!vars
  <2>3. CASE ~Opened'
    <3>1. (led_green /\ ~Booting)' = FALSE
      BY <2>3
    <3> QED BY <1>3, <2>1, <3>1 DEF AC!Next, AC!Close
  <2> QED BY <1>3, <2>2, <2>3, LampOut
<1>4. CASE Policy' = Policy /\ (DoorPings \/ DoorHears \/ DoorLoses)
  <2>1. UNCHANGED <<asked, decided, shown>>
    BY <1>4 DEF DoorPings, DoorHears, DoorLoses
  <2> QED BY <1>1, <1>4, <2>1, LampKept DEF AC!vars
<1>5. CASE Policy' = Policy /\ DoorAsks
  <2>1. UNCHANGED <<decided, shown>> /\ UNCHANGED (led_green /\ ~Booting)
    BY <1>1, <1>5, LampKept DEF DoorAsks
  <2>2. CASE asked' = asked
    BY <1>5, <2>1, <2>2 DEF AC!vars
  <2>3. CASE asked' = Append(asked, key_data.uid)
    <3>1. key_data.uid \in Cards
      BY <1>0, <1>5 DEF DoorAsks, SendKey, QuestionsInv, ReadingOneCard
    <3> QED BY <1>5, <2>1, <2>3, <3>1 DEF AC!Next, AC!Present
  <2> QED BY <1>5, <2>2, <2>3 DEF DoorAsks
<1>6. CASE Policy' = Policy /\ DoorShows
  <2>1. /\ pc = "light" /\ UNCHANGED <<asked, decided>>
        /\ shown' = Append(shown, [ask |-> Head(in_asks), granted |-> lighting = "green"])
    BY <1>6 DEF DoorShows, Light
  <2>2. in_asks \in Seq(Nat \ {0}) /\ Len(in_asks) = Len(inbox) + 1 /\ Len(inbox) \in Nat
    BY <1>0, <2>1, AnswerTypes
  <2>3. 1 \in 1..Len(in_asks) /\ Head(in_asks) = in_asks[1]
    BY <2>2
  <2>4. PICK i \in 1..Len(decided) : decided[i] = [ask |-> in_asks[1], granted |-> Grants(1)]
    BY <1>0, <2>3 DEF AnswersInv, AnswersFaithful, Among
  <2>5. Grants(1) = (lighting = "green")
    BY <2>1 DEF Grants
  <2>6. decided[i].ask > AC!LastAsk(shown)
    <3>1. decided[i].ask = in_asks[1]
      BY <2>4
    <3>2. AC!LastAsk(shown) < in_asks[1]
      BY <1>0, <2>3 DEF AnswersInv, AnswersInOrder, BackOrder
    <3> QED BY <3>1, <3>2
  <2>7. shown' = Append(shown, decided[i])
    BY <2>1, <2>3, <2>4, <2>5
  <2>8. decided[i].granted <=> lighting = "green"
    <3>1. decided[i].granted = Grants(1)
      BY <2>4
    <3> QED BY <2>5, <3>1, Zenon
  <2>9. (led_green /\ ~Booting)' = ((led_green /\ ~Booting) \/ decided[i].granted)
    BY <1>6, <2>8, LampLit
  <2> QED BY <1>6, <2>1, <2>6, <2>7, <2>9 DEF AC!Next, AC!Show
<1>7. CASE Policy' = Policy /\ (BrokerForwards \/ (\E t \in Tabs : BrokerAnswers(t)) \/ UNCHANGED system)
  <2>1. UNCHANGED <<asked, decided, shown>>
    BY <1>7 DEF BrokerForwards, BrokerAnswers, system, records
  <2> QED BY <1>1, <1>7, <2>1, LampOfOthers DEF AC!vars
<1>8. ASSUME NEW t \in Tabs, Policy' = Policy,
             \/ OpenPage(t) \/ OnConnect(t) \/ OnConnectionLost(t) \/ SelectLocks(t)
             \/ OnPing(t) \/ OnUnknownRoom(t) \/ OnNullKey(t)
      PROVE  UNCHANGED AC!vars
  <2>1. UNCHANGED <<asked, decided, shown>>
    BY <1>8 DEF OpenPage, OnConnect, OnConnectionLost, SelectLocks, OnPing, OnUnknownRoom, OnNullKey,
                Arrives, records
  <2>2. ConsoleNext
    BY <1>8 DEF ConsoleNext
  <2> QED BY <1>1, <1>8, <2>1, <2>2, LampOfOthers DEF AC!vars
<1>9. ASSUME NEW t \in Tabs, Policy' = Policy, OnRawData(t) PROVE AC!Decide
  <2>1. PacketTypeOK
    BY <1>0, TypeParts
  <2>2. PICK c \in Cards, item \in Items :
           /\ c_in[t] # <<>> /\ item = Head(c_in[t]) /\ item.msg.cmd = "rawdata"
           /\ item.msg.key.body = <<c, 28>>
           /\ c_in' = [c_in EXCEPT ![t] = Tail(c_in[t])]
           /\ decided' = Append(decided, [ask |-> item.ask, granted |-> c \in rule[t]])
    BY <1>9, <2>1, PageDecides
  <2>3. UNCHANGED <<asked, shown, outbox, out_asks>>
    BY <1>9 DEF OnRawData, Arrives, vars, net
  <2>4. Deciding(t, item, c \in rule[t])
    BY <2>2, <2>3 DEF Deciding
  <2>5. PICK g \in BOOLEAN : g = (c \in rule[t])
    <3>1. (c \in rule[t]) \in BOOLEAN
      OBVIOUS
    <3> QED BY <3>1, Zenon
  <2>6. /\ Asks(asked, item.ask, item.msg.key) /\ item.ask \in 1..Len(asked)
        /\ AC!LastAsk(decided) < item.ask /\ t \in connected
    <3>1. Deciding(t, item, g)
      BY <2>4, <2>5
    <3> QED BY <1>0, <3>1, DecidingFacts
  <2>7. c = asked[item.ask]
    <3>1. item.msg.key.body = <<c, 28>>
      BY <2>2
    <3>2. item.msg.key.body = <<asked[item.ask], 28>>
      BY <2>6, Zenon DEF Asks, OfOneCard
    <3>3. <<c, 28>> = <<asked[item.ask], 28>>
      BY <3>1, <3>2, Zenon
    <3> QED BY <3>3
  <2>8. Policy = rule[t]
    BY <1>0, <2>6, PolicyOf
  <2>9. item.ask \in (AC!LastAsk(decided) + 1)..Len(asked)
    BY <1>0, <2>6, QuestionTypes DEF QuestionsInv, QuestionsInOrder
  <2>10. UNCHANGED (led_green /\ ~Booting)
    BY <1>1, <1>9, LampOfOthers DEF ConsoleNext
  <2>11. decided' = Append(decided, [ask |-> item.ask, granted |-> asked[item.ask] \in Policy])
    BY <2>2, <2>7, <2>8
  <2> QED BY <1>9, <2>3, <2>9, <2>10, <2>11 DEF AC!Decide
<1>10. CASE Policy' = Policy
  <2>1. CASE DoorNext
    BY <1>3, <1>4, <1>5, <1>6, <1>10, <2>1 DEF DoorNext
  <2>2. CASE ConsoleNext
    BY <1>8, <1>9, <1>10, <2>2 DEF ConsoleNext, AC!Next
  <2> QED BY <1>7, <1>10, <2>1, <2>2 DEF SystemNext
<1> QED BY <1>0, <1>2, <1>10, PolicySteps

\* THEOREM: door, broker and console implement AccessControl (the console in
\* charge decides about every key at most once and in order, by the rules of
\* that moment; the door shows every verdict at most once and in order, and
\* the green lamp is lit only by one that grants), for every number of cards,
\* tabs, packets under way and pages opened.
THEOREM SystemImplements == SystemSpec => ImplementsAccessControl
<1>1. SystemInit => AC!Init
  <2> SUFFICES ASSUME SystemInit PROVE AC!Init
    OBVIOUS
  <2>1. Policy = Cards /\ asked = <<>> /\ decided = <<>> /\ shown = <<>>
    BY DEF SystemInit, Policy
  <2>2. (led_green /\ ~Booting) = FALSE
    BY DEF SystemInit, Init, Booting
  <2> QED BY <2>1, <2>2 DEF AC!Init
<1>2. SystemInv => Policy \in SUBSET Cards
  BY PolicyType DEF SystemInv, QuestionsInv, AnswersInv
<1>3. SystemInv /\ SystemInv' /\ (Policy \in SUBSET Cards)' /\ [SystemNext]_system
      => [AC!Next]_(AC!vars)
  BY StepRefines
<1> QED BY <1>1, <1>2, <1>3, SystemInvariant, PTL DEF SystemSpec, AC!Spec, ImplementsAccessControl
=============================================================================

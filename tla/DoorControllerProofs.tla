------------------------ MODULE DoorControllerProofs ------------------------
(***************************************************************************)
(* Theorems about DoorController, for every set of cards and all times,    *)
(* sizes and bounds.  Each part of the state is changed by a few actions   *)
(* only; the Steps lemmas say which, so that a proof about a part has one  *)
(* case for each of them.                                                  *)
(***************************************************************************)
EXTENDS DoorController, TLAPS

-----------------------------------------------------------------------------
(* Which steps change what *)

LEMMA LampSteps ==
    ASSUME [Next]_vars
    PROVE  \/ LedTimeout \/ Tick \/ SerialIsr \/ InitDoor \/ YieldDeliver \/ Light
           \/ UNCHANGED lamps
<1> USE Zenon
<1>1. CASE UNCHANGED vars
  BY <1>1 DEF vars
<1>2. CASE Sub \/ Hello \/ PingDue \/ PingNotDue \/ YieldReturn
  BY <1>2 DEF Sub, Hello, PingDue, PingNotDue, YieldReturn
<1>3. CASE PollMiss \/ PollHit \/ SameCard \/ Authenticate
  BY <1>3 DEF PollMiss, PollHit, SameCard, Authenticate
<1>4. CASE Read28 \/ Read29 \/ SendKey
  BY <1>4 DEF Read28, Read29, SendKey
<1>5. CASE Environment
  BY <1>5 DEF Environment, CardArrives, CardLeaves, BrokerTakes, BrokerSends,
              LinkFails, SerialReceives
<1> QED
  BY <1>1, <1>2, <1>3, <1>4, <1>5 DEF Next, MainThread

\* A step that changes the reader's state.
LEMMA ReaderSteps ==
    ASSUME [Next]_vars
    PROVE  \/ PollMiss \/ PollHit \/ Authenticate \/ Read28 \/ Read29
           \/ CardArrives \/ CardLeaves
           \/ UNCHANGED reader
<1>1. CASE UNCHANGED vars
  BY <1>1 DEF vars
<1>2. CASE Sub \/ Hello \/ PingDue \/ PingNotDue \/ YieldReturn \/ InitDoor
  BY <1>2 DEF Sub, Hello, PingDue, PingNotDue, YieldReturn, InitDoor
<1>3. CASE YieldDeliver \/ Light \/ SameCard \/ SendKey
  BY <1>3 DEF YieldDeliver, Light, SameCard, SendKey
<1>4. CASE LedTimeout \/ Tick \/ SerialIsr
  BY <1>4 DEF LedTimeout, Tick, SerialIsr
<1>5. CASE BrokerTakes \/ BrokerSends \/ LinkFails \/ SerialReceives
  BY <1>5 DEF BrokerTakes, BrokerSends, LinkFails, SerialReceives
<1> QED
  BY <1>1, <1>2, <1>3, <1>4, <1>5 DEF Next, MainThread, Environment

-----------------------------------------------------------------------------
(* Type correctness, part by part *)

LEMMA MainType ==
    ASSUME MainTypeOK, ReaderTypeOK, [Next]_vars
    PROVE  MainTypeOK'
<1> USE TimeAssumption, BoundAssumption DEF MainTypeOK, PcValues
<1>1. CASE UNCHANGED main
  BY <1>1 DEF main
<1>2. CASE Tick
  BY <1>2 DEF Tick
<1>3. CASE Sub
  BY <1>3 DEF Sub
<1>4. CASE InitDoor
  BY <1>4 DEF InitDoor
<1>5. CASE Hello
  BY <1>5 DEF Hello
<1>6. CASE PingDue
  BY <1>6 DEF PingDue
<1>7. CASE PingNotDue
  BY <1>7 DEF PingNotDue
<1>8. CASE YieldDeliver
  BY <1>8 DEF YieldDeliver, MessageArrived
<1>9. CASE YieldReturn
  BY <1>9 DEF YieldReturn
<1>10. CASE Light
  BY <1>10 DEF Light
<1>11. CASE PollMiss
  BY <1>11 DEF PollMiss
<1>12. CASE PollHit
  BY <1>12 DEF PollHit, ReaderTypeOK
<1>13. CASE SameCard
  BY <1>13 DEF SameCard
<1>14. CASE Authenticate
  BY <1>14 DEF Authenticate
<1>15. CASE Read28
  <2>1. buf' = buf \/ (link = "authed" /\ buf' = <<field, 28>>)
    BY <1>15 DEF Read28
  <2>2. buf' \in Contents
    BY <2>1 DEF Contents, Blocks, ReaderTypeOK
  <2>3. key_data' \in Key
    BY <1>15, <2>2 DEF Read28, Key
  <2> QED
    BY <1>15, <2>2, <2>3 DEF Read28
<1>16. CASE Read29
  <2>1. buf' = buf \/ (link = "authed" /\ buf' = <<field, 29>>)
    BY <1>16 DEF Read29
  <2>2. buf' \in Contents
    BY <2>1 DEF Contents, Blocks, ReaderTypeOK
  <2>3. key_data' \in Key
    BY <1>16, <2>2 DEF Read29, Key
  <2> QED
    BY <1>16, <2>2, <2>3 DEF Read29
<1>17. CASE SendKey
  BY <1>17 DEF SendKey
<1>18. CASE LedTimeout \/ SerialIsr \/ Environment \/ UNCHANGED vars
  BY <1>1, <1>18 DEF LedTimeout, SerialIsr, Environment, CardArrives, CardLeaves,
     BrokerTakes, BrokerSends, LinkFails, SerialReceives, vars
<1> QED
  BY <1>2, <1>3, <1>4, <1>5, <1>6, <1>7, <1>8, <1>9, <1>10, <1>11, <1>12, <1>13,
     <1>14, <1>15, <1>16, <1>17, <1>18 DEF Next, MainThread

\* Whoever attaches the Timeout for a lamp keeps its parts well typed.
LEMMA AttachType ==
    ASSUME LampTypeOK, NEW lamp, Attach(lamp)
    PROVE  /\ armed' /\ led_timeout' \in 0..LedTime
           /\ green_age' \in Nat /\ green_limit' \in Nat
  BY TimeAssumption DEF Attach, LampTypeOK

LEMMA LampType ==
    ASSUME LampTypeOK, [Next]_vars
    PROVE  LampTypeOK'
<1>1. CASE UNCHANGED lamps
  BY <1>1 DEF lamps, LampTypeOK
<1>2. CASE LedTimeout
  BY <1>2 DEF LedTimeout, LampsOff, LampTypeOK
<1>3. CASE Tick
  <2>1. UNCHANGED <<led_green, led_red, armed, green_limit>>
    BY <1>3 DEF Tick
  <2>2. led_timeout' \in 0..LedTime /\ green_age' \in Nat
    BY <1>3, TimeAssumption DEF Tick, LampTypeOK
  <2> QED
    BY <2>1, <2>2 DEF LampTypeOK
<1>4. CASE SerialIsr
  <2>1. UNCHANGED lamps \/ \E lamp \in {"green", "red"} : Attach(lamp) /\ LightUp(lamp)
    BY <1>4, Zenon DEF SerialIsr
  <2>2. ASSUME NEW lamp \in {"green", "red"}, Attach(lamp), LightUp(lamp)
        PROVE  LampTypeOK'
    BY <2>2, AttachType DEF LightUp, LampTypeOK
  <2> QED
    BY <2>1, <2>2, <1>1
<1>5. CASE InitDoor
  BY <1>5 DEF InitDoor, LampsOff, LampTypeOK
<1>6. CASE YieldDeliver
  <2>1. UNCHANGED lamps
        \/ \E lamp \in {"green", "red"} : Attach(lamp) /\ UNCHANGED <<led_green, led_red>>
    BY <1>6, Zenon DEF YieldDeliver, MessageArrived
  <2>2. ASSUME NEW lamp \in {"green", "red"}, Attach(lamp), UNCHANGED <<led_green, led_red>>
        PROVE  LampTypeOK'
    BY <2>2, AttachType DEF LampTypeOK
  <2> QED
    BY <2>1, <2>2, <1>1
<1>7. CASE Light
  BY <1>7 DEF Light, LightUp, LampTypeOK
<1> QED
  BY <1>1, <1>2, <1>3, <1>4, <1>5, <1>6, <1>7, LampSteps

LEMMA ReaderType ==
    ASSUME ReaderTypeOK, [Next]_vars
    PROVE  ReaderTypeOK'
<1> USE DEF ReaderTypeOK
<1>1. CASE PollMiss
  BY <1>1 DEF PollMiss
<1>2. CASE PollHit
  BY <1>2 DEF PollHit
<1>3. CASE Authenticate
  BY <1>3 DEF Authenticate
<1>4. CASE Read28 \/ Read29
  BY <1>4 DEF Read28, Read29
<1>5. CASE CardArrives \/ CardLeaves
  BY <1>5 DEF CardArrives, CardLeaves
<1>6. CASE UNCHANGED reader
  BY <1>6 DEF reader
<1> QED
  BY <1>1, <1>2, <1>3, <1>4, <1>5, <1>6, ReaderSteps

LEMMA PublishType ==
    ASSUME NetTypeOK, NEW m \in Sendable, Publish(m)
    PROVE  session' \in BOOLEAN /\ outbox' \in Seq(Sendable)
<1>1. outbox' = outbox \/ outbox' = Append(outbox, m)
  BY DEF Publish
<1>2. outbox' \in Seq(Sendable)
  BY <1>1 DEF NetTypeOK
<1>3. session' = session \/ session' = FALSE
  BY Zenon DEF Publish
<1>4. session' \in BOOLEAN
  BY <1>3, Zenon DEF NetTypeOK
<1> QED
  BY <1>2, <1>4

LEMMA NetType ==
    ASSUME MainTypeOK, NetTypeOK, [Next]_vars
    PROVE  NetTypeOK'
<1>1. CASE UNCHANGED <<net, serial, inputs>>
  BY <1>1 DEF net, serial, NetTypeOK
<1>2. CASE Sub
  <2>1. session' \in BOOLEAN
    BY <1>2, Zenon DEF Sub
  <2>2. UNCHANGED <<up, outbox, inbox, serial, inputs>>
    BY <1>2 DEF Sub
  <2> QED
    BY <2>1, <2>2 DEF serial, NetTypeOK
<1>3. ASSUME NEW m \in Sendable, Publish(m), UNCHANGED <<up, inbox, serial, inputs>>
      PROVE  NetTypeOK'
  BY <1>3, PublishType DEF serial, NetTypeOK
<1>4. CASE Hello \/ PingDue
  <2>1. Ping \in Sendable
    BY DEF Sendable
  <2> QED
    BY <1>3, <1>4, <2>1 DEF Hello, PingDue
<1>5. CASE SendKey
  <2>1. (IF heap = 0 THEN NullKey ELSE RawData(key_data)) \in Sendable
    BY DEF Sendable, MainTypeOK
  <2> QED
    BY <1>3, <1>5, <2>1 DEF SendKey
<1>6. CASE YieldDeliver
  <2>1. inbox # <<>> /\ inbox' = Tail(inbox) /\ UNCHANGED <<session, up, outbox, serial, inputs>>
    BY <1>6 DEF YieldDeliver
  <2> QED
    BY <2>1 DEF serial, NetTypeOK
<1>7. CASE SerialIsr
  <2>1. rx' = <<>> /\ UNCHANGED <<net, inputs>>
    BY <1>7 DEF SerialIsr
  <2> QED
    BY <2>1 DEF net, NetTypeOK
<1>8. CASE BrokerTakes
  <2>1. outbox # <<>> /\ outbox' = Tail(outbox) /\ UNCHANGED <<session, up, inbox, serial, inputs>>
    BY <1>8 DEF BrokerTakes
  <2> QED
    BY <2>1 DEF serial, NetTypeOK
<1>9. CASE BrokerSends
  <2>1. PICK m \in Answers : inbox' = Append(inbox, m)
    BY <1>9 DEF BrokerSends
  <2>2. inputs' \in 0..MaxInputs
    BY <1>9, BoundAssumption DEF BrokerSends, NetTypeOK
  <2>3. UNCHANGED <<session, up, outbox, serial>>
    BY <1>9 DEF BrokerSends
  <2> QED
    BY <2>1, <2>2, <2>3 DEF serial, NetTypeOK
<1>10. CASE LinkFails
  <2>1. up' = FALSE /\ outbox' = <<>> /\ UNCHANGED <<session, inbox, serial, inputs>>
    BY <1>10 DEF LinkFails
  <2>2. outbox' \in Seq(Sendable)
    BY <2>1
  <2> QED
    BY <2>1, <2>2, Zenon DEF serial, NetTypeOK
<1>11. CASE SerialReceives
  <2>1. PICK c \in Chars : rx' = Append(rx, c)
    BY <1>11 DEF SerialReceives
  <2>2. inputs' \in 0..MaxInputs
    BY <1>11, BoundAssumption DEF SerialReceives, NetTypeOK
  <2>3. UNCHANGED net
    BY <1>11 DEF SerialReceives
  <2> QED
    BY <2>1, <2>2, <2>3 DEF net, NetTypeOK
<1>12. CASE InitDoor \/ PingNotDue \/ YieldReturn \/ Light \/ PollMiss \/ PollHit \/ SameCard
            \/ Authenticate \/ Read28 \/ Read29
  BY <1>1, <1>12 DEF InitDoor, PingNotDue, YieldReturn, Light, PollMiss, PollHit, SameCard,
                     Authenticate, Read28, Read29
<1>13. CASE LedTimeout \/ Tick \/ CardArrives \/ CardLeaves \/ UNCHANGED vars
  BY <1>1, <1>13 DEF LedTimeout, Tick, CardArrives, CardLeaves, vars
<1> QED
  BY <1>2, <1>4, <1>5, <1>6, <1>7, <1>8, <1>9, <1>10, <1>11, <1>12, <1>13
     DEF Next, MainThread, Environment

\* THEOREM: the type invariant holds in every reachable state of a door.
THEOREM TypeCorrect == Spec => []TypeOK
<1>1. Init => TypeOK
  <2> SUFFICES ASSUME Init PROVE TypeOK
    OBVIOUS
  <2>1. MainTypeOK
    <3>1. HeapBlocks \in Nat
      BY BoundAssumption
    <3>2. key_data \in Key /\ buf \in Contents
      BY DEF Init, Key, Contents
    <3> QED
      BY <3>1, <3>2, TimeAssumption DEF Init, MainTypeOK, PcValues
  <2>2. LampTypeOK
    <3>1. led_green \in BOOLEAN /\ led_red \in BOOLEAN /\ armed \in BOOLEAN
      BY Zenon DEF Init
    <3>2. led_timeout = 0 /\ green_age = 0 /\ green_limit = 0
      BY DEF Init
    <3> QED
      BY <3>1, <3>2, TimeAssumption DEF LampTypeOK
  <2>3. ReaderTypeOK
    BY DEF Init, ReaderTypeOK
  <2>4. NetTypeOK
    <3>1. MaxInputs \in Nat
      BY BoundAssumption
    <3>2. up \in BOOLEAN /\ session \in BOOLEAN
      BY DEF Init
    <3>3. outbox \in Seq(Sendable) /\ inbox \in Seq(Answers) /\ rx \in Seq(Chars)
      BY DEF Init
    <3> QED
      BY <3>1, <3>2, <3>3 DEF Init, NetTypeOK
  <2> QED
    BY <2>1, <2>2, <2>3, <2>4 DEF TypeOK
<1>2. TypeOK /\ [Next]_vars => TypeOK'
  BY MainType, LampType, ReaderType, NetType DEF TypeOK
<1> QED
  BY <1>1, <1>2, PTL DEF Spec

-----------------------------------------------------------------------------
(* The lamps *)

\* Between the two statements of open_door_* the Timeout has just been
\* attached, whoever attached it last.
FreshTimeout == pc = "light" => armed /\ led_timeout = LedTime

\* The bound on the age of the green lamp holds already when the main thread
\* has attached the Timeout and is about to light it.
AgeBounded ==
    (~Booting /\ led_green) \/ (pc = "light" /\ lighting = "green")
        => green_age + led_timeout <= green_limit

\* LampsTimed and GreenAgeBounded alone are not inductive: from a state that
\* is about to light a lamp they say nothing.
LampInv == LampsTimed /\ FreshTimeout /\ AgeBounded

LEMMA LampInvStep ==
    ASSUME TypeOK, LampInv, [Next]_vars
    PROVE  LampInv'
<1> USE TimeAssumption
        DEF LampInv, LampsTimed, FreshTimeout, AgeBounded, Booting, Lit,
            TypeOK, LampTypeOK
<1>1. CASE LedTimeout
  BY <1>1 DEF LedTimeout, LampsOff, main
<1>2. CASE Tick
  BY <1>2 DEF Tick
<1>3. CASE SerialIsr
  <2>1. UNCHANGED lamps \/ \E lamp \in {"green", "red"} : Attach(lamp) /\ LightUp(lamp)
    BY <1>3, Zenon DEF SerialIsr
  <2>2. UNCHANGED <<pc, lighting>>
    BY <1>3 DEF SerialIsr, main
  <2>3. CASE UNCHANGED lamps
    BY <2>2, <2>3 DEF lamps
  <2>4. ASSUME NEW lamp \in {"green", "red"}, Attach(lamp), LightUp(lamp)
        PROVE  LampInv'
    BY <2>2, <2>4 DEF Attach, LightUp
  <2> QED
    BY <2>1, <2>3, <2>4
<1>4. CASE InitDoor
  BY <1>4 DEF InitDoor, LampsOff
<1>5. CASE YieldDeliver
  <2>1. pc \in {"cycle", "yield"}
    BY <1>5 DEF YieldDeliver
  <2>2. CASE pc' = "yield" /\ UNCHANGED <<lamps, lighting>>
    BY <2>1, <2>2 DEF lamps
  <2>3. ASSUME NEW lamp \in {"green", "red"}, Attach(lamp), lighting' = lamp, pc' = "light",
               UNCHANGED <<led_green, led_red>>
        PROVE  LampInv'
    BY <2>1, <2>3 DEF Attach
  <2> QED
    BY <1>5, <2>2, <2>3, Zenon DEF YieldDeliver, MessageArrived
<1>6. CASE Light
  BY <1>6 DEF Light, LightUp
<1>7. CASE UNCHANGED <<lamps, pc, lighting>>
  BY <1>7 DEF lamps
<1>8. CASE UNCHANGED lamps /\ pc # "light" /\ pc' # "light" /\ (Booting' <=> Booting)
  BY <1>8 DEF lamps
<1>9. CASE Sub \/ Hello \/ PingDue \/ PingNotDue \/ YieldReturn
  BY <1>8, <1>9 DEF Sub, Hello, PingDue, PingNotDue, YieldReturn
<1>10. CASE PollMiss \/ PollHit \/ SameCard \/ Authenticate
  BY <1>8, <1>10 DEF PollMiss, PollHit, SameCard, Authenticate
<1>11. CASE Read28 \/ Read29 \/ SendKey
  BY <1>8, <1>11 DEF Read28, Read29, SendKey
<1>12. CASE Environment
  BY <1>7, <1>12 DEF Environment, CardArrives, CardLeaves, BrokerTakes, BrokerSends,
                     LinkFails, SerialReceives, main
<1>13. CASE UNCHANGED vars
  BY <1>7, <1>13 DEF vars, main
<1> QED
  BY <1>1, <1>2, <1>3, <1>4, <1>5, <1>6, <1>9, <1>10, <1>11, <1>12, <1>13
     DEF Next, MainThread

LEMMA LampsInvariant == Spec => []LampInv
<1>1. Init => LampInv
  BY DEF Init, LampInv, LampsTimed, FreshTimeout, AgeBounded, Booting
<1>2. TypeOK /\ LampInv /\ [Next]_vars => LampInv'
  BY LampInvStep
<1> QED
  BY <1>1, <1>2, TypeCorrect, PTL DEF Spec

\* THEOREM: no lamp is ever left lit without a timeout pending, in any
\* interleaving of the main thread with the two interrupts.
THEOREM LampsAlwaysTimed == Spec => []LampsTimed
<1>1. LampInv => LampsTimed
  BY DEF LampInv
<1> QED
  BY <1>1, LampsInvariant, PTL

\* THEOREM: the green lamp stays lit no longer than LedTime after the command
\* to open, plus one LedTime for each later command that re-armed the Timeout.
THEOREM GreenAgeAlwaysBounded == Spec => []GreenAgeBounded
<1>1. LampInv => GreenAgeBounded
  BY DEF LampInv, AgeBounded, GreenAgeBounded
<1> QED
  BY <1>1, LampsInvariant, PTL

-----------------------------------------------------------------------------
(* The keys *)

\* While a card is being read, the card the reader is linked to is the one of
\* `uid', and what has been read so far was read from it.
ReadingOneCard ==
    /\ pc \in {"auth", "read28", "read29", "send"} =>
           uid \in Cards /\ (link # "none" => field = uid)
    /\ pc \in {"read29", "send"} => key_data.uid = uid /\ key_data.body = <<uid, 28>>
    /\ pc = "send" => key_data.door = <<uid, 29>>

KeyInv == ReadingOneCard /\ KeysConsistent

LEMMA ReadingStep ==
    ASSUME TypeOK, ReadingOneCard, [Next]_vars
    PROVE  ReadingOneCard'
<1> USE DEF ReadingOneCard
<1>1. CASE PollMiss \/ SameCard \/ SendKey
  BY <1>1 DEF PollMiss, SameCard, SendKey
<1>2. CASE PollHit
  BY <1>2, NoCardAssumption DEF PollHit, TypeOK, ReaderTypeOK
<1>3. CASE Authenticate
  BY <1>3 DEF Authenticate
<1>4. CASE Read28
  <2>1. CASE pc' = "top"
    BY <2>1
  <2>2. CASE link = "authed" /\ pc' = "read29" /\ buf' = <<field, 28>> /\ UNCHANGED link
             /\ key_data' = [uid |-> uid, body |-> buf', door |-> key_data.door]
    BY <1>4, <2>2 DEF Read28
  <2> QED
    BY <1>4, <2>1, <2>2 DEF Read28
<1>5. CASE Read29
  <2>1. CASE pc' = "top"
    BY <2>1
  <2>2. CASE link = "authed" /\ pc' = "send" /\ buf' = <<field, 29>> /\ UNCHANGED link
             /\ key_data' = [uid |-> key_data.uid, body |-> key_data.body, door |-> buf']
    BY <1>5, <2>2 DEF Read29
  <2> QED
    BY <1>5, <2>1, <2>2 DEF Read29
<1>6. CASE CardArrives
  BY <1>6, NoCardAssumption DEF CardArrives, main, TypeOK, ReaderTypeOK
<1>7. CASE CardLeaves
  BY <1>7 DEF CardLeaves, main
<1>8. CASE pc' \in {"init", "hello", "top", "cycle", "yield", "light", "poll"}
  BY <1>8
<1>9. CASE Sub \/ InitDoor \/ Hello \/ PingDue \/ PingNotDue \/ YieldReturn \/ Light
  BY <1>8, <1>9 DEF Sub, InitDoor, Hello, PingDue, PingNotDue, YieldReturn, Light
<1>10. CASE YieldDeliver
  BY <1>8, <1>10 DEF YieldDeliver, MessageArrived
<1>11. CASE UNCHANGED <<pc, uid, key_data, reader>>
  BY <1>11 DEF reader
<1>12. CASE LedTimeout \/ Tick \/ SerialIsr \/ UNCHANGED vars
  BY <1>11, <1>12 DEF LedTimeout, Tick, SerialIsr, vars, main
<1>13. CASE BrokerTakes \/ BrokerSends \/ LinkFails \/ SerialReceives
  BY <1>11, <1>13 DEF BrokerTakes, BrokerSends, LinkFails, SerialReceives, main
<1> QED
  BY <1>1, <1>2, <1>3, <1>4, <1>5, <1>6, <1>7, <1>9, <1>10, <1>12, <1>13
     DEF Next, MainThread, Environment

\* An exhausted heap stays exhausted.
LEMMA HeapStep ==
    ASSUME [Next]_vars, heap = 0
    PROVE  heap' = 0
<1>1. CASE SendKey
  BY <1>1 DEF SendKey
<1>2. CASE Sub \/ Hello \/ PingDue \/ PingNotDue \/ YieldReturn \/ InitDoor \/ YieldDeliver \/ Light
  BY <1>2 DEF Sub, Hello, PingDue, PingNotDue, YieldReturn, InitDoor, YieldDeliver, Light
<1>3. CASE PollMiss \/ PollHit \/ SameCard \/ Authenticate \/ Read28 \/ Read29
  BY <1>3 DEF PollMiss, PollHit, SameCard, Authenticate, Read28, Read29
<1>4. CASE LedTimeout \/ Tick \/ SerialIsr \/ UNCHANGED vars
  BY <1>4 DEF LedTimeout, Tick, SerialIsr, vars, main
<1>5. CASE Environment
  BY <1>5 DEF Environment, CardArrives, CardLeaves, BrokerTakes, BrokerSends,
              LinkFails, SerialReceives, main
<1> QED
  BY <1>1, <1>2, <1>3, <1>4, <1>5 DEF Next, MainThread

\* What a step may do to the send buffer.
LEMMA OutboxSteps ==
    ASSUME TypeOK, ReadingOneCard, [Next]_vars
    PROVE  \/ UNCHANGED outbox
           \/ outbox' = <<>>
           \/ outbox # <<>> /\ outbox' = Tail(outbox)
           \/ \E m \in Sendable : Sound(m) /\ outbox' = Append(outbox, m)
<1>1. ASSUME NEW m \in Sendable, Publish(m), Sound(m)
      PROVE  UNCHANGED outbox \/ \E n \in Sendable : Sound(n) /\ outbox' = Append(outbox, n)
  BY <1>1 DEF Publish
<1>2. CASE Hello \/ PingDue
  <2>1. Ping \in Sendable /\ Sound(Ping)
    BY DEF Sendable, Ping, Sound
  <2> QED
    BY <1>1, <1>2, <2>1 DEF Hello, PingDue
<1>3. CASE SendKey
  <2>1. CASE heap = 0
    <3>1. NullKey \in Sendable /\ Sound(NullKey)
      BY <2>1 DEF Sendable, NullKey, Sound
    <3> QED
      BY <1>1, <1>3, <2>1, <3>1 DEF SendKey
  <2>2. CASE heap # 0
    <3>1. RawData(key_data) \in Sendable
      BY DEF Sendable, TypeOK, MainTypeOK
    <3>2. OfOneCard(key_data)
      BY <1>3 DEF SendKey, ReadingOneCard, OfOneCard
    <3>3. Sound(RawData(key_data))
      BY <3>2 DEF Sound, RawData
    <3> QED
      BY <1>1, <1>3, <2>2, <3>1, <3>3 DEF SendKey
  <2> QED
    BY <2>1, <2>2
<1>4. CASE Sub \/ PingNotDue \/ YieldReturn \/ InitDoor \/ YieldDeliver \/ Light
  BY <1>4 DEF Sub, PingNotDue, YieldReturn, InitDoor, YieldDeliver, Light, net
<1>5. CASE PollMiss \/ PollHit \/ SameCard \/ Authenticate \/ Read28 \/ Read29
  BY <1>5 DEF PollMiss, PollHit, SameCard, Authenticate, Read28, Read29, net
<1>6. CASE LedTimeout \/ Tick \/ SerialIsr \/ UNCHANGED vars
  BY <1>6 DEF LedTimeout, Tick, SerialIsr, vars, net
<1>7. CASE Environment
  BY <1>7 DEF Environment, CardArrives, CardLeaves, BrokerTakes, BrokerSends,
              LinkFails, SerialReceives, net
<1> QED
  BY <1>2, <1>3, <1>4, <1>5, <1>6, <1>7 DEF Next, MainThread

LEMMA KeysStep ==
    ASSUME TypeOK, KeyInv, [Next]_vars
    PROVE  KeysConsistent'
<1>1. SUFFICES ASSUME NEW i \in 1..Len(outbox')
               PROVE  Sound(outbox[i])'
  BY DEF KeysConsistent
<1>2. outbox \in Seq(Sendable)
  BY DEF TypeOK, NetTypeOK
<1>3. \/ \E j \in 1..Len(outbox) : outbox'[i] = outbox[j]
      \/ \E m \in Sendable : Sound(m) /\ outbox'[i] = m
  <2>1. CASE UNCHANGED outbox
    BY <1>1, <2>1
  <2>2. CASE outbox' = <<>>
    BY <1>1, <2>2
  <2>3. CASE outbox # <<>> /\ outbox' = Tail(outbox)
    <3>1. i + 1 \in 1..Len(outbox) /\ outbox'[i] = outbox[i + 1]
      BY <1>1, <1>2, <2>3
    <3> QED
      BY <3>1
  <2>4. CASE \E m \in Sendable : Sound(m) /\ outbox' = Append(outbox, m)
    <3>1. PICK m \in Sendable : Sound(m) /\ outbox' = Append(outbox, m)
      BY <2>4
    <3>2. CASE i = Len(outbox) + 1
      BY <1>2, <3>1, <3>2
    <3>3. CASE i # Len(outbox) + 1
      <4>1. i \in 1..Len(outbox) /\ outbox'[i] = outbox[i]
        BY <1>1, <1>2, <3>1, <3>3
      <4> QED
        BY <4>1
    <3> QED
      BY <3>2, <3>3
  <2> QED
    BY <2>1, <2>2, <2>3, <2>4, OutboxSteps DEF KeyInv
<1>4. PICK m : Sound(m) /\ outbox'[i] = m
  BY <1>3 DEF KeyInv, KeysConsistent
<1> QED
  BY <1>4, HeapStep DEF Sound

\* THEOREM: every key message joins the uid, the body and the door number of
\* one card, and is a key message as long as the heap lasts.
THEOREM KeysAlwaysConsistent == Spec => []KeysConsistent
<1>1. Init => KeyInv
  BY DEF Init, KeyInv, ReadingOneCard, KeysConsistent
<1>2. TypeOK /\ KeyInv /\ [Next]_vars => KeyInv'
  BY ReadingStep, KeysStep DEF KeyInv
<1>3. KeyInv => KeysConsistent
  BY DEF KeyInv
<1> QED
  BY <1>1, <1>2, <1>3, TypeCorrect, PTL DEF Spec

-----------------------------------------------------------------------------
(* One attempt per presence *)

\* What has been tried is what the main loop would skip, and a card about to
\* be authenticated has not been tried.
TriedIsLast ==
    /\ tried \in {NoCard, last_uid}
    /\ pc = "auth" => tried = NoCard /\ uid \in Cards /\ last_uid = uid

LEMMA TriedStep ==
    ASSUME TypeOK, TriedIsLast, [Next]_vars
    PROVE  TriedIsLast'
<1> USE DEF TriedIsLast
<1>1. CASE PollMiss
  BY <1>1 DEF PollMiss
<1>2. CASE PollHit
  BY <1>2 DEF PollHit, TypeOK, ReaderTypeOK
<1>3. CASE Authenticate
  BY <1>3 DEF Authenticate
<1>4. CASE UNCHANGED <<last_uid, tried>> /\ pc' # "auth"
  BY <1>4
<1>5. CASE UNCHANGED main
  BY <1>5 DEF main
<1>6. CASE Sub \/ Hello \/ PingDue \/ PingNotDue \/ YieldReturn \/ InitDoor \/ Light
  BY <1>4, <1>6 DEF Sub, Hello, PingDue, PingNotDue, YieldReturn, InitDoor, Light
<1>7. CASE YieldDeliver
  BY <1>4, <1>7 DEF YieldDeliver, MessageArrived
<1>8. CASE SameCard \/ Read28 \/ Read29 \/ SendKey
  BY <1>4, <1>8 DEF SameCard, Read28, Read29, SendKey
<1>9. CASE Tick
  BY <1>9 DEF Tick
<1>10. CASE LedTimeout \/ SerialIsr \/ UNCHANGED vars
  BY <1>5, <1>10 DEF LedTimeout, SerialIsr, vars
<1>11. CASE Environment
  BY <1>5, <1>11 DEF Environment, CardArrives, CardLeaves, BrokerTakes, BrokerSends,
                     LinkFails, SerialReceives
<1> QED
  BY <1>1, <1>2, <1>3, <1>6, <1>7, <1>8, <1>9, <1>10, <1>11 DEF Next, MainThread

\* THEOREM: no card is authenticated a second time before a poll has missed it
\* or found another one.
THEOREM OneTryPerPresence == Spec => TriedOncePerPresence
<1>1. Init => TriedIsLast
  BY DEF Init, TriedIsLast
<1>2. TypeOK /\ TriedIsLast /\ [Next]_vars => TriedIsLast'
  BY TriedStep
<1>3. TriedIsLast => [pc = "auth" /\ pc' # "auth" => tried # uid]_vars
  BY NoCardAssumption DEF TriedIsLast
<1> QED
  BY <1>1, <1>2, <1>3, TypeCorrect, PTL DEF Spec, TriedOncePerPresence
=============================================================================

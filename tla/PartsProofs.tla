----------------------------- MODULE PartsProofs -----------------------------
(***************************************************************************)
(* Proofs about the parts that work on their own: the building the console *)
(* shows and its highlights, the serial bridge, the JSON values, the       *)
(* reader of the door and MQTT packets as bytes, for any size of each.     *)
(***************************************************************************)
EXTENDS Building, Highlight, SerialBridge, JsonValue, Pn532Link, PacketStream,
        Integers, FiniteSetTheorems, TLAPS

-----------------------------------------------------------------------------
(* The building of the console *)

\* The keys presented are of rooms: of a block whose flats have eight rooms,
\* they bear one of the numbers on its doors.
OfARoom(key) ==
    key.block \in FullBlocks => key.college \in {"Woolf", "unknown"} /\ key.door \in 9..72

\* What is selected is what the rules in force select.
DeviceOK(d) ==
    d.known => /\ {"known", "rules", "selection", "age", "badge", "had_lag"} \subseteq DOMAIN d
               /\ d.selection.rules = d.rules

\* A key that no file had a room for.
ThrownFindsNone ==
    last.result = "threw" =>
        last.key \in Keys /\ \A f \in last.files : ~HasRoom(f, last.key)

BuildingInv ==
    /\ parts \in Seq(Files) /\ DOMAIN devices = Uuids
    /\ \A u \in Uuids : DeviceOK(devices[u])
    /\ ThrownFindsNone /\ RefusalShowsOthers

\* The doors of a flat, in a block whose flats have eight rooms.
LEMMA DoorsOfFlat ==
    ASSUME NEW b \in FullBlocks, NEW odd \in {1, 2}, NEW floor \in 0..3
    PROVE  FirstDoor(b, odd, floor) = 8 * (2 * floor + odd) + 1 /\ Rooms[b] = 8
<1>1. Rooms[b] = 8
  BY DEF FullBlocks
<1>2. CASE odd = 1
  BY <1>1, <1>2 DEF FirstDoor
<1>3. CASE odd = 2
  BY <1>1, <1>3 DEF FirstDoor
<1> QED BY <1>1, <1>2, <1>3

\* The meshes of such a file bear the numbers of their flats ...
LEMMA MeshesBearNumbers ==
    ASSUME NEW f \in Files, f[1] \in FullBlocks, NEW m \in MeshesOf(f),
           m.door \notin {Kitchen, FlatDoor}
    PROVE  m.door - 1 \in (8 * m.flat)..(8 * m.flat + 7)
<1> DEFINE b == f[1]
           odd == f[2]
<1>1. b \in FullBlocks /\ odd \in {1, 2}
  BY DEF Files
<1>2. PICK floor \in 0..3 :
         \E d \in {Kitchen, FlatDoor}
                  \cup FirstDoor(b, odd, floor)..(FirstDoor(b, odd, floor) + Rooms[b] - 1) :
            m = [block |-> b, flat |-> 2 * floor + odd, door |-> d]
  BY DEF MeshesOf
<1>3. /\ m.door \in FirstDoor(b, odd, floor)..(FirstDoor(b, odd, floor) + Rooms[b] - 1)
      /\ m.flat = 2 * floor + odd
  BY <1>2
<1> HIDE DEF b, odd
<1>4. m.door \in (8 * m.flat + 1)..(8 * m.flat + 1 + 8 - 1)
  BY <1>1, <1>3, DoorsOfFlat
<1>5. m.flat \in Nat
  BY <1>1, <1>3
<1> QED BY <1>4, <1>5

\* ... and every number has its mesh, in the file of its parity.
LEMMA NumberHasMesh ==
    ASSUME NEW key, key.block \in FullBlocks, OfARoom(key)
    PROVE  LET odd == IF ((key.door - 1) \div 8) % 2 = 1 THEN 1 ELSE 2
           IN  HasRoom(<<key.block, odd>>, key)
<1> DEFINE n == (key.door - 1) \div 8
           odd == IF n % 2 = 1 THEN 1 ELSE 2
           floor == (n - odd) \div 2
           f == <<key.block, odd>>
<1>1. key.door \in 9..72 /\ key.college \in {"Woolf", "unknown"}
  BY DEF OfARoom
<1>2. n \in 1..8 /\ key.door \in (8 * n + 1)..(8 * n + 8)
  BY <1>1
<1>3. odd \in {1, 2} /\ floor \in 0..3 /\ n = 2 * floor + odd
  BY <1>2
<1> HIDE DEF n, odd, floor
<1>4. key.door \in FirstDoor(key.block, odd, floor)
                   ..(FirstDoor(key.block, odd, floor) + Rooms[key.block] - 1)
  BY <1>2, <1>3, DoorsOfFlat
<1> DEFINE m == [block |-> key.block, flat |-> 2 * floor + odd, door |-> key.door]
<1>5. m \in MeshesOf(f) /\ m.door = key.door
  BY <1>3, <1>4 DEF MeshesOf
<1>6. HasRoom(f, key)
  BY <1>1, <1>5 DEF HasRoom
<1> QED BY <1>6 DEF n, odd

LEMMA DevicesKeep ==
    ASSUME NEW u \in Uuids, BuildingInv
    PROVE  /\ DeviceOK(NewDevice) /\ DeviceOK(NoDevice)
           /\ DeviceOK(Added(u)) /\ Added(u).known
<1>1. DeviceOK(NewDevice) /\ NewDevice.known
  BY DEF DeviceOK, NewDevice, Selection
<1>2. DeviceOK(NoDevice)
  BY DEF DeviceOK, NoDevice
<1> QED BY <1>1, <1>2 DEF Added, BuildingInv

\* A key is looked up for a device that is known by then.
LEMMA KeyKeeps ==
    ASSUME BuildingInv, NEW u \in Uuids, NEW key \in Keys, ProcessRawData(u, key)
    PROVE  BuildingInv'
<1> USE DEF BuildingInv
<1>1. /\ devices' = [devices EXCEPT ![u] = Added(u)] /\ parts' = parts
      /\ DOMAIN devices' = Uuids /\ devices'[u] = Added(u)
      /\ \A v \in Uuids : v # u => devices'[v] = devices[v]
  BY DEF ProcessRawData
<1>2. \A v \in Uuids : DeviceOK(devices'[v])
  BY <1>1, DevicesKeep
<1>3. CASE ~\E f \in Loaded : HasRoom(f, key)
  <2>1. last' = [result |-> "threw", key |-> key, files |-> Loaded]
    BY <1>3 DEF ProcessRawData
  <2>2. ThrownFindsNone' /\ RefusalShowsOthers'
    BY <1>3, <2>1 DEF ThrownFindsNone, RefusalShowsOthers
  <2> QED BY <1>1, <1>2, <2>2
<1>4. CASE \E f \in Loaded : HasRoom(f, key)
  <2> DEFINE m == MeshOfKey(key)
  <2>1. last' = IF Matches(m, devices'[u].rules)
                THEN [result |-> "granted", mesh |-> m, shown |-> {m}, key |-> key]
                ELSE [result |-> "refused", mesh |-> m, shown |-> Selected(u)', key |-> key]
    BY <1>4 DEF ProcessRawData
  <2> HIDE DEF m
  <2>2. last'.result # "threw"
    BY <2>1
  <2>3. RefusalShowsOthers'
    <3> SUFFICES ASSUME last'.result = "refused"
                 PROVE  last'.mesh \notin last'.shown
      BY DEF RefusalShowsOthers
    <3>1. ~Matches(m, devices'[u].rules) /\ last'.mesh = m /\ last'.shown = Selected(u)'
      BY <2>1
    <3>2. devices'[u].selection.rules = devices'[u].rules
      BY <1>1, DevicesKeep DEF DeviceOK
    <3>3. ~Matches(m, devices'[u].selection.rules)
      BY <3>1, <3>2
    <3>4. m \notin Selected(u)'
      BY <3>3 DEF Selected
    <3> QED BY <3>1, <3>4
  <2>4. ThrownFindsNone'
    BY <2>2 DEF ThrownFindsNone
  <2> QED BY <1>1, <1>2, <2>3, <2>4
<1> QED BY <1>3, <1>4

\* What display changes of a device.
LEMMA DisplayedKeeps ==
    ASSUME NEW d, DeviceOK(d), d.known, NEW x
    PROVE  DeviceOK(Displayed([d EXCEPT !.age = x]))
<1> DEFINE e == [d EXCEPT !.age = x]
<1>1. e.known /\ DeviceOK(e)
  BY DEF DeviceOK
<1> HIDE DEF e
<1> DEFINE badge == IF Late(e.age) THEN TRUE ELSE IF e.had_lag THEN FALSE ELSE e.badge
           lag == e.had_lag \/ Late(e.age)
<1>2. Displayed(e) = [e EXCEPT !.badge = badge, !.had_lag = lag]
  BY DEF Displayed
<1> HIDE DEF badge, lag
<1>3. DeviceOK([e EXCEPT !.badge = badge, !.had_lag = lag])
  BY <1>1 DEF DeviceOK
<1> QED BY <1>2, <1>3 DEF e

\* Pings, rules and the clock leave every device with its selection.
LEMMA DeviceSteps ==
    ASSUME BuildingInv,
           \/ Display
           \/ \E u \in Uuids : DevicePings(u) \/ HandleDropdownClicked(u)
    PROVE  BuildingInv'
<1> USE DEF BuildingInv
<1>1. ASSUME DOMAIN devices' = Uuids, \A u \in Uuids : DeviceOK(devices'[u]),
             UNCHANGED <<parts, last>>
      PROVE  BuildingInv'
  BY <1>1 DEF ThrownFindsNone, RefusalShowsOthers
<1>2. CASE Display
  <2>1. /\ UNCHANGED <<parts, last>> /\ DOMAIN devices' = Uuids
        /\ \A u \in Uuids : devices'[u] =
              IF ~devices[u].known THEN NoDevice
              ELSE Displayed([devices[u] EXCEPT !.age = IF Late(@) THEN @ ELSE @ + 1])
    BY <1>2 DEF Display
  <2>2. ASSUME NEW u \in Uuids
        PROVE  DeviceOK(devices'[u])
    <3>1. CASE ~devices[u].known
      BY <2>1, <3>1, DevicesKeep
    <3>2. CASE devices[u].known
      <4>1. /\ devices[u].known /\ DeviceOK(devices[u])
            /\ devices'[u] = Displayed([devices[u] EXCEPT !.age = IF Late(@) THEN @ ELSE @ + 1])
        BY <2>1, <3>2
      <4> QED BY <4>1, DisplayedKeeps
    <3> QED BY <3>1, <3>2
  <2> QED BY <1>1, <2>1, <2>2
<1>3. ASSUME NEW u \in Uuids, DevicePings(u)
      PROVE  BuildingInv'
  <2>1. /\ devices' = [devices EXCEPT ![u] = IF @.known THEN [@ EXCEPT !.age = 0] ELSE NewDevice]
        /\ UNCHANGED <<parts, last>>
    BY <1>3 DEF DevicePings
  <2>2. /\ DOMAIN devices' = Uuids /\ \A v \in Uuids : v # u => devices'[v] = devices[v]
        /\ devices'[u] = IF devices[u].known THEN [devices[u] EXCEPT !.age = 0] ELSE NewDevice
    BY <2>1
  <2>3. DeviceOK(devices'[u])
    <3>1. CASE devices[u].known
      <4>1. DeviceOK(devices[u]) /\ devices'[u] = [devices[u] EXCEPT !.age = 0]
        BY <2>2, <3>1
      <4> QED BY <3>1, <4>1 DEF DeviceOK
    <3>2. CASE ~devices[u].known
      BY <2>2, <3>2, DevicesKeep
    <3> QED BY <3>1, <3>2
  <2> QED BY <1>1, <2>1, <2>2, <2>3
<1>4. ASSUME NEW u \in Uuids, HandleDropdownClicked(u)
      PROVE  BuildingInv'
  <2>1. /\ devices[u].known /\ UNCHANGED <<parts, last>>
        /\ \E rules : Choose(u, rules)
    BY <1>4 DEF HandleDropdownClicked
  <2>2. PICK rules : Choose(u, rules)
    BY <2>1
  <2>3. /\ DOMAIN devices' = Uuids /\ \A v \in Uuids : v # u => devices'[v] = devices[v]
        /\ devices'[u] = [devices[u] EXCEPT !.rules = rules, !.selection = Selection(rules)]
    BY <2>2 DEF Choose
  <2>4. DeviceOK(devices'[u])
    <3>1. DeviceOK(devices[u])
      OBVIOUS
    <3> QED BY <2>1, <2>3, <3>1 DEF DeviceOK, Selection
  <2> QED BY <1>1, <2>1, <2>3, <2>4
<1> QED BY <1>2, <1>3, <1>4

LEMMA ImportKeeps == BuildingInv /\ ImportSubBlock => BuildingInv'
<1> SUFFICES ASSUME BuildingInv, ImportSubBlock
             PROVE  BuildingInv'
  OBVIOUS
<1>1. PICK f \in Files : parts' = Append(parts, f) /\ UNCHANGED <<devices, last>>
  BY DEF ImportSubBlock
<1> QED BY <1>1 DEF BuildingInv, ThrownFindsNone, RefusalShowsOthers

LEMMA BuildingInitially == BuildingInit => BuildingInv
<1> SUFFICES ASSUME BuildingInit
             PROVE  BuildingInv
  OBVIOUS
<1>1. \A u \in Uuids : DeviceOK(devices[u])
  BY DEF BuildingInit, DeviceOK, NoDevice
<1> QED BY <1>1 DEF BuildingInit, BuildingInv, ThrownFindsNone, RefusalShowsOthers

\* KeysAndRefusalsRight for any blocks, files, devices and rules, if the keys
\* presented are of rooms.
THEOREM KeysRight ==
    ASSUME \A key \in Keys : OfARoom(key)
    PROVE  BuildingSpec => []KeysAndRefusalsRight
<1>1. BuildingInv /\ UNCHANGED buildingVars => BuildingInv'
  BY DEF buildingVars, BuildingInv, ThrownFindsNone, RefusalShowsOthers
<1>2. BuildingInv /\ [BuildingNext]_buildingVars => BuildingInv'
  BY <1>1, ImportKeeps, KeyKeeps, DeviceSteps DEF BuildingNext
<1>3. BuildingInv => DoorsNameRooms
  <2> SUFFICES ASSUME BuildingInv, NEW f \in Loaded, f[1] \in FullBlocks,
                      NEW m \in MeshesOf(f), m.door \notin {Kitchen, FlatDoor}
               PROVE  m.door - 1 \in (8 * m.flat)..(8 * m.flat + 7)
    BY DEF DoorsNameRooms
  <2>1. f \in Files
    BY DEF BuildingInv, Loaded
  <2> QED BY <2>1, MeshesBearNumbers
<1>4. BuildingInv => KeyOfLoadedRoomAnswered
  <2> SUFFICES ASSUME BuildingInv, last.result = "threw", last.key.block \in FullBlocks
               PROVE  LET odd == IF ((last.key.door - 1) \div 8) % 2 = 1 THEN 1 ELSE 2
                      IN  <<last.key.block, odd>> \notin last.files
    BY DEF KeyOfLoadedRoomAnswered
  <2> DEFINE odd == IF ((last.key.door - 1) \div 8) % 2 = 1 THEN 1 ELSE 2
  <2>1. OfARoom(last.key) /\ \A f \in last.files : ~HasRoom(f, last.key)
    BY DEF BuildingInv, ThrownFindsNone
  <2>2. HasRoom(<<last.key.block, odd>>, last.key)
    BY <2>1, NumberHasMesh
  <2> QED BY <2>1, <2>2
<1>5. BuildingInv => KeysAndRefusalsRight
  BY <1>3, <1>4 DEF BuildingInv, KeysAndRefusalsRight, KeysFindRooms
<1> QED BY <1>2, <1>5, BuildingInitially, PTL DEF BuildingSpec

-----------------------------------------------------------------------------
(* The serial bridge *)

BridgeTypeOK ==
    /\ main \in {"open", "read", "publish", "reopen", "dead"}
    /\ s \in 0..(MaxLines + 1)
    /\ lines \in 0..MaxLines /\ uart \in Seq(1..MaxLines)
    /\ published \in Seq(1..MaxLines) /\ reopened \in Nat
    /\ netAlive \in BOOLEAN
    /\ verdicts \in Seq(Nat) /\ delivered \in Nat /\ written \in Seq(Nat)

\* The line published last; 0 before the first.
LastPublished == IF published = <<>> THEN 0 ELSE published[Len(published)]

\* Lines wait in the order they were written, behind the one read last.
LinesAhead ==
    /\ \A i, j \in 1..Len(uart) : i < j => uart[i] < uart[j]
    /\ LastPublished <= lines
    /\ s \in 1..MaxLines => LastPublished <= s /\ s <= lines
    /\ \A i \in 1..Len(uart) : /\ LastPublished < uart[i] /\ uart[i] <= lines
                               /\ s \in 1..MaxLines => s < uart[i]
    /\ main = "publish" => s # Unset

\* The places where a line comes again.
Again(q) == {i \in 2..Len(q) : q[i] = q[i - 1]}

\* A line about to come again is counted already.
RepeatsCounted ==
    /\ \A i \in 2..Len(published) : published[i - 1] <= published[i]
    /\ IsFiniteSet(Again(published)) /\ Cardinality(Again(published)) <= reopened
    /\ main = "publish" /\ s = LastPublished /\ s # 0 =>
          Cardinality(Again(published)) + 1 <= reopened

\* The verdicts are numbered on.
VerdictsNumbered ==
    /\ written = [i \in 1..Len(written) |-> i]
    /\ Len(written) + Len(verdicts) = delivered
    /\ \A i \in 1..Len(verdicts) : verdicts[i] = Len(written) + i

BridgeInv == BridgeTypeOK /\ LinesAhead /\ RepeatsCounted /\ VerdictsNumbered

\* What Append and Tail make of a sequence.
LEMMA Appended ==
    ASSUME NEW S, NEW q \in Seq(S), NEW x \in S
    PROVE  /\ Append(q, x) \in Seq(S) /\ Append(q, x) # <<>>
           /\ Len(q) \in Nat /\ Len(Append(q, x)) = Len(q) + 1
           /\ Append(q, x)[Len(q) + 1] = x
           /\ \A i \in 1..Len(q) : Append(q, x)[i] = q[i] /\ q[i] \in S
           /\ q # <<>> <=> Len(q) # 0
OBVIOUS

LEMMA Tailed ==
    ASSUME NEW S, NEW q \in Seq(S), q # <<>>
    PROVE  /\ Tail(q) \in Seq(S) /\ Head(q) = q[1] /\ q[1] \in S
           /\ Len(q) \in Nat \ {0} /\ Len(Tail(q)) = Len(q) - 1
           /\ \A i \in 1..Len(Tail(q)) :
                 Tail(q)[i] = q[i + 1] /\ i + 1 \in 2..Len(q) /\ q[i + 1] \in S
OBVIOUS

\* Where a longer sequence repeats.
LEMMA AgainAppended ==
    ASSUME NEW q \in Seq(Nat), NEW x \in Nat
    PROVE  Again(Append(q, x)) =
             IF q # <<>> /\ x = q[Len(q)] THEN Again(q) \cup {Len(q) + 1} ELSE Again(q)
<1> DEFINE r == Append(q, x)
<1>1. /\ Len(r) = Len(q) + 1 /\ r[Len(q) + 1] = x /\ \A i \in 1..Len(q) : r[i] = q[i]
      /\ Len(q) \in Nat /\ (q # <<>> <=> Len(q) # 0)
  OBVIOUS
<1> HIDE DEF r
<1>2. ASSUME NEW i
      PROVE  i \in Again(r) <=> i \in Again(q) \/ (i = Len(q) + 1 /\ Len(q) # 0 /\ x = q[Len(q)])
  <2>1. CASE i \in 2..Len(q)
    <3>1. r[i] = q[i] /\ r[i - 1] = q[i - 1] /\ i \in 2..Len(r) /\ i # Len(q) + 1
      BY <2>1, <1>1
    <3> QED BY <2>1, <3>1 DEF Again
  <2>2. CASE i = Len(q) + 1
    <3>1. i \notin 2..Len(q) /\ i - 1 = Len(q) /\ r[i] = x
      BY <2>2, <1>1
    <3>2. CASE Len(q) # 0
      <4>1. i \in 2..Len(r) /\ r[i - 1] = q[Len(q)]
        BY <2>2, <3>1, <3>2, <1>1
      <4> QED BY <2>2, <3>1, <3>2, <4>1 DEF Again
    <3>3. CASE Len(q) = 0
      <4>1. i \notin 2..Len(r)
        BY <2>2, <3>3, <1>1
      <4> QED BY <3>1, <3>3, <4>1 DEF Again
    <3> QED BY <3>2, <3>3
  <2>3. CASE i \notin 2..Len(q) /\ i # Len(q) + 1
    <3>1. i \notin 2..Len(r)
      BY <2>3, <1>1
    <3> QED BY <2>3, <3>1 DEF Again
  <2> QED BY <2>1, <2>2, <2>3
<1>3. CASE q # <<>> /\ x = q[Len(q)]
  BY <1>1, <1>2, <1>3 DEF r
<1>4. CASE ~(q # <<>> /\ x = q[Len(q)])
  BY <1>1, <1>2, <1>4 DEF r
<1> QED BY <1>3, <1>4

\* The handler that publishes.
LEMMA PublishKeeps == BridgeInv /\ PublishLine => BridgeInv'
<1> SUFFICES ASSUME BridgeInv, PublishLine
             PROVE  BridgeInv'
  OBVIOUS
<1> USE BridgeAssumption DEF BridgeInv
<1>1. /\ main = "publish" /\ main' = "read"
      /\ published' = IF s = Blank THEN published ELSE Append(published, s)
      /\ UNCHANGED <<ser, s, port, reopened, net>>
  BY DEF PublishLine
<1>2. UNCHANGED <<uart, lines, netAlive, verdicts, delivered, written>>
  BY <1>1 DEF port, net
<1>3. VerdictsNumbered'
  BY <1>2 DEF VerdictsNumbered
<1>4. CASE s = Blank
  <2>1. published' = published
    BY <1>1, <1>4
  <2>2. BridgeTypeOK'
    BY <1>1, <1>2, <2>1 DEF BridgeTypeOK
  <2>3. LinesAhead'
    BY <1>1, <1>2, <2>1 DEF LinesAhead, LastPublished
  <2>4. RepeatsCounted'
    BY <1>1, <2>1 DEF RepeatsCounted
  <2> QED BY <1>3, <2>2, <2>3, <2>4
<1>5. CASE s # Blank
  <2>1. /\ published' = Append(published, s) /\ s \in 1..MaxLines
        /\ LastPublished <= s /\ s <= lines
    BY <1>1, <1>5 DEF LinesAhead, BridgeTypeOK, Blank, Unset
  <2>2. /\ published \in Seq(1..MaxLines) /\ published' \in Seq(1..MaxLines)
        /\ Len(published') = Len(published) + 1 /\ Len(published) \in Nat
        /\ published'[Len(published')] = s
        /\ \A i \in 1..Len(published) : published'[i] = published[i]
        /\ published' # <<>> /\ (published # <<>> <=> Len(published) # 0)
        /\ \A i \in 1..Len(published) : published[i] \in Nat
    <3>1. published \in Seq(1..MaxLines)
      BY DEF BridgeTypeOK
    <3>2. Len(published) + 1 = Len(published')
      BY <2>1, <3>1, Appended
    <3> QED BY <2>1, <3>1, <3>2, Appended
  <2>3. LastPublished' = s
    BY <2>2 DEF LastPublished
  <2>4. BridgeTypeOK'
    BY <1>1, <1>2, <2>2 DEF BridgeTypeOK
  <2>5. LinesAhead'
    BY <1>1, <1>2, <2>1, <2>3 DEF LinesAhead
  <2>6. ASSUME NEW i \in 2..Len(published')
        PROVE  published'[i - 1] <= published'[i]
    <3>1. CASE i = Len(published')
      <4>1. i - 1 = Len(published) /\ published # <<>> /\ published'[i] = s
        BY <2>2, <3>1
      <4>2. Len(published) \in 1..Len(published)
        BY <2>2, <4>1
      <4>3. published'[i - 1] = LastPublished
        BY <2>2, <4>1, <4>2 DEF LastPublished
      <4> QED BY <2>1, <4>1, <4>3
    <3>2. CASE i # Len(published')
      <4>1. i \in 2..Len(published) /\ i \in 1..Len(published) /\ i - 1 \in 1..Len(published)
        BY <2>2, <3>2
      <4> QED BY <2>2, <4>1 DEF RepeatsCounted
    <3> QED BY <3>1, <3>2
  <2>7. /\ IsFiniteSet(Again(published')) /\ Cardinality(Again(published')) <= reopened
    <3>0. /\ published \in Seq(Nat) /\ s \in Nat /\ IsFiniteSet(Again(published))
          /\ Cardinality(Again(published)) \in Nat /\ reopened \in Nat
      BY <2>1, <2>2, FS_CardinalityType DEF BridgeTypeOK, RepeatsCounted
    <3>1. CASE published # <<>> /\ s = published[Len(published)]
      <4>1. Again(published') = Again(published) \cup {Len(published) + 1}
        BY <2>1, <3>0, <3>1, AgainAppended
      <4>2. /\ IsFiniteSet(Again(published'))
            /\ Cardinality(Again(published')) <= Cardinality(Again(published)) + 1
        <5>1. \/ Cardinality(Again(published')) = Cardinality(Again(published)) + 1
              \/ Cardinality(Again(published')) = Cardinality(Again(published))
          BY <3>0, <4>1, FS_AddElement
        <5>2. IsFiniteSet(Again(published'))
          BY <3>0, <4>1, FS_AddElement
        <5> QED BY <3>0, <5>1, <5>2
      <4>3. s = LastPublished /\ s # 0
        BY <2>1, <3>1 DEF LastPublished
      <4>4. Cardinality(Again(published)) + 1 <= reopened
        BY <1>1, <4>3 DEF RepeatsCounted
      <4>5. Cardinality(Again(published')) \in Nat
        BY <4>2, FS_CardinalityType
      <4> QED BY <3>0, <4>2, <4>4, <4>5
    <3>2. CASE ~(published # <<>> /\ s = published[Len(published)])
      <4>1. Again(published') = Again(published)
        BY <2>1, <3>0, <3>2, AgainAppended
      <4> QED BY <4>1 DEF RepeatsCounted
    <3> QED BY <3>1, <3>2
  <2>8. RepeatsCounted'
    BY <1>1, <2>6, <2>7 DEF RepeatsCounted
  <2> QED BY <1>3, <2>4, <2>5, <2>8
<1> QED BY <1>4, <1>5

\* The other steps of the main thread.
LEMMA MainKeeps == BridgeInv /\ BridgeMain => BridgeInv'
<1> SUFFICES ASSUME BridgeInv, BridgeMain
             PROVE  BridgeInv'
  OBVIOUS
<1> USE BridgeAssumption DEF BridgeInv
<1>1. CASE OpenPort
  <2>1. /\ main' = "read"
        /\ UNCHANGED <<s, uart, lines, published, reopened, netAlive, verdicts, delivered, written>>
    BY <1>1 DEF OpenPort, port, net
  <2> QED BY <2>1 DEF BridgeTypeOK, LinesAhead, RepeatsCounted, VerdictsNumbered, LastPublished
<1>2. CASE ReadFails
  <2>1. /\ main' = "reopen"
        /\ UNCHANGED <<s, uart, lines, published, reopened, netAlive, verdicts, delivered, written>>
    BY <1>2 DEF ReadFails, port, net
  <2> QED BY <2>1 DEF BridgeTypeOK, LinesAhead, RepeatsCounted, VerdictsNumbered, LastPublished
<1>3. CASE ReadLine
  <2>1. /\ main' = "publish"
        /\ UNCHANGED <<lines, published, reopened, netAlive, verdicts, delivered, written>>
    BY <1>3 DEF ReadLine, net
  <2>2. CASE uart = <<>>
    <3>1. s' = 0 /\ uart' = uart
      BY <1>3, <2>2 DEF ReadLine, Blank
    <3>2. BridgeTypeOK' /\ VerdictsNumbered'
      BY <2>1, <3>1 DEF BridgeTypeOK, VerdictsNumbered
    <3>3. LinesAhead' /\ RepeatsCounted'
      BY <2>1, <3>1 DEF LinesAhead, RepeatsCounted, LastPublished, Unset
    <3> QED BY <3>2, <3>3
  <2>3. CASE uart # <<>>
    <3>1. s' = Head(uart) /\ uart' = Tail(uart)
      BY <1>3, <2>3 DEF ReadLine
    <3>2. /\ s' = uart[1] /\ s' \in 1..MaxLines /\ uart' \in Seq(1..MaxLines)
          /\ Len(uart') = Len(uart) - 1 /\ Len(uart) \in Nat \ {0}
          /\ \A i \in 1..Len(uart') : uart'[i] = uart[i + 1] /\ i + 1 \in 2..Len(uart)
      <4>1. uart \in Seq(1..MaxLines)
        BY DEF BridgeTypeOK
      <4> QED BY <2>3, <3>1, <4>1, Tailed
    <3>3. LastPublished < s' /\ s' <= lines /\ LastPublished' = LastPublished
      BY <2>1, <3>2 DEF LinesAhead, LastPublished
    <3>4. BridgeTypeOK' /\ VerdictsNumbered'
      BY <2>1, <3>2 DEF BridgeTypeOK, VerdictsNumbered
    <3>a. /\ \A i, j \in 1..Len(uart) : i < j => uart[i] < uart[j]
          /\ \A i \in 1..Len(uart) : LastPublished < uart[i] /\ uart[i] <= lines
          /\ 1 \in 1..Len(uart) /\ \A i \in 2..Len(uart) : i \in 1..Len(uart) /\ 1 < i
      BY <3>2 DEF LinesAhead
    <3>5. \A i \in 1..Len(uart') : s' < uart'[i]
      BY <3>2, <3>a
    <3>6. ASSUME NEW i \in 1..Len(uart'), NEW j \in 1..Len(uart'), i < j
          PROVE  uart'[i] < uart'[j]
      <4>1. i + 1 \in 1..Len(uart) /\ j + 1 \in 1..Len(uart) /\ i + 1 < j + 1
        BY <3>2, <3>6
      <4> QED BY <3>2, <3>a, <4>1
    <3>b. \A i \in 1..Len(uart') : LastPublished < uart'[i] /\ uart'[i] <= lines
      BY <3>2, <3>a
    <3>7. LastPublished \in Nat
      BY DEF LastPublished, BridgeTypeOK
    <3>8. LinesAhead'
      BY <2>1, <3>2, <3>3, <3>5, <3>6, <3>7, <3>b DEF LinesAhead, Unset
    <3>9. RepeatsCounted'
      BY <2>1, <3>2, <3>3, <3>7 DEF RepeatsCounted
    <3> QED BY <3>4, <3>8, <3>9
  <2> QED BY <2>2, <2>3
<1>4. CASE Reopen
  <2>1. /\ reopened' = reopened + 1
        /\ main' = IF s = Unset THEN "dead" ELSE "publish"
        /\ netAlive' \in BOOLEAN
        /\ UNCHANGED <<s, uart, lines, published, verdicts, delivered, written>>
    BY <1>4 DEF Reopen, port, BridgeTypeOK
  <2>2. BridgeTypeOK' /\ VerdictsNumbered'
    BY <2>1 DEF BridgeTypeOK, VerdictsNumbered
  <2>3. LinesAhead'
    BY <2>1 DEF LinesAhead, LastPublished, Unset
  <2>4. RepeatsCounted'
    <3>1. Cardinality(Again(published)) \in Nat /\ reopened \in Nat
      BY FS_CardinalityType DEF RepeatsCounted, BridgeTypeOK
    <3> QED BY <2>1, <3>1 DEF RepeatsCounted
  <2> QED BY <2>2, <2>3, <2>4
<1> QED BY <1>1, <1>2, <1>3, <1>4, PublishKeeps DEF BridgeMain

\* The network thread.
LEMMA MessageKeeps == BridgeInv /\ OnMessage => BridgeInv'
<1> SUFFICES ASSUME BridgeInv, OnMessage
             PROVE  BridgeInv'
  OBVIOUS
<1> USE DEF BridgeInv
<1>1. UNCHANGED <<main, s, uart, lines, published, reopened, delivered>> /\ verdicts # <<>>
  BY DEF OnMessage, port
<1>2. LinesAhead' /\ RepeatsCounted'
  BY <1>1 DEF LinesAhead, RepeatsCounted, LastPublished, Unset
<1>3. CASE Works
  <2>1. /\ verdicts' = Tail(verdicts) /\ written' = Append(written, Head(verdicts))
        /\ netAlive' = netAlive
    BY <1>3 DEF OnMessage
  <2>2. /\ verdicts' \in Seq(Nat) /\ written' \in Seq(Nat)
        /\ Len(verdicts) \in Nat \ {0} /\ Len(verdicts') = Len(verdicts) - 1
        /\ Len(written) \in Nat /\ Len(written') = Len(written) + 1
        /\ \A i \in 1..Len(verdicts') : verdicts'[i] = verdicts[i + 1]
        /\ written'[Len(written) + 1] = verdicts[1]
        /\ \A i \in 1..Len(written) : written'[i] = written[i]
        /\ written' = [i \in 1..Len(written') |-> written'[i]]
    <3>1. verdicts \in Seq(Nat) /\ written \in Seq(Nat)
      BY DEF BridgeTypeOK
    <3>2. Head(verdicts) \in Nat /\ Head(verdicts) = verdicts[1]
      BY <1>1, <3>1, Tailed
    <3>3. /\ verdicts' \in Seq(Nat) /\ Len(verdicts) \in Nat \ {0}
          /\ Len(verdicts') = Len(verdicts) - 1
          /\ \A i \in 1..Len(verdicts') : verdicts'[i] = verdicts[i + 1]
      BY <1>1, <2>1, <3>1, Tailed
    <3>4. /\ written' \in Seq(Nat) /\ Len(written) \in Nat /\ Len(written') = Len(written) + 1
          /\ written'[Len(written) + 1] = verdicts[1]
          /\ \A i \in 1..Len(written) : written'[i] = written[i]
      BY <2>1, <3>1, <3>2, Appended
    <3>5. written' = [i \in 1..Len(written') |-> written'[i]]
      BY <3>4
    <3> QED BY <3>3, <3>4, <3>5
  <2>3. BridgeTypeOK'
    BY <1>1, <2>1, <2>2 DEF BridgeTypeOK
  <2>4. \A i \in 1..Len(written') : written'[i] = i
    <3>1. written'[Len(written) + 1] = Len(written) + 1
      BY <2>2 DEF VerdictsNumbered
    <3>2. \A i \in 1..Len(written) : written[i] = i
      BY DEF VerdictsNumbered
    <3> QED BY <2>2, <3>1, <3>2
  <2>5. VerdictsNumbered'
    <3>1. written' = [i \in 1..Len(written') |-> i]
      BY <2>2, <2>4
    <3>2. Len(written') + Len(verdicts') = delivered'
      BY <1>1, <2>2 DEF VerdictsNumbered
    <3>3. \A i \in 1..Len(verdicts') : verdicts'[i] = Len(written') + i
      <4> TAKE i \in 1..Len(verdicts')
      <4>1. i + 1 \in 1..Len(verdicts) /\ verdicts'[i] = verdicts[i + 1]
        BY <2>2
      <4>2. verdicts'[i] = Len(written) + (i + 1)
        BY <4>1 DEF VerdictsNumbered
      <4> QED BY <2>2, <4>2
    <3> QED BY <3>1, <3>2, <3>3 DEF VerdictsNumbered
  <2> QED BY <1>2, <2>3, <2>5
<1>4. CASE ~Works
  <2>1. netAlive' \in BOOLEAN /\ UNCHANGED <<verdicts, written>>
    BY <1>4 DEF OnMessage
  <2>2. BridgeTypeOK' /\ VerdictsNumbered'
    BY <1>1, <2>1 DEF BridgeTypeOK, VerdictsNumbered
  <2> QED BY <1>2, <2>2
<1> QED BY <1>3, <1>4

\* Board and broker.
LEMMA OutsideKeeps == BridgeInv /\ (PlugIn \/ Unplug \/ BoardWrites \/ BrokerDelivers) => BridgeInv'
<1> SUFFICES ASSUME BridgeInv, PlugIn \/ Unplug \/ BoardWrites \/ BrokerDelivers
             PROVE  BridgeInv'
  OBVIOUS
<1> USE BridgeAssumption DEF BridgeInv
<1>1. CASE PlugIn \/ Unplug
  <2>1. /\ uart' = <<>>
        /\ UNCHANGED <<main, s, lines, published, reopened, netAlive, verdicts, delivered, written>>
    BY <1>1 DEF PlugIn, Unplug, net
  <2>2. BridgeTypeOK' /\ VerdictsNumbered' /\ RepeatsCounted'
    BY <2>1 DEF BridgeTypeOK, VerdictsNumbered, RepeatsCounted, LastPublished
  <2>3. LinesAhead'
    BY <2>1 DEF LinesAhead, LastPublished, Unset
  <2> QED BY <2>2, <2>3
<1>2. CASE BoardWrites
  <2>1. /\ lines < MaxLines /\ lines' = lines + 1 /\ uart' = Append(uart, lines')
        /\ UNCHANGED <<main, s, published, reopened, netAlive, verdicts, delivered, written>>
    BY <1>2 DEF BoardWrites, net
  <2>2. /\ lines' \in 1..MaxLines /\ uart' \in Seq(1..MaxLines) /\ lines \in Nat
        /\ Len(uart') = Len(uart) + 1 /\ uart'[Len(uart) + 1] = lines' /\ Len(uart) \in Nat
        /\ \A i \in 1..Len(uart) : uart'[i] = uart[i] /\ uart[i] \in Nat
    <3>1. lines' \in 1..MaxLines /\ lines \in Nat /\ uart \in Seq(1..MaxLines)
      BY <2>1 DEF BridgeTypeOK
    <3> QED BY <2>1, <3>1, Appended
  <2>3. BridgeTypeOK' /\ VerdictsNumbered' /\ RepeatsCounted'
    BY <2>1, <2>2 DEF BridgeTypeOK, VerdictsNumbered, RepeatsCounted, LastPublished
  <2>4. LastPublished' = LastPublished /\ LastPublished \in Nat
    BY <2>1 DEF LastPublished, BridgeTypeOK
  <2>5. LastPublished' <= lines' /\ (s' \in 1..MaxLines => LastPublished' <= s' /\ s' <= lines')
    BY <2>1, <2>2, <2>4 DEF LinesAhead
  <2>6. ASSUME NEW i \in 1..Len(uart')
        PROVE  /\ LastPublished' < uart'[i] /\ uart'[i] <= lines'
               /\ s' \in 1..MaxLines => s' < uart'[i]
    <3>1. CASE i = Len(uart) + 1
      BY <3>1, <2>1, <2>2, <2>4 DEF LinesAhead
    <3>2. CASE i # Len(uart) + 1
      <4>1. i \in 1..Len(uart) /\ uart'[i] = uart[i] /\ uart[i] \in Nat
        BY <3>2, <2>2
      <4> QED BY <4>1, <2>1, <2>2, <2>4 DEF LinesAhead
    <3> QED BY <3>1, <3>2
  <2>7. ASSUME NEW i \in 1..Len(uart'), NEW j \in 1..Len(uart'), i < j
        PROVE  uart'[i] < uart'[j]
    <3>1. i \in 1..Len(uart) /\ uart'[i] = uart[i] /\ uart[i] <= lines
      BY <2>2, <2>7 DEF LinesAhead
    <3>2. CASE j = Len(uart) + 1
      BY <3>1, <3>2, <2>1, <2>2
    <3>3. CASE j # Len(uart) + 1
      <4>1. j \in 1..Len(uart) /\ uart'[j] = uart[j]
        BY <3>3, <2>2
      <4> QED BY <3>1, <4>1, <2>7 DEF LinesAhead
    <3> QED BY <3>2, <3>3
  <2>8. LinesAhead'
    BY <2>1, <2>5, <2>6, <2>7 DEF LinesAhead, Unset
  <2> QED BY <2>3, <2>8
<1>3. CASE BrokerDelivers
  <2>1. /\ delivered' = delivered + 1 /\ verdicts' = Append(verdicts, delivered')
        /\ UNCHANGED <<main, s, uart, lines, published, reopened, netAlive, written>>
    BY <1>3 DEF BrokerDelivers, port
  <2>2. /\ delivered' \in Nat /\ verdicts' \in Seq(Nat) /\ Len(verdicts) \in Nat
        /\ Len(verdicts') = Len(verdicts) + 1 /\ verdicts'[Len(verdicts) + 1] = delivered'
        /\ \A i \in 1..Len(verdicts) : verdicts'[i] = verdicts[i]
        /\ Len(written) \in Nat
    <3>1. delivered' \in Nat /\ verdicts \in Seq(Nat) /\ Len(written) \in Nat
      BY <2>1 DEF BridgeTypeOK
    <3> QED BY <2>1, <3>1, Appended
  <2>3. BridgeTypeOK'
    BY <2>1, <2>2 DEF BridgeTypeOK
  <2>4. LinesAhead' /\ RepeatsCounted'
    BY <2>1 DEF LinesAhead, RepeatsCounted, LastPublished, Unset
  <2>5. VerdictsNumbered'
    <3>1. Len(written) + Len(verdicts) = delivered /\ delivered' = Len(written) + (Len(verdicts) + 1)
      BY <2>1, <2>2 DEF VerdictsNumbered
    <3>2. ASSUME NEW i \in 1..Len(verdicts')
          PROVE  verdicts'[i] = Len(written) + i
      <4>1. CASE i = Len(verdicts) + 1
        BY <2>2, <3>1, <4>1
      <4>2. CASE i # Len(verdicts) + 1
        <5>1. i \in 1..Len(verdicts) /\ verdicts'[i] = verdicts[i]
          BY <2>2, <4>2
        <5> QED BY <5>1 DEF VerdictsNumbered
      <4> QED BY <4>1, <4>2
    <3> QED BY <2>1, <2>2, <3>1, <3>2 DEF VerdictsNumbered
  <2> QED BY <2>3, <2>4, <2>5
<1> QED BY <1>1, <1>2, <1>3

LEMMA BridgeInitially == BridgeInit => BridgeInv
<1> SUFFICES ASSUME BridgeInit
             PROVE  BridgeInv
  OBVIOUS
<1> USE BridgeAssumption DEF BridgeInit
<1>1. BridgeTypeOK
  BY DEF BridgeTypeOK, Unset
<1>2. LinesAhead /\ VerdictsNumbered
  BY DEF LinesAhead, LastPublished, VerdictsNumbered, Unset
<1>3. Again(published) = {}
  BY DEF Again
<1>4. RepeatsCounted
  <2>1. IsFiniteSet(Again(published)) /\ Cardinality(Again(published)) = 0
    BY <1>3, FS_EmptySet
  <2>2. published = <<>> /\ main = "open" /\ reopened = 0 /\ Len(published) = 0
    OBVIOUS
  <2> HIDE DEF BridgeInit
  <2> QED BY <2>1, <2>2 DEF RepeatsCounted
<1> QED BY <1>1, <1>2, <1>4 DEF BridgeInv

\* LinesAndVerdictsInOrder for any number of plugs, lines and verdicts.
THEOREM BridgeInOrder == BridgeSpec => []LinesAndVerdictsInOrder
<1>1. BridgeInv /\ UNCHANGED bridgeVars => BridgeInv'
  BY DEF bridgeVars, port, net, BridgeInv, BridgeTypeOK, LinesAhead, RepeatsCounted,
         VerdictsNumbered, LastPublished, Unset
<1>2. BridgeInv /\ [BridgeNext]_bridgeVars => BridgeInv'
  BY <1>1, MainKeeps, MessageKeeps, OutsideKeeps DEF BridgeNext
<1>3. BridgeInv => LinesAndVerdictsInOrder
  BY DEF BridgeInv, LinesAndVerdictsInOrder, RepeatedOnlyAfterReopen, VerdictsInOrder,
         RepeatsCounted, VerdictsNumbered, Again
<1> QED BY <1>2, <1>3, BridgeInitially, PTL DEF BridgeSpec

-----------------------------------------------------------------------------
(* The JSON values *)

JsonTypeOK ==
    /\ type \in {"null", "array", "object"} /\ news \in Nat
    /\ token \in Seq(Nat) /\ token_name \in Seq(JsonKeys) /\ array \in Seq(Nat)
    /\ Len(token_name) = Len(token) /\ Len(token) <= NB_TOKEN /\ Len(array) <= NB_TOKEN
    /\ DOMAIN heap \subseteq 1..news
    /\ mixed \in BOOLEAN /\ full \in BOOLEAN

Distinct(q) == \A i, j \in 1..Len(q) : q[i] = q[j] => i = j

\* Every place has a child of its own, alive, and no name is there twice.
PlacesOwn ==
    /\ InTable(token) \cup InTable(array) \subseteq DOMAIN heap
    /\ InTable(token) \cap InTable(array) = {}
    /\ Distinct(token) /\ Distinct(array) /\ Distinct(token_name)

\* A value of one kind holds nothing of the other.
OneKind ==
    ~mixed => /\ type # "object" => token = <<>> /\ DOMAIN given = {}
              /\ type # "array" => array = <<>>

\* What was given is finite, to be counted.
JsonInv ==
    /\ JsonTypeOK /\ PlacesOwn /\ OneKind /\ IsFiniteSet(DOMAIN given)
    /\ ReadsWhatWasGiven /\ NothingLeaks

\* A place is written.
LEMMA Placed ==
    ASSUME NEW S, NEW q \in Seq(S), NEW x \in S, NEW p \in 1..(Len(q) + 1),
           NEW n \in Nat, n = IF p > Len(q) THEN p ELSE Len(q),
           NEW r, r = [i \in 1..n |-> IF i = p THEN x ELSE q[i]]
    PROVE  /\ r \in Seq(S) /\ Len(r) = n
           /\ r[p] = x /\ p \in 1..Len(r)
           /\ \A i \in 1..Len(r) : i # p => i \in 1..Len(q) /\ r[i] = q[i]
           /\ \A i \in 1..Len(q) : i \in 1..Len(r)
<1>1. Len(q) \in Nat /\ \A i \in 1..Len(q) : q[i] \in S
  OBVIOUS
<1>2. (n = Len(q) \/ (n = Len(q) + 1 /\ p = n)) /\ p \in 1..n
  BY <1>1
<1>3. \A i \in 1..n : (IF i = p THEN x ELSE q[i]) \in S
  BY <1>1, <1>2
<1>4. r \in [1..n -> S]
  BY <1>3
<1>5. r \in Seq(S) /\ Len(r) = n
  BY <1>2, <1>4
<1>6. /\ r[p] = x
      /\ \A i \in 1..n : i # p => r[i] = q[i]
  BY <1>2
<1>7. /\ \A i \in 1..n : i # p => i \in 1..Len(q)
      /\ \A i \in 1..Len(q) : i \in 1..n
  BY <1>1, <1>2
<1> QED BY <1>2, <1>5, <1>6, <1>7

\* The table of a sequence, as places are written and children appended.
LEMMA TableOf ==
    ASSUME NEW q, NEW x
    PROVE  x \in InTable(q) <=> \E i \in 1..Len(q) : q[i] = x
BY DEF InTable

\* A child not seen before is no other.
LEMMA FreshChild ==
    ASSUME JsonInv, NEW x \in JsonData, NewChild(x)
    PROVE  /\ news' = news + 1 /\ news' \in Nat
           /\ DOMAIN heap' = DOMAIN heap \cup {news'} /\ DOMAIN heap' \subseteq 1..news'
           /\ news' \notin DOMAIN heap
           /\ heap'[news'] = x /\ \A a \in DOMAIN heap : heap'[a] = heap[a]
<1>1. news \in Nat /\ DOMAIN heap \subseteq 1..news
  BY DEF JsonInv, JsonTypeOK
<1>2. news' = news + 1 /\ heap' = Updated(heap, news', x)
  BY DEF NewChild
<1>3. news' \notin DOMAIN heap /\ news' \in 1..news' /\ 1..news \subseteq 1..news'
  BY <1>1, <1>2
<1>4. heap' = [a \in DOMAIN heap \cup {news'} |-> IF a = news' THEN x ELSE heap[a]]
  BY <1>2 DEF Updated
<1> HIDE DEF NewChild
<1> QED BY <1>1, <1>2, <1>3, <1>4

\* A member that exists is assigned to.
LEMMA OldMemberKeeps ==
    ASSUME JsonInv, NEW k \in JsonKeys, NEW x \in JsonData, SetMember(k, x),
           \E i \in 1..Len(token) : token_name[i] = k
    PROVE  JsonInv'
<1> USE DEF JsonInv
<1>1. PICK i \in 1..Len(token) : token_name[i] = k /\ Assign(token[i], x)
  BY DEF SetMember
<1>2. /\ type' = "object" /\ UNCHANGED <<token_name, token, full, array, news>>
      /\ given' = Updated(given, k, x)
      /\ mixed' = (mixed \/ type = "array" \/ array # <<>>)
      /\ heap' = [heap EXCEPT ![token[i]] = x]
  BY <1>1 DEF SetMember, Assign
<1>3. token[i] \in DOMAIN heap /\ DOMAIN heap' = DOMAIN heap /\ heap'[token[i]] = x
      /\ \A a \in DOMAIN heap : a # token[i] => heap'[a] = heap[a]
  BY <1>2, TableOf DEF PlacesOwn
<1>4. DOMAIN given' = DOMAIN given \cup {k} /\ given'[k] = x
      /\ \A a \in DOMAIN given : a # k => given'[a] = given[a]
  BY <1>2 DEF Updated
<1>5. JsonTypeOK'
  <2>1. mixed' \in BOOLEAN
    BY <1>2
  <2> QED BY <1>2, <1>3, <2>1 DEF JsonTypeOK
<1>6. PlacesOwn'
  BY <1>2, <1>3 DEF PlacesOwn
<1>7. (~mixed' => ~mixed /\ type # "array" /\ array = <<>>) /\ full' = full
  BY <1>2
<1>8. OneKind'
  BY <1>2, <1>7 DEF OneKind
<1>9. IsFiniteSet(DOMAIN given')
  <2>1. IsFiniteSet(DOMAIN given \cup {k})
    BY FS_AddElement
  <2> QED BY <1>4, <2>1
<1>10. NothingLeaks'
  BY <1>2, <1>3, <1>7 DEF NothingLeaks, InTable
<1>11. ReadsWhatWasGiven'
  <2> SUFFICES ASSUME ~mixed, ~full
               PROVE  /\ InTable(token_name) = DOMAIN given'
                      /\ Len(token_name) = Cardinality(DOMAIN given')
                      /\ \A j \in 1..Len(token) : heap'[token[j]] = given'[token_name[j]]
    BY <1>2, <1>7 DEF ReadsWhatWasGiven, InTable
  <2>1. /\ InTable(token_name) = DOMAIN given /\ Len(token_name) = Cardinality(DOMAIN given)
        /\ \A j \in 1..Len(token) : heap[token[j]] = given[token_name[j]]
        /\ Len(token_name) = Len(token)
    BY DEF ReadsWhatWasGiven, JsonTypeOK
  <2>2. k \in DOMAIN given
    BY <1>1, <2>1, TableOf
  <2>3. DOMAIN given' = DOMAIN given
    BY <1>4, <2>2
  <2>4. ASSUME NEW j \in 1..Len(token)
        PROVE  heap'[token[j]] = given'[token_name[j]]
    <3>1. CASE j = i
      BY <3>1, <1>1, <1>3, <1>4
    <3>2. CASE j # i
      <4>1. token[j] # token[i] /\ token_name[j] # k
        BY <3>2, <1>1, <2>1 DEF PlacesOwn, Distinct
      <4>2. token[j] \in DOMAIN heap /\ token_name[j] \in DOMAIN given
        BY <2>1, TableOf DEF PlacesOwn
      <4> QED BY <4>1, <4>2, <1>3, <1>4, <2>1
    <3> QED BY <3>1, <3>2
  <2> QED BY <2>1, <2>3, <2>4
<1> QED BY <1>5, <1>6, <1>8, <1>9, <1>10, <1>11

\* A member is added, or takes the last place.
LEMMA NewMemberKeeps ==
    ASSUME JsonInv, NEW k \in JsonKeys, NEW x \in JsonData, SetMember(k, x),
           ~\E i \in 1..Len(token) : token_name[i] = k
    PROVE  JsonInv'
<1> USE DEF JsonInv
<1>0. /\ token \in Seq(Nat) /\ token_name \in Seq(JsonKeys) /\ Len(token_name) = Len(token)
      /\ Len(token) \in Nat /\ Len(token) <= NB_TOKEN /\ NB_TOKEN \in Nat \ {0}
      /\ array \in Seq(Nat) /\ Len(array) <= NB_TOKEN
  BY JsonAssumption DEF JsonTypeOK
<1>1. /\ type' = "object" /\ NewChild(x) /\ UNCHANGED array
      /\ token' = [i \in 1..(IF Place > Len(token) THEN Place ELSE Len(token)) |->
                      IF i = Place THEN news' ELSE token[i]]
      /\ token_name' = [i \in 1..Len(token') |-> IF i = Place THEN k ELSE token_name[i]]
      /\ full' = (full \/ Len(token) >= NB_TOKEN)
      /\ given' = Updated(given, k, x)
      /\ mixed' = (mixed \/ type = "array" \/ array # <<>>)
  BY DEF SetMember
<1>2. /\ news' = news + 1 /\ news' \in Nat
      /\ DOMAIN heap' = DOMAIN heap \cup {news'} /\ DOMAIN heap' \subseteq 1..news'
      /\ news' \notin DOMAIN heap
      /\ heap'[news'] = x /\ \A a \in DOMAIN heap : heap'[a] = heap[a]
  BY <1>1, FreshChild
<1>3. Place \in 1..(Len(token) + 1) /\ Place \in 1..(Len(token_name) + 1) /\ Place <= NB_TOKEN
  BY <1>0 DEF Place
<1>4. DOMAIN given' = DOMAIN given \cup {k} /\ given'[k] = x
      /\ \A a \in DOMAIN given : a # k => given'[a] = given[a]
  BY <1>1 DEF Updated
<1> DEFINE p == Place
<1>p. /\ p \in 1..(Len(token) + 1) /\ p \in 1..(Len(token_name) + 1) /\ p <= NB_TOKEN
      /\ Len(token) < NB_TOKEN => p = Len(token) + 1
  BY <1>0, <1>3 DEF Place
<1>q. /\ token' = [i \in 1..(IF p > Len(token) THEN p ELSE Len(token)) |->
                      IF i = p THEN news' ELSE token[i]]
      /\ token_name' = [i \in 1..Len(token') |-> IF i = p THEN k ELSE token_name[i]]
  BY <1>1
<1> HIDE DEF p
<1>5. /\ token' \in Seq(Nat) /\ Len(token') = IF p > Len(token) THEN p ELSE Len(token)
      /\ token'[p] = news' /\ p \in 1..Len(token')
      /\ \A i \in 1..Len(token') : i # p => i \in 1..Len(token) /\ token'[i] = token[i]
      /\ \A i \in 1..Len(token) : i \in 1..Len(token')
  <2> DEFINE n == IF p > Len(token) THEN p ELSE Len(token)
  <2>1. n \in Nat /\ token' = [i \in 1..n |-> IF i = p THEN news' ELSE token[i]]
    BY <1>0, <1>p, <1>q
  <2>2. n = IF p > Len(token) THEN p ELSE Len(token)
    OBVIOUS
  <2> HIDE DEF n
  <2>a. token \in Seq(Nat) /\ news' \in Nat /\ p \in 1..(Len(token) + 1) /\ n \in Nat
    BY <1>0, <1>2, <1>p, <2>1
  <2>3. /\ token' \in Seq(Nat) /\ Len(token') = n
        /\ token'[p] = news' /\ p \in 1..Len(token')
        /\ \A i \in 1..Len(token') : i # p => i \in 1..Len(token) /\ token'[i] = token[i]
        /\ \A i \in 1..Len(token) : i \in 1..Len(token')
    BY <2>a, <2>1, <2>2, Placed
  <2> QED BY <2>2, <2>3
<1>6. /\ token_name' \in Seq(JsonKeys) /\ Len(token_name') = Len(token') /\ token_name'[p] = k
      /\ \A i \in 1..Len(token') : i # p => token_name'[i] = token_name[i]
  <2>1. /\ Len(token') \in Nat /\ Len(token') = IF p > Len(token_name) THEN p ELSE Len(token_name)
        /\ token_name' = [i \in 1..Len(token') |-> IF i = p THEN k ELSE token_name[i]]
    BY <1>0, <1>5, <1>q
  <2>2. /\ token_name' \in Seq(JsonKeys) /\ Len(token_name') = Len(token')
        /\ token_name'[p] = k
        /\ \A i \in 1..Len(token_name') : i # p => token_name'[i] = token_name[i]
    BY <2>1, <1>0, <1>p, Placed
  <2> QED BY <2>2
<1>7. JsonTypeOK'
  <2>1. mixed' \in BOOLEAN /\ full' \in BOOLEAN /\ type' \in {"null", "array", "object"}
    BY <1>1
  <2>2. Len(token') <= NB_TOKEN
    BY <1>0, <1>5, <1>p
  <2> QED BY <1>0, <1>1, <1>2, <1>5, <1>6, <2>1, <2>2 DEF JsonTypeOK
<1>8. PlacesOwn'
  <2>1. \A i \in 1..Len(token) : token[i] \in DOMAIN heap /\ token[i] \notin InTable(array)
    BY TableOf DEF PlacesOwn
  <2>2. InTable(array) \subseteq DOMAIN heap /\ news' \notin InTable(array)
    BY <1>2 DEF PlacesOwn
  <2>3. \A i \in 1..Len(token') : token'[i] \in DOMAIN heap' /\ token'[i] \notin InTable(array)
    BY <2>1, <2>2, <1>2, <1>5
  <2>4. /\ InTable(token') \cup InTable(array') \subseteq DOMAIN heap'
        /\ InTable(token') \cap InTable(array') = {}
    <3>1. \A a \in InTable(token') : a \in DOMAIN heap' /\ a \notin InTable(array)
      BY <2>3, TableOf
    <3>2. array' = array
      BY <1>1
    <3> QED BY <2>2, <3>1, <3>2, <1>2
  <2>5. Distinct(token')
    <3> SUFFICES ASSUME NEW i \in 1..Len(token'), NEW j \in 1..Len(token'), token'[i] = token'[j]
                 PROVE  i = j
      BY DEF Distinct
    <3>1. i # p => token'[i] # news'
      BY <2>1, <1>2, <1>5
    <3>2. j # p => token'[j] # news'
      BY <2>1, <1>2, <1>5
    <3>3. CASE i # p /\ j # p
      BY <3>3, <1>5 DEF PlacesOwn, Distinct
    <3> QED BY <3>1, <3>2, <3>3, <1>5
  <2>6. Distinct(token_name')
    <3> SUFFICES ASSUME NEW i \in 1..Len(token'), NEW j \in 1..Len(token'),
                        token_name'[i] = token_name'[j]
                 PROVE  i = j
      BY <1>6 DEF Distinct
    <3>1. (i # p => token_name'[i] # k) /\ (j # p => token_name'[j] # k)
      BY <1>5, <1>6
    <3>2. CASE i # p /\ j # p
      BY <3>2, <1>0, <1>5, <1>6 DEF PlacesOwn, Distinct
    <3> QED BY <3>1, <3>2, <1>6
  <2>7. Distinct(array')
    BY <1>1 DEF PlacesOwn, Distinct
  <2> QED BY <2>4, <2>5, <2>6, <2>7 DEF PlacesOwn
<1>9. (~mixed' => ~mixed /\ type # "array" /\ array = <<>>)
      /\ (~full' => ~full /\ Len(token) < NB_TOKEN)
  <2>1. ~mixed' => ~mixed /\ type # "array" /\ array = <<>>
    BY <1>1, Zenon
  <2>2. ~full' => ~full /\ ~(Len(token) >= NB_TOKEN)
    BY <1>1, Zenon
  <2>3. ~(Len(token) >= NB_TOKEN) => Len(token) < NB_TOKEN
    BY <1>0
  <2> QED BY <2>1, <2>2, <2>3
<1>10. OneKind'
  BY <1>1, <1>9 DEF OneKind
<1>11. IsFiniteSet(DOMAIN given')
  <2>1. IsFiniteSet(DOMAIN given \cup {k})
    BY FS_AddElement
  <2> QED BY <1>4, <2>1
<1>12. ASSUME ~mixed', ~full'
       PROVE  /\ p = Len(token) + 1 /\ Len(token') = Len(token) + 1 /\ array' = <<>>
              /\ InTable(token') = InTable(token) \cup {news'}
              /\ InTable(token_name') = InTable(token_name) \cup {k}
  <2>1. p = Len(token) + 1 /\ Len(token') = Len(token) + 1 /\ array' = <<>>
    BY <1>12, <1>9, <1>p, <1>5, <1>0, <1>1
  <2>2. \A i \in 1..Len(token) : i # p
    BY <1>0, <2>1
  <2>3. InTable(token') = InTable(token) \cup {news'}
    BY <2>2, <1>5 DEF InTable
  <2>4. InTable(token_name') = InTable(token_name) \cup {k}
    BY <2>2, <1>0, <1>5, <1>6 DEF InTable
  <2> QED BY <2>1, <2>3, <2>4
<1>13. NothingLeaks'
  BY <1>9, <1>12, <1>1, <1>2 DEF NothingLeaks
<1>14. ReadsWhatWasGiven'
  <2> SUFFICES ASSUME ~mixed', ~full'
               PROVE  /\ InTable(token_name') = DOMAIN given'
                      /\ Len(token_name') = Cardinality(DOMAIN given')
                      /\ \A j \in 1..Len(token') : heap'[token'[j]] = given'[token_name'[j]]
    BY DEF ReadsWhatWasGiven
  <2>1. /\ InTable(token_name) = DOMAIN given /\ Len(token_name) = Cardinality(DOMAIN given)
        /\ \A j \in 1..Len(token) : heap[token[j]] = given[token_name[j]]
    BY <1>9 DEF ReadsWhatWasGiven
  <2>2. k \notin DOMAIN given
    BY <1>0, <2>1 DEF InTable
  <2>3. Cardinality(DOMAIN given') = Cardinality(DOMAIN given) + 1
    <3>1. Cardinality(DOMAIN given \cup {k}) = Cardinality(DOMAIN given) + 1
      BY <2>2, FS_AddElement
    <3> QED BY <1>4, <3>1
  <2>4. ASSUME NEW j \in 1..Len(token')
        PROVE  heap'[token'[j]] = given'[token_name'[j]]
    <3>1. CASE j = p
      BY <3>1, <1>2, <1>4, <1>5, <1>6
    <3>2. CASE j # p
      <4>1. j \in 1..Len(token) /\ token'[j] = token[j] /\ token_name'[j] = token_name[j]
        BY <3>2, <1>5, <1>6
      <4>2. token[j] \in DOMAIN heap /\ token_name[j] \in DOMAIN given
        BY <4>1, <2>1, <1>0, TableOf DEF PlacesOwn
      <4> QED BY <4>1, <4>2, <2>1, <2>2, <1>2, <1>4
    <3> QED BY <3>1, <3>2
  <2> QED BY <2>1, <2>3, <2>4, <1>0, <1>4, <1>6, <1>12
<1> QED BY <1>7, <1>8, <1>10, <1>11, <1>13, <1>14

\* An element is assigned to, appended, or lost.
LEMMA SetElementKeeps ==
    ASSUME JsonInv, NEW n \in Nat \ {0}, NEW x \in JsonData, SetElement(n, x)
    PROVE  JsonInv'
<1> USE DEF JsonInv
<1>0. /\ array \in Seq(Nat) /\ Len(array) \in Nat /\ Len(array) <= NB_TOKEN
      /\ NB_TOKEN \in Nat \ {0} /\ full \in BOOLEAN
  BY JsonAssumption DEF JsonTypeOK
<1>1. /\ type' = "array" /\ UNCHANGED <<token_name, token, given>>
      /\ mixed' = (mixed \/ type = "object" \/ token # <<>>)
  BY DEF SetElement
<1>2. mixed' \in BOOLEAN /\ (~mixed' => ~mixed /\ type # "object" /\ token = <<>>)
  BY <1>1
<1>3. OneKind' /\ IsFiniteSet(DOMAIN given')
  BY <1>1, <1>2 DEF OneKind
<1>4. \A i \in 1..Len(token) : token[i] \in DOMAIN heap /\ token[i] \notin InTable(array)
  BY TableOf DEF PlacesOwn
<1>5. ASSUME \A i \in 1..Len(token) : heap'[token[i]] = heap[token[i]], ~full' => ~full
      PROVE  ReadsWhatWasGiven'
  BY <1>1, <1>2, <1>5 DEF ReadsWhatWasGiven, InTable
<1>6. CASE n <= Len(array)
  <2>1. /\ heap' = [heap EXCEPT ![array[n]] = x] /\ UNCHANGED <<array, full, news>>
    BY <1>6 DEF SetElement, Assign
  <2>2. n \in 1..Len(array) /\ array[n] \in InTable(array)
    BY <1>0, <1>6, TableOf
  <2>3. DOMAIN heap' = DOMAIN heap /\ \A a \in DOMAIN heap : a # array[n] => heap'[a] = heap[a]
    BY <2>1
  <2>4. ReadsWhatWasGiven'
    BY <1>4, <1>5, <2>1, <2>2, <2>3
  <2>5. JsonTypeOK'
    BY <1>1, <1>2, <2>1, <2>3 DEF JsonTypeOK
  <2>6. PlacesOwn'
    BY <1>1, <2>1, <2>3 DEF PlacesOwn
  <2>7. NothingLeaks'
    BY <1>1, <1>2, <2>1, <2>3 DEF NothingLeaks, InTable
  <2> QED BY <1>3, <2>4, <2>5, <2>6, <2>7
<1>7. CASE ~(n <= Len(array))
  <2>1. NewChild(x) /\ (~full' => ~full) /\ full' \in BOOLEAN
    BY <1>0, <1>7 DEF SetElement
  <2>2. /\ news' = news + 1 /\ news' \in Nat
        /\ DOMAIN heap' = DOMAIN heap \cup {news'} /\ DOMAIN heap' \subseteq 1..news'
        /\ news' \notin DOMAIN heap
        /\ \A a \in DOMAIN heap : heap'[a] = heap[a]
    BY <2>1, FreshChild
  <2>3. ReadsWhatWasGiven'
    BY <1>4, <1>5, <2>1, <2>2
  <2>4. CASE n = Len(array) + 1 /\ n <= NB_TOKEN
    <3>1. array' = Append(array, news') /\ full' = full
      BY <1>7, <2>4 DEF SetElement
    <3>2. /\ array' \in Seq(Nat) /\ Len(array') = Len(array) + 1
          /\ array'[Len(array) + 1] = news'
          /\ \A i \in 1..Len(array) : array'[i] = array[i]
          /\ \A i \in 1..Len(array') : i # Len(array) + 1 => i \in 1..Len(array)
          /\ Len(array) + 1 \in 1..Len(array') /\ \A i \in 1..Len(array) : i \in 1..Len(array')
      BY <1>0, <2>2, <3>1
    <3>3. InTable(array') = InTable(array) \cup {news'}
      BY <3>2 DEF InTable
    <3>4. JsonTypeOK'
      <4>1. Len(array') <= NB_TOKEN
        BY <2>4, <3>2
      <4> QED BY <1>1, <1>2, <2>1, <2>2, <3>2, <4>1 DEF JsonTypeOK
    <3>5. Distinct(array')
      <4>1. \A i \in 1..Len(array) : array[i] # news'
        BY <2>2, TableOf DEF PlacesOwn
      <4> SUFFICES ASSUME NEW i \in 1..Len(array'), NEW j \in 1..Len(array'), array'[i] = array'[j]
                   PROVE  i = j
        BY DEF Distinct
      <4>2. CASE i # Len(array) + 1 /\ j # Len(array) + 1
        BY <3>2, <4>2 DEF PlacesOwn, Distinct
      <4> QED BY <3>2, <4>1, <4>2
    <3>6. /\ InTable(token) \cup InTable(array') \subseteq DOMAIN heap'
          /\ InTable(token) \cap InTable(array') = {}
      BY <2>2, <3>3 DEF PlacesOwn
    <3>7. PlacesOwn'
      BY <1>1, <3>5, <3>6 DEF PlacesOwn, InTable, Distinct
    <3>8. NothingLeaks'
      <4>1. DOMAIN heap = InTable(token) \cup InTable(array) =>
              DOMAIN heap' = InTable(token) \cup InTable(array')
        BY <2>2, <3>3
      <4> QED BY <1>1, <1>2, <3>1, <4>1 DEF NothingLeaks, InTable
    <3> QED BY <1>3, <2>3, <3>4, <3>7, <3>8
  <2>5. CASE ~(n = Len(array) + 1 /\ n <= NB_TOKEN)
    <3>1. full' = TRUE /\ array' = array
      BY <1>7, <2>5 DEF SetElement
    <3>2. JsonTypeOK' /\ NothingLeaks'
      BY <1>1, <1>2, <2>1, <2>2, <3>1 DEF JsonTypeOK, NothingLeaks
    <3>3. InTable(token) \cup InTable(array) \subseteq DOMAIN heap'
      BY <2>2 DEF PlacesOwn
    <3>4. PlacesOwn'
      BY <1>1, <3>1, <3>3 DEF PlacesOwn, InTable, Distinct
    <3> QED BY <1>3, <2>3, <3>2, <3>4
  <2> QED BY <2>4, <2>5
<1> QED BY <1>6, <1>7

\* clean deletes the children of one table and empties it.
LEMMA CleanKeeps == JsonInv /\ Clean => JsonInv'
<1> SUFFICES ASSUME JsonInv, Clean
             PROVE  JsonInv'
  OBVIOUS
<1> USE DEF JsonInv
<1>1. /\ heap' = Without(heap, Owned) /\ type' = "null" /\ given' = <<>>
      /\ UNCHANGED <<news, mixed, full>>
  BY DEF Clean
<1>2. DOMAIN heap' = DOMAIN heap \ Owned /\ DOMAIN given' = {}
  BY <1>1 DEF Without
<1>3. /\ IsFiniteSet(DOMAIN given') /\ Cardinality(DOMAIN given') = 0
  BY <1>2, FS_EmptySet
<1>4. InTable(<<>>) = {} /\ Distinct(<<>>) /\ Len(<<>>) = 0
  BY DEF InTable, Distinct
<1>5. \/ type = "array" /\ Owned = InTable(array) /\ array' = <<>> /\ UNCHANGED <<token, token_name>>
      \/ type = "object" /\ Owned = InTable(token) /\ token' = <<>> /\ token_name' = <<>>
         /\ array' = array
      \/ type = "null" /\ Owned = {} /\ UNCHANGED <<token, token_name, array>>
  <2>1. type \in {"null", "array", "object"}
    BY DEF JsonTypeOK
  <2> QED BY <2>1 DEF Clean, Owned
<1>6. JsonTypeOK'
  <2>1. /\ token' \in Seq(Nat) /\ token_name' \in Seq(JsonKeys) /\ array' \in Seq(Nat)
        /\ Len(token_name') = Len(token') /\ Len(token') <= NB_TOKEN /\ Len(array') <= NB_TOKEN
    <3>1. NB_TOKEN \in Nat /\ 0 <= NB_TOKEN
      BY JsonAssumption
    <3>2. CASE type = "array"
      BY <3>1, <3>2, <1>4, <1>5 DEF JsonTypeOK
    <3>3. CASE type = "object"
      BY <3>1, <3>3, <1>4, <1>5 DEF JsonTypeOK
    <3>4. CASE type = "null"
      BY <3>1, <3>4, <1>4, <1>5 DEF JsonTypeOK
    <3> QED BY <3>2, <3>3, <3>4, <1>5
  <2> QED BY <1>1, <1>2, <2>1 DEF JsonTypeOK
<1>7. PlacesOwn'
  <2>1. /\ InTable(token)' \cup InTable(array)' \subseteq DOMAIN heap'
        /\ InTable(token)' \cap InTable(array)' = {}
    BY <1>2, <1>4, <1>5 DEF PlacesOwn
  <2>2. Distinct(token)' /\ Distinct(array)' /\ Distinct(token_name)'
    BY <1>4, <1>5 DEF PlacesOwn
  <2> QED BY <2>1, <2>2 DEF PlacesOwn
<1>8. ~mixed => token' = <<>> /\ array' = <<>> /\ Len(token_name') = 0
  <2>1. token' = <<>> => Len(token') = 0
    BY <1>4
  <2>2. ~mixed => token' = <<>> /\ array' = <<>>
    BY <1>5 DEF OneKind
  <2> QED BY <1>6, <2>1, <2>2 DEF JsonTypeOK
<1>9. OneKind'
  BY <1>1, <1>2, <1>8 DEF OneKind
<1>10. ReadsWhatWasGiven'
  BY <1>1, <1>2, <1>3, <1>4, <1>8 DEF ReadsWhatWasGiven, InTable
<1>11. NothingLeaks'
  <2>1. ~mixed /\ ~full => DOMAIN heap' = {}
    BY <1>2, <1>4, <1>5 DEF NothingLeaks, OneKind
  <2> QED BY <1>1, <1>4, <1>8, <2>1 DEF NothingLeaks
<1> QED BY <1>3, <1>6, <1>7, <1>9, <1>10, <1>11

LEMMA JsonInitially == JsonInit => JsonInv
<1> SUFFICES ASSUME JsonInit
             PROVE  JsonInv
  OBVIOUS
<1>1. InTable(<<>>) = {} /\ Distinct(<<>>) /\ Len(<<>>) = 0 /\ DOMAIN <<>> = {}
  BY DEF InTable, Distinct
<1>2. /\ type = "null" /\ token_name = <<>> /\ token = <<>> /\ array = <<>>
      /\ heap = <<>> /\ news = 0 /\ given = <<>> /\ mixed = FALSE /\ full = FALSE
  BY DEF JsonInit
<1>3. IsFiniteSet(DOMAIN given) /\ Cardinality(DOMAIN given) = 0
  BY <1>1, <1>2, FS_EmptySet
<1>4. JsonTypeOK
  <2>1. mixed \in BOOLEAN /\ full \in BOOLEAN
    BY <1>2
  <2> QED BY <1>1, <1>2, <2>1, JsonAssumption DEF JsonTypeOK
<1>5. PlacesOwn /\ OneKind /\ ReadsWhatWasGiven /\ NothingLeaks
  BY <1>1, <1>2, <1>3 DEF PlacesOwn, OneKind, ReadsWhatWasGiven, NothingLeaks
<1> QED BY <1>3, <1>4, <1>5 DEF JsonInv

\* ChildrenOwned for any places, names, data and number of children.
THEOREM ChildrenAreOwned == JsonSpec => []ChildrenOwned
<1>1. JsonInv /\ UNCHANGED jsonVars => JsonInv'
  BY DEF jsonVars, table, JsonInv, JsonTypeOK, PlacesOwn, OneKind, ReadsWhatWasGiven, NothingLeaks
<1>2. JsonInv /\ JsonNext => JsonInv'
  <2>1. 1..(NB_TOKEN + 1) \subseteq Nat \ {0}
    BY JsonAssumption
  <2> QED BY <2>1, OldMemberKeeps, NewMemberKeeps, SetElementKeeps, CleanKeeps DEF JsonNext
<1>3. JsonInv => ChildrenOwned
  BY DEF JsonInv, ChildrenOwned, NoDanglingChild, PlacesOwn, JsonTypeOK
<1> QED BY <1>1, <1>2, <1>3, JsonInitially, PTL DEF JsonSpec

-----------------------------------------------------------------------------
(* The reader *)

\* The frames of the chip.
Ops == {"sam", "list", "auth", "read28", "read29"}
Frames == [kind : {"ack", "response"}, of : Ops, card : Tags \cup {Nobody}, good : BOOLEAN,
           damage : {"none", "head", "body"}]

ReaderTypeOK ==
    /\ op \in Ops /\ stage \in {"issue", "ack", "response"}
    /\ buffer \in Frames \cup {Command} /\ lastCard \in Tags \cup {Nobody}
    /\ taken \in Seq(Frames) /\ out \in Seq(Frames)
    /\ forgets \in BOOLEAN /\ authed \in BOOLEAN
    /\ doing \in {"nothing", "received", "acknowledged"} \X Ops
    /\ listed \in Tags \cup {Nobody} /\ onReader \in Tags \cup {Nobody}
    /\ faults \in 0..MaxFaults /\ moves \in 0..MaxMoves

\* Commands to the card selected, which share one command byte; answers that
\* select a card anew; answers that tell something of a card.
OfCard == {"auth", "read28", "read29"}
Selects(f) == f.kind = "response" /\ f.of = "list"
Tells(f) == f.kind = "response" /\ f.of # "sam" /\ f.good /\ f.damage = "none"

\* Behind the frame at i, what is told before a card is selected anew is told
\* of this card, and so it is by the chip if no such answer is in the queue.
SameCardAfter(q, i, selected, card) ==
    /\ \A j \in (i + 1)..Len(q) :
          Tells(q[j]) /\ (\A k \in (i + 1)..j : ~Selects(q[k])) => q[j].card = card
    /\ (\A k \in (i + 1)..Len(q) : ~Selects(q[k])) => selected \in {Nobody, card}

\* A response that did not come leaves the command in the buffer.
BufferIsCommand == stage # "issue" => buffer = Command

RoundBegun ==
    /\ op \in {"sam", "list"} /\ stage # "issue" => taken = <<>>
    /\ op \in OfCard => taken # <<>>

\* What waits to be fetched belongs to the card of the round...
RoundAhead ==
    op \in OfCard /\ Intact => SameCardAfter(out, 0, listed, taken[1].card)
\* ... and what waits behind an answer to the card of that.
QueueAhead ==
    \A i \in 1..Len(out) : Tells(out[i]) => SameCardAfter(out, i, listed, out[i].card)

\* A chip that forgets is in step with a driver that waits for it or goes on
\* with its card: the frames to be fetched are those of the command under way.
InStep ==
    forgets =>
        /\ stage = "ack" =>
              \/ doing[1] = "received" /\ Len(out) = 0
              \/ doing[1] = "acknowledged" /\ Len(out) = 1
              \/ doing[1] = "nothing" /\ Len(out) = 2
        /\ stage = "response" =>
              \/ doing[1] = "acknowledged" /\ Len(out) = 0
              \/ doing[1] = "nothing" /\ Len(out) = 1
        /\ stage = "issue" /\ op \in OfCard => doing[1] = "nothing" /\ Len(out) = 0

ReaderInv ==
    /\ ReaderTypeOK /\ InStep /\ BufferIsCommand /\ RoundBegun /\ RoundAhead /\ QueueAhead
    /\ (authed => listed # Nobody)
    /\ KeyOfOneCard

\* The chip appends a frame that selects anew ...
LEMMA SelectsAppended ==
    ASSUME NEW q \in Seq(Frames), NEW f \in Frames, NEW i \in 0..Len(q), NEW selected,
           NEW selected1, NEW card, SameCardAfter(q, i, selected, card), Selects(f)
    PROVE  SameCardAfter(Append(q, f), i, selected1, card)
<1> DEFINE r == Append(q, f)
<1>1. Len(r) = Len(q) + 1 /\ r[Len(q) + 1] = f /\ \A j \in 1..Len(q) : r[j] = q[j]
  OBVIOUS
<1> HIDE DEF r
<1>2. Len(q) \in Nat /\ i \in Nat /\ i <= Len(q)
  OBVIOUS
<1>3. Selects(r[Len(r)]) /\ Len(r) \in (i + 1)..Len(r)
  BY <1>1, <1>2
<1>4. ASSUME NEW j \in (i + 1)..Len(r), Tells(r[j]), \A k \in (i + 1)..j : ~Selects(r[k])
      PROVE  r[j].card = card
  <2>1. j # Len(r) /\ j \in (i + 1)..Len(q)
    BY <1>1, <1>2, <1>3, <1>4
  <2>2. \A k \in (i + 1)..j : r[k] = q[k]
    BY <2>1, <1>1, <1>2
  <2>3. Tells(q[j]) /\ \A k \in (i + 1)..j : ~Selects(q[k])
    BY <2>1, <2>2, <1>4, <1>2
  <2> QED BY <2>1, <2>2, <2>3, <1>2 DEF SameCardAfter
<1> QED BY <1>3, <1>4 DEF SameCardAfter, r

\* ... or one that tells, if anything, of the card selected.
LEMMA OtherAppended ==
    ASSUME NEW q \in Seq(Frames), NEW f \in Frames, NEW i \in 0..Len(q), NEW selected,
           NEW card, SameCardAfter(q, i, selected, card), ~Selects(f),
           Tells(f) => f.card = selected /\ selected # Nobody
    PROVE  SameCardAfter(Append(q, f), i, selected, card)
<1> DEFINE r == Append(q, f)
<1>1. Len(r) = Len(q) + 1 /\ r[Len(q) + 1] = f /\ \A j \in 1..Len(q) : r[j] = q[j]
  OBVIOUS
<1> HIDE DEF r
<1>2. Len(q) \in Nat /\ i \in Nat /\ i <= Len(q)
  OBVIOUS
<1>3. ASSUME NEW j \in (i + 1)..Len(r), \A k \in (i + 1)..j : ~Selects(r[k])
      PROVE  \A k \in (i + 1)..j : k <= Len(q) => ~Selects(q[k])
  BY <1>1, <1>2, <1>3
<1>4. ASSUME \A k \in (i + 1)..Len(r) : ~Selects(r[k])
      PROVE  selected \in {Nobody, card}
  <2>1. \A k \in (i + 1)..Len(q) : ~Selects(q[k])
    BY <1>1, <1>2, <1>4
  <2> QED BY <2>1 DEF SameCardAfter
<1>5. ASSUME NEW j \in (i + 1)..Len(r), Tells(r[j]), \A k \in (i + 1)..j : ~Selects(r[k])
      PROVE  r[j].card = card
  <2>1. CASE j = Len(r)
    <3>1. \A k \in (i + 1)..Len(r) : ~Selects(r[k])
      BY <2>1, <1>5
    <3>2. r[j] = f
      BY <2>1, <1>1
    <3> QED BY <3>1, <3>2, <1>4, <1>5
  <2>2. CASE j # Len(r)
    <3>1. j \in (i + 1)..Len(q) /\ r[j] = q[j]
      BY <2>2, <1>1, <1>2
    <3>2. Tells(q[j]) /\ \A k \in (i + 1)..j : ~Selects(q[k])
      BY <3>1, <1>3, <1>5, <1>2
    <3> QED BY <3>1, <3>2 DEF SameCardAfter
  <2> QED BY <2>1, <2>2
<1> QED BY <1>4, <1>5 DEF SameCardAfter, r

\* The driver takes the first frame.
LEMMA FirstFetched ==
    ASSUME NEW q \in Seq(Frames), q # <<>>, NEW i \in 1..Len(q), NEW selected, NEW card,
           SameCardAfter(q, i, selected, card)
    PROVE  SameCardAfter(Tail(q), i - 1, selected, card)
<1> DEFINE r == Tail(q)
<1>1. Len(r) = Len(q) - 1 /\ \A j \in 1..Len(r) : r[j] = q[j + 1]
  OBVIOUS
<1> HIDE DEF r
<1>2. Len(q) \in Nat /\ i \in Nat /\ i >= 1 /\ (i - 1) + 1 = i
  OBVIOUS
<1>3. ASSUME NEW j \in i..Len(r), \A k \in i..j : ~Selects(r[k])
      PROVE  \A k \in (i + 1)..(j + 1) : ~Selects(q[k])
  <2> TAKE k \in (i + 1)..(j + 1)
  <2>1. k - 1 \in i..j /\ k - 1 \in 1..Len(r) /\ (k - 1) + 1 = k
    BY <1>1, <1>2
  <2>2. r[k - 1] = q[k]
    BY <2>1, <1>1
  <2> QED BY <2>1, <2>2, <1>3
<1>4. ASSUME NEW j \in i..Len(r), Tells(r[j]), \A k \in i..j : ~Selects(r[k])
      PROVE  r[j].card = card
  <2>1. j + 1 \in (i + 1)..Len(q) /\ r[j] = q[j + 1]
    BY <1>1, <1>2
  <2>2. \A k \in (i + 1)..(j + 1) : ~Selects(q[k])
    BY <1>3, <1>4
  <2> QED BY <2>1, <2>2, <1>4 DEF SameCardAfter
<1>5. ASSUME \A k \in i..Len(r) : ~Selects(r[k])
      PROVE  selected \in {Nobody, card}
  <2>1. \A k \in (i + 1)..Len(q) : ~Selects(q[k])
    <3> TAKE k \in (i + 1)..Len(q)
    <3>1. k - 1 \in i..Len(r) /\ k - 1 \in 1..Len(r) /\ (k - 1) + 1 = k
      BY <1>1, <1>2
    <3> QED BY <3>1, <1>1, <1>5
  <2> QED BY <2>1 DEF SameCardAfter
<1>6. SameCardAfter(r, i - 1, selected, card)
  BY <1>2, <1>4, <1>5 DEF SameCardAfter
<1> QED BY <1>6 DEF r

\* If the first selects none, what is behind it is as it was.
LEMMA FirstPassed ==
    ASSUME NEW q \in Seq(Frames), q # <<>>, NEW selected, NEW card,
           SameCardAfter(q, 0, selected, card), ~Selects(Head(q))
    PROVE  SameCardAfter(Tail(q), 0, selected, card)
<1>1. ~Selects(q[1]) /\ 1 \in 1..Len(q) /\ Len(q) \in Nat
  OBVIOUS
<1>2. SameCardAfter(q, 1, selected, card)
  <2>1. \A j \in 1..Len(q) : (\A k \in 2..j : ~Selects(q[k])) => \A k \in 1..j : ~Selects(q[k])
    BY <1>1
  <2> QED BY <2>1, <1>1 DEF SameCardAfter
<1>3. 1 - 1 = 0
  OBVIOUS
<1> QED BY <1>1, <1>2, <1>3, FirstFetched

\* A frame on its way tells what the chip has sent, or nothing.
LEMMA FrameArrives ==
    ASSUME ReaderTypeOK, NEW f \in Frames, f.damage = "none", Delivered(f)
    PROVE  /\ faults' \in 0..MaxFaults
           /\ \E g \in Frames :
                 /\ out' = Append(out, g)
                 /\ g.kind = f.kind /\ g.of = f.of /\ g.card = f.card
                 /\ Tells(g) => Tells(f)
<1> USE DEF ReaderTypeOK
<1>1. CASE out' = Append(out, f) /\ UNCHANGED faults
  BY <1>1
<1>2. CASE /\ faults < MaxFaults /\ faults' = faults + 1
           /\ \E d \in {"head", "body"}, b \in BOOLEAN :
                 out' = Append(out, [f EXCEPT !.damage = d, !.good = b])
  <2>1. faults' \in 0..MaxFaults
    BY <1>2, ReaderAssumption
  <2>2. PICK d \in {"head", "body"}, b \in BOOLEAN :
           out' = Append(out, [f EXCEPT !.damage = d, !.good = b])
    BY <1>2
  <2> DEFINE g == [f EXCEPT !.damage = d, !.good = b]
  <2>3. /\ g \in Frames /\ g.kind = f.kind /\ g.of = f.of /\ g.card = f.card
        /\ g.damage # "none"
    BY DEF Frames
  <2> QED BY <2>1, <2>2, <2>3 DEF Tells
<1> QED BY <1>1, <1>2, Zenon DEF Delivered

\* What the chip does to its card and to the queue.
ChipSends(g) ==
    /\ out' = Append(out, g)
    /\ \/ Selects(g) /\ (Tells(g) => listed' = g.card)
       \/ /\ ~Selects(g) /\ listed' = listed
          /\ Tells(g) => g.card = listed /\ listed # Nobody

LEMMA ChipStep ==
    ASSUME ReaderTypeOK, authed => listed # Nobody, Chip
    PROVE  /\ UNCHANGED <<driverVars, forgets, onReader, moves>>
           /\ \/ doing[1] = "received" /\ doing'[1] = "acknowledged"
              \/ doing[1] = "acknowledged" /\ doing'[1] = "nothing"
           /\ doing' \in {"nothing", "received", "acknowledged"} \X Ops
           /\ listed' \in Tags \cup {Nobody} /\ authed' \in BOOLEAN
           /\ authed' => listed' # Nobody
           /\ faults' \in 0..MaxFaults
           /\ \E g \in Frames : ChipSends(g)
<1>0. /\ doing[2] \in Ops /\ listed \in Tags \cup {Nobody} /\ onReader \in Tags \cup {Nobody}
      /\ authed \in BOOLEAN /\ Nobody \in Tags \cup {Nobody} /\ TRUE \in BOOLEAN
  BY DEF ReaderTypeOK
<1>a. ASSUME NEW kind \in {"ack", "response"}, NEW card \in Tags \cup {Nobody},
             NEW good \in BOOLEAN
      PROVE  /\ Frame(kind, card, good) \in Frames
             /\ Frame(kind, card, good).damage = "none"
             /\ Frame(kind, card, good).kind = kind /\ Frame(kind, card, good).of = doing[2]
             /\ Frame(kind, card, good).card = card /\ Frame(kind, card, good).good = good
  BY <1>0 DEF Frame, Frames
<1> DEFINE Sent(f) == /\ f \in Frames /\ f.damage = "none" /\ Delivered(f)
<1>b. ASSUME NEW f, Sent(f),
             \A g : /\ g \in Frames /\ out' = Append(out, g)
                    /\ g.kind = f.kind /\ g.of = f.of /\ g.card = f.card
                    /\ Tells(g) => Tells(f)
                    => ChipSends(g)
      PROVE  faults' \in 0..MaxFaults /\ \E g \in Frames : ChipSends(g)
  BY <1>b, FrameArrives
<1>1. CASE ChipAcknowledges
  <2> DEFINE f == Frame("ack", Nobody, TRUE)
  <2>1. f \in Frames /\ f.damage = "none" /\ f.kind = "ack"
    BY <1>0, <1>a
  <2>2. Sent(f) /\ UNCHANGED <<driverVars, forgets, listed, authed, onReader, moves>>
        /\ doing' = <<"acknowledged", doing[2]>> /\ doing[1] = "received"
    BY <2>1, <1>1 DEF ChipAcknowledges
  <2> HIDE DEF f
  <2>3. faults' \in 0..MaxFaults /\ \E g \in Frames : ChipSends(g)
    <3> SUFFICES ASSUME NEW g \in Frames, out' = Append(out, g), g.kind = f.kind,
                        Tells(g) => Tells(f)
                 PROVE  ChipSends(g)
      BY <2>2, <1>b
    <3> QED BY <2>1, <2>2 DEF ChipSends, Tells, Selects
  <2> QED BY <2>2, <2>3, <1>0
<1>2. CASE ChipAnswers
  <2>1. /\ UNCHANGED <<driverVars, forgets, onReader, moves>>
        /\ doing' = <<"nothing", doing[2]>> /\ doing[1] = "acknowledged"
    BY <1>2 DEF ChipAnswers
  <2>2. CASE doing[2] = "sam"
    <3>1. UNCHANGED <<listed, authed>> /\ Delivered(Frame("response", listed, TRUE))
      BY <1>2, <2>2 DEF ChipAnswers, Delivered, Frame
    <3> DEFINE f == Frame("response", listed, TRUE)
    <3>2. Sent(f) /\ f.of = "sam"
      BY <1>0, <1>a, <2>2, <3>1
    <3> HIDE DEF f
    <3>3. faults' \in 0..MaxFaults /\ \E g \in Frames : ChipSends(g)
      <4> SUFFICES ASSUME NEW g \in Frames, out' = Append(out, g), g.of = f.of
                   PROVE  ChipSends(g)
        BY <3>2, <1>b
      <4> QED BY <3>1, <3>2 DEF ChipSends, Tells, Selects
    <3> QED BY <2>1, <3>1, <3>3, <1>0
  <2>3. CASE doing[2] = "list"
    <3>1. /\ listed' = onReader /\ authed' = FALSE
          /\ Delivered(Frame("response", onReader, onReader # Nobody))
      BY <1>2, <2>3 DEF ChipAnswers, Delivered, Frame
    <3> DEFINE f == Frame("response", onReader, onReader # Nobody)
    <3>2. Sent(f) /\ f.of = "list" /\ f.card = onReader /\ f.kind = "response"
      BY <1>0, <1>a, <2>3, <3>1
    <3> HIDE DEF f
    <3>3. faults' \in 0..MaxFaults /\ \E g \in Frames : ChipSends(g)
      <4> SUFFICES ASSUME NEW g \in Frames, out' = Append(out, g), g.of = f.of,
                          g.kind = f.kind, g.card = f.card
                   PROVE  ChipSends(g)
        BY <3>2, <1>b
      <4> QED BY <3>1, <3>2 DEF ChipSends, Tells, Selects
    <3> QED BY <2>1, <3>1, <3>3, <1>0
  <2>4. CASE doing[2] \notin {"sam", "list"}
    <3>1. \E good \in BOOLEAN :
             /\ listed' = listed /\ authed' \in BOOLEAN
             /\ (authed' => listed # Nobody) /\ (good => listed # Nobody)
             /\ Delivered(Frame("response", listed, good))
      <4>1. CASE doing[2] = "auth"
        <5>1. /\ authed' = (listed # Nobody) /\ listed' = listed
              /\ Delivered(Frame("response", listed', authed'))
          BY <1>2, <4>1 DEF ChipAnswers
        <5>2. Delivered(Frame("response", listed, listed # Nobody))
          BY <5>1 DEF Delivered, Frame
        <5> QED BY <5>1, <5>2
      <4>2. CASE doing[2] # "auth"
        <5>1. UNCHANGED <<listed, authed>> /\ Delivered(Frame("response", listed', authed))
          BY <1>2, <2>4, <4>2 DEF ChipAnswers
        <5>2. Delivered(Frame("response", listed, authed))
          BY <5>1 DEF Delivered, Frame
        <5> QED BY <5>1, <5>2, <1>0
      <4> QED BY <4>1, <4>2
    <3>2. PICK good \in BOOLEAN :
             /\ listed' = listed /\ authed' \in BOOLEAN
             /\ (authed' => listed # Nobody) /\ (good => listed # Nobody)
             /\ Delivered(Frame("response", listed, good))
      BY <3>1
    <3> DEFINE f == Frame("response", listed, good)
    <3>3. Sent(f) /\ f.of # "list" /\ f.card = listed /\ f.good = good
      BY <1>0, <1>a, <2>4, <3>2
    <3> HIDE DEF f
    <3>4. faults' \in 0..MaxFaults /\ \E g \in Frames : ChipSends(g)
      <4> SUFFICES ASSUME NEW g \in Frames, out' = Append(out, g), g.of = f.of,
                          g.card = f.card, Tells(g) => Tells(f)
                   PROVE  ChipSends(g)
        BY <3>3, <1>b
      <4> QED BY <3>2, <3>3 DEF ChipSends, Tells, Selects
    <3> QED BY <2>1, <3>2, <3>4, <1>0
  <2> QED BY <2>2, <2>3, <2>4
<1> QED BY <1>1, <1>2 DEF Chip

\* The queue grows ...
LEMMA QueueGrows ==
    ASSUME ReaderTypeOK, QueueAhead, NEW g \in Frames, ChipSends(g)
    PROVE  /\ \A i \in 0..Len(out) : \A card :
                 SameCardAfter(out, i, listed, card) => SameCardAfter(out', i, listed', card)
           /\ QueueAhead'
<1>0. out \in Seq(Frames) /\ out' = Append(out, g)
  BY DEF ReaderTypeOK, ChipSends
<1>1. ASSUME NEW i \in 0..Len(out), NEW card, SameCardAfter(out, i, listed, card)
      PROVE  SameCardAfter(out', i, listed', card)
  <2>1. CASE Selects(g)
    BY <1>0, <1>1, <2>1, SelectsAppended
  <2>2. CASE ~Selects(g)
    BY <1>0, <1>1, <2>2, OtherAppended DEF ChipSends
  <2> QED BY <2>1, <2>2
<1>2. /\ Len(out') = Len(out) + 1 /\ Len(out) \in Nat
      /\ out'[Len(out')] = g /\ \A i \in 1..Len(out) : out'[i] = out[i]
  BY <1>0
<1>3. ASSUME NEW i \in 1..Len(out'), Tells(out'[i])
      PROVE  SameCardAfter(out', i, listed', out'[i].card)
  <2>1. CASE i = Len(out')
    <3>1. out'[i] = g /\ listed' \in {Nobody, g.card}
      BY <2>1, <1>2, <1>3 DEF ChipSends
    <3> QED BY <2>1, <3>1, <1>2 DEF SameCardAfter
  <2>2. CASE i # Len(out')
    <3>1. i \in 1..Len(out) /\ i \in 0..Len(out) /\ out'[i] = out[i]
      BY <2>2, <1>2
    <3>2. SameCardAfter(out, i, listed, out[i].card)
      BY <3>1, <1>3 DEF QueueAhead
    <3> QED BY <3>1, <3>2, <1>1
  <2> QED BY <2>1, <2>2
<1>4. QueueAhead'
  BY <1>3 DEF QueueAhead
<1> QED BY <1>1, <1>4

\* ... and shrinks; a command may discard it.
LEMMA QueueShrinks ==
    ASSUME ReaderTypeOK, QueueAhead, listed' \in {listed, Nobody},
           \/ out' = out
           \/ out' = <<>>
           \/ out # <<>> /\ out' = Tail(out)
    PROVE  QueueAhead'
<1>0. out \in Seq(Frames)
  BY DEF ReaderTypeOK
<1>1. \A q, i, card : SameCardAfter(q, i, listed, card) => SameCardAfter(q, i, listed', card)
  BY DEF SameCardAfter
<1>2. CASE out' = out
  BY <1>1, <1>2 DEF QueueAhead
<1>3. CASE out' = <<>>
  BY <1>3 DEF QueueAhead
<1>4. CASE out # <<>> /\ out' = Tail(out)
  <2> SUFFICES ASSUME NEW i \in 1..Len(out'), Tells(out'[i])
               PROVE  SameCardAfter(out', i, listed', out'[i].card)
    BY DEF QueueAhead
  <2>1. i + 1 \in 1..Len(out) /\ out'[i] = out[i + 1] /\ (i + 1) - 1 = i
    BY <1>0, <1>4
  <2>2. SameCardAfter(out, i + 1, listed, out[i + 1].card)
    BY <2>1 DEF QueueAhead
  <2>3. SameCardAfter(out', i, listed, out'[i].card)
    BY <1>0, <1>4, <2>1, <2>2, FirstFetched
  <2> QED BY <2>3, <1>1
<1> QED BY <1>2, <1>3, <1>4

\* The driver's command ends: with an error, or with the response in its queue.
LEMMA DriverTypes ==
    ASSUME ReaderTypeOK, BufferIsCommand, Driver
    PROVE  /\ op' \in Ops /\ stage' \in {"issue", "ack", "response"}
           /\ buffer' \in Frames \cup {Command} /\ lastCard' \in Tags \cup {Nobody}
           /\ taken' \in Seq(Frames) /\ out' \in Seq(Frames)
           /\ doing' \in {"nothing", "received", "acknowledged"} \X Ops
           /\ faults' \in 0..MaxFaults
           /\ UNCHANGED <<forgets, listed, authed, onReader, moves>>
           /\ \/ out' = out
              \/ out' = <<>>
              \/ out # <<>> /\ out' = Tail(out)
           /\ BufferIsCommand'
<1> USE DEF ReaderTypeOK
<1>0. /\ MaxFaults \in Nat /\ "list" \in Ops /\ Nobody \in Tags \cup {Nobody}
      /\ \A f \in Frames : f.card \in Tags \cup {Nobody}
  BY ReaderAssumption DEF Ops, Frames
<1>1. CASE Issue
  BY <1>1, <1>0 DEF Issue, BufferIsCommand, Ops
<1>2. ASSUME RoundFails
      PROVE  op' \in Ops /\ lastCard' \in Tags \cup {Nobody} /\ taken' \in Seq(Frames)
  BY <1>2, <1>0 DEF RoundFails
<1>3. ASSUME NEW status, NEW contents \in Frames \cup {Command}, CommandEnds(status, contents)
      PROVE  /\ op' \in Ops /\ lastCard' \in Tags \cup {Nobody} /\ taken' \in Seq(Frames)
             /\ stage' = "issue" /\ buffer' = contents
  <2>1. CASE Succeeds(status, contents)
    <3>1. contents \in Frames /\ contents.card \in Tags \cup {Nobody} /\ RoundGoesOn(contents)
      BY <2>1, <1>3, <1>0 DEF Succeeds, CommandEnds
    <3>2. op' \in Ops
      BY <3>1 DEF RoundGoesOn, Ops
    <3>3. lastCard' \in Tags \cup {Nobody} /\ taken' \in Seq(Frames)
      BY <3>1 DEF RoundGoesOn
    <3> QED BY <1>3, <3>2, <3>3 DEF CommandEnds
  <2>2. CASE ~Succeeds(status, contents)
    BY <1>2, <1>3, <2>2 DEF CommandEnds
  <2> QED BY <2>1, <2>2
<1>4. ASSUME TimerExpires PROVE faults' \in 0..MaxFaults
  BY <1>4, <1>0 DEF TimerExpires
<1>5. out # <<>> => Head(out) \in Frames /\ Tail(out) \in Seq(Frames)
  OBVIOUS
<1>6. CASE ReadAck
  <2>1. /\ out # <<>> /\ out' = Tail(out)
        /\ UNCHANGED <<forgets, doing, listed, authed, onReader, faults, moves, buffer>>
        /\ stage = "ack" /\ stage' \in {"response", "issue"}
    BY <1>6 DEF ReadAck
  <2>2. op' \in Ops /\ lastCard' \in Tags \cup {Nobody} /\ taken' \in Seq(Frames)
    BY <1>6, <1>2 DEF ReadAck
  <2> QED BY <2>1, <2>2, <1>5 DEF BufferIsCommand
<1>7. CASE AckTimesOut
  BY <1>7, <1>2, <1>4 DEF AckTimesOut, BufferIsCommand, chipVars
<1>8. CASE ReadResponse
  <2>1. /\ out # <<>> /\ out' = Tail(out)
        /\ UNCHANGED <<forgets, doing, listed, authed, onReader, faults, moves>>
    BY <1>8 DEF ReadResponse
  <2>2. \E status \in BOOLEAN, contents \in Frames \cup {Command} : CommandEnds(status, contents)
    <3>1. CASE IsResponse(Head(out))
      <4>1. CommandEnds(Head(out).damage = "none", Head(out)) /\ (Head(out).damage = "none") \in BOOLEAN
        BY <1>8, <3>1 DEF ReadResponse
      <4> QED BY <4>1, <2>1, <1>5
    <3>2. CASE ~IsResponse(Head(out))
      <4>1. CommandEnds(FALSE, buffer) /\ FALSE \in BOOLEAN
        BY <1>8, <3>2 DEF ReadResponse
      <4> QED BY <4>1
    <3> QED BY <3>1, <3>2
  <2>3. /\ op' \in Ops /\ lastCard' \in Tags \cup {Nobody} /\ taken' \in Seq(Frames)
        /\ stage' = "issue" /\ buffer' \in Frames \cup {Command}
    BY <2>2, <1>3
  <2> QED BY <2>1, <2>3, <1>5 DEF BufferIsCommand
<1>9. CASE ResponseTimesOut
  <2>1. CommandEnds(FALSE, buffer) /\ TimerExpires /\ UNCHANGED <<chipVars, onReader, moves>>
    BY <1>9 DEF ResponseTimesOut
  <2>2. /\ op' \in Ops /\ lastCard' \in Tags \cup {Nobody} /\ taken' \in Seq(Frames)
        /\ stage' = "issue" /\ buffer' = buffer
    BY <2>1, <1>3
  <2> QED BY <2>1, <2>2, <1>4 DEF BufferIsCommand, chipVars
<1> QED BY <1>1, <1>6, <1>7, <1>8, <1>9 DEF Driver

\* What a step of the driver does to the round: it goes on as it was, with the
\* first frame fetched if that is the acknowledgement; a round begins; it ends
\* early; or a response is accepted.
RoundStays ==
    /\ UNCHANGED <<op, taken>> /\ stage' \in {"ack", "response"}
    /\ op \in {"sam", "list"} => stage # "issue" /\ taken = <<>>
    /\ \/ out' = out
       \/ out' = <<>> /\ stage = "issue" /\ forgets
       \/ out # <<>> /\ out' = Tail(out) /\ ~Selects(Head(out))
RoundBegins == UNCHANGED op /\ op \in {"sam", "list"} /\ taken' = <<>>
RoundEnds == op' = "list" /\ stage' = "issue" /\ UNCHANGED taken
Accepts(f) ==
    /\ stage = "response" /\ stage' = "issue" /\ out # <<>> /\ f = Head(out) /\ out' = Tail(out)
    /\ taken' = Append(taken, f)
    /\ f.kind = "response" /\ f.good /\ CommandByte(f.of) = CommandByte(op)
    /\ op = "list" => f.damage = "none"
    /\ op = "sam" => op' = "list"
    /\ op \in OfCard => op' \in OfCard \cup {"list"}
    /\ op = "list" => op' \in {"list", "auth"}

LEMMA DriverStep ==
    ASSUME ReaderTypeOK, BufferIsCommand, RoundBegun, Driver
    PROVE  RoundStays \/ RoundBegins \/ RoundEnds \/ \E f \in Frames : Accepts(f)
<1> USE DEF ReaderTypeOK
<1>0. out # <<>> => Head(out) \in Frames
  OBVIOUS
<1>1. CASE Issue
  <2>1. CASE op \in {"sam", "list"}
    BY <1>1, <2>1 DEF Issue, RoundBegins
  <2>2. CASE op \notin {"sam", "list"}
    BY <1>1, <2>2 DEF Issue, RoundStays
  <2> QED BY <2>1, <2>2
<1>2. CASE ReadAck
  <2>1. CASE IsAck(Head(out))
    BY <1>2, <2>1 DEF ReadAck, IsAck, RoundStays, RoundBegun, Selects
  <2>2. CASE ~IsAck(Head(out))
    BY <1>2, <2>2 DEF ReadAck, RoundFails, RoundEnds
  <2> QED BY <2>1, <2>2
<1>3. CASE AckTimesOut
  BY <1>3 DEF AckTimesOut, RoundFails, RoundEnds
<1>4. ASSUME stage = "response", CommandEnds(FALSE, buffer)
      PROVE  RoundEnds
  <2>1. ~Succeeds(FALSE, buffer)
    BY <1>4 DEF BufferIsCommand, Succeeds
  <2> QED BY <1>4, <2>1 DEF CommandEnds, RoundFails, RoundEnds
<1>5. CASE ReadResponse
  <2>1. CASE ~IsResponse(Head(out))
    BY <1>5, <2>1, <1>4 DEF ReadResponse
  <2>2. CASE IsResponse(Head(out))
    <3> DEFINE f == Head(out)
    <3>1. /\ CommandEnds(f.damage = "none", f) /\ stage = "response"
          /\ out # <<>> /\ out' = Tail(out) /\ f \in Frames
      BY <1>5, <2>2, <1>0 DEF ReadResponse
    <3>2. CASE ~Succeeds(f.damage = "none", f)
      BY <3>1, <3>2 DEF CommandEnds, RoundFails, RoundEnds
    <3>3. CASE Succeeds(f.damage = "none", f)
      <4>1. RoundGoesOn(f) /\ stage' = "issue"
        BY <3>1, <3>3 DEF CommandEnds
      <4>2. f.kind = "response" /\ CommandByte(f.of) = CommandByte(op)
        BY <2>2 DEF IsResponse
      <4>3. f.good /\ (op = "list" => f.damage = "none")
        BY <3>3 DEF Succeeds
      <4>4. /\ op = "sam" => op' = "list"
            /\ op \in OfCard => op' \in OfCard \cup {"list"}
            /\ op = "list" => op' \in {"list", "auth"}
        BY <4>1 DEF RoundGoesOn, OfCard
      <4>5. taken' = Append(taken, f)
        BY <4>1 DEF RoundGoesOn
      <4>6. Accepts(f)
        BY <3>1, <4>1, <4>2, <4>3, <4>4, <4>5 DEF Accepts
      <4> QED BY <3>1, <4>6
    <3> QED BY <3>2, <3>3
  <2> QED BY <2>1, <2>2
<1>6. CASE ResponseTimesOut
  BY <1>6, <1>4 DEF ResponseTimesOut
<1> QED BY <1>1, <1>2, <1>3, <1>5, <1>6 DEF Driver

\* A response accepted is of the card of the round.
LEMMA AcceptedFits ==
    ASSUME ReaderInv, NEW f \in Frames, Accepts(f), op \in OfCard, listed' = listed
    PROVE  RoundAhead' /\ RoundBegun' /\ KeyOfOneCard'
<1> USE DEF ReaderInv
<1>0. /\ taken \in Seq(Frames) /\ taken # <<>> /\ Len(taken) \in Nat \ {0}
      /\ out \in Seq(Frames) /\ f = out[1] /\ 1 \in (0 + 1)..Len(out)
      /\ f = Head(out) /\ out # <<>> /\ out' = Tail(out)
  BY DEF ReaderTypeOK, RoundBegun, Accepts
<1>1. /\ Len(taken') = Len(taken) + 1 /\ taken'[Len(taken) + 1] = f
      /\ \A i \in 1..Len(taken) : taken'[i] = taken[i]
      /\ taken'[1] = taken[1] /\ taken' # <<>>
  BY <1>0 DEF Accepts
<1>2. ~Selects(f) /\ f.of # "sam"
  BY DEF Accepts, CommandByte, OfCard, Selects
<1>3. ASSUME Intact'
      PROVE  Intact /\ f.card = taken[1].card /\ SameCardAfter(out', 0, listed, taken[1].card)
  <2>1. \A i \in 1..Len(taken) : i \in 1..Len(taken')
    BY <1>0, <1>1
  <2>2. Intact
    BY <2>1, <1>1, <1>3 DEF Intact
  <2>3. f.damage = "none"
    <3>1. Len(taken) + 1 \in 1..Len(taken')
      BY <1>0, <1>1
    <3> QED BY <3>1, <1>1, <1>3 DEF Intact
  <2>4. Tells(f)
    BY <2>3, <1>2 DEF Tells, Accepts
  <2>5. SameCardAfter(out, 0, listed, taken[1].card)
    BY <2>2 DEF RoundAhead
  <2>6. f.card = taken[1].card
    <3>1. \A k \in (0 + 1)..1 : ~Selects(out[k])
      BY <1>0, <1>2
    <3> QED BY <3>1, <2>4, <2>5, <1>0 DEF SameCardAfter
  <2>7. SameCardAfter(Tail(out), 0, listed, taken[1].card)
    BY <2>5, <1>0, <1>2, FirstPassed
  <2> QED BY <2>2, <2>6, <2>7, <1>0
<1>4. RoundBegun'
  BY <1>1 DEF RoundBegun, Accepts
<1>5. RoundAhead'
  BY <1>1, <1>3 DEF RoundAhead
<1>6. KeyOfOneCard'
  <2> SUFFICES ASSUME Intact', NEW i \in 2..Len(taken')
               PROVE  taken'[i].card = taken'[1].card
    BY DEF KeyOfOneCard
  <2>1. CASE i = Len(taken')
    BY <2>1, <1>1, <1>3
  <2>2. CASE i # Len(taken')
    <3>1. i \in 2..Len(taken) /\ i \in 1..Len(taken)
      BY <2>2, <1>0, <1>1
    <3> QED BY <3>1, <1>1, <1>3 DEF KeyOfOneCard
  <2> QED BY <2>1, <2>2
<1> QED BY <1>4, <1>5, <1>6

\* The answer that begins the round is of the card that all behind it is of.
LEMMA FirstFits ==
    ASSUME ReaderInv, NEW f \in Frames, Accepts(f), op \notin OfCard, listed' = listed
    PROVE  RoundAhead' /\ RoundBegun' /\ KeyOfOneCard'
<1> USE DEF ReaderInv
<1>0. /\ taken = <<>> /\ out \in Seq(Frames) /\ f = out[1] /\ 1 \in 1..Len(out)
      /\ out # <<>> /\ out' = Tail(out) /\ op \in {"sam", "list"}
  BY DEF ReaderTypeOK, RoundBegun, Accepts, Ops, OfCard
<1>1. taken' = <<f>> /\ Len(taken') = 1 /\ taken'[1] = f
  BY <1>0 DEF Accepts
<1>2. RoundBegun'
  BY <1>0, <1>1 DEF RoundBegun, Accepts
<1>3. KeyOfOneCard'
  BY <1>1 DEF KeyOfOneCard
<1>4. RoundAhead'
  <2> SUFFICES ASSUME op' \in OfCard
               PROVE  SameCardAfter(out', 0, listed, f.card)
    BY <1>1 DEF RoundAhead
  <2>1. op = "list"
    BY <1>0 DEF Accepts, OfCard
  <2>2. Tells(out[1])
    BY <2>1, <1>0 DEF Accepts, Tells, CommandByte
  <2>3. SameCardAfter(out, 1, listed, f.card) /\ 1 - 1 = 0
    BY <2>2, <1>0 DEF QueueAhead
  <2> QED BY <2>3, <1>0, FirstFetched
<1> QED BY <1>2, <1>3, <1>4

\* A command at a time keeps such a chip in step.
LEMMA DriverInStep ==
    ASSUME ReaderTypeOK, InStep, BufferIsCommand, Driver
    PROVE  InStep'
<1> USE DEF ReaderTypeOK
<1>0. out \in Seq(Frames) /\ (out # <<>> => Len(Tail(out)) = Len(out) - 1) /\ Len(out) \in Nat
  OBVIOUS
<1>1. CASE Issue
  BY <1>1 DEF Issue, InStep
<1>2. CASE ReadAck
  <2>1. CASE IsAck(Head(out))
    BY <1>2, <2>1, <1>0 DEF ReadAck, InStep
  <2>2. CASE ~IsAck(Head(out))
    BY <1>2, <2>2 DEF ReadAck, RoundFails, InStep, OfCard
  <2> QED BY <2>1, <2>2
<1>3. CASE AckTimesOut
  BY <1>3 DEF AckTimesOut, RoundFails, InStep, OfCard
<1>4. ASSUME NEW status, NEW contents, stage = "response", CommandEnds(status, contents),
             UNCHANGED <<forgets, doing>>,
             Succeeds(status, contents) => out # <<>> /\ out' = Tail(out)
      PROVE  InStep'
  <2>1. CASE Succeeds(status, contents)
    <3>1. /\ stage' = "issue" /\ forgets' = forgets /\ doing' = doing
          /\ out # <<>> /\ Len(out') = Len(out) - 1
      BY <1>4, <2>1, <1>0 DEF CommandEnds
    <3>2. Len(out) # 0
      BY <3>1
    <3> QED BY <3>1, <3>2, <1>0, <1>4 DEF InStep
  <2>2. CASE ~Succeeds(status, contents)
    BY <1>4, <2>2 DEF CommandEnds, RoundFails, InStep, OfCard
  <2> QED BY <2>1, <2>2
<1>5. CASE ReadResponse
  <2>1. CASE IsResponse(Head(out))
    BY <1>5, <2>1, <1>4 DEF ReadResponse
  <2>2. CASE ~IsResponse(Head(out))
    BY <1>5, <2>2, <1>4 DEF ReadResponse
  <2> QED BY <2>1, <2>2
<1>6. CASE ResponseTimesOut
  <2>1. ~Succeeds(FALSE, buffer)
    BY <1>6 DEF ResponseTimesOut, BufferIsCommand, Succeeds
  <2> QED BY <1>6, <2>1, <1>4 DEF ResponseTimesOut, chipVars
<1> QED BY <1>1, <1>2, <1>3, <1>5, <1>6 DEF Driver

LEMMA DriverKeeps == ReaderInv /\ Driver => ReaderInv'
<1> SUFFICES ASSUME ReaderInv, Driver
             PROVE  ReaderInv'
  OBVIOUS
<1>0. ReaderTypeOK /\ InStep /\ BufferIsCommand /\ RoundBegun /\ QueueAhead
  BY DEF ReaderInv
<1>1. /\ ReaderTypeOK' /\ BufferIsCommand' /\ UNCHANGED <<listed, authed>>
      /\ \/ out' = out
         \/ out' = <<>>
         \/ out # <<>> /\ out' = Tail(out)
  BY <1>0, DriverTypes DEF ReaderTypeOK
<1>2. QueueAhead'
  BY <1>0, <1>1, QueueShrinks
<1>5. InStep'
  BY <1>0, DriverInStep
<1>3. (authed => listed # Nobody)'
  BY <1>1 DEF ReaderInv
<1>4. RoundAhead' /\ RoundBegun' /\ KeyOfOneCard'
  <2>1. CASE RoundStays
    <3>1. RoundBegun' /\ KeyOfOneCard'
      BY <2>1 DEF ReaderInv, RoundStays, RoundBegun, KeyOfOneCard, Intact
    <3>2. RoundAhead'
      <4> SUFFICES ASSUME op \in OfCard, Intact
                   PROVE  SameCardAfter(out', 0, listed, taken[1].card)
        BY <2>1, <1>1 DEF RoundStays, RoundAhead, Intact
      <4>1. SameCardAfter(out, 0, listed, taken[1].card) /\ out \in Seq(Frames)
        BY <1>0 DEF ReaderInv, RoundAhead, ReaderTypeOK
      <4>2. CASE out' = out
        BY <4>1, <4>2
      <4>3. CASE out' = <<>> /\ stage = "issue" /\ forgets
        <5>1. out' = out
          BY <4>1, <4>3, <1>0 DEF InStep
        <5> QED BY <4>1, <5>1
      <4>4. CASE out # <<>> /\ out' = Tail(out) /\ ~Selects(Head(out))
        BY <4>1, <4>4, FirstPassed
      <4> QED BY <2>1, <4>2, <4>3, <4>4 DEF RoundStays
    <3> QED BY <3>1, <3>2
  <2>2. CASE RoundBegins
    BY <2>2 DEF RoundBegins, RoundAhead, RoundBegun, KeyOfOneCard, OfCard
  <2>3. CASE RoundEnds
    BY <2>3 DEF ReaderInv, RoundEnds, RoundAhead, RoundBegun, KeyOfOneCard, OfCard, Intact
  <2>4. CASE \E f \in Frames : Accepts(f)
    BY <2>4, <1>1, AcceptedFits, FirstFits
  <2> QED BY <2>1, <2>2, <2>3, <2>4, <1>0, DriverStep
<1> QED BY <1>1, <1>2, <1>3, <1>4, <1>5 DEF ReaderInv

LEMMA ChipKeeps == ReaderInv /\ Chip => ReaderInv'
<1> SUFFICES ASSUME ReaderInv, Chip
             PROVE  ReaderInv'
  OBVIOUS
<1> USE DEF ReaderInv
<1>1. /\ UNCHANGED <<driverVars, forgets, onReader, moves>>
      /\ \/ doing[1] = "received" /\ doing'[1] = "acknowledged"
         \/ doing[1] = "acknowledged" /\ doing'[1] = "nothing"
      /\ doing' \in {"nothing", "received", "acknowledged"} \X Ops
      /\ listed' \in Tags \cup {Nobody} /\ authed' \in BOOLEAN
      /\ authed' => listed' # Nobody
      /\ faults' \in 0..MaxFaults
  BY ChipStep
<1>2. PICK g \in Frames : ChipSends(g)
  BY ChipStep
<1>3. /\ UNCHANGED <<op, stage, buffer, lastCard, taken>>
      /\ out \in Seq(Frames) /\ out' = Append(out, g) /\ Len(out) \in Nat
      /\ out' \in Seq(Frames) /\ Len(out') = Len(out) + 1
  BY <1>1, <1>2 DEF driverVars, ChipSends, ReaderTypeOK
<1>4. ReaderTypeOK'
  BY <1>1, <1>3 DEF ReaderTypeOK
<1>5. InStep'
  BY <1>1, <1>3 DEF InStep
<1>6. BufferIsCommand' /\ RoundBegun' /\ KeyOfOneCard'
  BY <1>3 DEF BufferIsCommand, RoundBegun, KeyOfOneCard, Intact
<1>7. QueueAhead'
  BY <1>2, QueueGrows
<1>8. RoundAhead'
  <2> SUFFICES ASSUME op \in OfCard, Intact
               PROVE  SameCardAfter(out', 0, listed', taken[1].card)
    BY <1>3 DEF RoundAhead, Intact
  <2>1. SameCardAfter(out, 0, listed, taken[1].card) /\ 0 \in 0..Len(out)
    BY <1>3 DEF RoundAhead
  <2> QED BY <2>1, <1>2, QueueGrows
<1> QED BY <1>1, <1>4, <1>5, <1>6, <1>7, <1>8

LEMMA CardKeeps == ReaderInv /\ CardMoves => ReaderInv'
<1> SUFFICES ASSUME ReaderInv, CardMoves
             PROVE  ReaderInv'
  OBVIOUS
<1> USE DEF ReaderInv
<1>1. /\ UNCHANGED <<op, stage, buffer, lastCard, taken, forgets, doing, out, faults>>
      /\ listed' = Nobody /\ authed' = FALSE /\ onReader' \in Tags \cup {Nobody}
      /\ moves < MaxMoves /\ moves' = moves + 1
  BY DEF CardMoves, driverVars
<1>2. ReaderTypeOK'
  <2>1. authed' \in BOOLEAN /\ Nobody \in Tags \cup {Nobody}
    BY <1>1
  <2>2. moves' \in 0..MaxMoves
    BY <1>1, ReaderAssumption DEF ReaderTypeOK
  <2> QED BY <1>1, <2>1, <2>2 DEF ReaderTypeOK
<1>3. InStep' /\ BufferIsCommand' /\ RoundBegun' /\ KeyOfOneCard'
  BY <1>1 DEF InStep, BufferIsCommand, RoundBegun, KeyOfOneCard, Intact
<1>4. QueueAhead'
  BY <1>1, QueueShrinks
<1>5. RoundAhead'
  BY <1>1 DEF RoundAhead, Intact, SameCardAfter
<1> QED BY <1>1, <1>2, <1>3, <1>4, <1>5

LEMMA ReaderInitially == ReaderInit => ReaderInv
<1> SUFFICES ASSUME ReaderInit
             PROVE  ReaderInv
  OBVIOUS
<1>1. ReaderTypeOK
  <2>1. authed \in BOOLEAN /\ Nobody \in Tags \cup {Nobody} /\ "sam" \in Ops
    BY DEF ReaderInit, Ops
  <2>2. faults \in 0..MaxFaults /\ moves \in 0..MaxMoves
    BY ReaderAssumption DEF ReaderInit
  <2>3. /\ op \in Ops /\ stage \in {"issue", "ack", "response"}
        /\ buffer \in Frames \cup {Command}
        /\ doing \in {"nothing", "received", "acknowledged"} \X Ops
    BY <2>1 DEF ReaderInit
  <2>4. taken \in Seq(Frames) /\ out \in Seq(Frames)
    BY DEF ReaderInit
  <2> QED BY <2>1, <2>2, <2>3, <2>4 DEF ReaderInit, ReaderTypeOK
<1>2. InStep /\ BufferIsCommand /\ RoundBegun /\ RoundAhead /\ QueueAhead /\ KeyOfOneCard
  BY DEF ReaderInit, InStep, BufferIsCommand, RoundBegun, RoundAhead, QueueAhead, KeyOfOneCard,
         OfCard
<1>3. authed => listed # Nobody
  BY DEF ReaderInit
<1> QED BY <1>1, <1>2, <1>3 DEF ReaderInv

\* KeyOfOneCard of the driver, for any cards, accidents and moves.
THEOREM KeysOfOneCard == ReaderSpec => []KeyOfOneCard
<1>1. ReaderInv /\ UNCHANGED readerVars => ReaderInv'
  BY DEF readerVars, driverVars, chipVars, ReaderInv, ReaderTypeOK, InStep, BufferIsCommand,
         RoundBegun, RoundAhead, QueueAhead, KeyOfOneCard, Intact
<1>2. ReaderInv /\ [ReaderNext]_readerVars => ReaderInv'
  BY <1>1, DriverKeeps, ChipKeeps, CardKeeps DEF ReaderNext
<1>3. ReaderInv => KeyOfOneCard
  BY DEF ReaderInv
<1> QED BY <1>2, <1>3, ReaderInitially, PTL DEF ReaderSpec

-----------------------------------------------------------------------------
(* The highlights of the console *)

USE DEF scene, globals, view

\* A timeout of the college of x is pending.
TimerAhead(x) == \E i \in 1..Len(timers) : College[timers[i]] = College[x]

\* A transparent material will be restored, also when the global keeps it.
DimIsTimed ==
    /\ \A x \in Meshes : material[x] \in dim => TimerAhead(x)
    /\ originalMaterial \in dim => TimerAhead(mesh)

\* The material the global keeps is no other mesh's than the global mesh's.
KeptBelongs == \A x \in Meshes : x # mesh => material[x] # originalMaterial

\* While an animation will be left after the next timeout, what that puts
\* back is visible.
KeptVisible == mesh # 0 /\ animations[mesh] >= 2 => originalMaterial \notin dim

HighlightInv ==
    /\ HighlightTypeOK /\ OwnMaterial /\ KeptBelongs
    /\ ShownIsVisible /\ KeptVisible /\ DimIsTimed

\* The materials dimmed belong to meshes or were made by hlMesh.
LEMMA StillTyped ==
    ASSUME HighlightTypeOK, NEW m
    PROVE  Still(m, animations) \subseteq Meshes \cup 1..made
<1>1. \A x \in Meshes : material[x] \in Meshes \cup 1..made
  BY DEF HighlightTypeOK
<1> QED BY <1>1, Zenon DEF Still

\* Every handler and timer keeps the types.
LEMMA TypeStep == HighlightTypeOK /\ [HighlightNext]_highlightVars => HighlightTypeOK'
<1> SUFFICES ASSUME HighlightTypeOK, [HighlightNext]_highlightVars
             PROVE  HighlightTypeOK'
  OBVIOUS
<1> USE MeshAssumption DEF HighlightTypeOK
<1>0. 0 \notin Meshes
  OBVIOUS
<1>1. CASE Request
  <2>1. /\ UNCHANGED <<made, material, dim, animations, mesh, originalMaterial, timers,
                       overlapped, camera, animating, frame, target>>
        /\ todo' \in Seq(Meshes) /\ made + Len(todo') <= MaxHighlights
    BY <1>1 DEF Request
  <2> QED BY <2>1
<1>2. CASE HlMesh
  <2>1. /\ todo # <<>> /\ todo' = Tail(todo) /\ made' = made + 1
        /\ mesh' = Head(todo) /\ mesh' \in Meshes
        /\ todo' \in Seq(Meshes) /\ Len(todo') = Len(todo) - 1
    BY <1>2 DEF HlMesh
  <2>2. dim' \subseteq Meshes \cup 1..made'
    <3>1. Still(mesh', animations) \subseteq Meshes \cup 1..made
      BY StillTyped
    <3>2. dim' = dim \cup Still(mesh', animations) /\ dim \subseteq Meshes \cup 1..made
      BY <1>2 DEF HlMesh
    <3>3. Meshes \cup 1..made \subseteq Meshes \cup 1..made'
      BY <2>1
    <3> QED BY <3>1, <3>2, <3>3
  <2>3. /\ originalMaterial' \in Meshes \cup 1..made'
        /\ material' \in [Meshes -> Meshes \cup 1..made']
    <3>1. originalMaterial' = material[mesh'] /\ material' = [material EXCEPT ![mesh'] = made']
      BY <1>2 DEF HlMesh, NewMaterial
    <3>2. made' \in Meshes \cup 1..made' /\ Meshes \cup 1..made \subseteq Meshes \cup 1..made'
      BY <2>1
    <3> QED BY <2>1, <3>1, <3>2
  <2>4. /\ timers' \in Seq(Meshes) /\ Len(timers') <= made'
        /\ animations' \in [Meshes -> Nat] /\ overlapped' \in BOOLEAN
    BY <1>2, <2>1 DEF HlMesh
  <2>5. camera' \in Meshes \cup {0} /\ target' \in Meshes \cup {0}
        /\ animating' \in BOOLEAN /\ frame' \in 0..(MaxFrames - 1)
    BY <1>2, <2>1 DEF HlMesh, MoveCamera
  <2>6. made' \in Nat /\ made' + Len(todo') <= MaxHighlights /\ mesh' # 0
    BY <1>0, <2>1
  <2> QED BY <2>1, <2>2, <2>3, <2>4, <2>5, <2>6
<1>3. CASE TimeUp
  <2>1. mesh \in Meshes /\ originalMaterial \in Meshes \cup 1..made
    BY <1>3 DEF TimeUp
  <2>2. animations' \in [Meshes -> Nat]
    BY <1>3, <2>1 DEF TimeUp, Restore
  <2>3. timers' \in Seq(Meshes) /\ Len(timers') <= made
    BY <1>3 DEF TimeUp
  <2>4. dim' \subseteq dim
    BY <1>3 DEF TimeUp, Restore
  <2>5. material' \in [Meshes -> Meshes \cup 1..made]
    BY <1>3, <2>1 DEF TimeUp, Restore
  <2> QED BY <1>3, <2>1, <2>2, <2>3, <2>4, <2>5 DEF TimeUp
<1>4. CASE BeforeRender
  <2>1. /\ camera' \in Meshes \cup {0} /\ animating' \in BOOLEAN
        /\ frame' \in 0..(MaxFrames - 1)
    <3>1. CASE frame + 1 = MaxFrames
      <4>1. camera' = target /\ animating' = FALSE /\ frame' = 0
        BY <1>4, <3>1, Zenon DEF BeforeRender
      <4>2. 0 \in 0..(MaxFrames - 1)
        OBVIOUS
      <4> QED BY <4>1, <4>2, Zenon
    <3>2. CASE frame + 1 # MaxFrames
      <4>1. frame + 1 \in 0..(MaxFrames - 1)
        BY <3>2
      <4> QED BY <1>4, <3>2, <4>1 DEF BeforeRender
    <3> QED BY <3>1, <3>2
  <2>2. UNCHANGED <<todo, made, material, dim, animations, mesh, originalMaterial,
                    timers, overlapped, target>>
    BY <1>4 DEF BeforeRender
  <2> QED BY <2>1, <2>2
<1>5. CASE UNCHANGED highlightVars
  BY <1>5 DEF highlightVars
<1> QED BY <1>1, <1>2, <1>3, <1>4, <1>5 DEF HighlightNext
\* What a call of hlMesh does to the materials.
LEMMA HlMeshStep ==
    ASSUME HighlightInv, HlMesh
    PROVE  /\ OwnMaterial' /\ KeptBelongs' /\ ShownIsVisible'
           /\ KeptVisible' /\ DimIsTimed'
<1> USE MeshAssumption DEF HighlightInv, HighlightTypeOK
<1> DEFINE m == mesh'
<1>1. /\ m \in Meshes /\ made' = made + 1 /\ originalMaterial' = material[m]
      /\ material' = [material EXCEPT ![m] = made']
      /\ animations' = [animations EXCEPT ![m] = @ + 1]
      /\ dim' = dim \cup Still(m, animations)
      /\ timers' = Append(timers, m)
  BY DEF HlMesh, NewMaterial
<1>2. /\ \A x \in Meshes : material[x] # made'
      /\ made' \notin dim'
  <2>1. made' \notin Meshes \cup 1..made
    <3>1. made \in Nat /\ made' = made + 1
      BY <1>1
    <3>2. made' \in Nat /\ made' \notin 1..made
      BY <3>1
    <3> QED BY <3>2
  <2>2. Still(m, animations) \subseteq Meshes \cup 1..made
    BY StillTyped
  <2> QED BY <1>1, <2>1, <2>2
<1>3. OwnMaterial' /\ KeptBelongs'
  BY <1>1, <1>2 DEF OwnMaterial, KeptBelongs
<1>4. ASSUME NEW x \in Meshes, animations[x] > 0
      PROVE  material[x] \notin dim'
  <2>1. material[x] \notin Still(m, animations)
    BY <1>4 DEF Still, OwnMaterial
  <2> QED BY <1>1, <1>4, <2>1 DEF ShownIsVisible
<1>5. ShownIsVisible'
  <2> SUFFICES ASSUME NEW x \in Meshes, animations'[x] > 0
               PROVE  material'[x] \notin dim'
    BY DEF ShownIsVisible
  <2>1. CASE x = m
    BY <1>1, <1>2, <2>1
  <2>2. CASE x # m
    BY <1>1, <1>4, <2>2
  <2> QED BY <2>1, <2>2
<1>6. KeptVisible'
  BY <1>1, <1>4 DEF KeptVisible
<1>7. ASSUME NEW x \in Meshes, TimerAhead(x) \/ College[x] = College[m]
      PROVE  TimerAhead(x)'
  <2>1. /\ Len(timers') = Len(timers) + 1 /\ timers'[Len(timers')] = m
        /\ \A i \in 1..Len(timers) : timers'[i] = timers[i]
    BY <1>1
  <2>2. CASE College[x] = College[m]
    BY <2>1, <2>2 DEF TimerAhead
  <2>3. CASE TimerAhead(x)
    BY <2>1, <2>3 DEF TimerAhead
  <2> QED BY <1>7, <2>2, <2>3
<1>8. DimIsTimed'
  <2>1. ASSUME NEW x \in Meshes, material'[x] \in dim'
        PROVE  TimerAhead(x)'
    <3>1. x # m /\ material'[x] = material[x]
      BY <1>1, <1>2, <2>1
    <3>2. CASE material[x] \in dim
      BY <1>7, <3>2 DEF DimIsTimed
    <3>3. CASE material[x] \in Still(m, animations)
      <4>1. PICK y \in Meshes : College[y] = College[m] /\ material[x] = material[y]
        BY <3>3 DEF Still
      <4>2. y = x
        BY <4>1 DEF OwnMaterial
      <4> QED BY <1>7, <4>1, <4>2
    <3> QED BY <1>1, <2>1, <3>1, <3>2, <3>3
  <2>2. \E i \in 1..Len(timers') : timers'[i] = mesh'
    <3>1. Len(timers') \in 1..Len(timers') /\ timers'[Len(timers')] = mesh'
      BY <1>1
    <3> QED BY <3>1
  <2>3. TimerAhead(mesh)'
    BY <2>2 DEF TimerAhead
  <2> QED BY <2>1, <2>3 DEF DimIsTimed
<1> QED BY <1>3, <1>5, <1>6, <1>8

\* What a timeout does to the materials, whichever mesh the globals name by then.
LEMMA TimeUpStep ==
    ASSUME HighlightInv, TimeUp
    PROVE  /\ OwnMaterial' /\ KeptBelongs' /\ ShownIsVisible'
           /\ KeptVisible' /\ DimIsTimed'
<1> USE MeshAssumption DEF HighlightInv, HighlightTypeOK
<1> DEFINE name == Head(timers)
<1>1. /\ mesh \in Meshes /\ mesh' = mesh /\ originalMaterial' = originalMaterial
      /\ name \in Meshes /\ timers # <<>> /\ timers' = Tail(timers)
      /\ animations' = [animations EXCEPT ![mesh] = IF @ = 0 THEN 0 ELSE @ - 1]
      /\ material' = [material EXCEPT ![mesh] = originalMaterial]
      /\ dim' = dim \ {material'[x] : x \in {y \in Meshes :
                          College[y] = College[name] /\ animations'[y] = 0}}
  BY DEF TimeUp, Restore
<1>2. OwnMaterial' /\ KeptBelongs'
  BY <1>1 DEF OwnMaterial, KeptBelongs
<1>3. ShownIsVisible' /\ KeptVisible'
  <2>1. animations'[mesh] > 0 => animations[mesh] >= 2
    BY <1>1
  <2>2. animations'[mesh] > 0 => originalMaterial \notin dim
    BY <1>1, <2>1 DEF KeptVisible
  <2>3. ASSUME NEW x \in Meshes, animations'[x] > 0
        PROVE  material'[x] \notin dim'
    <3>1. CASE x = mesh
      BY <1>1, <2>2, <2>3, <3>1
    <3>2. CASE x # mesh
      BY <1>1, <2>3, <3>2 DEF ShownIsVisible
    <3> QED BY <3>1, <3>2
  <2>4. animations'[mesh'] >= 2 => originalMaterial' \notin dim'
    BY <1>1, <2>2
  <2> QED BY <2>3, <2>4 DEF ShownIsVisible, KeptVisible
<1>4. ASSUME NEW x \in Meshes, TimerAhead(x), College[x] # College[name]
      PROVE  TimerAhead(x)'
  <2>1. PICK i \in 1..Len(timers) : College[timers[i]] = College[x]
    BY <1>4 DEF TimerAhead
  <2>2. timers[1] = name /\ Len(timers') = Len(timers) - 1
    BY <1>1
  <2>3. i \in 2..Len(timers)
    BY <1>4, <2>1, <2>2
  <2>4. i - 1 \in 1..Len(timers') /\ timers'[i - 1] = timers[i]
    <3>1. \A j \in 1..(Len(timers) - 1) : timers'[j] = timers[j + 1]
      BY <1>1
    <3>2. i - 1 \in 1..(Len(timers) - 1) /\ (i - 1) + 1 = i
      BY <2>3
    <3> QED BY <2>2, <3>1, <3>2
  <2> QED BY <2>1, <2>4 DEF TimerAhead
<1>5. ASSUME NEW x \in Meshes, material'[x] \in dim'
      PROVE  College[x] # College[name]
  <2>1. animations'[x] \in Nat
    <3>1. animations \in [Meshes -> Nat] /\ animations[mesh] \in Nat
      BY <1>1
    <3> QED BY <1>1, <3>1
  <2>2. animations'[x] = 0
    BY <1>3, <1>5, <2>1 DEF ShownIsVisible
  <2> QED BY <1>1, <1>5, <2>2
<1>6. DimIsTimed'
  <2>1. ASSUME NEW x \in Meshes, material'[x] \in dim'
        PROVE  TimerAhead(x)'
    <3>1. TimerAhead(x)
      BY <1>1, <2>1 DEF DimIsTimed
    <3> QED BY <1>4, <1>5, <2>1, <3>1
  <2>2. originalMaterial' = material'[mesh]
    BY <1>1
  <2>3. (originalMaterial \in dim => TimerAhead(mesh))'
    BY <1>1, <2>1, <2>2 DEF TimerAhead
  <2> QED BY <2>1, <2>3 DEF DimIsTimed
<1> QED BY <1>2, <1>3, <1>6

\* The invariant holds always.
LEMMA HighlightInvariant == HighlightSpec => []HighlightInv
<1>1. HighlightInit => HighlightInv
  <2> SUFFICES ASSUME HighlightInit PROVE HighlightInv
    OBVIOUS
  <2>1. HighlightTypeOK
    <3> USE MeshAssumption DEF HighlightInit
    <3>1. todo \in Seq(Meshes) /\ timers \in Seq(Meshes) /\ Len(todo) = 0 /\ Len(timers) = 0
      OBVIOUS
    <3>2. material \in [Meshes -> Meshes \cup 1..made] /\ animations \in [Meshes -> Nat]
      OBVIOUS
    <3>3. frame \in 0..(MaxFrames - 1)
      OBVIOUS
    <3>4. /\ made \in Nat /\ made + 0 <= MaxHighlights /\ 0 <= made
          /\ dim \subseteq Meshes \cup 1..made
      OBVIOUS
    <3>5. overlapped \in BOOLEAN /\ animating \in BOOLEAN
      BY Zenon
    <3> HIDE DEF HighlightInit
    <3>6. mesh = 0 /\ made = 0 /\ originalMaterial = 0 /\ camera = 0 /\ target = 0
      BY DEF HighlightInit
    <3> QED BY <3>1, <3>2, <3>3, <3>4, <3>5, <3>6 DEF HighlightTypeOK
  <2>2. OwnMaterial /\ KeptBelongs /\ ShownIsVisible /\ KeptVisible /\ DimIsTimed
    BY MeshAssumption DEF HighlightInit, OwnMaterial, KeptBelongs, ShownIsVisible,
       KeptVisible, DimIsTimed
  <2> QED BY <2>1, <2>2 DEF HighlightInv
<1>2. HighlightInv /\ [HighlightNext]_highlightVars => HighlightInv'
  <2> SUFFICES ASSUME HighlightInv, [HighlightNext]_highlightVars
               PROVE  HighlightInv'
    OBVIOUS
  <2>1. HighlightTypeOK'
    BY TypeStep DEF HighlightInv
  <2>2. CASE HlMesh
    BY <2>1, <2>2, HlMeshStep DEF HighlightInv
  <2>3. CASE TimeUp
    BY <2>1, <2>3, TimeUpStep DEF HighlightInv
  <2>4. CASE UNCHANGED <<made, scene, globals, timers, overlapped>>
    BY <2>1, <2>4 DEF HighlightInv, OwnMaterial, KeptBelongs, ShownIsVisible,
       KeptVisible, DimIsTimed, TimerAhead
  <2> QED
    BY <2>2, <2>3, <2>4 DEF HighlightNext, Request, BeforeRender, highlightVars
<1> QED BY <1>1, <1>2, PTL DEF HighlightSpec

\* The types, for every scene and any number of highlights.
THEOREM HighlightTypeCorrect == HighlightSpec => []HighlightTypeOK
BY HighlightInvariant, PTL DEF HighlightInv

\* No mesh is transparent when the last timeout of hlMesh has run.
THEOREM NobodyEverStaysDim == HighlightSpec => []NobodyStaysDim
<1>1. HighlightInv => NobodyStaysDim
  BY DEF HighlightInv, HighlightTypeOK, DimIsTimed, TimerAhead, NobodyStaysDim
<1> QED BY <1>1, HighlightInvariant, PTL

\* A mesh being shown is not transparent, and no material has two meshes.
THEOREM ShownIsAlwaysVisible == HighlightSpec => [](ShownIsVisible /\ OwnMaterial)
BY HighlightInvariant, PTL DEF HighlightInv

\* Between highlights that never overlapped, the page is as it was loaded; while
\* one is shown, its timeout will undo all of it.
ApartIsClean ==
    ~overlapped =>
        \/ /\ timers = <<>>
           /\ \A x \in Meshes : material[x] = x /\ animations[x] = 0
        \/ /\ timers = <<mesh>> /\ originalMaterial = mesh /\ mesh \in Meshes
           /\ animations[mesh] = 1
           /\ \A x \in Meshes : x # mesh => material[x] = x /\ animations[x] = 0

\* The camera is at, or on its way to, the mesh highlighted last.
CameraFollows ==
    /\ animating => target = mesh
    /\ ~animating => camera = mesh

LEMMA Settling ==
    ASSUME HighlightTypeOK, ApartIsClean, CameraFollows, [HighlightNext]_highlightVars
    PROVE  ApartIsClean' /\ CameraFollows'
<1> USE DEF scene, globals, view, HighlightTypeOK
<1>1. CASE HlMesh
  <2> DEFINE m == mesh'
  <2>1. /\ m \in Meshes /\ mesh' = m /\ material' = [material EXCEPT ![m] = made']
        /\ originalMaterial' = material[m] /\ animations' = [animations EXCEPT ![m] = @ + 1]
        /\ timers' = Append(timers, m) /\ overlapped' = (overlapped \/ timers # <<>>)
        /\ target' = m /\ animating' = TRUE
    BY <1>1 DEF HlMesh, NewMaterial, MoveCamera
  <2> HIDE DEF m
  <2>2. CameraFollows'
    BY <2>1 DEF CameraFollows
  <2>3. ApartIsClean'
    <3> SUFFICES ASSUME ~overlapped'
                 PROVE  /\ timers' = <<m>> /\ originalMaterial' = m
                        /\ animations'[m] = 1
                        /\ \A x \in Meshes : x # m => material'[x] = x /\ animations'[x] = 0
      BY <2>1 DEF ApartIsClean
    <3>1. ~overlapped /\ timers = <<>>
      BY <2>1
    <3>2. \A x \in Meshes : material[x] = x /\ animations[x] = 0
      BY <3>1 DEF ApartIsClean
    <3>3. timers' = <<m>>
      BY <2>1, <3>1
    <3> QED BY <2>1, <3>2, <3>3
  <2> QED BY <2>2, <2>3
<1>2. CASE TimeUp
  <2>1. /\ timers # <<>> /\ timers' = Tail(timers)
        /\ animations' = [animations EXCEPT ![mesh] = IF @ = 0 THEN 0 ELSE @ - 1]
        /\ material' = [material EXCEPT ![mesh] = originalMaterial]
        /\ UNCHANGED <<mesh, overlapped, animating, target, camera>>
    BY <1>2 DEF TimeUp, Restore
  <2>2. CameraFollows'
    BY <2>1 DEF CameraFollows
  <2>3. ApartIsClean'
    <3> SUFFICES ASSUME ~overlapped
                 PROVE  /\ timers' = <<>>
                        /\ \A x \in Meshes : material'[x] = x /\ animations'[x] = 0
      BY <2>1 DEF ApartIsClean
    <3>1. /\ timers = <<mesh>> /\ originalMaterial = mesh /\ mesh \in Meshes
          /\ animations[mesh] = 1
          /\ \A x \in Meshes : x # mesh => material[x] = x /\ animations[x] = 0
      BY <2>1 DEF ApartIsClean
    <3>2. timers' = <<>>
      BY <2>1, <3>1
    <3> QED BY <2>1, <3>1, <3>2
  <2> QED BY <2>2, <2>3
<1>3. CASE BeforeRender
  <2>1. /\ animating /\ UNCHANGED <<scene, globals, timers, overlapped, target>>
        /\ \/ camera' = target /\ animating' = FALSE
           \/ UNCHANGED animating
    BY <1>3 DEF BeforeRender
  <2> QED BY <2>1 DEF ApartIsClean, CameraFollows
<1>4. CASE UNCHANGED <<scene, globals, timers, overlapped, view>>
  BY <1>4 DEF ApartIsClean, CameraFollows
<1> QED BY <1>1, <1>2, <1>3, <1>4 DEF HighlightNext, Request, highlightVars

\* Highlights that never overlapped leave nothing behind, and the camera comes
\* to rest on the mesh highlighted last, for any scene and any requests.
THEOREM PageAlwaysSettles == HighlightSpec => []PageSettles
<1>1. HighlightInit => ApartIsClean /\ CameraFollows
  BY MeshAssumption DEF HighlightInit, ApartIsClean, CameraFollows
<1>2. ApartIsClean /\ CameraFollows => PageSettles
  BY DEF ApartIsClean, CameraFollows, PageSettles, CleanWhenApart, CameraOnLast
<1> QED BY <1>1, <1>2, HighlightTypeCorrect, Settling, PTL DEF HighlightSpec

-----------------------------------------------------------------------------
(* MQTT packets as bytes *)

StreamTypes ==
    /\ sent \in Seq(Nat) /\ stream \in Seq(Nat) /\ arrived \in 0..Len(stream)
    /\ reading \in {"header", "length", "body"} /\ head \in Nat /\ rem_len \in Nat
    /\ got \in Seq(Nat \X Seq(Nat)) /\ cut \in BOOLEAN

\* e[i] is the place of the last byte of the i-th packet, counted from what is
\* read next: the packets lie in the stream one behind the other, and nothing
\* else does.
Laid(e, bytes, n) ==
    /\ e \in [0..Len(sent) -> Int] /\ n \in 0..Len(sent)
    /\ e[Len(sent)] = Len(bytes)
    /\ \A i \in 1..Len(sent) :
          /\ e[i] = e[i - 1] + 2 + sent[i] /\ e[i] <= Len(bytes)
          /\ e[i - 1] + 1 >= 1 => bytes[e[i - 1] + 1] = 100 + i
          /\ e[i - 1] + 2 >= 1 => bytes[e[i - 1] + 2] = sent[i]
          /\ \A b \in 1..sent[i] : e[i - 1] + 2 + b >= 1 => bytes[e[i - 1] + 2 + b] = i

\* What was read of the packet under way.
Within == CASE reading = "header" -> 0 [] reading = "length" -> 1 [] reading = "body" -> 2

Framed(e) == Laid(e, stream, Len(got)) /\ e[Len(got)] = 0 - Within

InFrames == \E e : Framed(e)

Under == /\ reading # "header" => head = 100 + Len(got) + 1
         /\ reading = "body" => rem_len = sent[Len(got) + 1]

FrameInv == ~cut => InFrames /\ Under /\ PacketsAsSent

LEMMA SizesInBytes ==
    /\ BodySizes \subseteq Nat /\ Lengths \subseteq Nat
    /\ \A n \in Lengths : n < 128 * 128 * 128 * 128
<1>1. ASSUME NEW n \in BodySizes PROVE n \in Nat
  <2>1. n \in 0..127
    BY StreamAssumption
  <2> QED BY <2>1
<1>2. ASSUME NEW n \in Lengths PROVE n \in Nat /\ n < 128 * 128 * 128 * 128
  <2>1. PICK t \in Nat : t = 128 * 128 * 128 * 128
    OBVIOUS
  <2>2. n \in 0..(t - 1)
    BY <2>1, StreamAssumption
  <2>3. n \in Nat /\ n < t
    BY <2>2
  <2> QED BY <2>1, <2>3
<1> QED BY <1>1, <1>2

IsJoin(c, a, b) == a \in Seq(Nat) /\ b \in Seq(Nat) /\ c = a \o b
Joins(c, a, b) ==
    /\ c \in Seq(Nat) /\ Len(c) = Len(a) + Len(b)
    /\ \A j \in 1..Len(a) : c[j] = a[j]
    /\ \A j \in 1..Len(b) : c[Len(a) + j] = b[j]

LEMMA JoinedSeq == ASSUME NEW c, NEW a, NEW b, IsJoin(c, a, b) PROVE Joins(c, a, b)
<1>1. a \in Seq(Nat) /\ b \in Seq(Nat) /\ c = a \o b /\ Len(a) \in Nat /\ Len(b) \in Nat
  BY DEF IsJoin
<1>2. c \in Seq(Nat) /\ Len(c) = Len(a) + Len(b)
  BY <1>1
<1>3. ASSUME NEW j \in 1..Len(a) PROVE c[j] = a[j]
  BY <1>1
<1>4. ASSUME NEW j \in 1..Len(b) PROVE c[Len(a) + j] = b[j]
  <2>1. PICK k : k = Len(a) + j
    OBVIOUS
  <2>2. k \in 1..(Len(a) + Len(b)) /\ k > Len(a) /\ k - Len(a) = j
    BY <1>1, <2>1
  <2>3. c[k] = b[k - Len(a)]
    BY <1>1, <2>2
  <2> QED BY <2>1, <2>2, <2>3
<1> QED BY <1>2, <1>3, <1>4 DEF Joins

Shifted(f, e, k) == \A i \in 0..Len(sent) : f[i] = e[i] - k

\* Bytes are taken off the front.
LEMMA TakenOff ==
    ASSUME sent \in Seq(Nat), stream \in Seq(Nat), NEW n, NEW e, Laid(e, stream, n),
           NEW k \in Nat, k <= Len(stream), NEW rest, rest = SubSeq(stream, k + 1, Len(stream))
    PROVE  \E f : Laid(f, rest, n) /\ Shifted(f, e, k)
<1>0. PICK m \in Nat, l \in Nat : m = Len(sent) /\ l = Len(stream)
  OBVIOUS
<1>1. /\ e \in [0..m -> Int] /\ n \in 0..m /\ e[m] = l
      /\ \A i \in 1..m : sent[i] \in Nat /\ e[i] = e[i - 1] + 2 + sent[i] /\ e[i] <= l
  BY <1>0 DEF Laid
<1>2. \A i \in 0..m : e[i] \in Int
  BY <1>1
<1>3. PICK f : f = [i \in 0..m |-> e[i] - k]
  OBVIOUS
<1>4. \A i \in 0..m : f[i] = e[i] - k /\ f[i] \in Int
  BY <1>2, <1>3
<1>5. f \in [0..m -> Int]
  BY <1>3, <1>4
<1>6. Len(rest) = l - k /\ \A j \in 1..(l - k) : rest[j] = stream[j + k]
  <2>1. stream \in Seq(Nat) /\ l = Len(stream) /\ k \in Nat /\ k <= l /\ l \in Nat /\ rest = SubSeq(stream, k + 1, l)
    BY <1>0
  <2>2. Len(rest) = l - k
    BY <2>1
  <2>3. ASSUME NEW j \in 1..(l - k) PROVE rest[j] = stream[k + 1 + j - 1]
    BY <2>1
  <2>4. \A j \in 1..(l - k) : k + 1 + j - 1 = j + k
    BY <2>1
  <2> QED BY <2>2, <2>3, <2>4
<1>7. m \in 0..m /\ f[m] = Len(rest)
  BY <1>1, <1>4, <1>6
<1>8. ASSUME NEW i \in 1..m
      PROVE  /\ f[i] = f[i - 1] + 2 + sent[i] /\ f[i] <= Len(rest)
             /\ f[i - 1] + 1 >= 1 => rest[f[i - 1] + 1] = 100 + i
             /\ f[i - 1] + 2 >= 1 => rest[f[i - 1] + 2] = sent[i]
             /\ \A b \in 1..sent[i] : f[i - 1] + 2 + b >= 1 => rest[f[i - 1] + 2 + b] = i
  <2>0. i - 1 \in 0..m /\ i \in 0..m
    OBVIOUS
  <2>1. PICK bs \in Nat, g \in Int, h \in Int : bs = sent[i] /\ g = e[i - 1] /\ h = e[i]
    BY <1>1, <1>2, <2>0
  <2>2. /\ h = g + 2 + bs /\ h <= l
        /\ g + 1 >= 1 => stream[g + 1] = 100 + i
        /\ g + 2 >= 1 => stream[g + 2] = bs
        /\ \A b \in 1..bs : g + 2 + b >= 1 => stream[g + 2 + b] = i
    BY <1>0, <2>1 DEF Laid
  <2>3. f[i] = h - k /\ f[i - 1] = g - k
    BY <1>4, <2>0, <2>1
  <2>4. ASSUME NEW j \in 1..(2 + bs), (g - k) + j >= 1
        PROVE  rest[(g - k) + j] = stream[g + j] /\ g + j >= 1
    <3>1. (g - k) + j \in 1..(l - k) /\ (g - k) + j + k = g + j
      BY <2>2, <2>4
    <3> QED BY <1>6, <2>4, <3>1
  <2>5. /\ (g - k) + 1 >= 1 => rest[(g - k) + 1] = 100 + i
        /\ (g - k) + 2 >= 1 => rest[(g - k) + 2] = bs
    <3>1. 1 \in 1..(2 + bs) /\ 2 \in 1..(2 + bs)
      OBVIOUS
    <3> QED BY <2>2, <2>4, <3>1
  <2>6. ASSUME NEW b \in 1..bs, (g - k) + 2 + b >= 1 PROVE rest[(g - k) + 2 + b] = i
    <3>1. 2 + b \in 1..(2 + bs) /\ (g - k) + (2 + b) = (g - k) + 2 + b /\ g + (2 + b) = g + 2 + b
      OBVIOUS
    <3>2. rest[(g - k) + (2 + b)] = stream[g + (2 + b)] /\ g + (2 + b) >= 1
      BY <2>4, <2>6, <3>1
    <3> QED BY <2>2, <3>1, <3>2
  <2>7. h - k = (g - k) + 2 + bs /\ h - k <= l - k
    BY <2>2
  <2> QED BY <1>6, <2>1, <2>3, <2>5, <2>6, <2>7
<1>9. Laid(f, rest, n)
  BY <1>0, <1>1, <1>5, <1>7, <1>8 DEF Laid
<1> QED BY <1>0, <1>4, <1>9 DEF Shifted

LEMMA InitFrames == StreamInit => StreamTypes /\ FrameInv
<1> SUFFICES ASSUME StreamInit PROVE StreamTypes /\ FrameInv
  OBVIOUS
<1>1. StreamTypes
  <2>1. <<>> \in Seq(Nat \X Seq(Nat)) /\ <<>> \in Seq(Nat)
    OBVIOUS
  <2>2. Len(stream) = 0 /\ arrived = 0 /\ 0 \in 0..0
    BY DEF StreamInit
  <2>3. sent \in Seq(Nat) /\ stream \in Seq(Nat) /\ got \in Seq(Nat \X Seq(Nat))
    BY <2>1 DEF StreamInit
  <2>4. head \in Nat /\ rem_len \in Nat /\ cut \in BOOLEAN /\ reading \in {"header", "length", "body"}
    BY DEF StreamInit
  <2> QED BY <2>2, <2>3, <2>4 DEF StreamTypes
<1>2. InFrames
  <2>1. PICK e : e = [i \in 0..0 |-> 0]
    OBVIOUS
  <2>2. Len(sent) = 0 /\ Len(stream) = 0 /\ Len(got) = 0 /\ reading = "header"
    BY DEF StreamInit
  <2>3. e \in [0..0 -> Int] /\ e[0] = 0 /\ 0 \in 0..0 /\ 1..0 = {}
    BY <2>1
  <2> QED BY <2>2, <2>3 DEF InFrames, Framed, Laid, Within
<1>3. Under /\ PacketsAsSent
  BY DEF StreamInit, Under, PacketsAsSent
<1> QED BY <1>1, <1>2, <1>3 DEF FrameInv

\* A packet is appended.
LEMMA AppendedLaid ==
    ASSUME sent \in Seq(Nat), stream \in Seq(Nat), InFrames, NEW size \in Nat,
           sent' = Append(sent, size), stream' = stream \o PacketBytes(Len(sent'), size),
           UNCHANGED <<got, reading>>
    PROVE  InFrames'
<1> PICK e : Framed(e)
  BY DEF InFrames
<1> PICK n : n = Len(got)
  OBVIOUS
<1>a. Laid(e, stream, n) /\ e[n] = 0 - Within
  BY DEF Framed
<1>0. PICK m \in Nat, l \in Nat : m = Len(sent) /\ l = Len(stream)
  OBVIOUS
<1>1. /\ e \in [0..m -> Int] /\ n \in 0..m /\ e[m] = l
      /\ \A i \in 1..m : sent[i] \in Nat /\ e[i] = e[i - 1] + 2 + sent[i] /\ e[i] <= l
  BY <1>0, <1>a DEF Laid
<1>2. \A i \in 0..m : e[i] \in Int
  BY <1>1
<1>3. PICK f : f = [i \in 0..(m + 1) |-> IF i = m + 1 THEN l + 2 + size ELSE e[i]]
  OBVIOUS
<1>4. f[m + 1] = l + 2 + size /\ \A i \in 0..m : f[i] = e[i] /\ f[i] \in Int
  BY <1>2, <1>3
<1>5. f \in [0..(m + 1) -> Int]
  BY <1>2, <1>3
<1>6. Len(sent') = m + 1 /\ sent'[m + 1] = size /\ \A i \in 1..m : sent'[i] = sent[i]
  BY <1>0
<1>7. PICK pack : pack = PacketBytes(m + 1, size)
  OBVIOUS
<1>8. /\ pack \in Seq(Nat) /\ Len(pack) = 2 + size /\ pack[1] = 100 + (m + 1) /\ pack[2] = size
      /\ \A b \in 1..size : pack[2 + b] = m + 1
  <2>1. PICK body : body = [b \in 1..size |-> m + 1]
    OBVIOUS
  <2>2. body \in Seq(Nat) /\ Len(body) = size /\ \A b \in 1..size : body[b] = m + 1
    BY <2>1
  <2>3. PICK front : front = <<100 + (m + 1), size>>
    OBVIOUS
  <2>4. front \in Seq(Nat) /\ Len(front) = 2 /\ front[1] = 100 + (m + 1) /\ front[2] = size
    BY <2>3
  <2>5. pack = front \o body
    BY <1>7, <2>1, <2>3 DEF PacketBytes
  <2>6. Joins(pack, front, body)
    BY <2>2, <2>4, <2>5, JoinedSeq DEF IsJoin
  <2>7. 1 \in 1..2 /\ 2 \in 1..2
    OBVIOUS
  <2> QED BY <2>2, <2>4, <2>6, <2>7 DEF Joins
<1>9. /\ Len(stream') = l + 2 + size
      /\ \A j \in 1..l : stream'[j] = stream[j]
      /\ \A j \in 1..(2 + size) : stream'[l + j] = pack[j]
  <2>1. stream' = stream \o pack
    BY <1>6, <1>7
  <2>2. Joins(stream', stream, pack)
    BY <1>8, <2>1, JoinedSeq DEF IsJoin
  <2>3. l + (2 + size) = l + 2 + size
    BY <1>0
  <2> QED BY <1>0, <1>8, <2>2, <2>3 DEF Joins
<1>10. ASSUME NEW i \in 1..(m + 1)
      PROVE  /\ f[i] = f[i - 1] + 2 + sent'[i] /\ f[i] <= Len(stream')
             /\ f[i - 1] + 1 >= 1 => stream'[f[i - 1] + 1] = 100 + i
             /\ f[i - 1] + 2 >= 1 => stream'[f[i - 1] + 2] = sent'[i]
             /\ \A b \in 1..sent'[i] : f[i - 1] + 2 + b >= 1 => stream'[f[i - 1] + 2 + b] = i
  <2>1. CASE i = m + 1
    <3>1. f[i - 1] = l /\ i - 1 \in 0..m
      BY <1>1, <1>4, <2>1
    <3>2. 1 \in 1..(2 + size) /\ 2 \in 1..(2 + size)
      OBVIOUS
    <3>3. stream'[l + 1] = 100 + i /\ stream'[l + 2] = size
      BY <1>8, <1>9, <2>1, <3>2
    <3>4. ASSUME NEW b \in 1..size PROVE stream'[l + 2 + b] = i
      <4>1. 2 + b \in 1..(2 + size) /\ l + (2 + b) = l + 2 + b
        OBVIOUS
      <4> QED BY <1>8, <1>9, <2>1, <4>1
    <3>5. f[i] = l + 2 + size /\ sent'[i] = size /\ Len(stream') = l + 2 + size /\ l + 2 + size <= l + 2 + size
      BY <1>4, <1>6, <1>9, <2>1
    <3> QED BY <3>1, <3>3, <3>4, <3>5
  <2>2. CASE i # m + 1
    <3>0. i \in 1..m /\ i - 1 \in 0..m /\ i \in 0..m
      BY <2>2
    <3>1. PICK bs \in Nat, g \in Int, h \in Int : bs = sent[i] /\ g = e[i - 1] /\ h = e[i]
      BY <1>1, <1>2, <3>0
    <3>2. /\ h = g + 2 + bs /\ h <= l
          /\ g + 1 >= 1 => stream[g + 1] = 100 + i
          /\ g + 2 >= 1 => stream[g + 2] = bs
          /\ \A b \in 1..bs : g + 2 + b >= 1 => stream[g + 2 + b] = i
      BY <1>0, <1>a, <3>0, <3>1 DEF Laid
    <3>3. \A j \in 1..(2 + bs) : g + j >= 1 => g + j \in 1..l
      BY <3>2
    <3>4. \A j \in 1..(2 + bs) : g + j >= 1 => stream'[g + j] = stream[g + j]
      BY <1>9, <3>3
    <3>5. 1 \in 1..(2 + bs) /\ 2 \in 1..(2 + bs)
      OBVIOUS
    <3>6. ASSUME NEW b \in 1..bs, g + 2 + b >= 1 PROVE stream'[g + 2 + b] = i
      <4>1. 2 + b \in 1..(2 + bs) /\ g + (2 + b) = g + 2 + b
        OBVIOUS
      <4> QED BY <3>2, <3>4, <3>6, <4>1
    <3>7. h <= l + 2 + size
      BY <3>2
    <3>8. f[i] = h /\ f[i - 1] = g /\ sent'[i] = bs
      BY <1>4, <1>6, <3>0, <3>1
    <3> QED BY <1>9, <3>2, <3>4, <3>5, <3>6, <3>7, <3>8
  <2> QED BY <2>1, <2>2
<1>11. m + 1 \in 0..(m + 1) /\ n \in 0..(m + 1)
  BY <1>1
<1>12. (Laid(f, stream, n))'
  BY <1>4, <1>5, <1>6, <1>9, <1>10, <1>11 DEF Laid
<1>13. f[n] = 0 - Within'
  BY <1>a, <1>1, <1>4 DEF Within
<1> QED BY <1>12, <1>13 DEF InFrames, Framed

\* While a packet is being read it has been sent.
LEMMA MoreToCome ==
    ASSUME StreamTypes, InFrames
    PROVE  /\ reading # "header" => Len(got) + 1 \in 1..Len(sent)
           /\ stream # <<>> => Len(got) + 1 \in 1..Len(sent)
           /\ Len(got) \in 0..Len(sent)
<1>1. PICK e : Framed(e)
  BY DEF InFrames
<1>2. PICK m \in Nat, n \in Nat, l \in Nat : m = Len(sent) /\ n = Len(got) /\ l = Len(stream)
  BY DEF StreamTypes
<1>3. n \in 0..m /\ e[m] = l /\ e[n] = 0 - Within
  BY <1>1, <1>2 DEF Framed, Laid
<1>4. Within \in Nat /\ (reading # "header" => Within > 0)
  BY DEF StreamTypes, Within
<1>5. stream # <<>> => l > 0
  BY <1>2 DEF StreamTypes
<1>6. (reading # "header" \/ l > 0) => n # m
  BY <1>3, <1>4
<1>7. n # m => n + 1 \in 1..m
  BY <1>3
<1> QED BY <1>2, <1>3, <1>5, <1>6, <1>7

LEMMA SendsFramed ==
    ASSUME StreamTypes, FrameInv, Sends
    PROVE  StreamTypes' /\ FrameInv'
<1>1. PICK size \in BodySizes : sent' = Append(sent, size) /\ stream' = stream \o PacketBytes(Len(sent'), size)
  BY DEF Sends
<1>2. size \in Nat /\ UNCHANGED <<arrived, reading, head, rem_len, got, cut, tried>>
  BY SizesInBytes DEF Sends
<1>3. sent \in Seq(Nat) /\ stream \in Seq(Nat) /\ Len(sent) \in Nat
  BY DEF StreamTypes
<1>4. sent' \in Seq(Nat) /\ Len(sent') = Len(sent) + 1 /\ \A i \in 1..Len(sent) : sent'[i] = sent[i]
  BY <1>1, <1>2, <1>3
<1>5. stream' \in Seq(Nat) /\ Len(stream') >= Len(stream)
  <2>1. PICK pack : pack = PacketBytes(Len(sent'), size)
    OBVIOUS
  <2>2. Len(sent') \in Nat
    BY <1>3, <1>4
  <2>3. PICK body : body = [b \in 1..size |-> Len(sent')]
    OBVIOUS
  <2>4. body \in Seq(Nat)
    BY <1>2, <2>2, <2>3
  <2>5. <<100 + Len(sent'), size>> \in Seq(Nat)
    BY <1>2, <2>2
  <2>6. pack \in Seq(Nat)
    BY <2>1, <2>3, <2>4, <2>5 DEF PacketBytes
  <2> QED BY <1>1, <1>3, <2>1, <2>6
<1>6. StreamTypes'
  BY <1>2, <1>3, <1>4, <1>5 DEF StreamTypes
<1> SUFFICES ASSUME ~cut' PROVE InFrames' /\ Under' /\ PacketsAsSent'
  BY <1>6 DEF FrameInv
<1>7. InFrames
  BY <1>2 DEF FrameInv
<1>8. Under /\ PacketsAsSent /\ ~cut
  BY <1>2 DEF FrameInv
<1>12. InFrames'
  BY <1>1, <1>2, <1>3, <1>7, AppendedLaid
<1>13. Under'
  BY <1>2, <1>3, <1>4, <1>7, <1>8, MoreToCome DEF Under
<1>14. PacketsAsSent'
  <2>1. ASSUME NEW i \in 1..Len(got)
        PROVE  i \in 1..Len(sent) /\ got[i] = <<100 + i, [b \in 1..sent[i] |-> i]>>
    BY <1>8, <1>3 DEF PacketsAsSent, StreamTypes
  <2>2. ASSUME NEW i \in 1..Len(got)
        PROVE  i <= Len(sent') /\ got[i] = <<100 + i, [b \in 1..sent'[i] |-> i]>>
    <3>1. PICK bs : bs = sent[i]
      OBVIOUS
    <3>2. i \in 1..Len(sent)
      BY <2>1
    <3>4. i <= Len(sent') /\ sent'[i] = bs
      BY <1>3, <1>4, <3>1, <3>2
    <3>3. got[i] = <<100 + i, [b \in 1..bs |-> i]>>
      BY <2>1, <3>1
    <3> QED BY <3>3, <3>4
  <2> QED BY <1>2, <2>2 DEF PacketsAsSent
<1> QED BY <1>12, <1>13, <1>14

\* Bytes are read, and the packets are where they are to be read next.
LEMMA MovesOn ==
    ASSUME StreamTypes, NEW e, Framed(e), NEW k \in Nat, Taken(k), UNCHANGED sent,
           Len(got') \in 0..Len(sent), e[Len(got')] - k = 0 - Within'
    PROVE  InFrames'
<1>1. PICK n : n = Len(got')
  OBVIOUS
<1>2. Laid(e, stream, n) /\ sent \in Seq(Nat) /\ stream \in Seq(Nat) /\ k <= Len(stream) /\ n \in 0..Len(sent)
  <2>1. arrived <= Len(stream) /\ k <= arrived
    BY DEF StreamTypes, Taken
  <2>2. k <= Len(stream)
    BY <2>1 DEF StreamTypes
  <2> QED BY <1>1, <2>2 DEF Framed, Laid, StreamTypes
<1>3. PICK rest : rest = SubSeq(stream, k + 1, Len(stream)) /\ rest = stream'
  BY DEF Taken
<1>4. PICK f : Laid(f, rest, n) /\ Shifted(f, e, k)
  BY <1>2, <1>3, TakenOff
<1>5. f[n] = 0 - Within'
  BY <1>1, <1>2, <1>4 DEF Shifted
<1>6. Laid(f, rest, n)'
  BY <1>4 DEF Laid
<1>7. Laid(f, stream, Len(got))'
  BY <1>1, <1>3, <1>6
<1> QED BY <1>1, <1>5, <1>7 DEF InFrames, Framed

\* What stands at the front of the stream.
LEMMA FrontIs ==
    ASSUME StreamTypes, NEW e, Framed(e), reading # "header" \/ stream # <<>>
    PROVE  /\ Len(got) + 1 \in 1..Len(sent) /\ sent[Len(got) + 1] \in Nat
           /\ e[Len(got) + 1] = 2 + sent[Len(got) + 1] - Within
           /\ e[Len(got) + 1] <= Len(stream)
           /\ reading = "header" => stream[1] = 100 + Len(got) + 1
           /\ reading = "length" => stream[1] = sent[Len(got) + 1]
           /\ reading = "body" => \A b \in 1..sent[Len(got) + 1] : stream[b] = Len(got) + 1
<1>1. PICK m \in Nat, n \in Nat, l \in Nat : m = Len(sent) /\ n = Len(got) /\ l = Len(stream)
  BY DEF StreamTypes
<1>2. n + 1 \in 1..m
  BY <1>1, MoreToCome DEF InFrames
<1>3. PICK i \in 1..m : i = n + 1
  BY <1>2
<1>4. i - 1 = n
  BY <1>3
<1>5. PICK bs \in Nat : bs = sent[i]
  BY <1>1 DEF StreamTypes
<1>6. e[n] = 0 - Within /\ Within \in {0, 1, 2}
  BY <1>1 DEF Framed, StreamTypes, Within
<1>7. /\ e[i] = e[n] + 2 + bs /\ e[i] <= l
      /\ e[n] + 1 >= 1 => stream[e[n] + 1] = 100 + i
      /\ e[n] + 2 >= 1 => stream[e[n] + 2] = bs
      /\ \A b \in 1..bs : e[n] + 2 + b >= 1 => stream[e[n] + 2 + b] = i
  BY <1>1, <1>4, <1>5 DEF Framed, Laid
<1>8. e[i] = 2 + bs - Within
  BY <1>6, <1>7
<1>9. ASSUME reading = "header" PROVE stream[1] = 100 + n + 1
  <2>1. e[n] = 0
    BY <1>6, <1>9 DEF Within
  <2> QED BY <1>3, <1>7, <2>1
<1>10. ASSUME reading = "length" PROVE stream[1] = bs
  <2>1. e[n] = -1
    BY <1>6, <1>10 DEF Within
  <2> QED BY <1>7, <2>1
<1>11. ASSUME reading = "body", NEW b \in 1..bs PROVE stream[b] = n + 1
  <2>1. e[n] = -2
    BY <1>6, <1>11 DEF Within
  <2>2. e[n] + 2 + b = b /\ b >= 1
    BY <2>1
  <2> QED BY <1>3, <1>7, <2>2
<1> QED BY <1>1, <1>2, <1>3, <1>5, <1>7, <1>8, <1>9, <1>10, <1>11

LEMMA TakenTyped ==
    ASSUME StreamTypes, NEW k \in Nat, Taken(k)
    PROVE  stream' \in Seq(Nat) /\ arrived' \in 0..Len(stream')
<1>1. PICK l \in Nat : l = Len(stream)
  BY DEF StreamTypes
<1>2. k <= arrived /\ arrived \in 0..l /\ stream \in Seq(Nat) /\ arrived' = arrived - k
  BY <1>1 DEF Taken, StreamTypes
<1>3. k <= l /\ k + 1 \in 1..(l + 1)
  BY <1>2
<1>4. stream' = SubSeq(stream, k + 1, l)
  BY <1>1 DEF Taken
<1>5. stream' \in Seq(Nat) /\ Len(stream') = l - k
  BY <1>1, <1>2, <1>3, <1>4
<1> QED BY <1>2, <1>5

LEMMA ReadHeaderFramed ==
    ASSUME StreamTypes, FrameInv, ReadHeader
    PROVE  StreamTypes' /\ FrameInv'
<1>1. /\ reading = "header" /\ Taken(1) /\ head' = stream[1] /\ reading' = "length"
      /\ UNCHANGED <<sent, rem_len, got, cut, tried>>
  BY DEF ReadHeader
<1>2. stream # <<>> /\ stream[1] \in Nat
  <2>1. 1 <= Len(stream)
    BY <1>1 DEF Taken, StreamTypes
  <2> QED BY <2>1 DEF StreamTypes
<1>3. StreamTypes'
  <2>1. stream' \in Seq(Nat) /\ arrived' \in 0..Len(stream')
    BY <1>1, TakenTyped
  <2> QED BY <1>1, <1>2, <2>1 DEF StreamTypes
<1> SUFFICES ASSUME ~cut PROVE InFrames' /\ Under' /\ PacketsAsSent'
  BY <1>1, <1>3 DEF FrameInv
<1>4. PICK e : Framed(e)
  BY DEF FrameInv, InFrames
<1>5. stream[1] = 100 + Len(got) + 1
  BY <1>1, <1>2, <1>4, FrontIs
<1>6. InFrames'
  <2>1. e[Len(got')] - 1 = 0 - Within' /\ Len(got') \in 0..Len(sent)
    BY <1>1, <1>4 DEF Framed, Laid, Within
  <2> QED BY <1>1, <1>4, <2>1, MovesOn
<1>7. Under'
  BY <1>1, <1>5 DEF Under
<1>8. PacketsAsSent'
  BY <1>1 DEF PacketsAsSent, FrameInv
<1> QED BY <1>6, <1>7, <1>8

LEMMA ReadLengthFramed ==
    ASSUME StreamTypes, FrameInv, ReadLength
    PROVE  StreamTypes' /\ FrameInv'
<1>1. /\ reading = "length" /\ Taken(1) /\ UNCHANGED <<sent, head, got, tried>>
      /\ IF Fits(stream[1])
         THEN reading' = "body" /\ rem_len' = stream[1] /\ UNCHANGED cut
         ELSE reading' = "header" /\ rem_len' = 0 /\ cut' = TRUE
  BY DEF ReadLength
<1>2. stream # <<>> /\ stream[1] \in Nat
  <2>1. 1 <= Len(stream)
    BY <1>1 DEF Taken, StreamTypes
  <2> QED BY <2>1 DEF StreamTypes
<1>3. StreamTypes'
  <2>1. stream' \in Seq(Nat) /\ arrived' \in 0..Len(stream')
    BY <1>1, TakenTyped
  <2>2. reading' \in {"header", "body"} /\ rem_len' \in Nat /\ cut' \in BOOLEAN
    <3>1. CASE Fits(stream[1])
      BY <1>1, <1>2, <3>1 DEF StreamTypes
    <3>2. CASE ~Fits(stream[1])
      BY <1>1, <3>2
    <3> QED BY <3>1, <3>2
  <2> QED BY <1>1, <2>1, <2>2 DEF StreamTypes
<1> SUFFICES ASSUME ~cut' PROVE InFrames' /\ Under' /\ PacketsAsSent'
  BY <1>1, <1>3 DEF FrameInv
<1>4. reading' = "body" /\ rem_len' = stream[1] /\ ~cut
  BY <1>1
<1>5. PICK e : Framed(e)
  BY <1>4 DEF FrameInv, InFrames
<1>6. stream[1] = sent[Len(got) + 1]
  BY <1>1, <1>2, <1>5, FrontIs
<1>7. InFrames'
  <2>1. e[Len(got')] - 1 = 0 - Within' /\ Len(got') \in 0..Len(sent)
    BY <1>1, <1>4, <1>5 DEF Framed, Laid, Within
  <2> QED BY <1>1, <1>5, <2>1, MovesOn
<1>8. Under'
  BY <1>1, <1>4, <1>6 DEF Under, FrameInv
<1>9. PacketsAsSent'
  BY <1>1, <1>4 DEF PacketsAsSent, FrameInv
<1> QED BY <1>7, <1>8, <1>9

LEMMA ReadBodyFramed ==
    ASSUME StreamTypes, FrameInv, ReadBody
    PROVE  StreamTypes' /\ FrameInv'
<1>0. PICK p : p = <<head, SubSeq(stream, 1, rem_len)>>
  OBVIOUS
<1>1. /\ reading = "body" /\ Taken(rem_len) /\ got' = Append(got, p)
      /\ reading' = "header" /\ head' = 0 /\ rem_len' = 0 /\ UNCHANGED <<sent, cut, tried>>
  BY <1>0 DEF ReadBody
<1>2. rem_len \in Nat /\ rem_len <= Len(stream) /\ stream \in Seq(Nat) /\ got \in Seq(Nat \X Seq(Nat))
  <2>1. rem_len <= arrived /\ arrived <= Len(stream)
    BY <1>1 DEF Taken, StreamTypes
  <2> QED BY <2>1 DEF StreamTypes
<1>3. PICK body : body = SubSeq(stream, 1, rem_len)
  OBVIOUS
<1>4. body \in Seq(Nat) /\ Len(body) = rem_len /\ \A b \in 1..rem_len : body[b] = stream[b]
  BY <1>2, <1>3
<1>5. p \in Nat \X Seq(Nat)
  BY <1>0, <1>3, <1>4 DEF StreamTypes
<1>6. /\ got' \in Seq(Nat \X Seq(Nat)) /\ Len(got') = Len(got) + 1 /\ got'[Len(got) + 1] = p
      /\ \A i \in 1..Len(got) : got'[i] = got[i]
  BY <1>1, <1>2, <1>5
<1>7. StreamTypes'
  <2>1. stream' \in Seq(Nat) /\ arrived' \in 0..Len(stream')
    BY <1>1, <1>2, TakenTyped
  <2> QED BY <1>1, <1>6, <2>1 DEF StreamTypes
<1> SUFFICES ASSUME ~cut PROVE InFrames' /\ Under' /\ PacketsAsSent'
  BY <1>1, <1>7 DEF FrameInv
<1>8. PICK e : Framed(e)
  BY DEF FrameInv, InFrames
<1>9. /\ Len(got) + 1 \in 1..Len(sent) /\ sent[Len(got) + 1] \in Nat
      /\ e[Len(got) + 1] = 2 + sent[Len(got) + 1] - Within
      /\ \A b \in 1..sent[Len(got) + 1] : stream[b] = Len(got) + 1
  BY <1>1, <1>8, FrontIs
<1>10. head = 100 + Len(got) + 1 /\ rem_len = sent[Len(got) + 1]
  BY <1>1 DEF FrameInv, Under
<1>11. InFrames'
  <2>1. e[Len(got')] - rem_len = 0 - Within'
    <3>1. Within = 2 /\ Within' = 0
      BY <1>1 DEF Within
    <3> QED BY <1>2, <1>6, <1>9, <1>10, <3>1
  <2>2. Len(got') \in 0..Len(sent)
    BY <1>6, <1>9, <1>2
  <2> QED BY <1>1, <1>2, <1>8, <2>1, <2>2, MovesOn
<1>12. Under'
  BY <1>1 DEF Under
<1>13. PacketsAsSent'
  <2>1. PICK n \in Nat : n = Len(got)
    BY <1>2
  <2>2. body = [b \in 1..rem_len |-> n + 1]
    BY <1>4, <1>9, <1>10, <2>1
  <2>3. p = <<100 + (n + 1), [b \in 1..sent[n + 1] |-> n + 1]>>
    <3>1. head = 100 + (n + 1)
      BY <1>10, <2>1
    <3> QED BY <1>0, <1>3, <1>10, <2>1, <2>2, <3>1
  <2>4. ASSUME NEW i \in 1..(n + 1)
        PROVE  i <= Len(sent) /\ got'[i] = <<100 + i, [b \in 1..sent[i] |-> i]>>
    <3>1. CASE i = n + 1
      BY <1>6, <1>9, <2>1, <2>3, <3>1
    <3>2. CASE i # n + 1
      <4>1. i \in 1..n
        BY <3>2
      <4>2. got'[i] = got[i]
        BY <1>6, <2>1, <4>1
      <4> QED BY <2>1, <4>1, <4>2 DEF FrameInv, PacketsAsSent
    <3> QED BY <3>1, <3>2
  <2> QED BY <1>1, <1>6, <2>1, <2>4 DEF PacketsAsSent
<1> QED BY <1>11, <1>12, <1>13

LEMMA OthersFramed ==
    ASSUME StreamTypes, FrameInv, BytesArrive \/ BodyCut \/ LengthCut \/ Try \/ UNCHANGED streamVars
    PROVE  StreamTypes' /\ FrameInv'
<1>1. CASE BytesArrive \/ Try \/ UNCHANGED streamVars
  <2>1. UNCHANGED <<sent, stream, reading, head, rem_len, got, cut>> /\ arrived' \in 0..Len(stream)
    <3>1. CASE BytesArrive
      BY <3>1 DEF BytesArrive, StreamTypes
    <3>2. CASE Try \/ UNCHANGED streamVars
      BY <3>2 DEF Try, streamVars, StreamTypes
    <3> QED BY <1>1, <3>1, <3>2
  <2> QED BY <2>1 DEF StreamTypes, FrameInv, InFrames, Framed, Laid, Within, Under, PacketsAsSent
<1>2. CASE BodyCut
  <2>1. /\ Taken(arrived) /\ UNCHANGED <<sent, got>> /\ arrived \in Nat
        /\ reading' = "header" /\ head' = 0 /\ rem_len' = 0 /\ cut' = TRUE
    BY <1>2 DEF BodyCut, StreamTypes
  <2>2. stream' \in Seq(Nat) /\ arrived' \in 0..Len(stream')
    BY <2>1, TakenTyped
  <2> QED BY <2>1, <2>2 DEF StreamTypes, FrameInv
<1>3. CASE LengthCut
  <2>1. /\ got' = Append(got, <<head, <<>>>>) /\ reading' = "header" /\ head' = 0 /\ cut' = TRUE
        /\ UNCHANGED <<sent, stream, arrived, rem_len>>
    BY <1>3 DEF LengthCut
  <2>2. <<>> \in Seq(Nat) /\ head \in Nat /\ got \in Seq(Nat \X Seq(Nat))
    BY DEF StreamTypes
  <2>3. got' \in Seq(Nat \X Seq(Nat))
    <3>1. PICK p \in Nat \X Seq(Nat) : p = <<head, <<>>>>
      BY <2>2
    <3> QED BY <2>1, <2>2, <3>1
  <2> QED BY <2>1, <2>3 DEF StreamTypes, FrameInv
<1> QED BY <1>1, <1>2, <1>3

LEMMA NextFramed == StreamTypes /\ FrameInv /\ [StreamNext]_streamVars => StreamTypes' /\ FrameInv'
<1> SUFFICES ASSUME StreamTypes, FrameInv, [StreamNext]_streamVars PROVE StreamTypes' /\ FrameInv'
  OBVIOUS
<1>1. \/ Sends \/ ReadHeader \/ ReadLength \/ ReadBody
      \/ BytesArrive \/ BodyCut \/ LengthCut \/ Try \/ UNCHANGED streamVars
  BY DEF StreamNext
<1> QED BY <1>1, SendsFramed, ReadHeaderFramed, ReadLengthFramed, ReadBodyFramed, OthersFramed

\* THEOREM: however the bytes of a connection are cut up, readPacket returns the
\* packets that were sent, each whole and in order, until a timer runs out inside
\* one or one does not fit the buffer.
THEOREM WholeInOrder == StreamSpec => []PacketsAsSent
<1>1. StreamTypes /\ FrameInv => PacketsAsSent
  BY DEF FrameInv, PacketsAsSent
<1> QED BY <1>1, InitFrames, NextFramed, PTL DEF StreamSpec

-----------------------------------------------------------------------------
(* The remaining length *)

\* What encode makes of lengths of up to one, two, three and four bytes.
More(n, rest) == IF n < 128 THEN <<n>> ELSE <<(n % 128) + 128>> \o rest
Code1(n) == More(n, <<>>)
Code2(n) == More(n, Code1(n \div 128))
Code3(n) == More(n, Code2(n \div 128))
Code4(n) == More(n, Code3(n \div 128))

LEMMA Divided ==
    ASSUME NEW n \in Nat, NEW t \in Nat, n < t * 128
    PROVE  /\ n \div 128 \in Nat /\ n \div 128 < t /\ n % 128 \in 0..127
           /\ n = 128 * (n \div 128) + (n % 128) /\ n \div 128 <= n
           /\ n >= 128 => n \div 128 > 0
  OBVIOUS

LEMMA CodesAgree ==
    ASSUME NEW n \in Nat
    PROVE  /\ n < 128 => Code2(n) = Code1(n)
           /\ n < 128 * 128 => Code3(n) = Code2(n)
           /\ n < 128 * 128 * 128 => Code4(n) = Code3(n)
<1>1. ASSUME NEW k \in Nat, k < 128 PROVE Code2(k) = Code1(k)
  BY <1>1 DEF Code2, Code1, More
<1>2. ASSUME NEW k \in Nat, k < 128 * 128 PROVE Code3(k) = Code2(k)
  <2>1. k \div 128 \in Nat /\ k \div 128 < 128
    BY <1>2, Divided
  <2>2. Code2(k \div 128) = Code1(k \div 128)
    BY <1>1, <2>1
  <2> QED BY <2>2 DEF Code3, Code2
<1>3. ASSUME NEW k \in Nat, k < 128 * 128 * 128 PROVE Code4(k) = Code3(k)
  <2>1. k \div 128 \in Nat /\ k \div 128 < 128 * 128
    BY <1>3, Divided
  <2>2. Code3(k \div 128) = Code2(k \div 128)
    BY <1>2, <2>1
  <2> QED BY <2>2 DEF Code4, Code3
<1> QED BY <1>1, <1>2, <1>3

LEMMA EncodedIs ==
    ASSUME NEW n \in Nat, n < 128 * 128 * 128 * 128
    PROVE  Encoded(n) = Code4(n)
<1> DEFINE Step(t) == [k \in 0..n |-> IF k < 128 THEN <<k>> ELSE <<(k % 128) + 128>> \o t[k \div 128]]
           c == CHOOSE t : t = Step(t)
<1>1. PICK t : t = [k \in 0..n |-> Code4(k)]
  OBVIOUS
<1>2. ASSUME NEW k \in 0..n, k >= 128 PROVE k \div 128 \in 0..n /\ Code3(k \div 128) = Code4(k \div 128)
  <2>1. k \in Nat /\ k < 128 * 128 * 128 * 128
    OBVIOUS
  <2>2. k \div 128 \in Nat /\ k \div 128 < 128 * 128 * 128 /\ k \div 128 <= k
    BY <2>1, Divided
  <2> QED BY <2>2, CodesAgree
<1>3. ASSUME NEW k \in 0..n PROVE t[k] = IF k < 128 THEN <<k>> ELSE <<(k % 128) + 128>> \o t[k \div 128]
  <2>1. t[k] = Code4(k)
    BY <1>1
  <2>2. CASE k < 128
    BY <2>1, <2>2 DEF Code4, More
  <2>3. CASE ~(k < 128)
    <3>1. t[k \div 128] = Code3(k \div 128)
      BY <1>1, <1>2, <2>3
    <3> QED BY <2>1, <2>3, <3>1 DEF Code4, More
  <2> QED BY <2>2, <2>3
<1>4. t = Step(t)
  BY <1>1, <1>3
<1>5. c = Step(c)
  <2> HIDE DEF Step
  <2> QED BY <1>4
<1>6. Encoded(n) = c[n]
  BY DEF Encoded
<1> HIDE DEF c
<1>7. \A k \in 0..n : c[k] = IF k < 128 THEN <<k>> ELSE <<(k % 128) + 128>> \o c[k \div 128]
  BY <1>5
<1> HIDE DEF Step
<1>8. ASSUME NEW k \in 0..n, k < 128 PROVE c[k] = Code1(k)
  BY <1>7, <1>8 DEF Code1, More
<1>9. ASSUME NEW k \in 0..n, k < 128 * 128 PROVE c[k] = Code2(k)
  <2>1. CASE k < 128
    BY <1>7, <2>1 DEF Code2, More
  <2>2. CASE ~(k < 128)
    <3>1. k \div 128 \in 0..n /\ k \div 128 < 128
      BY <1>2, <1>9, <2>2, Divided
    <3>2. c[k \div 128] = Code1(k \div 128)
      BY <1>8, <3>1
    <3> QED BY <1>7, <2>2, <3>2 DEF Code2, More
  <2> QED BY <2>1, <2>2
<1>10. ASSUME NEW k \in 0..n, k < 128 * 128 * 128 PROVE c[k] = Code3(k)
  <2>1. CASE k < 128
    BY <1>7, <2>1 DEF Code3, More
  <2>2. CASE ~(k < 128)
    <3>1. k \div 128 \in 0..n /\ k \div 128 < 128 * 128
      BY <1>2, <1>10, <2>2, Divided
    <3>2. c[k \div 128] = Code2(k \div 128)
      BY <1>9, <3>1
    <3> QED BY <1>7, <2>2, <3>2 DEF Code3, More
  <2> QED BY <2>1, <2>2
<1>11. c[n] = Code4(n)
  <2>1. n \in 0..n
    OBVIOUS
  <2>2. CASE n < 128
    BY <1>7, <2>1, <2>2 DEF Code4, More
  <2>3. CASE ~(n < 128)
    <3>1. n \div 128 \in 0..n /\ n \div 128 < 128 * 128 * 128
      BY <1>2, <2>1, <2>3, Divided
    <3>2. c[n \div 128] = Code3(n \div 128)
      BY <1>10, <3>1
    <3> QED BY <1>7, <2>1, <2>3, <3>2 DEF Code4, More
  <2> QED BY <2>2, <2>3
<1> QED BY <1>6, <1>11

\* Decoding from the i-th byte.
Reads(bs, i, rest) ==
    IF bs[i] < 128 THEN [len |-> i, value |-> bs[i]]
    ELSE [rest EXCEPT !.value = (bs[i] - 128) + 128 * @]
BadData == [len |-> 5, value |-> 0]

LEMMA DecodedIs ==
    ASSUME NEW bs
    PROVE  Decoded(bs) = Reads(bs, 1, Reads(bs, 2, Reads(bs, 3, Reads(bs, 4, BadData))))
<1> DEFINE Step(t) == [i \in 1..5 |->
               IF i = 5 THEN [len |-> 5, value |-> 0]
               ELSE IF bs[i] < 128 THEN [len |-> i, value |-> bs[i]]
               ELSE [t[i + 1] EXCEPT !.value = (bs[i] - 128) + 128 * @]]
           c == CHOOSE t : t = Step(t)
<1>1. PICK r4 : r4 = Reads(bs, 4, BadData)
  OBVIOUS
<1>2. PICK r3 : r3 = Reads(bs, 3, r4)
  OBVIOUS
<1>3. PICK r2 : r2 = Reads(bs, 2, r3)
  OBVIOUS
<1>4. PICK r1 : r1 = Reads(bs, 1, r2)
  OBVIOUS
<1>5. PICK t : t = [i \in 1..5 |-> IF i = 1 THEN r1 ELSE IF i = 2 THEN r2 ELSE IF i = 3 THEN r3
                                   ELSE IF i = 4 THEN r4 ELSE BadData]
  OBVIOUS
<1>6. t[1] = r1 /\ t[2] = r2 /\ t[3] = r3 /\ t[4] = r4 /\ t[5] = BadData
  BY <1>5
<1>7. ASSUME NEW i \in 1..5
      PROVE  t[i] = IF i = 5 THEN [len |-> 5, value |-> 0]
                    ELSE IF bs[i] < 128 THEN [len |-> i, value |-> bs[i]]
                    ELSE [t[i + 1] EXCEPT !.value = (bs[i] - 128) + 128 * @]
  <2>1. CASE i = 1
    BY <1>4, <1>6, <2>1 DEF Reads
  <2>2. CASE i = 2
    BY <1>3, <1>6, <2>2 DEF Reads
  <2>3. CASE i = 3
    BY <1>2, <1>6, <2>3 DEF Reads
  <2>4. CASE i = 4
    BY <1>1, <1>6, <2>4 DEF Reads
  <2>5. CASE i = 5
    BY <1>6, <2>5 DEF BadData
  <2> QED BY <2>1, <2>2, <2>3, <2>4, <2>5
<1>8. t = Step(t)
  BY <1>5, <1>7
<1>9. c = Step(c)
  <2> HIDE DEF Step
  <2> QED BY <1>8
<1>10. Decoded(bs) = c[1]
  BY DEF Decoded
<1> HIDE DEF c
<1>11. \A i \in 1..5 : c[i] = IF i = 5 THEN [len |-> 5, value |-> 0]
                              ELSE IF bs[i] < 128 THEN [len |-> i, value |-> bs[i]]
                              ELSE [c[i + 1] EXCEPT !.value = (bs[i] - 128) + 128 * @]
  BY <1>9
<1> HIDE DEF Step
<1>12. c[5] = BadData
  BY <1>11 DEF BadData
<1>13. c[4] = r4
  BY <1>1, <1>11, <1>12 DEF Reads
<1>14. c[3] = r3
  BY <1>2, <1>11, <1>13 DEF Reads
<1>15. c[2] = r2
  BY <1>3, <1>11, <1>14 DEF Reads
<1>16. c[1] = r1
  BY <1>4, <1>11, <1>15 DEF Reads
<1> QED BY <1>1, <1>2, <1>3, <1>4, <1>10, <1>16

\* A byte that says that more follow, and the last one.
IsRead(x, k, q) == x = [len |-> k, value |-> q]
Divides(n, q, r) == n \in Nat /\ q \in Nat /\ r \in 0..127 /\ n = 128 * q + r
Follows(bs, i, r) == bs[i] = r + 128

LEMMA ReadsMore ==
    ASSUME NEW bs, NEW i, NEW k, NEW q, NEW r, NEW n, Divides(n, q, r), Follows(bs, i, r),
           NEW x, IsRead(x, k, q), NEW y, y = Reads(bs, i, x)
    PROVE  IsRead(y, k, n)
<1>0. q \in Nat /\ r \in 0..127 /\ n = 128 * q + r
  BY DEF Divides
<1>1. PICK b \in Nat : b = bs[i] /\ b = r + 128
  BY <1>0 DEF Follows
<1>2. (b - 128) + 128 * q = n /\ ~(b < 128)
  BY <1>0, <1>1
<1>3. x = [len |-> k, value |-> q]
  BY DEF IsRead
<1>4. [x EXCEPT !.value = (b - 128) + 128 * @] = [len |-> k, value |-> (b - 128) + 128 * q]
  BY <1>3
<1>5. y = [x EXCEPT !.value = (b - 128) + 128 * @]
  BY <1>1, <1>2 DEF Reads
<1> QED BY <1>2, <1>4, <1>5 DEF IsRead

LEMMA ReadsLast ==
    ASSUME NEW bs, NEW i, NEW n \in Nat, n < 128, bs[i] = n, NEW rest, NEW y, y = Reads(bs, i, rest)
    PROVE  IsRead(y, i, n)
  BY DEF Reads, IsRead

\* One more byte in front, of those that say that more follow.
IsMore(bs, b, rest) == /\ bs \in Seq(Nat) /\ Len(bs) = Len(rest) + 1 /\ bs[1] = b
                      /\ \A j \in 1..Len(rest) : bs[1 + j] = rest[j]

LEMMA OneByte ==
    ASSUME NEW k \in Nat
    PROVE  \E a \in Seq(Nat) : a = <<k>> /\ Len(a) = 1 /\ a[1] = k
<1>1. <<k>> \in Seq(Nat)
  OBVIOUS
<1>2. Len(<<k>>) = 1 /\ <<k>>[1] = k
  OBVIOUS
<1> QED BY <1>1, <1>2

LEMMA MoreIs ==
    ASSUME NEW n \in Nat, n >= 128, NEW r \in 0..127, r = n % 128,
           NEW rest \in Seq(Nat), NEW bs, bs = More(n, rest)
    PROVE  IsMore(bs, r + 128, rest)
<1>1. PICK b \in Nat : b = r + 128
  OBVIOUS
<1>2. PICK a \in Seq(Nat) : a = <<b>> /\ Len(a) = 1 /\ a[1] = b
  BY OneByte
<1>3. bs = a \o rest
  BY <1>1, <1>2 DEF More
<1>4. Joins(bs, a, rest)
  BY <1>2, <1>3, JoinedSeq DEF IsJoin
<1>5. Len(rest) \in Nat
  OBVIOUS
<1>6. bs \in Seq(Nat)
  BY <1>3
<1> QED BY <1>1, <1>2, <1>4, <1>5, <1>6 DEF Joins, IsMore

OfTwo(bs, b, c) == bs \in Seq(Nat) /\ Len(bs) = 2 /\ bs[1] = b /\ bs[2] = c

LEMMA MoreTwo ==
    ASSUME NEW bs, NEW b, NEW rest \in Seq(Nat), IsMore(bs, b, rest), Len(rest) = 1, NEW c, c = rest[1]
    PROVE  OfTwo(bs, b, c)
<1>1. 1 \in 1..Len(rest) /\ 1 + 1 = 2
  OBVIOUS
<1> QED BY <1>1 DEF IsMore, OfTwo

LEMMA MoreThree ==
    ASSUME NEW bs, NEW b, NEW rest \in Seq(Nat), IsMore(bs, b, rest), Len(rest) = 2
    PROVE  bs \in Seq(Nat) /\ Len(bs) = 3 /\ bs[1] = b /\ bs[2] = rest[1] /\ bs[3] = rest[2]
<1>1. 1 \in 1..Len(rest) /\ 2 \in 1..Len(rest) /\ 1 + 1 = 2 /\ 1 + 2 = 3
  OBVIOUS
<1> QED BY <1>1 DEF IsMore

OfFour(bs, b, rest) == /\ bs \in Seq(Nat) /\ Len(bs) = 4 /\ bs[1] = b
                      /\ bs[2] = rest[1] /\ bs[3] = rest[2] /\ bs[4] = rest[3]

LEMMA MoreFour ==
    ASSUME NEW bs, NEW b, NEW rest \in Seq(Nat), IsMore(bs, b, rest), Len(rest) = 3
    PROVE  OfFour(bs, b, rest)
<1>1. 1 \in 1..Len(rest) /\ 2 \in 1..Len(rest) /\ 3 \in 1..Len(rest) /\ 1 + 1 = 2 /\ 1 + 2 = 3 /\ 1 + 3 = 4
  OBVIOUS
<1> QED BY <1>1 DEF IsMore, OfFour

\* The bytes of a length and how many there are.
CodeSize(n) == IF n < 128 THEN 1 ELSE IF n < 128 * 128 THEN 2 ELSE IF n < 128 * 128 * 128 THEN 3 ELSE 4
IsCode(bs, n) == /\ bs = Code4(n) /\ bs \in Seq(Nat) /\ Len(bs) = CodeSize(n)
                /\ Decoded(bs) = [len |-> CodeSize(n), value |-> n]

LEMMA SplitInTwo ==
    ASSUME NEW n \in Nat, NEW t \in Nat, n < t * 128
    PROVE  \E q \in Nat, r \in 0..127 : q = n \div 128 /\ r = n % 128 /\ q < t /\ n = 128 * q + r /\ Divides(n, q, r)
  BY Divided DEF Divides

LEMMA CodeRead ==
    ASSUME NEW bs \in Seq(Nat), NEW n, bs = Code4(n), NEW k, Len(bs) = k, k = CodeSize(n),
           NEW x, NEW y, y = Reads(bs, 1, x), IsRead(y, k, n), x = Reads(bs, 2, Reads(bs, 3, Reads(bs, 4, BadData)))
    PROVE  IsCode(bs, n)
  BY DecodedIs DEF IsCode, IsRead

LEMMA CodeOfOne ==
    ASSUME NEW n \in Nat, n < 128, NEW bs, bs = Code4(n)
    PROVE  IsCode(bs, n)
<1>1. PICK a \in Seq(Nat) : a = <<n>> /\ Len(a) = 1 /\ a[1] = n
  BY OneByte
<1>2. bs = a
  BY <1>1 DEF Code4, More
<1>3. PICK x : x = Reads(bs, 2, Reads(bs, 3, Reads(bs, 4, BadData)))
  OBVIOUS
<1>4. PICK y : y = Reads(bs, 1, x)
  OBVIOUS
<1>5. IsRead(y, 1, n)
  BY <1>1, <1>2, <1>4, ReadsLast
<1>6. CodeSize(n) = 1
  BY DEF CodeSize
<1> QED BY <1>1, <1>2, <1>3, <1>4, <1>5, <1>6, CodeRead

LEMMA CodeOfTwo ==
    ASSUME NEW n \in Nat, NEW n1 \in Nat, NEW r \in 0..127,
           r = n % 128, n1 = n \div 128, Divides(n, n1, r), n1 < 128, n >= 128,
           NEW bs, bs = Code4(n)
    PROVE  IsCode(bs, n)
<1>1. PICK a \in Seq(Nat) : a = <<n1>> /\ Len(a) = 1 /\ a[1] = n1
  BY OneByte
<1>2. Code3(n1) = a
  BY <1>1 DEF Code3, More
<1>3. bs = More(n, a)
  BY <1>2 DEF Code4
<1>4. IsMore(bs, r + 128, a)
  BY <1>1, <1>3, MoreIs
<1>5a. OfTwo(bs, r + 128, n1)
  BY <1>1, <1>4, MoreTwo
<1>5. bs \in Seq(Nat) /\ Len(bs) = 2 /\ bs[1] = r + 128 /\ bs[2] = n1
  BY <1>5a DEF OfTwo
<1>6. PICK x : x = Reads(bs, 2, Reads(bs, 3, Reads(bs, 4, BadData)))
  OBVIOUS
<1>7. IsRead(x, 2, n1)
  BY <1>5, <1>6, ReadsLast
<1>8. PICK y : y = Reads(bs, 1, x)
  OBVIOUS
<1>9. Follows(bs, 1, r)
  BY <1>5 DEF Follows
<1>10. IsRead(y, 2, n)
  BY <1>7, <1>8, <1>9, ReadsMore
<1>11. CodeSize(n) = 2
  BY DEF CodeSize, Divides
<1> QED BY <1>5, <1>6, <1>8, <1>10, <1>11, CodeRead

LEMMA CodeOfThree ==
    ASSUME NEW n \in Nat, NEW n1 \in Nat, NEW r \in 0..127,
           r = n % 128, n1 = n \div 128, Divides(n, n1, r),
           NEW n2 \in Nat, NEW r1 \in 0..127,
           r1 = n1 % 128, n2 = n1 \div 128, Divides(n1, n2, r1), n2 < 128, n1 >= 128,
           NEW bs, bs = Code4(n)
    PROVE  IsCode(bs, n)
<1>0. n >= 128 * 128 /\ n < 128 * 128 * 128 /\ n >= 128
  BY DEF Divides
<1>1. PICK a \in Seq(Nat) : a = <<n2>> /\ Len(a) = 1 /\ a[1] = n2
  BY OneByte
<1>2. PICK u : u = More(n1, a)
  OBVIOUS
<1>3. IsMore(u, r1 + 128, a)
  BY <1>1, <1>2, MoreIs
<1>4a. OfTwo(u, r1 + 128, n2)
  BY <1>1, <1>3, MoreTwo
<1>4. u \in Seq(Nat) /\ Len(u) = 2 /\ u[1] = r1 + 128 /\ u[2] = n2
  BY <1>4a DEF OfTwo
<1>5. Code2(n2) = a
  BY <1>1 DEF Code2, More
<1>6. bs = More(n, u)
  BY <1>2, <1>5 DEF Code4, Code3
<1>7. IsMore(bs, r + 128, u)
  BY <1>0, <1>4, <1>6, MoreIs
<1>8. bs \in Seq(Nat) /\ Len(bs) = 3 /\ bs[1] = r + 128 /\ bs[2] = u[1] /\ bs[3] = u[2]
  BY <1>4, <1>7, MoreThree
<1>9. PICK z : z = Reads(bs, 3, Reads(bs, 4, BadData))
  OBVIOUS
<1>10. IsRead(z, 3, n2)
  BY <1>4, <1>8, <1>9, ReadsLast
<1>11. PICK x : x = Reads(bs, 2, z)
  OBVIOUS
<1>12. Follows(bs, 1, r) /\ Follows(bs, 2, r1)
  BY <1>4, <1>8 DEF Follows
<1>13. IsRead(x, 3, n1)
  BY <1>10, <1>11, <1>12, ReadsMore
<1>14. PICK y : y = Reads(bs, 1, x)
  OBVIOUS
<1>15. IsRead(y, 3, n)
  BY <1>12, <1>13, <1>14, ReadsMore
<1>16. CodeSize(n) = 3
  BY <1>0 DEF CodeSize
<1> QED BY <1>8, <1>9, <1>11, <1>14, <1>15, <1>16, CodeRead

LEMMA CodeOfFour ==
    ASSUME NEW n \in Nat, NEW n1 \in Nat, NEW r \in 0..127,
           r = n % 128, n1 = n \div 128, Divides(n, n1, r),
           NEW n2 \in Nat, NEW r1 \in 0..127,
           r1 = n1 % 128, n2 = n1 \div 128, Divides(n1, n2, r1),
           NEW n3 \in Nat, NEW r2 \in 0..127,
           r2 = n2 % 128, n3 = n2 \div 128, Divides(n2, n3, r2), n3 < 128, n2 >= 128,
           NEW bs, bs = Code4(n)
    PROVE  IsCode(bs, n)
<1>0. n1 >= 128 * 128 /\ n >= 128 * 128 * 128 /\ n1 >= 128 /\ n >= 128
  BY DEF Divides
<1>1. PICK a \in Seq(Nat) : a = <<n3>> /\ Len(a) = 1 /\ a[1] = n3
  BY OneByte
<1>2. PICK w : w = More(n2, a)
  OBVIOUS
<1>1a. a \in Seq(Nat)
  BY <1>1
<1>3. IsMore(w, r2 + 128, a)
  BY <1>1a, <1>2, MoreIs
<1>4a. OfTwo(w, r2 + 128, n3)
  BY <1>1, <1>3, MoreTwo
<1>4. w \in Seq(Nat) /\ Len(w) = 2 /\ w[1] = r2 + 128 /\ w[2] = n3
  BY <1>4a DEF OfTwo
<1>5. PICK u : u = More(n1, w)
  OBVIOUS
<1>6. IsMore(u, r1 + 128, w)
  BY <1>0, <1>4, <1>5, MoreIs
<1>7. u \in Seq(Nat) /\ Len(u) = 3 /\ u[1] = r1 + 128 /\ u[2] = w[1] /\ u[3] = w[2]
  BY <1>4, <1>6, MoreThree
<1>8. Code1(n3) = a
  BY <1>1 DEF Code1, More
<1>9. bs = More(n, u)
  BY <1>2, <1>5, <1>8 DEF Code4, Code3, Code2
<1>10. IsMore(bs, r + 128, u)
  BY <1>0, <1>7, <1>9, MoreIs
<1>7a. u \in Seq(Nat) /\ Len(u) = 3
  BY <1>7
<1>10a. OfFour(bs, r + 128, u)
  BY <1>7a, <1>10, MoreFour
<1>11. bs \in Seq(Nat) /\ Len(bs) = 4 /\ bs[1] = r + 128 /\ bs[2] = u[1] /\ bs[3] = u[2] /\ bs[4] = u[3]
  BY <1>10a DEF OfFour
<1>12. PICK v : v = Reads(bs, 4, BadData)
  OBVIOUS
<1>13. IsRead(v, 4, n3)
  BY <1>4, <1>7, <1>11, <1>12, ReadsLast
<1>14. PICK z : z = Reads(bs, 3, v)
  OBVIOUS
<1>15. Follows(bs, 1, r) /\ Follows(bs, 2, r1) /\ Follows(bs, 3, r2)
  BY <1>4, <1>7, <1>11 DEF Follows
<1>16. IsRead(z, 4, n2)
  BY <1>13, <1>14, <1>15, ReadsMore
<1>17. PICK x : x = Reads(bs, 2, z)
  OBVIOUS
<1>18. IsRead(x, 4, n1)
  BY <1>15, <1>16, <1>17, ReadsMore
<1>19. PICK y : y = Reads(bs, 1, x)
  OBVIOUS
<1>20. IsRead(y, 4, n)
  BY <1>15, <1>18, <1>19, ReadsMore
<1>21. CodeSize(n) = 4
  BY <1>0 DEF CodeSize
<1> QED BY <1>11, <1>12, <1>14, <1>17, <1>19, <1>20, <1>21, CodeRead

LEMMA CodeIsRead ==
    ASSUME NEW n \in Nat, n < 128 * 128 * 128 * 128, NEW bs, bs = Encoded(n)
    PROVE  IsCode(bs, n)
<1>1. bs = Code4(n)
  BY EncodedIs
<1>2. PICK t1 \in Nat : t1 = 128 * 128 * 128
  OBVIOUS
<1>3. n < t1 * 128
  BY <1>2
<1>4. PICK n1 \in Nat, r \in 0..127 : n1 = n \div 128 /\ r = n % 128 /\ n1 < t1 /\ n = 128 * n1 + r /\ Divides(n, n1, r)
  BY <1>3, SplitInTwo
<1>5. PICK t2 \in Nat : t2 = 128 * 128
  OBVIOUS
<1>6. n1 < t2 * 128
  BY <1>2, <1>4, <1>5
<1>7. PICK n2 \in Nat, r1 \in 0..127 : n2 = n1 \div 128 /\ r1 = n1 % 128 /\ n2 < t2 /\ n1 = 128 * n2 + r1 /\ Divides(n1, n2, r1)
  BY <1>6, SplitInTwo
<1>8. n2 < 128 * 128
  BY <1>5, <1>7
<1>9. PICK n3 \in Nat, r2 \in 0..127 : n3 = n2 \div 128 /\ r2 = n2 % 128 /\ n3 < 128 /\ n2 = 128 * n3 + r2 /\ Divides(n2, n3, r2)
  BY <1>8, SplitInTwo
<1>10. CASE n < 128
  BY <1>1, <1>10, CodeOfOne
<1>11. CASE n >= 128 /\ n1 < 128
  <2>1. r = n % 128 /\ n1 = n \div 128 /\ Divides(n, n1, r)
    BY <1>4
  <2> QED BY <1>1, <2>1, <1>11, CodeOfTwo
<1>12. CASE n1 >= 128 /\ n2 < 128
  <2>1. r = n % 128 /\ n1 = n \div 128 /\ Divides(n, n1, r)
    BY <1>4
  <2>2. r1 = n1 % 128 /\ n2 = n1 \div 128 /\ Divides(n1, n2, r1)
    BY <1>7
  <2> QED BY <1>1, <2>1, <2>2, <1>12, CodeOfThree
<1>13. CASE n2 >= 128
  <2>1. r = n % 128 /\ n1 = n \div 128 /\ Divides(n, n1, r)
    BY <1>4
  <2>2. r1 = n1 % 128 /\ n2 = n1 \div 128 /\ Divides(n1, n2, r1)
    BY <1>7
  <2>3. r2 = n2 % 128 /\ n3 = n2 \div 128 /\ Divides(n2, n3, r2) /\ n3 < 128
    BY <1>9
  <2> QED BY <1>1, <2>1, <2>2, <2>3, <1>13, CodeOfFour
<1>14. n < 128 \/ n >= 128
  OBVIOUS
<1>15. n1 < 128 \/ n1 >= 128
  OBVIOUS
<1>16. n2 < 128 \/ n2 >= 128
  OBVIOUS
<1> QED BY <1>10, <1>11, <1>12, <1>13, <1>14, <1>15, <1>16

LEMMA LengthIs ==
    ASSUME NEW n \in Lengths
    PROVE  n \in Nat /\ n < 128 * 128 * 128 * 128
<1>1. PICK m : m = 128 * 128 * 128 * 128 - 1
  OBVIOUS
<1>2. Lengths \subseteq 0..m
  BY <1>1, StreamAssumption, Zenon
<1>3. n \in 0..m
  BY <1>2
<1>4. m \in Int /\ m < 128 * 128 * 128 * 128
  BY <1>1
<1>5. n \in Nat /\ n <= m
  BY <1>3, <1>4
<1> QED BY <1>4, <1>5

\* What is tried is a length the code is tried on, or a filter and a topic.
TriedIs == "length" \in DOMAIN tried => tried.length \in Lengths

LEMMA InitTried == StreamInit => TriedIs
<1> SUFFICES ASSUME StreamInit, "length" \in DOMAIN tried PROVE FALSE
  BY DEF TriedIs
<1>1. tried = <<>>
  BY DEF StreamInit
<1>2. DOMAIN tried = 1..0
  BY <1>1
<1>3. \A x \in 1..0 : FALSE
  OBVIOUS
<1> QED BY <1>2, <1>3

LEMMA NextTried == TriedIs /\ [StreamNext]_streamVars => TriedIs'
<1> SUFFICES ASSUME TriedIs, [StreamNext]_streamVars PROVE TriedIs'
  OBVIOUS
<1>1. CASE tried' = tried
  BY <1>1 DEF TriedIs
<1>2. CASE Try
  <2>1. CASE \E n \in Lengths : tried' = [length |-> n]
    BY <2>1 DEF TriedIs
  <2>2. CASE \E f \in Filters, t \in Topics : tried' = [filter |-> f, topic |-> t]
    BY <2>2 DEF TriedIs
  <2> QED BY <1>2, <2>1, <2>2 DEF Try
<1> QED BY <1>1, <1>2 DEF StreamNext, streamVars, Sends, BytesArrive, ReadHeader, ReadLength,
                        ReadBody, BodyCut, LengthCut

LEMMA LengthsTried ==
    ASSUME TriedIs
    PROVE  LengthRoundTrip /\ LengthEnough
<1> SUFFICES ASSUME "length" \in DOMAIN tried PROVE LengthRoundTrip /\ LengthEnough
  BY DEF LengthRoundTrip, LengthEnough
<1>1. PICK n \in Lengths : n = tried.length
  BY DEF TriedIs
<1>2. n \in Nat /\ n < 128 * 128 * 128 * 128
  BY LengthIs
<1>3. PICK bs : bs = Encoded(n)
  OBVIOUS
<1>4. IsCode(bs, n)
  BY <1>2, <1>3, CodeIsRead
<1>5. Len(bs) = CodeSize(n) /\ Decoded(bs) = [len |-> CodeSize(n), value |-> n]
  BY <1>4 DEF IsCode
<1>6. LengthRoundTrip
  BY <1>1, <1>3, <1>5 DEF LengthRoundTrip
<1>7. PICK m \in Nat : m = n + 1
  BY <1>2
<1>8. PICK k : k = IF m < 128 THEN 1 ELSE IF m < 16384 THEN 2 ELSE IF m < 2097151 THEN 3 ELSE 4
  OBVIOUS
<1>9. k - CodeSize(n) \in {0, 1} /\ k \in Nat /\ CodeSize(n) \in Nat
  BY <1>2, <1>7, <1>8 DEF CodeSize
<1>10. MQTTPacket_len(n) = m + k
  BY <1>7, <1>8 DEF MQTTPacket_len
<1>11. (m + k) - (1 + CodeSize(n) + n) = k - CodeSize(n)
  BY <1>2, <1>7, <1>9
<1>12. LengthEnough
  BY <1>1, <1>3, <1>5, <1>9, <1>10, <1>11 DEF LengthEnough
<1> QED BY <1>6, <1>12

\* THEOREM: what one end serialises is what the other end takes from the stream,
\* as far as topics match: the packets are returned whole and in order, however
\* the bytes are cut up, until a timer runs out inside one or one does not fit;
\* what MQTTPacket_encode writes is what both decoders read, to its last byte;
\* and a buffer that MQTTPacket_len finds large enough is.
THEOREM PacketsInOrder == StreamSpec => [](TopicsMatch => FramingSound)
<1>1. StreamInit => TriedIs
  BY InitTried
<1>2. TriedIs /\ [StreamNext]_streamVars => TriedIs'
  BY NextTried
<1>3. TriedIs => LengthRoundTrip /\ LengthEnough
  BY LengthsTried
<1>4. TriedIs /\ PacketsAsSent => (TopicsMatch => FramingSound)
  BY <1>3 DEF FramingSound, CodecSound
<1> QED BY <1>1, <1>2, <1>4, WholeInOrder, PTL DEF StreamSpec
=============================================================================

------------------------------- MODULE Building -------------------------------
(***************************************************************************)
(* The building the web console shows, its doors and their tags, and the   *)
(* devices with the rules chosen for them (script.js).  The files of a     *)
(* block arrive in any order, while devices announce themselves, keys are  *)
(* presented and rules are chosen.  The page is single-threaded: a handler *)
(* is one action.                                                          *)
(***************************************************************************)
EXTENDS Naturals, Sequences, FiniteSets

CONSTANTS
    Rooms,          \* [block -> rooms of a flat]: the meshes of a file less 2
    Uuids,          \* devices
    Keys,           \* keys presented: records of college, block and door
    RuleFlats, RuleDoors,   \* bound: rules the user tries
    PingDelay       \* Iot_Device.ping_delay, in seconds

ASSUME BuildingAssumption ==
    /\ \A b \in DOMAIN Rooms : Rooms[b] \in Nat \ {0}
    /\ PingDelay \in Nat \ {0}

Blocks == DOMAIN Rooms
Files == Blocks \X {1, 2}

VARIABLES
    parts,      \* the files loaded, in the order they came
    devices,    \* g_iot_devices.dico
    last        \* what came of the key handled last

buildingVars == <<parts, devices, last>>

-----------------------------------------------------------------------------
(* Meshes and tags *)

\* Slip: the number of flats is left out of a clone's door number.
FirstDoor_slip(b, odd, floor) ==
    IF floor = 0 THEN 9 + (odd - 1) * 8 ELSE (2 * floor - 1 + odd) * (Rooms[b] - 1) + 9

\* The number of the first door of a flat: the file holds the ground floor,
\* and the three floors above are clones of it.
FirstDoor(b, odd, floor) ==
    IF floor = 0 THEN 9 + (odd - 1) * 8 ELSE (2 * floor - 1 + odd) * Rooms[b] + 9

\* The tags Door_kitchen and Door_flatdoor; numbers of rooms start with 9.
Kitchen == 0
FlatDoor == 1

\* The meshes a file adds to the scene, as the values of their tags.
MeshesOf(file) ==
    LET b == file[1]  odd == file[2]
    IN  UNION {{[block |-> b, flat |-> 2 * floor + odd, door |-> d] :
                    d \in {Kitchen, FlatDoor}
                          \cup FirstDoor(b, odd, floor)..(FirstDoor(b, odd, floor) + Rooms[b] - 1)}
               : floor \in 0..3}

Loaded == {parts[i] : i \in 1..Len(parts)}

\* A mesh of a key: rawDataToTagStr names block and door, the college only if
\* it is known (and only one is).
HasRoom(file, key) ==
    key.college \in {"Woolf", "unknown"} /\ file[1] = key.block
    /\ \E m \in MeshesOf(file) : m.door = key.door

\* meshes_key[0] is of the file that was loaded first.
MeshOfKey(key) ==
    LET i == CHOOSE i \in 1..Len(parts) :
                /\ HasRoom(parts[i], key)
                /\ \A j \in 1..(i - 1) : ~HasRoom(parts[j], key)
    IN  CHOOSE m \in MeshesOf(parts[i]) : m.door = key.door

\* The rule "*" is the empty set, any other the set of its one value.
AnyRules == [block |-> {}, flat |-> {}, door |-> {}]

\* matchesTagsQuery for the rules of a device.
Matches(m, rules) ==
    \A f \in {"block", "flat", "door"} : rules[f] = {} \/ m[f] \in rules[f]

-----------------------------------------------------------------------------
(* Devices *)

NoDevice == [known |-> FALSE]

\* selected_lock: what the rules chosen then selected in the files loaded then.
Selection(rules) == [rules |-> rules, files |-> Loaded]

Selected(u) ==
    {m \in UNION {MeshesOf(f) : f \in devices[u].selection.files} :
        Matches(m, devices[u].selection.rules)}

\* Iot_Device_Collection.add, with the options its dropdowns offer from now on.
NewDevice ==
    [known |-> TRUE, rules |-> AnyRules, selection |-> Selection(AnyRules),
     options |-> Loaded, age |-> 0, badge |-> FALSE, had_lag |-> FALSE]

BuildingInit ==
    /\ parts = <<>>
    /\ devices = [u \in Uuids |-> NoDevice]
    /\ last = [result |-> "none"]

\* importSubBlock, when a file has come.
ImportSubBlock ==
    /\ \E f \in Files \ Loaded : parts' = Append(parts, f)
    /\ UNCHANGED <<devices, last>>

\* A ping of a device.
DevicePings(u) ==
    /\ devices' = [devices EXCEPT ![u] = IF @.known THEN [@ EXCEPT !.age = 0] ELSE NewDevice]
    /\ UNCHANGED <<parts, last>>

\* A device is added before its key is looked up.
Added(u) == IF devices[u].known THEN devices[u] ELSE NewDevice

\* processRawData; it throws when no mesh has the key's tags.
ProcessRawData(u, key) ==
    /\ devices' = [devices EXCEPT ![u] = Added(u)]
    /\ last' =
        IF ~\E f \in Loaded : HasRoom(f, key) THEN
            [result |-> "threw", key |-> key, files |-> Loaded]
        ELSE LET m == MeshOfKey(key)
             IN  IF Matches(m, devices'[u].rules)
                 THEN [result |-> "granted", mesh |-> m, shown |-> {m}, key |-> key]
                 ELSE [result |-> "refused", mesh |-> m, shown |-> Selected(u)', key |-> key]
    /\ UNCHANGED parts

\* Slip: the rules are changed and the selection is not.
Choose_slip(u, rules) ==
    devices' = [devices EXCEPT ![u].rules = rules]

\* updateSelectedLocks
Choose(u, rules) ==
    devices' = [devices EXCEPT ![u].rules = rules, ![u].selection = Selection(rules)]

\* The rules about one tag that can be chosen among some values.
One(values) == {{}} \cup {{v} : v \in values}

\* handleDropdownClicked: one of the values the device's own lists offer.
\* Blocks are listed from the start, flats and doors as their files came.
HandleDropdownClicked(u) ==
    /\ devices[u].known
    /\ LET offered == UNION {MeshesOf(f) : f \in devices[u].options}
           rules == devices[u].rules
           flats == RuleFlats \cap {m.flat : m \in offered}
           doors == RuleDoors \cap {m.door : m \in offered}
       IN  \/ \E b \in One(Blocks) : Choose(u, [rules EXCEPT !.block = b])
           \/ \E n \in One(flats) : Choose(u, [rules EXCEPT !.flat = n])
           \/ \E d \in One(doors) : Choose(u, [rules EXCEPT !.door = d])
    /\ UNCHANGED <<parts, last>>

\* getLag is positive when a ping is a whole delay late; it is counted no
\* further than that.
Late(age) == age > 2 * PingDelay

\* What display makes of a device; had_lag stays set.
Displayed(d) ==
    [d EXCEPT !.badge = IF Late(d.age) THEN TRUE ELSE IF d.had_lag THEN FALSE ELSE @,
              !.had_lag = @ \/ Late(d.age)]

\* A second passes, and the interval calls display.
Display ==
    /\ devices' = [u \in Uuids |->
          IF ~devices[u].known THEN NoDevice
          ELSE Displayed([devices[u] EXCEPT !.age = IF Late(@) THEN @ ELSE @ + 1])]
    /\ UNCHANGED <<parts, last>>

BuildingNext ==
    \/ ImportSubBlock \/ Display
    \/ \E u \in Uuids : DevicePings(u) \/ HandleDropdownClicked(u)
    \/ \E u \in Uuids, key \in Keys : ProcessRawData(u, key)

BuildingSpec == BuildingInit /\ [][BuildingNext]_buildingVars

-----------------------------------------------------------------------------
(* Properties *)

FullBlocks == {b \in Blocks : Rooms[b] = 8}

\* In a block whose flats have eight rooms the numbers of the doors are those
\* on the doors: flat n has the eight from 8n + 1, whichever file came first.
\* (With six rooms numbers repeat, as the ground floor counts eight.)
DoorsNameRooms ==
    \A f \in Loaded : f[1] \in FullBlocks =>
        \A m \in MeshesOf(f) : m.door \notin {Kitchen, FlatDoor} =>
            m.door - 1 \in (8 * m.flat)..(8 * m.flat + 7)

\* A key of a room whose file is loaded is answered; only before that does
\* processRawData throw, and the door gets no answer.
KeyOfLoadedRoomAnswered ==
    last.result = "threw" /\ last.key.block \in FullBlocks =>
        LET odd == IF ((last.key.door - 1) \div 8) % 2 = 1 THEN 1 ELSE 2
        IN  <<last.key.block, odd>> \notin last.files

\* The two together: a key finds its room by the number on the door.
KeysFindRooms == DoorsNameRooms /\ KeyOfLoadedRoomAnswered

\* A refusal shows where the key would have opened: never the room it is for.
\* selected_lock is a copy made when a rule was chosen, the decision is made
\* by the rules, and files come in between.
RefusalShowsOthers ==
    last.result = "refused" => last.mesh \notin last.shown

\* Keys find their rooms, and a refusal never shows the room of its key.
KeysAndRefusalsRight == KeysFindRooms /\ RefusalShowsOthers
=============================================================================

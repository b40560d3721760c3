------------------------------- MODULE MCParts -------------------------------
\* The smaller parts of the repository, each by itself: a behaviour is one of
\* the part chosen at the start, and the others rest in their initial states.
EXTENDS Highlight, Building, SerialBridge, JsonValue, JsonMessage, PacketStream,
        Sockets, Emac, TLC

CONSTANTS m1, m2, m3

VARIABLE part

partsVars == <<part, highlightVars, buildingVars, bridgeVars, jsonVars, messageVars, streamVars,
               socketVars, rxVars, txVars>>

PartsInit ==
    /\ part \in {"highlight", "building", "bridge", "json", "message", "stream", "sockets",
                "rx", "tx"}
    /\ HighlightInit /\ BuildingInit /\ BridgeInit /\ JsonInit /\ MessageInit /\ StreamInit
    /\ SocketInit /\ EmacInit

PartsNext ==
    /\ UNCHANGED part
    /\ \/ part = "highlight" /\ HighlightNext
       \/ part # "highlight" /\ UNCHANGED highlightVars
    /\ \/ part = "building" /\ BuildingNext
       \/ part # "building" /\ UNCHANGED buildingVars
    /\ \/ part = "bridge" /\ BridgeNext
       \/ part # "bridge" /\ UNCHANGED bridgeVars
    /\ \/ part = "json" /\ JsonNext
       \/ part # "json" /\ UNCHANGED jsonVars
    /\ \/ part = "message" /\ MessageNext
       \/ part # "message" /\ UNCHANGED messageVars
    /\ \/ part = "stream" /\ StreamNext
       \/ part # "stream" /\ UNCHANGED streamVars
    /\ \/ part = "sockets" /\ SocketNext
       \/ part # "sockets" /\ UNCHANGED socketVars
    /\ \/ part = "rx" /\ RxNext
       \/ part = "tx" /\ TxNext
       \/ part \notin {"rx", "tx"} /\ UNCHANGED <<rxVars, txVars>>

PartsSpec == PartsInit /\ [][PartsNext]_partsVars

\* Three meshes of the one college there is.
MCMeshes == {m1, m2, m3}
MCCollege == [id \in MCMeshes |-> "Woolf"]

\* A block whose flats have eight rooms; keys of its first and its last flat.
MCRooms == [b \in {"E"} |-> 8]
MCKeys == {[college |-> "Woolf", block |-> "E", door |-> 12],
           [college |-> "unknown", block |-> "E", door |-> 70]}

\* Messages of the console, others that name its command, and a cut one.
MCStrings == {"cmd", "accessAuthentication", "data", "uuid", "hl"}
Verdict(b) == <<"{", "cmd", ":", "accessAuthentication", ",", "data", ":", b, "}">>
Reversed(b) == <<"{", "data", ":", b, ",", "cmd", ":", "accessAuthentication", "}">>
Longer(b) == <<"{", "cmd", ":", "accessAuthentication", ",", "uuid", ":", "num", ",",
               "data", ":", b, "}">>
MCPayloads ==
    {Verdict("true"), Verdict("false"), Reversed("false"), Longer("true"), Longer("false"),
     Verdict("num"), SubSeq(Verdict("true"), 1, 7), <<"{", "}">>, <<"junk">>, <<"true">>,
     <<"{", "cmd", ":", "hl", ",", "data", ":", "[", "uuid", ",", "hl", "]", "}">>,
     <<"{", "cmd", ":", "accessAuthentication", "}">>, <<"{", "cmd", ":", "num", "}">>, <<"[", "]">>,
     <<"{", "data", ":", "{", "cmd", ":", "hl", "}", "}">>}

\* The edges of the lengths of one to four bytes.
MCLengths == {0, 1, 126, 127, 128, 129, 16382, 16383, 16384, 16385,
              2097150, 2097151, 2097152, 268435455}

\* Topics of up to three levels, filters of up to two and "#".
Join(x, y) == x \o <<"/">> \o y
Level == {<<"a">>, <<"b">>, <<"a", "b">>}
MCTopics == Level \cup {Join(x, y) : x, y \in Level}
                  \cup {Join(Join(x, y), z) : x, y, z \in Level}
FilterLevel == Level \cup {<<"+">>}
ShortFilters == FilterLevel \cup {Join(x, y) : x, y \in FilterLevel}
MCFilters == {<<"#">>} \cup ShortFilters \cup {Join(x, <<"#">>) : x \in ShortFilters}
=============================================================================

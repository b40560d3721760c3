------------------------------ MODULE Pn532Link ------------------------------
(***************************************************************************)
(* The reader's driver (PN532.cpp, PN532_SPI.cpp) under the main loop of   *)
(* the firmware: commands, acknowledgements and responses over one line to *)
(* a chip that may be late, and one packet buffer for all of them.         *)
(***************************************************************************)
EXTENDS Naturals, Sequences

CONSTANTS
    Tags,          \* the cards that may lie on the reader
    MaxFaults,      \* bound: late or damaged frames
    MaxMoves        \* bound: times a card is laid down or taken away

ASSUME ReaderAssumption == MaxFaults \in Nat /\ MaxMoves \in Nat

VARIABLES
    op, stage,      \* the command of the main loop, and where it is in it
    buffer,         \* pn532_packetbuffer: a command, or what a response left
    lastCard,       \* last_uid
    taken,          \* the responses the round of the main loop has accepted
    (* the chip *)
    forgets,        \* a new command discards what was not fetched
    doing, out,     \* the command under way; frames to be fetched
    listed, authed, \* the target selected, and whether it is authenticated
    onReader,       \* the card on the reader
    faults, moves

driverVars == <<op, stage, buffer, lastCard, taken>>
chipVars == <<forgets, doing, out, listed, authed>>
readerVars == <<driverVars, chipVars, onReader, faults, moves>>

Nobody == "nobody"
Command == [kind |-> "command"]

\* The command byte, which is all that a response repeats of its command.
CommandByte(o) ==
    CASE o = "sam" -> "SAMConfiguration"
      [] o = "list" -> "InListPassiveTarget"
      [] OTHER -> "InDataExchange"

ReaderInit ==
    /\ op = "sam" /\ stage = "issue" /\ buffer = Command
    /\ lastCard = Nobody /\ taken = <<>>
    /\ forgets \in BOOLEAN /\ doing = <<"nothing", "sam">> /\ out = <<>>
    /\ listed = Nobody /\ authed = FALSE
    /\ onReader = Nobody /\ faults = 0 /\ moves = 0

-----------------------------------------------------------------------------
(* The chip and the cards *)

\* A frame on its way: whole, or damaged where the driver sees it at once
\* ("head") or only in the checksum behind the data ("body").
Delivered(frame) ==
    \/ out' = Append(out, frame) /\ UNCHANGED faults
    \/ /\ faults < MaxFaults /\ faults' = faults + 1
       /\ \E d \in {"head", "body"}, g \in BOOLEAN :
             /\ d = "head" => g = frame.good
             /\ out' = Append(out, [frame EXCEPT !.damage = d, !.good = g])

Frame(kind, card, good) ==
    [kind |-> kind, of |-> doing[2], card |-> card, good |-> good, damage |-> "none"]

ChipAcknowledges ==
    /\ doing[1] = "received" /\ doing' = <<"acknowledged", doing[2]>>
    /\ Delivered(Frame("ack", Nobody, TRUE))
    /\ UNCHANGED <<driverVars, forgets, listed, authed, onReader, moves>>

ChipAnswers ==
    /\ doing[1] = "acknowledged" /\ doing' = <<"nothing", doing[2]>>
    /\ CASE doing[2] = "sam" ->
              UNCHANGED <<listed, authed>> /\ Delivered(Frame("response", listed', TRUE))
         [] doing[2] = "list" ->
              /\ listed' = onReader /\ authed' = FALSE
              /\ Delivered(Frame("response", listed', onReader # Nobody))
         [] doing[2] = "auth" ->
              /\ authed' = (listed # Nobody) /\ UNCHANGED listed
              /\ Delivered(Frame("response", listed', authed'))
         [] OTHER ->
              UNCHANGED <<listed, authed>> /\ Delivered(Frame("response", listed', authed))
    /\ UNCHANGED <<driverVars, forgets, onReader, moves>>

CardMoves ==
    /\ moves < MaxMoves /\ moves' = moves + 1
    /\ IF onReader = Nobody THEN onReader' \in Tags ELSE onReader' = Nobody
    /\ listed' = Nobody /\ authed' = FALSE
    /\ UNCHANGED <<driverVars, forgets, doing, out, faults>>

-----------------------------------------------------------------------------
(* The driver *)

\* writeFrame of writeCommand: the command is built in the buffer.
Issue ==
    /\ stage = "issue" /\ stage' = "ack"
    /\ buffer' = Command
    /\ taken' = IF op \in {"sam", "list"} THEN <<>> ELSE taken
    /\ doing' = <<"received", op>>
    /\ out' = IF forgets THEN <<>> ELSE out
    /\ UNCHANGED <<op, lastCard, forgets, listed, authed, onReader, faults, moves>>

\* readAckFrame: the six bytes are compared.
IsAck(frame) == frame.kind = "ack" /\ frame.damage = "none"

\* Slip: the command byte is not compared.
IsResponse_slip(frame) == frame.kind = "response" /\ frame.damage # "head"

\* readResponse up to the data: length and command byte fit.
IsResponse(frame) ==
    /\ frame.kind = "response" /\ frame.damage # "head"
    /\ CommandByte(frame.of) = CommandByte(op)

\* Slip: a command that failed is tried again.
RoundFails_slip == UNCHANGED <<op, lastCard, taken>>

\* What the main loop does with the end of a command.
RoundFails ==
    /\ op' = "list"
    /\ lastCard' = IF op = "list" THEN Nobody ELSE lastCard
    /\ UNCHANGED taken

RoundGoesOn(frame) ==
    /\ op' = CASE op = "sam" -> "list"
               [] op = "list" -> IF frame.card = lastCard THEN "list" ELSE "auth"
               [] op = "auth" -> "read28"
               [] op = "read28" -> "read29"
               [] op = "read29" -> "list"
    /\ lastCard' = IF op = "list" THEN frame.card ELSE lastCard
    /\ taken' = Append(taken, frame)

\* readPassiveTargetID looks at the status and at the first byte;
\* mifareclassic_AuthenticateBlock and _ReadDataBlock look at the first byte
\* only, which is that of the command when no response was copied.
Succeeds(status, contents) ==
    /\ contents # Command /\ contents.good
    /\ op \in {"sam", "list"} => status

CommandEnds(status, contents) ==
    /\ stage' = "issue"
    /\ buffer' = contents
    /\ IF Succeeds(status, contents) THEN RoundGoesOn(contents) ELSE RoundFails

\* writeCommand: the frame that is ready is read as the acknowledgement.
ReadAck ==
    /\ stage = "ack" /\ out # <<>> /\ out' = Tail(out)
    /\ IF IsAck(Head(out)) THEN stage' = "response" /\ UNCHANGED <<op, buffer, lastCard, taken>>
       ELSE stage' = "issue" /\ RoundFails /\ UNCHANGED buffer
    /\ UNCHANGED <<forgets, doing, listed, authed, onReader, faults, moves>>

\* Time runs out while the chip is still at it, or has nothing to say.
TimerExpires ==
    /\ out = <<>>
    /\ IF doing[1] = "nothing" THEN UNCHANGED faults
       ELSE faults < MaxFaults /\ faults' = faults + 1

\* No acknowledgement within PN532_ACK_WAIT_TIME.
AckTimesOut ==
    /\ stage = "ack" /\ TimerExpires
    /\ stage' = "issue" /\ RoundFails
    /\ UNCHANGED <<buffer, chipVars, onReader, moves>>

\* readResponse: the data are in the buffer before the checksum is compared.
ReadResponse ==
    /\ stage = "response" /\ out # <<>> /\ out' = Tail(out)
    /\ LET f == Head(out)
       IN  IF IsResponse(f) THEN CommandEnds(f.damage = "none", f) ELSE CommandEnds(FALSE, buffer)
    /\ UNCHANGED <<forgets, doing, listed, authed, onReader, faults, moves>>

\* No response within the timeout.
ResponseTimesOut ==
    /\ stage = "response" /\ TimerExpires
    /\ CommandEnds(FALSE, buffer)
    /\ UNCHANGED <<chipVars, onReader, moves>>

Driver == Issue \/ ReadAck \/ AckTimesOut \/ ReadResponse \/ ResponseTimesOut
Chip == ChipAcknowledges \/ ChipAnswers
ReaderNext == Driver \/ Chip \/ CardMoves

\* Driver and chip go on for ever; faults and cards have an end by their bounds.
ReaderFairness == WF_readerVars(Driver) /\ WF_readerVars(Chip)

ReaderSpec == ReaderInit /\ [][ReaderNext]_readerVars /\ ReaderFairness

-----------------------------------------------------------------------------
(* Properties *)

Intact == \A i \in 1..Len(taken) : taken[i].damage = "none"

\* A key is made of one card, whatever the chip does with responses nobody
\* fetched, and however cards come and go between the commands.  (Of a chip that
\* keeps them the response to the authentication can be taken for the contents
\* of block 28: both have the same command byte.)
KeyOfOneCard ==
    Intact => \A i \in 2..Len(taken) : taken[i].card = taken[1].card

\* When frames and cards have had their last accident, the card on the reader
\* is read: the driver and such a chip find back into step.
CardIsTried ==
    forgets => <>[](onReader = Nobody \/ lastCard = onReader)

\* "returns 1 if everything executed properly, 0 for an error" (the comments
\* of the mifareclassic functions): no response with a wrong checksum is
\* accepted.
AcceptedIsIntact == Intact
=============================================================================

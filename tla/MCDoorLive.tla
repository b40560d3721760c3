----------------------------- MODULE MCDoorLive -----------------------------
\* What must happen at last in the door: the main loop of the firmware, or the
\* reader's driver under it, one per behaviour.
EXTENDS DoorController, Pn532Link

VARIABLE part

LiveInit == part \in {"door", "reader"} /\ Init /\ ReaderInit

LiveNext ==
    /\ UNCHANGED part
    /\ \/ part = "door" /\ Next /\ UNCHANGED readerVars
       \/ part = "reader" /\ ReaderNext /\ UNCHANGED vars

LiveFairness ==
    /\ WF_vars(part = "door" /\ MainThread) /\ WF_vars(part = "door" /\ LedTimeout)
    /\ WF_vars(part = "door" /\ SerialIsr) /\ WF_vars(part = "door" /\ Tick)
    /\ WF_readerVars(part = "reader" /\ Driver) /\ WF_readerVars(part = "reader" /\ Chip)

LiveSpec == LiveInit /\ [][LiveNext]_<<part, vars, readerVars>> /\ LiveFairness

\* DoorController's AnswersConsumed and LampsGoOut, where the door runs.
DoorConsumesAnswers == part = "door" => AnswersConsumed
DoorLampsGoOut == part = "door" => LampsGoOut
=============================================================================

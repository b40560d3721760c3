SPECIFICATION Spec
CONSTANTS
    MSS = 2
    QueueLen = 4
    SeqSpace = 16
    Iss <- IssDef
    MboxSize = 1
    MaxRtx = 2
    MaxSynRtx = 2
    Plans <- AnswerPlans
CHECK_DEADLOCK FALSE
INVARIANT FreedMeansDelivered

SPECIFICATION Spec
CONSTANTS
    door = door
    other = other
    Topics = {door, other}
    NoTopic = NoTopic
    MaxPacketId = 2
    MaxIncoming = 2
    Cap = 2
    Setups <- AllSetups
INVARIANTS
     AnswersMatch NoMessageUnhandled
    AckedMeansReceived DeliveredOnce AcknowledgedWasDelivered
 
CHECK_DEADLOCK FALSE

SPECIFICATION Spec
CONSTANTS
    door = door
    other = other
    Topics = {door, other}
    NoTopic = NoTopic
    MaxPacketId = 2
    MaxIncoming = 2
    Cap = 2
    Setups <- OffSetups
INVARIANTS DeliveredOnce
CHECK_DEADLOCK FALSE

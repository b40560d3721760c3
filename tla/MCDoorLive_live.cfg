SPECIFICATION LiveSpec
CONSTANTS
    c1 = c1
    c2 = c2
    NoCard = NoCard
    Cards = {c1}
    LedTime = 1
    PingPeriod = 1
    HeapBlocks = 0
    MaxOut = 1
    MaxIn = 2
    MaxRx = 1
    MaxInputs = 2
    Tags = {c1, c2}
    MaxFaults = 2
    MaxMoves = 3
INVARIANT KeyOfOneCard
PROPERTIES DoorConsumesAnswers DoorLampsGoOut 

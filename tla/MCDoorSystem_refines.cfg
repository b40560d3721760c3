SPECIFICATION SystemSpec
CONSTANTS
    c1 = c1
    c2 = c2
    NoCard = NoCard
    Cards = {c1}
    t1 = t1
    t2 = t2
    Tabs <- MCTabs
    LedTime = 1
    PingPeriod = 0
    HeapBlocks = 2
    MaxOut = 1
    MaxIn = 1
    MaxRx = 0
    MaxInputs = 0
    MaxOpens = 2
SYMMETRY SystemSymmetry
PROPERTIES ImplementsAccessControl

SPECIFICATION Spec
CONSTANTS
    c1 = c1
    c2 = c2
    NoCard = NoCard
    Cards <- MCCards
    LedTime = 2
    PingPeriod = 1
    HeapBlocks = 1
    MaxOut = 1
    MaxIn = 1
    MaxRx = 2
    MaxInputs = 2
SYMMETRY CardSymmetry
INVARIANTS LampsTimed GreenAgeBounded KeysConsistent
PROPERTIES TriedOncePerPresence

SPECIFICATION LowerSpec
CONSTANTS
    Cuts <- MCCuts
    NoDatagram = NoDatagram
    NumReassdata = 3
    MaxPbufs = 4
    ReassAge = 1
    Askers = {a1, a2}
    NoAsker = NoAsker
    Names <- MCNames
    DnsTable = 2
    Servers = 1
    DnsRetries = 2
    Ttls = {0, 1}
    TtlSpace = 2
    SeqSpace = 2
    Groups = {g1, g2}
    AllSystems = AllSystems
    GroupPool = 3
    JoinDelay = 3
    V1Delay = 4
    MaxResponses = {0, 1, 2, 3}
    WildTimer = 5
    MaxJoins = 2
    Cyclic <- MCCyclic
    TcpTimer = "tcp"
    TcpInterval = 1
    UserTimers <- MCUserTimers
    TimeoutPool = 4
    Clients = {c1, c2}
    StackBox = 2
INVARIANTS
    
    NobodyWaitsForNothing
    
    
CHECK_DEADLOCK FALSE

SPECIFICATION PartsSpec
CONSTANTS
    m1 = m1  m2 = m2  m3 = m3
    Meshes <- MCMeshes
    College <- MCCollege
    MaxFrames = 3
    MaxHighlights = 5
    Rooms <- MCRooms
    Keys <- MCKeys
    Uuids = {u1}
    RuleFlats = {1, 3}
    RuleDoors = {12, 70}
    PingDelay = 1
    MaxPlugs = 3
    MaxLines = 2
    MaxVerdicts = 2
    NB_TOKEN = 2
    JsonKeys = {"cmd", "data", "uuid"}
    JsonData = {1, 2}
    MaxNews = 4
    Strings <- MCStrings
    Payloads <- MCPayloads
    MAX_MQTT_PACKET_SIZE = 5
    BodySizes = {0, 2, 4}
    MaxSent = 2
    Lengths <- MCLengths
    Filters <- MCFilters
    Topics <- MCTopics
    Callers = {a, b}
    NoCaller = NoCaller
    Fds = {1}
    MboxSize = 1
    MaxCalls = 3
    MaxBytes = 1
    RxRing = 2  TxRing = 3  RxBuffers = 4
    TcpipBox = 2
    MaxArrivals = 5  MaxPackets = 5
INVARIANTS
    NobodyStaysDim ShownIsVisible PageSettles
    KeysAndRefusalsRight
    LinesAndVerdictsInOrder
    ChildrenOwned
    DecidedByPayload
    
    
    RingsSound
CHECK_DEADLOCK FALSE

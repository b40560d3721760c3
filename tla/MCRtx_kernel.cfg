SPECIFICATION RtxSpec
CONSTANTS
    t1 = t1
    t2 = t2
    t3 = t3
    Threads = {t1, t2, t3}
    BasePrio <- MCPrio
    Semaphores = {s1}
    Mutexes = {x1, x2}
    Queues = {q1}
    QueueSize = 1
    FifoSize = 2
    Robin = 2
    Flags = {1, 2}
    Timeouts = {0, 1, 2, 65535}
    Uses <- MCUses
    Timers = {r1, r2}
    Periods = {1, 2, 3}
    Sleeps = {2, 3}
    CallbackQueue = 2
    MaxTime = 5
    MaxTokens = 1
    MaxLevel = 1
    MaxMessages = 3
INVARIANTS Scheduled DelaysExact NothingLost PriorityInherited 
CHECK_DEADLOCK FALSE

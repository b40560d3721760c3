SPECIFICATION NetSpec
CONSTANTS
    h1 = h1  h2 = h2  h3 = h3  e1 = e1  e2 = e2
    Addrs = {1, 2}
    Taken = {2}
    None = 0
    T1 = 1
    T2 = 2
    Lease = 2
    TimerSpace = 5
    XidSpace = 2
    RequestTries = 1
    RebindTries = 1
    RebootTries = 2
    Hosts <- MCHosts
    Macs <- MCMacs
    TableSize = 2
    MaxAge = 3
    MaxPending = 2
SYMMETRY NetSymmetry
CHECK_DEADLOCK FALSE
INVARIANT BoundIsLeased

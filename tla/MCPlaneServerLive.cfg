\* Progress with one client more than there are slots and descriptors: the server
\* can be starved.
SPECIFICATION FairSpec
CONSTANTS
    amy = amy
    bob = bob
    pow = pow
    NoConn = NoConn
    Names <- MCNames
    Conns = {c1, c2, c3}
    OPEN_MAX = 3
    Fds <- TwoFds
    Requests <- InfoRequests
    StackGarbage = {TRUE}
    SendBuf = 1
    MaxInbox = 1
    MaxSent = 1
    Failures = {}
INVARIANTS
    WaitsOnlyOnFreshSlot
PROPERTIES
    RequestsAreRead
    DescriptorsReturn
CHECK_DEADLOCK FALSE

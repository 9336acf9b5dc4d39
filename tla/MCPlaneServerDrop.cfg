\* Progress when slots run out before descriptors do: one is dropped, and then
\* there are none.
SPECIFICATION FairSpec
CONSTANTS
    amy = amy
    bob = bob
    pow = pow
    NoConn = NoConn
    Names <- MCNames
    Conns = {c1, c2, c3}
    OPEN_MAX = 2
    Fds <- TwoFds
    Requests <- PollRequests
    StackGarbage = {TRUE}
    SendBuf = 1
    MaxInbox = 1
    MaxSent = 1
    Failures = {"vanish"}
PROPERTIES
    DropsOnlyWhenFull
    RequestsAreRead
    DescriptorsReturn
CHECK_DEADLOCK FALSE

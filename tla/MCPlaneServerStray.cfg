\* A descriptor changes hands between two players and a newcomer.
SPECIFICATION Spec
CONSTANTS
    amy = amy
    bob = bob
    pow = pow
    NoConn = NoConn
    Names <- MCNames
    Conns = {c1, c2, c3}
    OPEN_MAX = 3
    Fds <- TwoFds
    Requests <- DuelRequests
    StackGarbage = {FALSE}
    SendBuf = 1
    MaxInbox = 1
    MaxSent = 3
    Failures = {}
SYMMETRY ConnSymmetry
INVARIANTS
    HitsReachOpponents
CHECK_DEADLOCK FALSE

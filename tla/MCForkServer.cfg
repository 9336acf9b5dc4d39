\* Two players whose children run at the same time.
SPECIFICATION FairSpec
CONSTANTS
    c1 = c1
    c2 = c2
    c3 = c3
    Fds <- TwoFds
    Names <- MCNames
    TmpSize = 25
    Conns <- MCConns
    NoConn = NoConn
    FirstFd = 4
    MaxFds = 2
    Requests <- MCRequests
    SendBuf = 1
    MaxSent = 2
    Late <- MCLate
    Leavers <- MCLeavers
    Cuts = {3}
    MaxForks = 2
INVARIANTS
    HitsGoDown
    HitsArePaired
    LossNeedsOverlap
PROPERTIES
    RequestsAreRead
    DoorStaysOpen
    
CHECK_DEADLOCK FALSE

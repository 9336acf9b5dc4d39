\* Three players on two descriptors: one comes after another has left, and two
\* requests may be read together.
SPECIFICATION Spec
CONSTANTS
    amy = amy
    bob = bob
    pow = pow
    NoConn = NoConn
    Names <- MCNames
    Conns = {c1, c2, c3}
    OPEN_MAX = 3
    Fds <- TwoFds
    Requests <- DuelRequests
    StackGarbage = {FALSE}
    SendBuf = 1
    MaxInbox = 2
    MaxSent = 3
    Failures = {"abort"}
SYMMETRY ConnSymmetry
CONSTRAINT FewRequests
INVARIANTS
    RegistrationHolds
    HitsFollowPairing
CHECK_DEADLOCK FALSE

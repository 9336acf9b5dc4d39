SPECIFICATION Spec
CONSTANTS
    Fds <- MCFds
    Names = {amy, bob, cat}
SYMMETRY NameSymmetry
INVARIANTS
    OpponentRegistered
PROPERTIES
    ChallengeIsMutual
    RenameKeepsOpponent

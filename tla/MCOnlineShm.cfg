\* Two players, a short and a long name, a change of name shifting a record
\* by more than a record's smallest length.
SPECIFICATION Spec
CONSTANTS
    Fds <- MixedFds
    Names <- NamesThatFit
    TmpSize = 25
    ShmSize = 48
INVARIANTS
    ListBeginsWithPlayers
PROPERTIES
    RegistrySpec

\* Two instances, two ends of the server.
SPECIFICATION FairSpec
CONSTANTS
    a1 = a1
    a2 = a2
    Apps <- MCApps
    Kinds <- MCKinds
    MaxPresses = 3
    MaxCrashes = 2
INVARIANTS
    ListsAreWhole
PROPERTIES
    CallsAreAtomic
    ShownGrows
    PressesEnd
CHECK_DEADLOCK FALSE

\* Two clients.
SPECIFICATION FairSpec
CONSTANTS
    c1 = c1
    c2 = c2
    Conns <- MCConns
    Words <- MCWords
    Leavers <- MCLeavers
    Reg = "r"
    SlotSize = 4
INVARIANTS
    QuietMailIsKept
PROPERTIES
    MailIsTaken
CHECK_DEADLOCK FALSE

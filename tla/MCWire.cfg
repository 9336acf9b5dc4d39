\* Every pair of a client and a server.  A client stops after MaxCalls calls.
SPECIFICATION Spec
CONSTANTS
    Messages <- MCMessages
    Links <- MCLinks
    MaxCalls = 3
INVARIANTS
    TypeOK
    InStep
    OnlyStrictRefuse
    BoardIsTheAdds
    GetIsTheBoard
    OrdersAgree
CHECK_DEADLOCK FALSE

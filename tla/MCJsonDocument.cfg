SPECIFICATION Spec
CONSTANTS
    CharOrder <- MCCharOrder
    MaxInt = 127
    BufSize = 7
    RightMargin = 12
    Names <- MCNames
    Leaves <- MCLeaves
    Scalars <- MCScalars
    Indexes <- MCIndexes
    Comments <- MCComments
    Paths <- MCPaths
    Arguments <- MCArguments
    Tokens <- MCTokens
    CallCost = 3
    OpenCost = 3
    MaxEffort = 10
    MaxNodes = 3
INVARIANTS
    TypeOK
    ReadsTheGrammar
    FastReadsBack
    StyledReadsBack
    OrderIsTotal
    ConversionsKeepTheNumber
    PathsLead
    LoopsMeetAll
CHECK_DEADLOCK FALSE

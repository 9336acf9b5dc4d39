\* A name that fits encode's buffer with some descriptors and not with others.
SPECIFICATION Spec
CONSTANTS
    Fds <- ThreeFds
    Names <- NamesTooLong
    TmpSize = 11
    ShmSize = 30
PROPERTIES
    OthersSurvive
CONSTRAINT
    SegmentFits

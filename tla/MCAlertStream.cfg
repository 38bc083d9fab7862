CONSTANTS
    MaxId = 3
    BufSize = 2
    WireSize = 2
    SnapLimit = 2
    MaxShown = 2
SPECIFICATION FairSpec
CHECK_DEADLOCK FALSE
INVARIANTS NothingMissed ShownRight
PROPERTIES EventuallyShown

CONSTANTS
    Keys = {k1}
    SockHandlers = {h1}
    EventHandler = ev
    MaxGen = 3
SPECIFICATION FairSpec
CHECK_DEADLOCK FALSE
INVARIANTS PanicOnlyInReload
PROPERTIES RetiredIsIdle MainEnds

\* Two servers; lines of two levels, keys that open, filter, scroll and leave,
\* a query that fails.
SPECIFICATION DetailSpec
CHECK_DEADLOCK FALSE
CONSTANTS
    A = A
    B = B
    a1 = a1
    a2 = a2
    b1 = b1
    pa = pa
    None = None
    Sessions = {A, B}
    First = A
    Container = {a1, a2, b1}
    Target = {a1, b1, pa}
    Live <- MCLive
    Scope <- MCLive
    Name <- MCName
    Stored <- MCStored
    Written <- MCWritten
    SeparatorHit = TRUE
    Windows <- MCWindows
    Levels <- MCLevels
    Dialogs <- MCDialogs
    Cap = 2
    Height = 2
    SecPerDay = 2
    MaxLines = 1
    MaxKeys = 3
    MaxFails = 1
INVARIANTS ViewsRight FilterExact LoadingIsAwaited
PROPERTIES PausedStable

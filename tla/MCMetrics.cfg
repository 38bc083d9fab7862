\* One cycle, after a past with gaps, on a local server that keeps seven seconds or
\* four, and an empty server that keeps four; windows of fewer and of more groups than
\* the graph has points.
SPECIFICATION MetricsSpec
CHECK_DEADLOCK FALSE
CONSTANTS
    A = A
    B = B
    Server = {A, B}
    First = A
    Value <- MCValue
    Past <- MCPast
    Gaps = {3}
    Points = 3
    LiveRange = 3
    Windows <- MCWindows
    Retentions <- MCRetentions
    Local = {A}
    MaxCycles <- MCMaxCycles
    MaxMoves = 5
    MaxQueries = 2
    MaxWire = 1
INVARIANTS PeakNear GraphsRight PendingIsReal RefusedUnforeseen

CONSTANTS
    MaxLines = 3
    Long = {3}
    MaxRuns = 2
    MaxTailers = 1
    BatchSize = 2
    ChanSize = 1
    Faults = {"store", "attach", "stream", "inspect", "untrack"}
SPECIFICATION FairTailerSpec
CHECK_DEADLOCK FALSE
INVARIANTS LinesExact EndsRight
PROPERTIES StoreSpec StopReturns

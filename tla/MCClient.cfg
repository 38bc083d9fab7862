\* Two requests and an unsubscription over one connection; their six frame
\* halves fit the connection, as the few hundred bytes of real requests do.
SPECIFICATION FairSpec
CHECK_DEADLOCK FALSE
CONSTANTS
    Req = {r1, r2}
    UpBuf = 6
    DownBuf = 1
    MaxPushed = 1
    MaxUnsubs = 1
INVARIANTS ConnectionExact
PROPERTIES RequestsEnd QuitEnds

\* Two tokens for three connections, buffers of one, two published messages.
SPECIFICATION FairSpec
CHECK_DEADLOCK FALSE
CONSTANTS
    c1 = c1
    c2 = c2
    c3 = c3
    Conn <- MCConn
    Scripts <- MCScripts
    MaxConnections = 2
    BufSize = 1
    SocketBuf = 1
    TestWindow = 1
    Filter <- TwoFilters
    MaxSubs = 2
    MaxPublished = 2
    MaxNow = 2
INVARIANTS ConnectionsExact LinesRight AnsweredOnce
PROPERTIES TestSpaced ConnectionsEnd

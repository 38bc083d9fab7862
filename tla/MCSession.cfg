\* Two servers, any of them auto-connected, or the first one alone; each ssh
\* process may prompt once.  Two attempts, two prompts and a retry overlap.
SPECIFICATION FairSpec
CHECK_DEADLOCK FALSE
CONSTANTS
    s1 = s1
    s2 = s2
    Order <- MCOrder
    NoOne = NoOne
    MaxPrompts = 1
    MaxAsked = 1
INVARIANTS AttemptsReal NoOrphanTunnel
PROPERTIES AttemptsEnd

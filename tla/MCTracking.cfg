\* Two containers of a project, one of them auto-tracked, two clients; toggles,
\* a container that comes or goes, a lost stream and a restart.
SPECIFICATION Spec
CHECK_DEADLOCK FALSE
CONSTANTS
    n1 = n1
    n2 = n2
    p = p
    Name = {n1, n2}
    Project = {p}
    ProjectOf <- MCProjectOf
    AtStart = {n1}
    AutoTracked = {n1}
    Conn = {c1, c2}
    Viewer = c1
    StreamEnds = TRUE
    MaxSets = 2
    MaxChurn = 1
    MaxRestarts = 1
INVARIANTS DecisionsHold DecisionsSaved

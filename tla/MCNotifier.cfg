CONSTANTS
    Msgs = {m1, m2, m3}
    NoMsg = NoMsg
    Stoppers = {s1}
    Flushers = {f1}
    NumChannels = 2
    QueueSize = 2
SPECIFICATION FairSpec
CHECK_DEADLOCK FALSE
INVARIANTS DeliveryExact
PROPERTIES OutboxSpec NotifierEnds

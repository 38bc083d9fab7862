\* One rule on the state of one container, evaluated by both goroutines; writes
\* fail, a client silences, the process dies or reloads once.
SPECIFICATION Spec
CONSTANTS
    c1 = c1
    c2 = c2
    Rules <- StateRules
    Targets = {c1}
    Keys <- StateKey
    RuleOf <- KeyRule
    TargetOf <- KeyTarget
    Source <- StateSource
    StrRules <- StateRules
    LogRules = {}
    NotifyRules <- StateRules
    ForDur <- StateFor
    ResolveForDur <- StateResolveFor
    Cooldown <- StateCooldown
    NotifyCooldown <- StateNotifyCooldown
    MaxSilence = 1
    AdoptLimit = 1
    MaxAlerts = 2
    MaxRestarts = 2
    StoreFails = TRUE
INVARIANTS IInv NotificationsAccounted
PROPERTIES LedgerSpec ForHonoured ResolveJustified

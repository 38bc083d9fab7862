SPECIFICATION FairSpec
CONSTANTS
    c1 = c1
    c2 = c2
    Rules <- CpuRules
    Targets = {c1, c2}
    Keys <- CpuKeys
    RuleOf <- KeyRule
    TargetOf <- KeyTarget
    Source <- CpuSource
    StrRules = {}
    LogRules = {}
    NotifyRules = {}
    ForDur <- CpuDelay
    ResolveForDur <- CpuDelay
    Cooldown <- CpuNoDelay
    NotifyCooldown <- CpuNoDelay
    MaxSilence <- NoSilences
    AdoptLimit = 1
    MaxAlerts = 1
    MaxRestarts = 0
    StoreFails = FALSE
PROPERTIES
    AlertsFollow

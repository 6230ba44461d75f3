SPECIFICATION Spec
CONSTANTS
    Sessions = {s1}
    NumBypasses = 2
    RulePriority = 23333
    MaxFaults = 1
    SoftDeletesFail = FALSE
    Contents = {c1}
    Targets = {t1}
    OurContent = ours
    NoText = NoText
    BadBackup = BadBackup
    NoTun = NoTun
    ForeignTun = ForeignTun
    NoSnapshot = NoSnapshot
    Standalone = Standalone
    StopPost = StopPost
    Manual = Manual
INVARIANTS
    NothingElseLeft

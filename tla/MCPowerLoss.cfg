SPECIFICATION PlainPowerSpec
CONSTANTS
    OneJournal = TRUE
    Sessions = {s1}
    NumBypasses = 1
    RulePriority = 23333
    MaxFaults = 2
    SoftDeletesFail = TRUE
    Contents = {c1}
    Targets = {t1}
    OurContent = ours
    NoText = NoText
    BadBackup = BadBackup
    NoTun = NoTun
    ForeignTun = ForeignTun
    NoSnapshot = NoSnapshot
    Standalone = Standalone
    StopPost = StopPost
    Manual = Manual
VIEW WhatMatters
INVARIANTS
    RevertibleExceptSoftDeletes
    PowerInv

SPECIFICATION Spec
CONSTANTS
    Sessions = {s1}
    NumBypasses = 2
    RulePriority = 1002
    MaxFaults = 2
    SoftDeletesFail = FALSE
    Contents = {c1, c2}
    Targets = {t1}
    OurContent = ours
    NoText = NoText
    BadBackup = BadBackup
    NoTun = NoTun
    ForeignTun = ForeignTun
    NoSnapshot = NoSnapshot
    Standalone = Standalone
    StopPost = StopPost
    Manual = Manual
SYMMETRY Interchangeable
INVARIANTS
    TypeOK
    AlwaysRevertible
    NoTunnelLoop
    UpMeansTunnelled
    DoneTellsApplied
    IndInv
    ProgressInv
PROPERTIES
    ImplementsTransaction

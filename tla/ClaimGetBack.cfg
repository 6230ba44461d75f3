SPECIFICATION StaySpec
CONSTANTS
    Sessions = {s1}
    NumBypasses = 1
    RulePriority = 23333
    MaxFaults = 0
    SoftDeletesFail = FALSE
    Contents = {}
    Targets = {t1}
    OurContent = ours
    NoText = NoText
    BadBackup = BadBackup
    NoTun = NoTun
    ForeignTun = ForeignTun
    NoSnapshot = NoSnapshot
    Standalone = Standalone
    StopPost = StopPost
    Manual = Manual
    Stores = {oufdee}
    Store = oufdee
    n1 = n1
    n2 = n2
    u1 = u1
    u2 = u2
    Names = {n1, n2}
    Urls = {u1, u2}
    MaxKeys = 2
    MaxWriteFaults = 0
    NoName = NoName
    NoFile = NoFile
    Closed = Closed
    Conns = {conn1, conn2}
    Reuse = TRUE
    Methods = {"disconnect", "undo"}
    Excluded = {}
    Timeouts = TRUE
    InitialFiles <- TwoKeys
    NoSession = NoSession
    NoUrl = NoUrl
INVARIANT AlwaysGetBack

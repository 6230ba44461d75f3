SPECIFICATION InputsSpec
CONSTANTS
    Labels <- ShortLabels
    AddedLabels <- SomeLabels
    Suggested <- SomeNames
    MaxNameLen = 5
    MaxTries = 4
    MaxNames = 4
    TunNames <- SomeTunNames
    Tables <- SomeTables
    Priorities <- SomePriorities
INVARIANT InLockstep
CHECK_DEADLOCK FALSE

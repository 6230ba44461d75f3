SPECIFICATION InputsSpec
CONSTANTS
    Labels <- ShortLabels
    AddedLabels <- SomeLabels
    Suggested <- SomeNames
    MaxNameLen = 6
    MaxTries = 12
    MaxNames = 11
    TunNames <- SomeTunNames
    Tables <- SomeTables
    Priorities <- SomePriorities
INVARIANT NamesAreTrimmed
CHECK_DEADLOCK FALSE

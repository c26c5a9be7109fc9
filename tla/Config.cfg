SPECIFICATION Spec
SYMMETRY CallerSymmetry
CONSTANTS
    Keys <- SomeKeys
    Strings = {"a", "ab"}
    Cut <- CutLong
    Callers = {shell, http}
    NvsVersions = {0, 2, 3}
    FlashErrors = {"EIO"}
    AllowEmpty = FALSE
    MaxErrors = 4
    MaxCalls = 2
INVARIANTS
    Durable
    
    Reloaded
    ClearedStaysCleared

    

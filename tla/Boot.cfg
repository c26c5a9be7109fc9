SPECIFICATION Spec
CHECK_DEADLOCK FALSE
CONSTANTS
    NPins = 2
    Callers = {shell, http}
    Shell = {shell}
    MaxErrors = 1
    MaxCommands = 2
    MaxReboots = 1
    MaxClients = 2
INVARIANTS
    SequentialStateIsTrue
    RestorePolicyHolds
PROPERTIES
    ResetEnds
    ImplementsJtagWire

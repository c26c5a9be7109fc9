SPECIFICATION Spec
CHECK_DEADLOCK FALSE
CONSTANTS
    MaxCalls = 2
    MaxErrors = 1
INVARIANTS
    InterfaceFollowsSettings
    RtcMatchesClock
    NtpFollowsSetting
    InitOnlyIdle
    AsksCurrentServer
PROPERTIES
    KeepsSyncing
    CallsEnd

SPECIFICATION Spec
CHECK_DEADLOCK FALSE
CONSTANTS
    DEBOUNCE_TIME = 2
    RESET_HOLD_TIME = 4
    MaxErrors = 1
INVARIANTS
    ClearedOnlyIfHeldInTime
PROPERTY
    HeldClears

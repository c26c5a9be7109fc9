SPECIFICATION WsFairSpec
CHECK_DEADLOCK FALSE
CONSTANTS
    Readers = {"ws"}
    None = None
    SendBuf = 2
    Keep = 1
    Chunks = {2}
    MaxBytes = 3
    WsClients = {w1, w2}
INVARIANTS
    SomeSenderAwake
    WsNoGap
PROPERTIES
    WsAllHistory
    HttpReturns

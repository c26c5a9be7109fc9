SPECIFICATION Spec
CHECK_DEADLOCK FALSE
CONSTANTS
    Readers = {"telnet", "ws"}
    None = None
    SendBuf = 1
    Keep = 1
    Chunks = {}
    MaxBytes = 1
    TelnetClients = {t1}
    WsClients = {w1}
INVARIANT
    EverySenderAwake

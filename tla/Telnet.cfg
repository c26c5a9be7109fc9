SPECIFICATION TelnetFairSpec
CHECK_DEADLOCK FALSE
CONSTANTS
    Readers = {"telnet"}
    None = None
    SendBuf = 2
    Keep = 1
    Chunks = {1}
    MaxBytes = 2
    TelnetClients = {c1, c2}
INVARIANTS
    SomeSenderAwake
    ActiveNotClosed
    TelnetInOrder
PROPERTIES
    TelnetCatchesUp
    TelnetCloses

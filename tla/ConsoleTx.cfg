SPECIFICATION FairSpec
CHECK_DEADLOCK FALSE
CONSTANTS
    Writers = {telnet, ws}
    UART_TX_BUF_SIZE = 2
    MaxWrite = 3
    MaxTyped = 3
    MaxErrors = 1
INVARIANTS
    TxBufferStable
    WireInOrder
    NothingDropped
PROPERTY
    WritesEnd

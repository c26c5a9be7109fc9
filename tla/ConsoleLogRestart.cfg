SPECIFICATION Spec
CONSTANTS
    LogSize = 8
    RxBufShare = 4
    Readers = {r1}
    ReadSizes = {3}
    MaxBytes = 14
    MaxFaults = 1
INVARIANT
    ReadReturnsTheStream

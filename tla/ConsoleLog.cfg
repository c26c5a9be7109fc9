SPECIFICATION Spec
CONSTANTS
    LogSize = 14
    RxBufShare = 7
    Readers = {r1}
    ReadSizes = {1, 3}
    MaxBytes = 30
    MaxFaults = 2
INVARIANTS
    TypeOK
    DmaInBounds
    InFlightPerFault
    ReadersBehindFewFaults
    ReadsUntilFault
    ReadAvoidsDma
PROPERTY
    ImplementsHostLog

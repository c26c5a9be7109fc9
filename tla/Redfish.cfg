SPECIFICATION Spec
CONSTANTS
    Clients = {c1, c2}
    Public = {}
    GetPatch = {system}
    PostOnly = {reset}
    Passwords = {p1, p2}
    HeapUnits = 248
    PostPieces = 2
    MaxPieces = 3
    MaxRequests = 3
    MaxChanges = 1
    None = None
CHECK_DEADLOCK FALSE
INVARIANTS BodyIsWhole BuffersOwned

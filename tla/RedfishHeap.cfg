SPECIFICATION Spec
CONSTANTS
    Clients = {c1, c2}
    Public = {}
    GetPatch = {system}
    PostOnly = {reset}
    Passwords = {p1}
    HeapUnits = 248
    PostPieces = 2
    MaxPieces = 2
    MaxRequests = 3
    MaxChanges = 0
    None = None
CHECK_DEADLOCK FALSE
PROPERTY Answered

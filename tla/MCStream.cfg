SPECIFICATION Spec
CONSTANTS
    None = None
    r1 = r1
    r2 = r2
    Long = 2
    Requests = {r1, r2}
    Shape = "dict"
    MaxConnections = 1
    MaxItems <- MCMaxItems
    StopReasons <- MCDictReasons
    MayStall = {r2}
INVARIANTS
    DoneIsTheEnd
    ConnectionsInUse
PROPERTIES
    StreamEnds
    ConnectionFreed
    ImplementsCompletion

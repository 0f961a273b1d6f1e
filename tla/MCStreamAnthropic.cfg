SPECIFICATION Spec
CONSTANTS
    None = None
    r1 = r1
    r2 = r2
    Long = 5
    Requests = {r1}
    Shape = "anthropic"
    MaxConnections = 1
    MaxItems <- MCMaxItems
    StopReasons <- MCAnthropicReasons
    MayStall = {r1}
INVARIANTS
    TypeOK
    StreamAgreesWithResponse
PROPERTIES
    ImplementsCompletion

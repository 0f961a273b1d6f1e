SPECIFICATION Spec
CONSTANTS
    None = None
    w1 = w1
    w2 = w2
    w3 = w3
    p1 = p1
    p2 = p2
    Writers = {w1, w2, w3}
    Processes = {p1, p2}
    ProcessOf <- MCProcessOf
    MaxRows <- MCMaxRows
    MaxCrashes = 1
    MayHang = {p2}
INVARIANTS
    TypeOK
    OneWriterAtATime
    RowsNeverInterleave
    AckedIsDurable
PROPERTIES
    DiskOnlyGrows
    EmitEnds
    LockFreed
    ImplementsAuditLog

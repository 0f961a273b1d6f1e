SPECIFICATION Spec
CONSTANTS
    None = None
    w1 = w1
    w2 = w2
    w3 = w3
    p1 = p1
    p2 = p2
    Writers = {w1, w2}
    Processes = {p1}
    ProcessOf <- MCProcessOf
    MaxRows <- MCMaxRows
    MaxCrashes = 0
    MayHang = {}
INVARIANT
    AckedIsALine

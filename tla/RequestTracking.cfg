SPECIFICATION Spec
CONSTANTS
    t1 = t1
    t2 = t2
    o1 = o1
    o2 = o2
    Thread = {t1, t2}
    Obj = {o1, o2}
    NoObj = NoObj
    MaxInt = 2
    MaxRequests = 2
SYMMETRY Interchangeable
INVARIANTS
    TypeOK
    Attributed
    RequestsKeptApart
    NoStaleGarbage
    ReportComplete

SPECIFICATION FilterSpec
CONSTANTS
    t1 = t1
    t2 = t2
    o1 = o1
    o2 = o2
    o3 = o3
    Thread = {t1, t2}
    Obj = {o1, o2, o3}
    NoObj = NoObj
    MaxInt = 3
    MaxRequests = 2
INVARIANTS
    IdleUntracked

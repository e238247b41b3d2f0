\* Two confirmations through the API.
CONSTANTS
    a1 = a1
    a2 = a2
    s1 = s1
    s2 = s2
    s3 = s3
    d1 = d1
    o1 = o1
    o2 = o2
    p1 = p1
    p2 = p2
    None = None
    Orders = {o1, o2}
    Products = {p1, p2}
    AsyncRequests = {a1, a2}
    SyncRequests = {}
    AdjustRequests = {}
    Changes <- MCChanges
    Demand <- MCDemand
    InitStock <- MCStock
SPECIFICATION Spec
INVARIANTS ConfirmsOnce

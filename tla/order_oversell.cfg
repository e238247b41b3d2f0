\* Two sales through the harness of all there is and a restock of one unit.
CONSTANTS
    a1 = a1
    a2 = a2
    s1 = s1
    s2 = s2
    s3 = s3
    d1 = d1
    o1 = o1
    o2 = o2
    p1 = p1
    p2 = p2
    None = None
    Orders = {o1, o2}
    Products = {p1, p2}
    AsyncRequests = {}
    SyncRequests = {s1, s2}
    AdjustRequests = {d1}
    Changes = {1}
    Demand <- LastUnits
    InitStock <- MCStock
SPECIFICATION Spec
INVARIANTS NoOverselling

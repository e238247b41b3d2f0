\* Two requests of the harness beside one of the API: all orders and items
\* contended, no symmetry because of the liveness property.
CONSTANTS
    a1 = a1
    a2 = a2
    s1 = s1
    s2 = s2
    s3 = s3
    d1 = d1
    o1 = o1
    o2 = o2
    p1 = p1
    p2 = p2
    None = None
    Orders = {o1, o2}
    Products = {p1, p2}
    AsyncRequests = {a1}
    SyncRequests = {s1, s2}
    AdjustRequests = {}
    Changes <- MCChanges
    Demand <- MCDemand
    InitStock <- MCStock
SPECIFICATION Spec
INVARIANTS HarnessConfirmsOnce NobodyHangs
PROPERTIES ImplementsLifecycle EveryRequestAnswered

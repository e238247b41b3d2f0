\* Two requests of the API, one of the harness and one adjustment.
CONSTANTS
    a1 = a1
    a2 = a2
    s1 = s1
    s2 = s2
    s3 = s3
    d1 = d1
    o1 = o1
    o2 = o2
    p1 = p1
    p2 = p2
    None = None
    Orders = {o1, o2}
    Products = {p1, p2}
    AsyncRequests = {a1, a2}
    SyncRequests = {s1}
    AdjustRequests = {d1}
    Changes <- MCChanges
    Demand <- MCDemand
    InitStock <- MCStock
SPECIFICATION Spec
SYMMETRY Symmetry
INVARIANTS TypeOK StockNonNegative SoldImpliesDeducted LedgerBalances DoubleOnlyIfRaced Inductive
PROPERTIES ConfirmDeductsDemand TerminalUnlessRaced ImplementsLifecycle

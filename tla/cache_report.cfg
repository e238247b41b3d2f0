\* One reader beside one mutation.
CONSTANTS
    r1 = r1
    w1 = w1
    w2 = w2
    p1 = p1
    p2 = p2
    l1 = l1
    Report = Report
    None = None
    Readers = {r1}
    Writers = {w1}
    Products = {p1, p2}
    Lists = {l1}
SPECIFICATION Spec
INVARIANTS ReportStalenessExplained

\* One reader that goes on for ever beside two mutations, with every Redis
\* failure.
CONSTANTS
    r1 = r1
    w1 = w1
    w2 = w2
    p1 = p1
    p2 = p2
    l1 = l1
    Report = Report
    None = None
    Readers = {r1}
    Writers = {w1, w2}
    Products = {p1}
    Lists = {l1}
SPECIFICATION OrderedSpec
INVARIANTS TypeOK ProductStalenessExplained Inductive
PROPERTIES EventuallyFresh

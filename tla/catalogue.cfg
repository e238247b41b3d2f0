\* One creation, two edits, one order and one confirmation.
CONSTANTS
    c1 = c1
    e1 = e1
    e2 = e2
    o1 = o1
    k1 = k1
    p1 = p1
    p2 = p2
    x = x
    y = y
    z = z
    None = None
    Creates = {c1}
    Edits = {e1, e2}
    Orders = {o1}
    Confirms = {k1}
    Products = {p1, p2}
    Skus = {x, y, z}
    Prices = {1, 2}
    Changes <- MCChanges
    Additions <- MCAdditions
    Baskets <- MCBaskets
    InitRow <- MCRow
SPECIFICATION OrderedSpec
INVARIANTS TypeOK SkuUnique ViolationOnlyByRace ItemsOffered NobodyHangs Inductive
PROPERTIES ImplementsRegistry EveryRequestAnswered

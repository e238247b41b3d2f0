\* Two readers of the product list, with pages that overlap.
CONSTANTS
    Readers = {r1, r2}
    Shelf <- MCShelf
    Queries <- MCQueries
    Colon = ":"
    AnyText = "%"
    AnyChar = "_"
    Cases <- MCCases
    None = None
SPECIFICATION Spec
INVARIANT HitAnswersQuery
CHECK_DEADLOCK FALSE

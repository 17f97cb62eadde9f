CONSTANTS
    Ids = {i1, i2}
    Codes = {k1, k2}
    Requests = {r1, r2, r3}
    LedgerRequests = {q1, q2}
    Items = {p1, p2}
    Pays = {a1, a2}
    None = None
SPECIFICATION Spec
SYMMETRY Symmetry
INVARIANTS TypeOK LiveCodesUnique RefusedLeavesNothing ShownIsAsAsked DefaultIsSingle
    VoidedWasUnused
CHECK_DEADLOCK FALSE

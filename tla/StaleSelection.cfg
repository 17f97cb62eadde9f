CONSTANTS
    Ids = {i1, i2}
    NoRow = NoRow
    MaxCalls = 4
    Empty = Empty
    Filled = {x}
    Seeds = {s1}
    Items = {p1, p2}
    Accounts = {u1, u2}
    None = None
    MaxLoads = 3
SPECIFICATION FrontSpec
INVARIANT SelectionOfItsRow
CHECK_DEADLOCK FALSE

\* Three requests, three tokens of two logins, a clock that outlives two of them.
CONSTANTS
    Null = Null
    Requests = {q1, q2, q3}
    l1 = l1
    l2 = l2
    old = old
    new = new
    other = other
    Logins = {l1, l2}
    Tokens = {old, new, other}
    LoginOf <- MCLoginOf
    ExpOf <- MCExpOf
    Skew = 1
    TtlMinutes = 2
    MaxTime = 3
    Faults = {"redisReplyLost", "jwksDown", "crash"}
SPECIFICATION Spec
SYMMETRY Symmetry
INVARIANTS
    TypeOK
    AnswerIsOwnLogin
    DeniedIsExpired
PROPERTY AnswerIsFresh

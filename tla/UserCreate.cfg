\* Two requests over two keys and two usernames, every fault switched on.
CONSTANTS
    Null = Null
    Requests = {r1, r2}
    Keys = {k1, k2}
    Usernames = {u1, u2}
    KcIds = {g1, g2, f1}
    GuidIds = {g1, g2}
    Faults = {"kcRefused", "kcReplyLost", "noLocation", "dbRefused",
              "dbReplyLost", "badRow", "disconnect", "crash"}
SPECIFICATION Spec
SYMMETRY Symmetry
INVARIANTS
    TypeOK
    CommittedIsWhole
    CompensatedIsGone
    OneAccountPerKey
    CreatedStays
    OrphanIsVisible
PROPERTIES
    SagaLifecycle
    KeepsContract

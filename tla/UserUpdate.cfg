\* Two requests of either kind over two keys and two emails, every fault that
\* can meet them, fairness.
CONSTANTS
    Null = Null
    Requests = {r1, r2}
    Keys = {k1, k2}
    Emails = {e1, e2}
    Faults = {"kcRefused", "kcReplyLost", "dbRefused", "dbReplyLost", "disconnect", "crash"}
SPECIFICATION FairSpec
INVARIANTS
    TypeOK
    CommittedWasPut
    KeyTakesEffectOnce
    SettledSerialAgrees
PROPERTIES
    StaleUpdateKeepsDeactivation
    EveryRequestEnds

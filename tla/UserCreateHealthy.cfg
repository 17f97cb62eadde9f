\* Three requests for two usernames, a database that answers, a Keycloak that may
\* refuse, fairness.
CONSTANTS
    Null = Null
    Requests = {r1, r2, r3}
    Keys = {k1, k2}
    Usernames = {u1, u2}
    KcIds = {g1, g2}
    GuidIds = {g1, g2}
    Faults = {"kcRefused"}
SPECIFICATION FairSpec
INVARIANT StoresAgree
PROPERTIES
    SagaSettles
    EveryRequestEnds

\* Two requests, a role Keycloak knows, one it does not, and a voided one.
CONSTANTS
    Null = Null
    Requests = {r1, r2}
    Keys = {k1, k2}
    Roles = {admin, local, old}
    LiveRoles = {admin, local}
    KcRoles = {admin, old}
    Faults = {"kcRefused", "kcReplyLost", "dbReplyLost", "disconnect",
              "crash"}
SPECIFICATION Spec
SYMMETRY Symmetry
INVARIANTS
    TypeOK
    SettledSerialAgrees
    OnlyGrantedRoles

\* One request: the fault that breaks the documented compensation.
CONSTANTS
    Null = Null
    Requests = {r1}
    Keys = {k1}
    Usernames = {u1}
    KcIds = {g1}
    GuidIds = {g1}
    Faults = {"dbRefused"}
SPECIFICATION Spec
INVARIANT CompensationLeavesNoRow

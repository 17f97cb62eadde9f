\* One request and no fault: what assigning a role does to the others.
CONSTANTS
    Null = Null
    Requests = {r1}
    Keys = {k1}
    Roles = {admin, local}
    LiveRoles = {admin, local}
    KcRoles = {admin}
    Faults = {}
SPECIFICATION Spec
PROPERTY AssignKeepsOtherRoles

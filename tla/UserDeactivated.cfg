\* One request and no fault: what deactivating a user leaves in Keycloak.
CONSTANTS
    Null = Null
    Requests = {r1}
    Keys = {k1}
    Emails = {e1}
    Faults = {}
SPECIFICATION Spec
INVARIANT DeactivatedIsDisabled

-------------------------- MODULE AccountContract --------------------------
(***************************************************************************)
(* What creating users promises about the realm, request by request        *)
(* forgotten.  An idempotency key is claimed, then opens at most one       *)
(* account, then grants it.  An account is taken away only after its key   *)
(* was revoked, so a key that stands granted always has its account.       *)
(***************************************************************************)
EXTENDS FiniteSets

CONSTANTS Keys, KcIds

VARIABLES
    claim,      \* [Keys -> ClaimStates]
    opened,     \* [Keys -> SUBSET KcIds]  the accounts ever opened for a key
    account     \* [KcIds -> {"unused", "live", "deleted"}]

ClaimStates == {"free", "pending", "granted", "revoked"}

Init ==
    /\ claim = [k \in Keys |-> "free"]
    /\ opened = [k \in Keys |-> {}]
    /\ account = [i \in KcIds |-> "unused"]

Claim(k) ==
    /\ claim[k] = "free"
    /\ claim' = [claim EXCEPT ![k] = "pending"]
    /\ UNCHANGED <<opened, account>>

Open(k, i) ==
    /\ claim[k] = "pending" /\ opened[k] = {}
    /\ account[i] = "unused"
    /\ opened' = [opened EXCEPT ![k] = {i}]
    /\ account' = [account EXCEPT ![i] = "live"]
    /\ UNCHANGED claim

Grant(k) ==
    /\ claim[k] = "pending"
    /\ \E i \in opened[k] : account[i] = "live"
    /\ claim' = [claim EXCEPT ![k] = "granted"]
    /\ UNCHANGED <<opened, account>>

Revoke(k) ==
    /\ claim[k] \in {"pending", "granted"}
    /\ claim' = [claim EXCEPT ![k] = "revoked"]
    /\ UNCHANGED <<opened, account>>

Close(k, i) ==
    /\ claim[k] = "revoked" /\ i \in opened[k]
    /\ account[i] = "live"
    /\ account' = [account EXCEPT ![i] = "deleted"]
    /\ UNCHANGED <<claim, opened>>

Next ==
    \E k \in Keys :
        \/ Claim(k) \/ Grant(k) \/ Revoke(k)
        \/ \E i \in KcIds : Open(k, i) \/ Close(k, i)

Spec == Init /\ [][Next]_<<claim, opened, account>>
=============================================================================

----------------------------- MODULE UserRoles -----------------------------
(***************************************************************************)
(* UserService.SetUserRolesAsync, as UsersController calls it to assign    *)
(* and to remove a role, and KeycloakAdminClient.SetUserRealmRolesAsync    *)
(* under it: requests running side by side on one user's roles.            *)
(*                                                                         *)
(* The mappings are kept twice, as rows of user_role and as realm role     *)
(* mappings in Keycloak.  Both are replaced by reading the current ones,   *)
(* removing those and adding the wanted ones, in separate calls.           *)
(***************************************************************************)
EXTENDS SagaLog, FiniteSets

CONSTANTS
    Requests,   \* the POST and DELETE /users/{id}/roles/{roleId} requests
    Keys,       \* values of the Idempotency-Key header
    Roles,      \* role ids
    LiveRoles,  \* roles that are not voided
    KcRoles     \* roles with a KeycloakRoleId, all of them in the realm

ASSUME RolesAssumption == LiveRoles \subseteq Roles /\ KcRoles \subseteq Roles

VARIABLES
    pc,         \* [Requests -> Steps]
    req,        \* [Requests -> Forms]
    cancelled,  \* [Requests -> BOOLEAN]
    attempts,   \* [Requests -> 0 .. MaxAttempts]
    wanted,     \* [Requests -> SUBSET Roles]  the roles to leave the user with
    seen,       \* [Requests -> SUBSET Roles]  the current mappings, as last read
    saga,       \* [Keys -> SagaRows or Null]  table saga_log
    userRoles,  \* SUBSET Roles  the user's rows of user_role
    mapped,     \* SUBSET KcRoles  the user's realm role mappings
    overlapped, \* BOOLEAN  history: two requests were at work at once
    granted     \* SUBSET Roles  history: held at first, or assigned since

vars == <<pc, req, cancelled, attempts, wanted, seen, saga, userRoles, mapped,
          overlapped, granted>>

db == <<saga, userRoles>>
history == <<overlapped, granted>>

-----------------------------------------------------------------------------

Forms == [op : {"assign", "remove"}, key : Keys, role : Roles]

SagaRows == [owner : Requests, state : {"RUNNING", "COMMITTED"},
             attempts : 0 .. MaxAttempts]

ASSUME NullAssumption == Null \notin SagaRows

Working == {"insertSaga", "kcRead", "kcClear", "kcAdd", "backoff", "loadRows",
            "saveRows"}

Answered == {"done", "failed"}

Steps == {"begin", "crashed"} \cup Working \cup Answered

TypeOK ==
    /\ pc \in [Requests -> Steps]
    /\ req \in [Requests -> Forms]
    /\ cancelled \in [Requests -> BOOLEAN]
    /\ attempts \in [Requests -> 0 .. MaxAttempts]
    /\ wanted \in [Requests -> SUBSET Roles]
    /\ seen \in [Requests -> SUBSET Roles]
    /\ saga \in [Keys -> SagaRows \cup {Null}]
    /\ userRoles \subseteq Roles
    /\ mapped \subseteq KcRoles
    /\ overlapped \in BOOLEAN
    /\ granted \subseteq Roles

\* The two stores start alike, as a finished operation leaves them.
Init ==
    /\ userRoles \in SUBSET Roles
    /\ mapped = userRoles \cap KcRoles
    /\ req \in [Requests -> Forms]
    /\ pc = [r \in Requests |-> "begin"]
    /\ cancelled = [r \in Requests |-> FALSE]
    /\ attempts = [r \in Requests |-> 0]
    /\ wanted = [r \in Requests |-> {}]
    /\ seen = [r \in Requests |-> {}]
    /\ saga = [k \in Keys |-> Null]
    /\ overlapped = FALSE
    /\ granted = userRoles

-----------------------------------------------------------------------------

GoTo(r, step) == pc' = [pc EXCEPT ![r] = step]

Key(r) == req[r].key

SagaRow(r, state) == [owner |-> r, state |-> state, attempts |-> attempts[r]]

KeyFree(r) == saga[Key(r)] = Null

\* Slip: every known role but the removed one.
RoleIdsFromCatalogue(r) ==
    IF req[r].op = "assign" THEN {req[r].role} ELSE Roles \ {req[r].role}

\* The role ids the controller passes on: the one assigned, alone, or those
\* just read without the one removed.
RoleIds(r) ==
    IF req[r].op = "assign" THEN {req[r].role} ELSE userRoles \ {req[r].role}

(***************************************************************************)
(* Read what the request starts from.  Ids of unknown and of voided roles  *)
(* are dropped without an error.                                           *)
(***************************************************************************)
Begin(r) ==
    /\ pc[r] = "begin"
    /\ \E o \in DbOutcomes(cancelled[r]) :
         IF o = "ok"
         THEN /\ wanted' = [wanted EXCEPT ![r] = RoleIds(r) \cap LiveRoles]
              /\ granted' = IF req[r].op = "assign"
                            THEN granted \cup {req[r].role} ELSE granted
              /\ overlapped' = (overlapped \/ \E s \in Requests : pc[s] \in Working)
              /\ GoTo(r, "insertSaga")
         ELSE GoTo(r, "failed") /\ UNCHANGED <<wanted, history>>
    /\ UNCHANGED <<req, cancelled, attempts, seen, db, mapped>>

(***************************************************************************)
(* Claim the key.                                                          *)
(***************************************************************************)
InsertSaga(r) ==
    /\ pc[r] = "insertSaga"
    /\ \E o \in DbOutcomes(cancelled[r]) :
         LET done == o # "refused" /\ KeyFree(r) IN
         /\ saga' = IF done THEN [saga EXCEPT ![Key(r)] = SagaRow(r, "RUNNING")]
                            ELSE saga
         /\ GoTo(r, IF done /\ o = "ok" THEN "kcRead" ELSE "failed")
    /\ UNCHANGED <<req, cancelled, attempts, wanted, seen, userRoles, mapped, history>>

-----------------------------------------------------------------------------

FailedAttempt(r) ==
    /\ attempts' = [attempts EXCEPT ![r] = @ + 1]
    /\ GoTo(r, "backoff")

\* The first call an attempt still has to make after reading the mappings.
NextCall(r, current) ==
    IF current # {} THEN "kcClear"
    ELSE IF wanted[r] \cap KcRoles # {} THEN "kcAdd" ELSE "loadRows"

(***************************************************************************)
(* Read the user's current realm mappings.                                 *)
(***************************************************************************)
KcRead(r) ==
    /\ pc[r] = "kcRead"
    /\ \E o \in KcOutcomes(cancelled[r]) :
         IF o = "ok"
         THEN /\ seen' = [seen EXCEPT ![r] = mapped]
              /\ GoTo(r, NextCall(r, mapped))
              /\ UNCHANGED attempts
         ELSE FailedAttempt(r) /\ UNCHANGED seen
    /\ UNCHANGED <<req, cancelled, wanted, db, mapped, history>>

\* Keycloak ignores mappings that are no longer there.
Cleared(r) == mapped \ seen[r]

(***************************************************************************)
(* Delete the mappings that were read.                                     *)
(***************************************************************************)
KcClear(r) ==
    /\ pc[r] = "kcClear"
    /\ \E o \in KcOutcomes(cancelled[r]) :
         /\ mapped' = IF o = "refused" THEN mapped ELSE Cleared(r)
         /\ IF o = "ok" THEN GoTo(r, NextCall(r, {})) /\ UNCHANGED attempts
                        ELSE FailedAttempt(r)
    /\ UNCHANGED <<req, cancelled, wanted, seen, db, history>>

(***************************************************************************)
(* Add the wanted mappings.                                                *)
(***************************************************************************)
KcAdd(r) ==
    /\ pc[r] = "kcAdd"
    /\ \E o \in KcOutcomes(cancelled[r]) :
         /\ mapped' = IF o = "refused" THEN mapped
                      ELSE mapped \cup (wanted[r] \cap KcRoles)
         /\ IF o = "ok" THEN GoTo(r, "loadRows") /\ UNCHANGED attempts
                        ELSE FailedAttempt(r)
    /\ UNCHANGED <<req, cancelled, wanted, seen, db, history>>

\* Slip: one attempt too many.
MayRetryOffByOne(r) == attempts[r] <= MaxAttempts /\ ~cancelled[r]

MayRetry(r) == attempts[r] < MaxAttempts /\ ~cancelled[r]

\* Slip: the last error of RetryAsync is dropped, not thrown.
GivenUpContinues(r) == "loadRows"

\* The last error is thrown, and nothing catches it: the saga stays RUNNING.
GivenUp(r) == "failed"

(***************************************************************************)
(* The delay ends in the next attempt, in the last error, or at once when  *)
(* the token is cancelled.  An attempt starts over: it reads the mappings   *)
(* as the failed one left them.                                            *)
(***************************************************************************)
Backoff(r) ==
    /\ pc[r] = "backoff"
    /\ GoTo(r, IF MayRetry(r) THEN "kcRead" ELSE GivenUp(r))
    /\ UNCHANGED <<req, cancelled, attempts, wanted, seen, db, mapped, history>>

-----------------------------------------------------------------------------

(***************************************************************************)
(* RemoveRange enumerates the current rows with a query of its own, which  *)
(* is synchronous and takes no token.                                      *)
(***************************************************************************)
LoadRows(r) ==
    /\ pc[r] = "loadRows"
    /\ \E o \in DbOutcomes(FALSE) :
         IF o = "ok"
         THEN seen' = [seen EXCEPT ![r] = userRoles] /\ GoTo(r, "saveRows")
         ELSE GoTo(r, "failed") /\ UNCHANGED seen
    /\ UNCHANGED <<req, cancelled, attempts, wanted, db, mapped, history>>

\* The save fails as a whole if a row it loaded is gone (it would affect no
\* row) or a row it adds is there by now (a duplicate key).
RowsAccepted(r) ==
    /\ seen[r] \subseteq userRoles
    /\ (wanted[r] \ seen[r]) \cap userRoles = {}

(***************************************************************************)
(* The user's rows and the committed saga, in one transaction.             *)
(***************************************************************************)
SaveRows(r) ==
    /\ pc[r] = "saveRows"
    /\ \E o \in DbOutcomes(cancelled[r]) :
         LET done == o # "refused" /\ RowsAccepted(r) IN
         /\ IF done
            THEN /\ userRoles' = (userRoles \ seen[r]) \cup wanted[r]
                 /\ saga' = [saga EXCEPT ![Key(r)] = SagaRow(r, "COMMITTED")]
            ELSE UNCHANGED db
         /\ GoTo(r, IF done /\ o = "ok" THEN "done" ELSE "failed")
    /\ UNCHANGED <<req, cancelled, attempts, wanted, seen, mapped, history>>

-----------------------------------------------------------------------------

\* The HTTP client of a request goes away.
Disconnect(r) ==
    /\ "disconnect" \in Faults
    /\ pc[r] \in Working /\ ~cancelled[r]
    /\ cancelled' = [cancelled EXCEPT ![r] = TRUE]
    /\ UNCHANGED <<pc, req, attempts, wanted, seen, db, mapped, history>>

\* The process stops with every request in it; nothing resumes them.
Crash ==
    /\ "crash" \in Faults
    /\ \E r \in Requests : pc[r] \in Working
    /\ pc' = [r \in Requests |-> IF pc[r] \in Working THEN "crashed" ELSE pc[r]]
    /\ UNCHANGED <<req, cancelled, attempts, wanted, seen, db, mapped, history>>

Handle(r) ==
    \/ InsertSaga(r) \/ KcRead(r) \/ KcClear(r) \/ KcAdd(r) \/ Backoff(r)
    \/ LoadRows(r) \/ SaveRows(r)

\* Every request has been answered or lost: nothing is left to do.
AllDone ==
    /\ \A r \in Requests : pc[r] \in Answered \cup {"crashed"}
    /\ UNCHANGED vars

Next ==
    \/ \E r \in Requests : Begin(r) \/ Handle(r) \/ Disconnect(r)
    \/ Crash
    \/ AllDone

Spec == Init /\ [][Next]_vars

-----------------------------------------------------------------------------
(***************************************************************************)
(* Properties.                                                             *)
(***************************************************************************)

Idle == \A r \in Requests : pc[r] \notin Working

Log == { saga[k] : k \in Keys } \ {Null}

\* The user's roles here and in Keycloak agree when requests came one at a
\* time and none of them left its saga RUNNING, whatever calls failed, lost
\* their reply or were retried from half way.
SettledSerialAgrees ==
    /\ Idle /\ ~overlapped
    /\ \A s \in Log : s.state = "COMMITTED"
    => mapped = userRoles \cap KcRoles

\* No interleaving of reads, removals and additions leaves the user with a
\* role, here or in Keycloak, that was not held at first or assigned since.
OnlyGrantedRoles == userRoles \cup mapped \subseteq granted

\* "POST /users/:userId/roles/:roleId (assign role)", beside "DELETE ...
\* (remove role)" (postman/admin_api_collection_reference.json:270 and 338):
\* assigning a role takes no other live role away from the user.
AssignKeepsOtherRoles ==
    [][\A r \in Requests :
         req[r].op = "assign" /\ pc[r] = "saveRows" /\ pc'[r] = "done"
           => userRoles \cap LiveRoles \subseteq userRoles']_vars
=============================================================================

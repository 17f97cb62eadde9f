----------------------------- MODULE UserUpdate -----------------------------
(***************************************************************************)
(* UserService.UpdateUserAsync and DeactivateUserAsync: requests running   *)
(* side by side on one user that exists in Keycloak and in user_ref.       *)
(*                                                                         *)
(* No two operations of these meet on different users except through the   *)
(* idempotency key, so one user is enough.  Of the fields both stores hold *)
(* the model keeps the email, which stands for all that are copied as they *)
(* come, and the active flag, which deactivation writes too.               *)
(***************************************************************************)
EXTENDS SagaLog, FiniteSets

CONSTANTS
    Requests,   \* the PUT and the deactivate requests
    Keys,       \* values of the Idempotency-Key header
    Emails

VARIABLES
    pc,         \* [Requests -> Steps]
    req,        \* [Requests -> Forms]
    cancelled,  \* [Requests -> BOOLEAN]
    attempts,   \* [Requests -> 0 .. MaxAttempts]
    read,       \* [Requests -> Rows]  the values EF tracked when it loaded the user
    saga,       \* [Keys -> SagaRows or Null]  table saga_log
    row,        \* Rows  the user's row of user_ref
    kc,         \* Rows  the user's account in Keycloak: email, enabled
    put,        \* SUBSET Requests  history: whose PUT Keycloak has applied
    overlapped  \* BOOLEAN  history: two requests were at work at once

vars == <<pc, req, cancelled, attempts, read, saga, row, kc, put, overlapped>>

db == <<saga, row>>
realm == <<kc, put>>

-----------------------------------------------------------------------------

Rows == [email : Emails, active : BOOLEAN]

Ops == {"UPDATE_USER", "DEACTIVATE_USER"}

\* A deactivation has no body; its fields are those it leaves unused.
Forms == [op : Ops, key : Keys, body : Rows]

SagaRows == [owner : Requests, op : Ops, state : {"RUNNING", "COMMITTED"},
             attempts : 0 .. MaxAttempts]

ASSUME NullAssumption == Null \notin SagaRows

Working == {"insertSaga", "kcUpdate", "backoff", "commit", "deactivate"}

Answered == {"done", "failed"}

Steps == {"findUser", "crashed"} \cup Working \cup Answered

TypeOK ==
    /\ pc \in [Requests -> Steps]
    /\ req \in [Requests -> Forms]
    /\ cancelled \in [Requests -> BOOLEAN]
    /\ attempts \in [Requests -> 0 .. MaxAttempts]
    /\ read \in [Requests -> Rows]
    /\ saga \in [Keys -> SagaRows \cup {Null}]
    /\ row \in Rows
    /\ kc \in Rows
    /\ put \subseteq Requests
    /\ overlapped \in BOOLEAN

\* The user was created by CreateUserAsync: active, alike in both stores.
Init ==
    /\ row \in Rows /\ row.active
    /\ kc = row
    /\ req \in [Requests -> { f \in Forms :
                    f.op = "DEACTIVATE_USER" => f.body = [row EXCEPT !.active = FALSE] }]
    /\ pc = [r \in Requests |-> "findUser"]
    /\ cancelled = [r \in Requests |-> FALSE]
    /\ attempts = [r \in Requests |-> 0]
    /\ read = [r \in Requests |-> row]
    /\ saga = [k \in Keys |-> Null]
    /\ put = {}
    /\ overlapped = FALSE

-----------------------------------------------------------------------------

GoTo(r, step) == pc' = [pc EXCEPT ![r] = step]

Key(r) == req[r].key

SagaRow(r, state) == [owner |-> r, op |-> req[r].op, state |-> state,
                      attempts |-> attempts[r]]

\* Slip: a failed saga frees its key.
KeyFreeAfterFailure(r) ==
    \/ saga[Key(r)] = Null
    \/ saga[Key(r)].state = "RUNNING" /\ pc[saga[Key(r)].owner] = "failed"

\* The unique index on idempotency_key.
KeyFree(r) == saga[Key(r)] = Null

\* Slip: every column is written, changed or not.
ChangesAllColumns(r) == req[r].body

\* SaveChangesAsync updates only the columns that differ from what was read.
Changes(r) ==
    LET body == req[r].body IN
    [email |-> IF body.email # read[r].email THEN body.email ELSE row.email,
     active |-> IF body.active # read[r].active THEN body.active ELSE row.active]

(***************************************************************************)
(* Load the user; EF remembers the values.                                 *)
(***************************************************************************)
FindUser(r) ==
    /\ pc[r] = "findUser"
    /\ \E o \in DbOutcomes(cancelled[r]) :
         IF o = "ok"
         THEN /\ read' = [read EXCEPT ![r] = row]
              /\ GoTo(r, IF req[r].op = "UPDATE_USER" THEN "insertSaga"
                                                     ELSE "deactivate")
              /\ overlapped' = (overlapped \/ \E s \in Requests : pc[s] \in Working)
         ELSE GoTo(r, "failed") /\ UNCHANGED <<read, overlapped>>
    /\ UNCHANGED <<req, cancelled, attempts, db, realm>>

(***************************************************************************)
(* Claim the key.  A key already used is a unique violation: the request   *)
(* fails even when the first one of the key succeeded.                     *)
(***************************************************************************)
InsertSaga(r) ==
    /\ pc[r] = "insertSaga"
    /\ \E o \in DbOutcomes(cancelled[r]) :
         LET done == o # "refused" /\ KeyFree(r) IN
         /\ saga' = IF done THEN [saga EXCEPT ![Key(r)] = SagaRow(r, "RUNNING")]
                            ELSE saga
         /\ GoTo(r, IF done /\ o = "ok" THEN "kcUpdate" ELSE "failed")
    /\ UNCHANGED <<req, cancelled, attempts, read, row, realm, overlapped>>

(***************************************************************************)
(* One attempt at PUT /users/{id}: email and enabled together.             *)
(***************************************************************************)
KcUpdate(r) ==
    /\ pc[r] = "kcUpdate"
    /\ \E o \in KcOutcomes(cancelled[r]) :
         /\ IF o # "refused" THEN kc' = req[r].body /\ put' = put \cup {r}
                             ELSE UNCHANGED realm
         /\ IF o = "ok"
            THEN GoTo(r, "commit") /\ UNCHANGED attempts
            ELSE GoTo(r, "backoff") /\ attempts' = [attempts EXCEPT ![r] = @ + 1]
    /\ UNCHANGED <<req, cancelled, read, db, overlapped>>

\* Slip: the wait ends in another wait.
RetryWaits(r) == "backoff"

\* The next attempt.
Retry(r) == "kcUpdate"

\* Slip: one attempt too many.
MayRetryOffByOne(r) == attempts[r] <= MaxAttempts /\ ~cancelled[r]

MayRetry(r) == attempts[r] < MaxAttempts /\ ~cancelled[r]

\* Slip: the last error of RetryAsync is dropped, not thrown.
GivenUpContinues(r) == "commit"

\* The last error is thrown, and nothing catches it: the saga stays RUNNING.
GivenUp(r) == "failed"

(***************************************************************************)
(* The delay ends in the next attempt, in the last error, or at once when  *)
(* the token is cancelled.                                                 *)
(***************************************************************************)
Backoff(r) ==
    /\ pc[r] = "backoff"
    /\ GoTo(r, IF MayRetry(r) THEN Retry(r) ELSE GivenUp(r))
    /\ UNCHANGED <<req, cancelled, attempts, read, db, realm, overlapped>>

(***************************************************************************)
(* The row and the committed saga, in one transaction.                     *)
(***************************************************************************)
Commit(r) ==
    /\ pc[r] = "commit"
    /\ \E o \in DbOutcomes(cancelled[r]) :
         /\ IF o # "refused"
            THEN /\ row' = Changes(r)
                 /\ saga' = [saga EXCEPT ![Key(r)] = SagaRow(r, "COMMITTED")]
            ELSE UNCHANGED db
         /\ GoTo(r, IF o = "ok" THEN "done" ELSE "failed")
    /\ UNCHANGED <<req, cancelled, attempts, read, realm, overlapped>>

(***************************************************************************)
(* Deactivation writes the flag and a saga born COMMITTED, and never calls *)
(* Keycloak.                                                               *)
(***************************************************************************)
Deactivate(r) ==
    /\ pc[r] = "deactivate"
    /\ \E o \in DbOutcomes(cancelled[r]) :
         LET done == o # "refused" /\ KeyFree(r) IN
         /\ IF done
            THEN /\ row' = IF read[r].active THEN [row EXCEPT !.active = FALSE] ELSE row
                 /\ saga' = [saga EXCEPT ![Key(r)] = SagaRow(r, "COMMITTED")]
            ELSE UNCHANGED db
         /\ GoTo(r, IF done /\ o = "ok" THEN "done" ELSE "failed")
    /\ UNCHANGED <<req, cancelled, attempts, read, realm, overlapped>>

-----------------------------------------------------------------------------

\* The HTTP client of a request goes away.
Disconnect(r) ==
    /\ "disconnect" \in Faults
    /\ pc[r] \in Working /\ ~cancelled[r]
    /\ cancelled' = [cancelled EXCEPT ![r] = TRUE]
    /\ UNCHANGED <<pc, req, attempts, read, db, realm, overlapped>>

\* The process stops with every request in it; nothing resumes them.
Crash ==
    /\ "crash" \in Faults
    /\ \E r \in Requests : pc[r] \in Working
    /\ pc' = [r \in Requests |-> IF pc[r] \in Working THEN "crashed" ELSE pc[r]]
    /\ UNCHANGED <<req, cancelled, attempts, read, db, realm, overlapped>>

Handle(r) ==
    InsertSaga(r) \/ KcUpdate(r) \/ Backoff(r) \/ Commit(r) \/ Deactivate(r)

\* Every request has been answered or lost: nothing is left to do.
AllDone ==
    /\ \A r \in Requests : pc[r] \in Answered \cup {"crashed"}
    /\ UNCHANGED vars

Next ==
    \/ \E r \in Requests : FindUser(r) \/ Handle(r) \/ Disconnect(r)
    \/ Crash
    \/ AllDone

Spec == Init /\ [][Next]_vars

\* As for creating users: nothing in a handler waits on another request.
FairSpec == Spec /\ \A r \in Requests : WF_vars(Handle(r))

-----------------------------------------------------------------------------
(***************************************************************************)
(* Properties.                                                             *)
(***************************************************************************)

Idle == \A r \in Requests : pc[r] \notin Working

Log == { saga[k] : k \in Keys } \ {Null}

\* user_ref never runs ahead of the identity provider: an update that saga_log
\* calls COMMITTED has been applied by Keycloak.
CommittedWasPut ==
    \A s \in Log : s.op = "UPDATE_USER" /\ s.state = "COMMITTED" => s.owner \in put

\* A key sent twice takes effect once: of the requests that share a key, one
\* at most ever reaches Keycloak or commits.
KeyTakesEffectOnce ==
    \A r, s \in Requests :
        LET effective(q) == q \in put \/ pc[q] = "done" IN
        Key(r) = Key(s) /\ effective(r) /\ effective(s) => r = s

\* If requests came one at a time and saga_log shows none RUNNING, the two
\* stores agree on the email, and on the flag unless a deactivation wrote it.
\* Lost replies, retries and crashes do not matter: a saga left RUNNING is the
\* only sign of a split, and it is always there.
SettledSerialAgrees ==
    /\ Idle /\ ~overlapped
    /\ \A s \in Log : s.state = "COMMITTED"
    => /\ row.email = kc.email
       /\ (\A s \in Log : s.op = "UPDATE_USER") => row.active = kc.active

\* A user deactivated by one request is not switched on again by an update
\* that had read the user as active: only a request that saw the user inactive
\* and asks for active reactivates it.
StaleUpdateKeepsDeactivation ==
    [][~row.active /\ row'.active =>
         \E r \in Requests : /\ pc[r] = "commit" /\ pc'[r] # "commit"
                             /\ ~read[r].active /\ req[r].body.active]_vars

\* Every request that has begun is answered, unless the process stops.
EveryRequestEnds ==
    \A r \in Requests :
        pc[r] \in Working ~> pc[r] \in Answered \cup {"crashed"}

\* UserService.cs:12, "Orchestrates user write-through between Keycloak and
\* local user_ref": once no request is at work, a user who is inactive here is
\* not enabled there.
DeactivatedIsDisabled == Idle /\ ~row.active => ~kc.active
=============================================================================

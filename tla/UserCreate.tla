----------------------------- MODULE UserCreate -----------------------------
(***************************************************************************)
(* UserService.CreateUserAsync: POST /api/users requests running side by   *)
(* side, each writing a user through to Keycloak and to user_ref under a   *)
(* row of saga_log, with its retries and its compensation.                 *)
(*                                                                         *)
(* A request is a process; pc names the awaited call it is about to make.  *)
(* Each call may be done and answered, done with the answer lost, or not   *)
(* done.  A request's local id (Guid.NewGuid()) is the request itself.     *)
(***************************************************************************)
EXTENDS SagaLog, FiniteSets

CONSTANTS
    Requests,   \* the POST requests
    Keys,       \* values of the Idempotency-Key header
    Usernames,
    KcIds,      \* ids Keycloak may give an account
    GuidIds     \* those that Guid.Parse accepts

ASSUME GuidIdsAssumption == GuidIds \subseteq KcIds

VARIABLES
    pc,         \* [Requests -> Steps]  the call each request makes next
    req,        \* [Requests -> Forms]  the request's key and body
    cancelled,  \* [Requests -> BOOLEAN]  its CancellationToken
    attempts,   \* [Requests -> 0 .. MaxAttempts]  saga.Attempts in memory
    kcId,       \* [Requests -> KcIds or Null]  kcIdText; Null if null or ""
    existing,   \* [Requests -> KcIds or Null]  existingKcId of the replay
    entry,      \* [Requests -> EntryStates]  EF's state of its UserRef
    saga,       \* [Keys -> SagaRows or Null]  table saga_log
    userRef,    \* [Requests -> KcIds or Null]  table user_ref: id to Keycloak id
    account,    \* [KcIds -> AccountStates]  the realm's accounts
    maker       \* [KcIds -> Requests or Null]  whose POST made an account

vars == <<pc, req, cancelled, attempts, kcId, existing, entry, saga, userRef,
          account, maker>>

db == <<saga, userRef>>
realm == <<account, maker>>

-----------------------------------------------------------------------------

\* A body PostgreSQL would reject is one Keycloak still accepts.
Forms == [key : Keys, username : Usernames, valid : BOOLEAN]

SagaRows == [localId : Requests, state : SagaStates,
             target : KcIds \cup {Null}, attempts : 0 .. MaxAttempts]

ASSUME NullAssumption == Null \notin KcIds \cup Requests \cup SagaRows

Working == {"findUser", "insertSaga", "kcCreate", "backoff", "commit",
            "readBack", "abort", "kcDelete", "markCompensated"}

Answered == {"created", "replayed", "failed"}

Steps == {"findSaga", "crashed"} \cup Working \cup Answered

EntryStates == {"Detached", "Added", "Unchanged"}

AccountStates == {"unused", "live", "deleted"}

TypeOK ==
    /\ pc \in [Requests -> Steps]
    /\ req \in [Requests -> Forms]
    /\ cancelled \in [Requests -> BOOLEAN]
    /\ attempts \in [Requests -> 0 .. MaxAttempts]
    /\ kcId \in [Requests -> KcIds \cup {Null}]
    /\ existing \in [Requests -> KcIds \cup {Null}]
    /\ entry \in [Requests -> EntryStates]
    /\ saga \in [Keys -> SagaRows \cup {Null}]
    /\ userRef \in [Requests -> KcIds \cup {Null}]
    /\ account \in [KcIds -> AccountStates]
    /\ maker \in [KcIds -> Requests \cup {Null}]

Init ==
    /\ pc = [r \in Requests |-> "findSaga"]
    /\ req \in [Requests -> { f \in Forms : f.valid \/ "badRow" \in Faults }]
    /\ cancelled = [r \in Requests |-> FALSE]
    /\ attempts = [r \in Requests |-> 0]
    /\ kcId = [r \in Requests |-> Null]
    /\ existing = [r \in Requests |-> Null]
    /\ entry = [r \in Requests |-> "Detached"]
    /\ saga = [k \in Keys |-> Null]
    /\ userRef = [r \in Requests |-> Null]
    /\ account = [i \in KcIds |-> "unused"]
    /\ maker = [i \in KcIds |-> Null]

-----------------------------------------------------------------------------

GoTo(r, step) == pc' = [pc EXCEPT ![r] = step]

Key(r) == req[r].key

\* saga.TargetRef in memory: set together with the tracked UserRef.
Target(r) == IF entry[r] = "Detached" THEN Null ELSE kcId[r]

\* The row SaveChangesAsync writes for the request's tracked SagaLog.
SagaRow(r, state) == [localId |-> r, state |-> state, target |-> Target(r),
                      attempts |-> attempts[r]]

\* Slip: a failed saga frees its key.
KeyFreeAfterAbort(r) == saga[Key(r)] = Null \/ saga[Key(r)].state = "ABORTED"

\* The unique index on idempotency_key.
KeyFree(r) == saga[Key(r)] = Null

\* The constraints of user_ref: primary key, unique keycloak_user_id, lengths.
RowAccepted(r) ==
    /\ req[r].valid
    /\ userRef[r] = Null
    /\ \A s \in Requests : userRef[s] # kcId[r]

\* Slip: the exception of a failed call is swallowed.
ReturnsAlways(done, o) == TRUE

\* The awaited call returns to its caller instead of throwing.
Returns(done, o) == done /\ o = "ok"

\* Keycloak keeps the usernames of live accounts unique.
UsernameTaken(name) ==
    \E i \in KcIds : account[i] = "live" /\ req[maker[i]].username = name

(***************************************************************************)
(* Look the idempotency key up: FindUser follows when it is committed.     *)
(***************************************************************************)
FindSaga(r) ==
    /\ pc[r] = "findSaga"
    /\ \E o \in DbOutcomes(cancelled[r]) :
         LET row == saga[Key(r)]
             replay == row # Null /\ row.state = "COMMITTED" /\ row.target # Null
         IN IF o = "ok" /\ replay
            THEN existing' = [existing EXCEPT ![r] = row.target] /\ GoTo(r, "findUser")
            ELSE /\ UNCHANGED existing
                 /\ GoTo(r, IF o = "ok" THEN "insertSaga" ELSE "failed")
    /\ UNCHANGED <<req, cancelled, attempts, kcId, entry, db, realm>>

(***************************************************************************)
(* Answer a replay with the user its key already made, if it is there.     *)
(***************************************************************************)
FindUser(r) ==
    /\ pc[r] = "findUser"
    /\ \E o \in DbOutcomes(cancelled[r]) :
         LET found == \E s \in Requests : userRef[s] = existing[r] IN
         GoTo(r, IF o # "ok" THEN "failed"
                 ELSE IF found THEN "replayed" ELSE "insertSaga")
    /\ UNCHANGED <<req, cancelled, attempts, kcId, existing, entry, db, realm>>

(***************************************************************************)
(* Claim the key.  A key already claimed is a unique violation, whatever   *)
(* became of its saga; this exception leaves the method uncaught.          *)
(***************************************************************************)
InsertSaga(r) ==
    /\ pc[r] = "insertSaga"
    /\ \E o \in DbOutcomes(cancelled[r]) :
         LET done == o # "refused" /\ KeyFree(r) IN
         /\ saga' = IF done THEN [saga EXCEPT ![Key(r)] = SagaRow(r, "RUNNING")]
                            ELSE saga
         /\ GoTo(r, IF Returns(done, o) THEN "kcCreate" ELSE "failed")
    /\ UNCHANGED <<req, cancelled, attempts, kcId, existing, entry, userRef, realm>>

-----------------------------------------------------------------------------

\* Slip: the failed attempt is not counted.
FailedAttemptUncounted(r) ==
    UNCHANGED attempts /\ GoTo(r, "backoff") /\ UNCHANGED <<kcId, entry>>

\* The catch of RetryAsync: count the attempt, then wait.
FailedAttempt(r) ==
    /\ attempts' = [attempts EXCEPT ![r] = @ + 1]
    /\ GoTo(r, "backoff")
    /\ UNCHANGED <<kcId, entry>>

\* Keycloak stores a new account under a fresh id.
OpenAccount(r, i) ==
    /\ account[i] = "unused"
    /\ account' = [account EXCEPT ![i] = "live"]
    /\ maker' = [maker EXCEPT ![i] = r]

\* Slip: the retry loop goes on after a success.
LoopsOnSuccess(r, i) == FailedAttempt(r)

\* The id parses and the UserRef is added to the context, or Guid.Parse throws.
Accept(r, i) ==
    /\ kcId' = [kcId EXCEPT ![r] = i]
    /\ IF i \in GuidIds
       THEN entry' = [entry EXCEPT ![r] = "Added"] /\ GoTo(r, "commit")
       ELSE UNCHANGED entry /\ GoTo(r, "abort")
    /\ UNCHANGED attempts

\* A reply without a Location header gives "", which does not parse.
AcceptBlank(r) ==
    /\ "noLocation" \in Faults
    /\ GoTo(r, "abort")
    /\ UNCHANGED <<attempts, kcId, entry>>

(***************************************************************************)
(* One attempt at POST /users.  A taken username is a 409, which the       *)
(* client throws and RetryAsync treats like any other failure.             *)
(***************************************************************************)
KcCreate(r) ==
    /\ pc[r] = "kcCreate"
    /\ \E o \in KcOutcomes(cancelled[r]) :
         \/ /\ o = "refused" \/ UsernameTaken(req[r].username)
            /\ FailedAttempt(r)
            /\ UNCHANGED realm
         \/ /\ o # "refused" /\ ~UsernameTaken(req[r].username)
            /\ \E i \in KcIds :
                 /\ OpenAccount(r, i)
                 /\ IF o = "ok" THEN Accept(r, i) \/ AcceptBlank(r)
                                ELSE FailedAttempt(r)
    /\ UNCHANGED <<req, cancelled, existing, db>>

\* Slip: one attempt too many.
MayRetryOffByOne(r) == attempts[r] <= MaxAttempts /\ ~cancelled[r]

MayRetry(r) == attempts[r] < MaxAttempts /\ ~cancelled[r]

(***************************************************************************)
(* The delay ends in the next attempt or in the last error, or at once     *)
(* when the token is cancelled; both exceptions reach the catch.           *)
(***************************************************************************)
Backoff(r) ==
    /\ pc[r] = "backoff"
    /\ GoTo(r, IF MayRetry(r) THEN "kcCreate" ELSE "abort")
    /\ UNCHANGED <<req, cancelled, attempts, kcId, existing, entry, db, realm>>

-----------------------------------------------------------------------------

(***************************************************************************)
(* The UserRef and the committed saga, in one transaction.                 *)
(***************************************************************************)
Commit(r) ==
    /\ pc[r] = "commit"
    /\ \E o \in DbOutcomes(cancelled[r]) :
         LET done == o # "refused" /\ RowAccepted(r) IN
         /\ IF done
            THEN /\ saga' = [saga EXCEPT ![Key(r)] = SagaRow(r, "COMMITTED")]
                 /\ userRef' = [userRef EXCEPT ![r] = kcId[r]]
            ELSE UNCHANGED db
         /\ IF Returns(done, o)
            THEN entry' = [entry EXCEPT ![r] = "Unchanged"] /\ GoTo(r, "readBack")
            ELSE UNCHANGED entry /\ GoTo(r, "abort")
    /\ UNCHANGED <<req, cancelled, attempts, kcId, existing, realm>>

(***************************************************************************)
(* The user is read back inside the same try: a failed read goes to the    *)
(* catch although everything was saved.                                    *)
(***************************************************************************)
ReadBack(r) ==
    /\ pc[r] = "readBack"
    /\ \E o \in DbOutcomes(cancelled[r]) :
         GoTo(r, IF o = "ok" THEN "created" ELSE "abort")
    /\ UNCHANGED <<req, cancelled, attempts, kcId, existing, entry, db, realm>>

\* Slip: the account is deleted whether or not the aborted saga was saved.
MayCompensateUnsaved(r, saved) == kcId[r] # Null

\* The compensation follows the save of the aborted saga, given an id.
MayCompensate(r, saved) == saved /\ kcId[r] # Null

(***************************************************************************)
(* Save the aborted saga with the same DbContext.  A UserRef whose insert  *)
(* failed is still tracked as Added, so this save inserts it again: both   *)
(* rows are written or neither.  When the save throws, the compensation is *)
(* not reached.                                                            *)
(***************************************************************************)
Abort(r) ==
    /\ pc[r] = "abort"
    /\ \E o \in DbOutcomes(cancelled[r]) :
         LET adds == entry[r] = "Added"
             done == o # "refused" /\ (adds => RowAccepted(r))
             saved == Returns(done, o)
         IN
         /\ saga' = IF done THEN [saga EXCEPT ![Key(r)] = SagaRow(r, "ABORTED")]
                            ELSE saga
         /\ userRef' = IF done /\ adds THEN [userRef EXCEPT ![r] = kcId[r]]
                                       ELSE userRef
         /\ entry' = IF saved /\ adds THEN [entry EXCEPT ![r] = "Unchanged"]
                                      ELSE entry
         /\ GoTo(r, IF MayCompensate(r, saved) THEN "kcDelete" ELSE "failed")
    /\ UNCHANGED <<req, cancelled, attempts, kcId, existing, realm>>

(***************************************************************************)
(* Delete the account, once.  The inner catch swallows a failure.          *)
(***************************************************************************)
KcDelete(r) ==
    /\ pc[r] = "kcDelete"
    /\ \E o \in KcOutcomes(cancelled[r]) :
         LET done == o # "refused" /\ account[kcId[r]] = "live" IN
         /\ account' = IF done THEN [account EXCEPT ![kcId[r]] = "deleted"]
                               ELSE account
         /\ GoTo(r, IF Returns(done, o) THEN "markCompensated" ELSE "failed")
    /\ UNCHANGED <<req, cancelled, attempts, kcId, existing, entry, db, maker>>

(***************************************************************************)
(* Save the compensated saga; the first error is rethrown either way.      *)
(***************************************************************************)
MarkCompensated(r) ==
    /\ pc[r] = "markCompensated"
    /\ \E o \in DbOutcomes(cancelled[r]) :
         saga' = IF o = "refused" THEN saga
                 ELSE [saga EXCEPT ![Key(r)] = SagaRow(r, "COMPENSATED")]
    /\ GoTo(r, "failed")
    /\ UNCHANGED <<req, cancelled, attempts, kcId, existing, entry, userRef, realm>>

-----------------------------------------------------------------------------

\* The HTTP client of a request goes away.
Disconnect(r) ==
    /\ "disconnect" \in Faults
    /\ pc[r] \in Working /\ ~cancelled[r]
    /\ cancelled' = [cancelled EXCEPT ![r] = TRUE]
    /\ UNCHANGED <<pc, req, attempts, kcId, existing, entry, db, realm>>

\* The process stops with every request in it; nothing resumes them.
Crash ==
    /\ "crash" \in Faults
    /\ \E r \in Requests : pc[r] \in Working
    /\ pc' = [r \in Requests |-> IF pc[r] \in Working THEN "crashed" ELSE pc[r]]
    /\ UNCHANGED <<req, cancelled, attempts, kcId, existing, entry, db, realm>>

Handle(r) ==
    \/ FindUser(r) \/ InsertSaga(r) \/ KcCreate(r) \/ Backoff(r) \/ Commit(r)
    \/ ReadBack(r) \/ Abort(r) \/ KcDelete(r) \/ MarkCompensated(r)

\* Every request has been answered or lost: nothing is left to do.
AllDone ==
    /\ \A r \in Requests : pc[r] \in Answered \cup {"crashed"}
    /\ UNCHANGED vars

Next ==
    \/ \E r \in Requests : FindSaga(r) \/ Handle(r) \/ Disconnect(r)
    \/ Crash
    \/ AllDone

Spec == Init /\ [][Next]_vars

(***************************************************************************)
(* Retries are counted, every client has a timeout and nothing waits on    *)
(* another request, so a request that has started keeps taking steps.      *)
(***************************************************************************)
FairSpec == Spec /\ \A r \in Requests : WF_vars(Handle(r))

-----------------------------------------------------------------------------
(***************************************************************************)
(* Properties.                                                             *)
(***************************************************************************)

\* A committed saga stands for a whole user: its user_ref row carries the
\* saga's target, and that account is live and was opened by this very saga.
\* The catch of CreateUserAsync may undo a saved create, but it deletes the
\* account only after the saga has stopped being committed.
CommittedIsWhole ==
    \A k \in Keys : saga[k] # Null /\ saga[k].state = "COMMITTED" =>
        /\ saga[k].target # Null
        /\ userRef[saga[k].localId] = saga[k].target
        /\ account[saga[k].target] = "live"
        /\ maker[saga[k].target] = saga[k].localId

\* COMPENSATED is written only once the account of that saga is deleted
\* (KeycloakAdminClient.DeleteUserAsync answered), never on a swallowed error.
CompensatedIsGone ==
    \A k \in Keys : saga[k] # Null /\ saga[k].state = "COMPENSATED" =>
        \A i \in KcIds : maker[i] = saga[k].localId => account[i] = "deleted"

\* However often a call is retried and a key is sent again, one idempotency
\* key opens at most one Keycloak account, ever.
OneAccountPerKey ==
    \A i, j \in KcIds :
        /\ maker[i] # Null /\ maker[j] # Null
        /\ Key(maker[i]) = Key(maker[j])
        => i = j

\* A caller told 201 by its own create keeps that user: no later step of any
\* request aborts its saga, deletes its account or drops its row.
CreatedStays ==
    \A r \in Requests : pc[r] = "created" =>
        /\ saga[Key(r)] # Null
        /\ saga[Key(r)].localId = r /\ saga[Key(r)].state = "COMMITTED"
        /\ userRef[r] = kcId[r] /\ account[kcId[r]] = "live"

\* "compensation failure is visible in saga_log" (UserService.cs:99): an
\* account left in the realm with no user_ref belongs to a saga that is
\* neither COMMITTED nor COMPENSATED.
OrphanIsVisible ==
    \A i \in KcIds :
        /\ account[i] = "live"
        /\ \A r \in Requests : userRef[r] # i
        => /\ saga[Key(maker[i])] # Null
           /\ saga[Key(maker[i])].state \in {"RUNNING", "ABORTED"}

\* A saga row only moves along these edges; COMPENSATED is final, an aborted
\* saga never commits, and a key is never claimed a second time.
SagaLifecycle ==
    [][\A k \in Keys : saga'[k] # saga[k] =>
         IF saga[k] = Null THEN saga'[k].state = "RUNNING"
         ELSE /\ saga'[k] # Null
              /\ saga'[k].localId = saga[k].localId
              /\ <<saga[k].state, saga'[k].state>> \in
                   {<<"RUNNING", "COMMITTED">>, <<"RUNNING", "ABORTED">>,
                    <<"COMMITTED", "ABORTED">>, <<"ABORTED", "COMPENSATED">>}]_vars

\* With a database that answers, well-formed bodies and replies that arrive, a
\* refusing Keycloak alone never splits the two stores: once no request is at
\* work, live accounts and user_ref rows pair up.
StoresAgree ==
    (\A r \in Requests : pc[r] \notin Working) =>
        \A i \in KcIds : account[i] = "live" <=> \E r \in Requests : userRef[r] = i

\* Under the same conditions no saga is left RUNNING.
SagaSettles ==
    \A k \in Keys :
        saga[k] # Null /\ saga[k].state = "RUNNING"
            ~> saga[k] # Null /\ saga[k].state # "RUNNING"

\* README.md:76, "compensate by deleting Keycloak user when local save fails":
\* a compensated create leaves nothing behind in user_ref.
CompensationLeavesNoRow ==
    \A r \in Requests : userRef[r] # Null => account[userRef[r]] # "deleted"

\* README_DB_RBAC_API_LOGIC.md:30, "If account_db insert fails after Keycloak
\* create, compensate by deleting the Keycloak user": a create that failed with
\* an account opened and no row saved does not leave the account live.
FailedInsertIsCompensated ==
    \A r \in Requests :
        pc[r] = "failed" /\ kcId[r] # Null /\ userRef[r] = Null
            => account[kcId[r]] = "deleted"

(***************************************************************************)
(* CreateUserAsync keeps the contract of AccountContract.                  *)
(***************************************************************************)
ClaimOf(row) ==
    IF row = Null THEN "free"
    ELSE CASE row.state = "RUNNING" -> "pending"
           [] row.state = "COMMITTED" -> "granted"
           [] OTHER -> "revoked"

Contract == INSTANCE AccountContract WITH
    claim <- [k \in Keys |-> ClaimOf(saga[k])],
    opened <- [k \in Keys |-> { i \in KcIds : maker[i] # Null /\ Key(maker[i]) = k }]

\* Every step of every request is a step of the contract or none: an account
\* is opened under its own claim only, and closed only after a revocation.
KeepsContract == Contract!Spec

\* Every request that has begun is answered, unless the process stops: the
\* retries are bounded and no error path of the catch loops.
EveryRequestEnds ==
    \A r \in Requests :
        pc[r] \in Working ~> pc[r] \in Answered \cup {"crashed"}
=============================================================================

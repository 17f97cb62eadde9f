------------------------------ MODULE SagaLog ------------------------------
(***************************************************************************)
(* What the operations of UserService share: the rows of saga_log and the  *)
(* outcomes of one awaited call to PostgreSQL or to Keycloak.              *)
(*                                                                         *)
(* saga_log has a unique index on idempotency_key, so the table is a       *)
(* function from keys to rows.                                             *)
(***************************************************************************)
EXTENDS Naturals

CONSTANTS
    Null,       \* a C# null, or the absence of a row
    Faults      \* what may go wrong in a run: a subset of AllFaults

(***************************************************************************)
(* The faults a run may switch on.                                         *)
(*   kcRefused    Keycloak (or the admin token call) answers with an error *)
(*   kcReplyLost  Keycloak did it, and the caller sees an exception        *)
(*   noLocation   Keycloak's 201 carries no Location header                *)
(*   dbRefused    a database call throws and nothing is written            *)
(*   dbReplyLost  the transaction commits, and the caller sees an exception*)
(*   badRow       PostgreSQL rejects the row (a value too long, say)       *)
(*   disconnect   the HTTP client goes away: the request's token is        *)
(*                cancelled and every later awaited call throws            *)
(*   crash        the API process stops                                    *)
(***************************************************************************)
AllFaults == {"kcRefused", "kcReplyLost", "noLocation", "dbRefused",
              "dbReplyLost", "badRow", "disconnect", "crash"}

ASSUME FaultsAssumption == Faults \subseteq AllFaults

SagaStates == {"RUNNING", "COMMITTED", "COMPENSATED", "ABORTED"}

(***************************************************************************)
(* How an awaited call can end: it is done and answered, done and the      *)
(* answer lost, or not done at all.  A cancelled token makes the client    *)
(* throw before anything is sent.                                          *)
(***************************************************************************)
Outcomes == {"ok", "lost", "refused"}

CallOutcomes(isCancelled, refusal, loss) ==
    { o \in Outcomes :
        /\ o = "refused" => isCancelled \/ refusal \in Faults
        /\ o # "refused" => ~isCancelled
        /\ o = "lost" => loss \in Faults }

DbOutcomes(isCancelled) == CallOutcomes(isCancelled, "dbRefused", "dbReplyLost")

KcOutcomes(isCancelled) == CallOutcomes(isCancelled, "kcRefused", "kcReplyLost")

\* RetryAsync gives an action this many attempts.
MaxAttempts == 3
=============================================================================

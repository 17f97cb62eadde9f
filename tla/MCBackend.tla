------------------------------ MODULE MCBackend ------------------------------
(***************************************************************************)
(* The services over PostgreSQL alone, one at a time: they share no row    *)
(* that a property relates.                                                *)
(***************************************************************************)
EXTENDS Entities, TLC, Naturals, FiniteSets

CONSTANTS LedgerRequests, Items

VARIABLES service,
    table, rows, req, beside,
    links, voided, inactive, ownerGone, saves, last, asked, alone,
    chart, pay, rivals, before

Coded == INSTANCE Catalogue
Joined == INSTANCE Replacement
Accounts == INSTANCE Ledger WITH Requests <- LedgerRequests

ASSUME LedgerAssumption == None \notin LedgerRequests \cup Accounts!Row

catalogueRest == <<links, voided, inactive, ownerGone, saves, last, asked, alone,
                   chart, pay, rivals, before>>
replacementRest == <<rows, beside, chart, pay, rivals, before>>
ledgerRest == <<table, rows, beside, links, voided, inactive, ownerGone, last, asked>>

(* An id is left for a create.                                             *)
Init ==
    \/ /\ service = "catalogue" /\ Coded!Init /\ \E i \in Ids : rows[i] = None
       /\ links = None /\ voided = None /\ inactive = None /\ ownerGone = None /\ saves = None
       /\ last = None /\ asked = None /\ alone = None /\ chart = None /\ pay = None
       /\ rivals = None /\ before = None
    \/ /\ service = "replacement" /\ Joined!Init
       /\ rows = None /\ beside = None /\ chart = None /\ pay = None /\ rivals = None
       /\ before = None
    \/ /\ service = "ledger" /\ Accounts!Init
       /\ table = None /\ rows = None /\ beside = None /\ links = None /\ voided = None
       /\ inactive = None /\ ownerGone = None /\ last = None /\ asked = None

Next ==
    /\ \/ service = "catalogue" /\ Coded!Next /\ UNCHANGED catalogueRest
       \/ service = "replacement" /\ Joined!Next /\ UNCHANGED replacementRest
       \/ service = "ledger" /\ Accounts!Next /\ UNCHANGED ledgerRest
    /\ UNCHANGED service

Spec == Init /\ [][Next]_<<service, table, req, catalogueRest, replacementRest>>

(* Ids, codes, items and accounts are only compared.                       *)
Symmetry ==
    Permutations(Ids) \cup Permutations(Codes) \cup Permutations(Requests)
        \cup Permutations(LedgerRequests) \cup Permutations(Items) \cup Permutations(Pays)

-----------------------------------------------------------------------------
(* Every variable has a value of its kind, in each service.                *)
TypeOK ==
    CASE service = "catalogue" -> Coded!TypeOK
      [] service = "replacement" -> Joined!TypeOK
      [] OTHER -> Accounts!TypeOK

(* LiveCodesUnique of roles, permissions, organization types and chart     *)
(* accounts.                                                               *)
LiveCodesUnique ==
    /\ service = "catalogue" => Coded!LiveCodesUnique
    /\ service = "ledger" => Accounts!LiveCodesUnique

(* RefusedLeavesNothing of roles, permissions and organization types.      *)
RefusedLeavesNothing == service = "catalogue" => Coded!RefusedLeavesNothing

(* ShownIsAsAsked of a role's permissions and a menu item's roles.         *)
ShownIsAsAsked == service = "replacement" => Joined!ShownIsAsAsked

(* DefaultIsSingle of payment accounts.                                    *)
DefaultIsSingle == service = "ledger" => Accounts!DefaultIsSingle

(* VoidedWasUnused of chart accounts.                                      *)
VoidedWasUnused == service = "ledger" => Accounts!VoidedWasUnused
=============================================================================

----------------------------- MODULE BackendProofs -----------------------------
(***************************************************************************)
(* Proofs about the services over PostgreSQL alone, by turns, for any      *)
(* ids, items and requests: first about Replacement, then about all three. *)
(*                                                                         *)
(* The argument for Replacement: the rows that are there change only with  *)
(* a save, so what a request loaded is still there as long as no other has *)
(* been saved; its own save then leaves what it was asked for.  The other  *)
(* two are proved in CatalogueProofs and LedgerProofs, whose lemmas are    *)
(* taken over here: a service that is looked at does its own steps only.   *)
(***************************************************************************)
EXTENDS MCBackend, TLAPS

CodedProofs == INSTANCE CatalogueProofs
AccountsProofs == INSTANCE LedgerProofs WITH Requests <- LedgerRequests

-----------------------------------------------------------------------------
(* Replacement.                                                            *)

\* What a request has loaded and not yet saved.
LoadedInv(q) ==
    req[q].pc \in {"loaded", "ready"} =>
        /\ req[q].since <= saves
        /\ req[q].since = saves => req[q].existing = links

JoinedInv ==
    /\ Joined!TypeOK
    /\ \A q \in Requests : LoadedInv(q)
    /\ alone => links = last
    /\ links \subseteq asked

\* Before the first request the links are those there were.
LEMMA JoinedInit == Joined!Init => JoinedInv
  <1> SUFFICES ASSUME Joined!Init PROVE JoinedInv
    OBVIOUS
  <1>1. req \in [Requests -> Joined!Request]
    BY DEF Joined!Init, Joined!Request, Joined!Pcs
  <1>2. ownerGone \in BOOLEAN /\ alone \in BOOLEAN
    BY DEF Joined!Init
  <1>3. Joined!TypeOK
    BY <1>1, <1>2 DEF Joined!Init, Joined!TypeOK
  <1>4. \A q \in Requests : LoadedInv(q)
    BY DEF Joined!Init, LoadedInv
  <1> QED
    BY <1>3, <1>4 DEF Joined!Init, JoinedInv

\* A request goes on, or is answered, and writes nothing.
Moves(q) ==
    /\ \E pc \in Joined!Pcs \ {"loaded", "ready"} : \E answer \in {"none", "ok", "4xx", "500"} :
         req' = [req EXCEPT ![q].pc = pc, ![q].answer = answer]
    /\ UNCHANGED <<table, links, voided, inactive, ownerGone, saves, last, asked, alone>>

LEMMA MovesInv ==
    ASSUME JoinedInv, NEW q \in Requests, Moves(q)
    PROVE  JoinedInv'
  <1>1. PICK pc \in Joined!Pcs \ {"loaded", "ready"}, answer \in {"none", "ok", "4xx", "500"} :
             req' = [req EXCEPT ![q].pc = pc, ![q].answer = answer]
    BY DEF Moves
  <1>2. req' \in [Requests -> Joined!Request]
    BY <1>1 DEF JoinedInv, Joined!TypeOK, Joined!Request
  <1>3. \A p \in Requests : LoadedInv(p)'
    BY <1>1 DEF JoinedInv, Joined!TypeOK, Joined!Request, LoadedInv, Moves
  <1>4. ownerGone' \in BOOLEAN /\ alone' \in BOOLEAN
    BY DEF JoinedInv, Joined!TypeOK, Moves
  <1> QED
    BY <1>2, <1>3, <1>4 DEF JoinedInv, Joined!TypeOK, Moves

LEMMA BeginInv ==
    ASSUME JoinedInv, NEW q \in Requests, Joined!Begin(q) \/ Joined!Fail(q) \/ Joined!SaveFails(q)
    PROVE  JoinedInv'
  <1>1. Moves(q)
    <2>1. req[q].answer \in {"none", "ok", "4xx", "500"} /\ req[q] \in Joined!Request
      BY DEF JoinedInv, Joined!TypeOK, Joined!Request
    <2>2. ASSUME NEW pc \in Joined!Pcs, Joined!Goes(q, pc)
          PROVE  req' = [req EXCEPT ![q].pc = pc, ![q].answer = req[q].answer]
      BY <2>1, <2>2 DEF Joined!Goes, JoinedInv, Joined!TypeOK, Joined!Request
    <2> QED
      BY <2>1, <2>2 DEF Joined!Begin, Joined!Fail, Joined!SaveFails, Joined!Answers, Moves, Joined!Pcs
  <1> QED
    BY <1>1, MovesInv

\* Validation keeps what was loaded.
LEMMA ValidateInv ==
    ASSUME JoinedInv, NEW q \in Requests, Joined!Validate(q)
    PROVE  JoinedInv'
  <1>1. req' \in [Requests -> Joined!Request]
    BY DEF JoinedInv, Joined!TypeOK, Joined!Request, Joined!Validate, Joined!Goes, Joined!Answers, Joined!Pcs
  <1>2. \A p \in Requests : LoadedInv(p)'
    BY DEF JoinedInv, Joined!TypeOK, Joined!Request, LoadedInv, Joined!Validate, Joined!Goes, Joined!Answers
  <1>3. ownerGone' \in BOOLEAN /\ alone' \in BOOLEAN
    BY DEF JoinedInv, Joined!TypeOK, Joined!Validate
  <1> QED
    BY <1>1, <1>2, <1>3 DEF JoinedInv, Joined!TypeOK, Joined!Validate

\* What is loaded is what is there.
LEMMA LoadExistingInv ==
    ASSUME JoinedInv, NEW q \in Requests, Joined!LoadExisting(q)
    PROVE  JoinedInv'
  <1>1. req' \in [Requests -> Joined!Request]
    <2>1. req[q] \in Joined!Request
      BY DEF JoinedInv, Joined!TypeOK
    <2>2. [req[q] EXCEPT !.existing = links, !.since = saves,
                         !.pc = IF table = "role_permission" \/ req[q].want = {}
                                THEN "ready" ELSE "loaded"] \in Joined!Request
      BY <2>1 DEF JoinedInv, Joined!TypeOK, Joined!Request, Joined!Pcs
    <2> QED
      BY <2>2 DEF JoinedInv, Joined!TypeOK, Joined!LoadExisting
  <1>2. \A p \in Requests : LoadedInv(p)'
    BY DEF JoinedInv, Joined!TypeOK, Joined!Request, LoadedInv, Joined!LoadExisting
  <1>3. ownerGone' \in BOOLEAN /\ alone' \in BOOLEAN
    BY DEF JoinedInv, Joined!TypeOK, Joined!LoadExisting
  <1> QED
    BY <1>1, <1>2, <1>3 DEF JoinedInv, Joined!TypeOK, Joined!LoadExisting

\* A save is the only step that writes links: exactly what was asked for
\* when the request ran alone, and never more than what was asked for.
LEMMA SaveInv ==
    ASSUME JoinedInv, NEW q \in Requests, Joined!Save(q)
    PROVE  JoinedInv'
  <1>1. req' \in [Requests -> Joined!Request]
    BY DEF JoinedInv, Joined!TypeOK, Joined!Request, Joined!Save, Joined!Answers, Joined!Pcs
  <1>2. \A p \in Requests : LoadedInv(p)'
    BY DEF JoinedInv, Joined!TypeOK, Joined!Request, LoadedInv, Joined!Save, Joined!Answers
  <1>3. ownerGone' \in BOOLEAN /\ alone' \in BOOLEAN
    BY DEF JoinedInv, Joined!TypeOK, Joined!Save
  <1>4. req[q].want \in SUBSET Items /\ req[q].existing \in SUBSET Items
    BY DEF JoinedInv, Joined!TypeOK, Joined!Request
  <1>5. alone' => links' = last'
    <2>1. alone' => req[q].existing = links
      BY DEF JoinedInv, LoadedInv, Joined!Save
    <2> QED
      BY <2>1, <1>4 DEF Joined!Save, Joined!Replaced, Joined!Removed, Joined!Added
  <1>6. links' \subseteq asked' /\ links' \in SUBSET Items
    BY <1>4 DEF JoinedInv, Joined!TypeOK, Joined!Save, Joined!Replaced, Joined!Removed, Joined!Added
  <1> QED
    BY <1>1, <1>2, <1>3, <1>4, <1>5, <1>6 DEF JoinedInv, Joined!TypeOK, Joined!Save

\* Voiding a row, and switching one off or on, touches no link.
LEMMA VoidInv ==
    ASSUME JoinedInv, Joined!VoidItem \/ Joined!SetActive \/ Joined!VoidOwner
    PROVE  JoinedInv'
  <1>1. ownerGone' \in BOOLEAN /\ alone' \in BOOLEAN
    BY DEF JoinedInv, Joined!TypeOK, Joined!VoidItem, Joined!SetActive, Joined!VoidOwner
  <1>2. \A q \in Requests : LoadedInv(q)'
    BY DEF JoinedInv, LoadedInv, Joined!VoidItem, Joined!SetActive, Joined!VoidOwner
  <1>3. inactive' \in SUBSET Items /\ voided' \in SUBSET Items
    BY DEF JoinedInv, Joined!TypeOK, Joined!VoidItem, Joined!SetActive, Joined!VoidOwner
  <1> QED
    BY <1>1, <1>2, <1>3
    DEF JoinedInv, Joined!TypeOK, Joined!VoidItem, Joined!SetActive, Joined!VoidOwner

\* Every step keeps the invariant.
LEMMA JoinedNext == JoinedInv /\ [Joined!Next]_Joined!vars => JoinedInv'
  <1> SUFFICES ASSUME JoinedInv, [Joined!Next]_Joined!vars PROVE JoinedInv'
    OBVIOUS
  <1>1. ASSUME NEW q \in Requests, Joined!Handle(q) PROVE JoinedInv'
    BY <1>1, BeginInv, ValidateInv, LoadExistingInv, SaveInv DEF Joined!Handle
  <1>2. CASE Joined!VoidItem \/ Joined!SetActive \/ Joined!VoidOwner
    BY <1>2, VoidInv
  <1>3. CASE UNCHANGED Joined!vars
    <2>1. \A q \in Requests : LoadedInv(q)'
      BY <1>3 DEF Joined!vars, JoinedInv, LoadedInv
    <2> QED
      BY <1>3, <2>1 DEF Joined!vars, JoinedInv, Joined!TypeOK
  <1> QED
    BY <1>1, <1>2, <1>3 DEF Joined!Next

LEMMA JoinedInvShown == JoinedInv => Joined!ShownIsAsAsked
  BY DEF JoinedInv, Joined!ShownIsAsAsked, Joined!Shown, Joined!InEffect

-----------------------------------------------------------------------------
(* Catalogue and Ledger: their proofs are about the same definitions.      *)

LEMMA SameCatalogue ==
    /\ Coded!Init <=> CodedProofs!Init
    /\ Coded!Next <=> CodedProofs!Next
    /\ Coded!TypeOK <=> CodedProofs!TypeOK
    /\ Coded!LiveCodesUnique <=> CodedProofs!LiveCodesUnique
    /\ Coded!RefusedLeavesNothing <=> CodedProofs!RefusedLeavesNothing
  BY DEF
      Coded!Init, CodedProofs!Init, Coded!Next, CodedProofs!Next, Coded!vars,
      CodedProofs!vars, Coded!Call, CodedProofs!Call, Coded!Handle, CodedProofs!Handle,
      Coded!Load, CodedProofs!Load, Coded!Check, CodedProofs!Check, Coded!Save,
      CodedProofs!Save, Coded!SetOrgTypes, CodedProofs!SetOrgTypes, Coded!Fail,
      CodedProofs!Fail, Coded!Goes, CodedProofs!Goes, Coded!Answers,
      CodedProofs!Answers, Coded!SaveCreate, CodedProofs!SaveCreate, Coded!SaveUpdate,
      CodedProofs!SaveUpdate, Coded!SaveDelete, CodedProofs!SaveDelete, Coded!Live,
      CodedProofs!Live, Coded!Taken, CodedProofs!Taken, Coded!NewRequest,
      CodedProofs!NewRequest, Coded!UnderWay, CodedProofs!UnderWay, Coded!Indexed,
      CodedProofs!Indexed, Coded!Collides, CodedProofs!Collides, Coded!ReadyToSave,
      CodedProofs!ReadyToSave, Coded!SaveEnds, CodedProofs!SaveEnds, Coded!Changes,
      CodedProofs!Changes, Coded!CatalogueOps, CodedProofs!CatalogueOps, Coded!Tables,
      CodedProofs!Tables, Coded!Row, CodedProofs!Row, Coded!TypeOK, CodedProofs!TypeOK,
      Coded!Request, CodedProofs!Request, Coded!Replies, CodedProofs!Replies,
      Coded!LiveCodesUnique, CodedProofs!LiveCodesUnique, Coded!RefusedLeavesNothing,
      CodedProofs!RefusedLeavesNothing

LEMMA SameLedger ==
    /\ Accounts!Init <=> AccountsProofs!Init
    /\ Accounts!Next <=> AccountsProofs!Next
    /\ Accounts!TypeOK <=> AccountsProofs!TypeOK
    /\ Accounts!LiveCodesUnique <=> AccountsProofs!LiveCodesUnique
    /\ Accounts!DefaultIsSingle <=> AccountsProofs!DefaultIsSingle
    /\ Accounts!VoidedWasUnused <=> AccountsProofs!VoidedWasUnused
  BY DEF
      Accounts!Init,
      AccountsProofs!Init, Accounts!Next, AccountsProofs!Next, Accounts!vars,
      AccountsProofs!vars, Accounts!defaultVars, AccountsProofs!defaultVars,
      Accounts!Call, AccountsProofs!Call, Accounts!Handle, AccountsProofs!Handle,
      Accounts!LoadChart, AccountsProofs!LoadChart, Accounts!CodeTaken,
      AccountsProofs!CodeTaken, Accounts!CheckCode, AccountsProofs!CheckCode,
      Accounts!CheckParent, AccountsProofs!CheckParent, Accounts!Used,
      AccountsProofs!Used, Accounts!CheckUse, AccountsProofs!CheckUse,
      Accounts!SaveEnds, AccountsProofs!SaveEnds, Accounts!SaveCreate,
      AccountsProofs!SaveCreate, Accounts!Written, AccountsProofs!Written,
      Accounts!SaveUpdate, AccountsProofs!SaveUpdate, Accounts!SaveDelete,
      AccountsProofs!SaveDelete, Accounts!LoadAll, AccountsProofs!LoadAll,
      Accounts!LoadOthers, AccountsProofs!LoadOthers,
      Accounts!LoadAccount, AccountsProofs!LoadAccount, Accounts!Chosen,
      AccountsProofs!Chosen, Accounts!Cleared, AccountsProofs!Cleared,
      Accounts!CreatePay, AccountsProofs!CreatePay, Accounts!SetDefault,
      AccountsProofs!SetDefault, Accounts!Fail, AccountsProofs!Fail, Accounts!Goes,
      AccountsProofs!Goes, Accounts!Answers, AccountsProofs!Answers,
      Accounts!NewRequest, AccountsProofs!NewRequest, Accounts!LiveChart,
      AccountsProofs!LiveChart, Accounts!Existing, AccountsProofs!Existing,
      Accounts!Defaults, AccountsProofs!Defaults, Accounts!Request,
      AccountsProofs!Request, Accounts!Chart, AccountsProofs!Chart, Accounts!Pay,
      AccountsProofs!Pay, Accounts!LedgerOps, AccountsProofs!LedgerOps,
      Accounts!Replies, AccountsProofs!Replies, Accounts!TypeOK, AccountsProofs!TypeOK,
      Accounts!LiveCodesUnique, AccountsProofs!LiveCodesUnique,
      Accounts!DefaultIsSingle, AccountsProofs!DefaultIsSingle,
      Accounts!VoidedWasUnused, AccountsProofs!VoidedWasUnused

LEMMA NoneInCatalogue == CodedProofs!NoneAssumption
  BY NoneAssumption DEF CodedProofs!NoneAssumption, CodedProofs!Row, CodedProofs!Chart,
     CodedProofs!Pay, CodedProofs!CatalogueOps, CodedProofs!LedgerOps, CodedProofs!Replies,
     Row, Chart, Pay, CatalogueOps, LedgerOps, Replies

LEMMA NoneInLedger == AccountsProofs!NoneAssumption
  BY NoneAssumption, LedgerAssumption DEF AccountsProofs!NoneAssumption, AccountsProofs!Row,
     AccountsProofs!Chart, AccountsProofs!Pay, AccountsProofs!CatalogueOps,
     AccountsProofs!LedgerOps, AccountsProofs!Replies, Accounts!Row,
     Row, Chart, Pay, CatalogueOps, LedgerOps, Replies

LEMMA CatalogueInit == Coded!Init => CodedProofs!IInv
  BY SameCatalogue, NoneInCatalogue, CodedProofs!InitInv

LEMMA CatalogueNext == CodedProofs!IInv /\ [Coded!Next]_Coded!vars => CodedProofs!IInv'
  BY SameCatalogue, NoneInCatalogue, CodedProofs!NextInv DEF Coded!vars, CodedProofs!vars

LEMMA CatalogueShown ==
    CodedProofs!IInv => Coded!TypeOK /\ Coded!LiveCodesUnique /\ Coded!RefusedLeavesNothing
  BY SameCatalogue, NoneInCatalogue, CodedProofs!InvImpliesUnique, CodedProofs!InvImpliesRefused
     DEF CodedProofs!IInv

LEMMA LedgerInit == Accounts!Init => AccountsProofs!IInv
  BY SameLedger, NoneInLedger, AccountsProofs!InitInv

LEMMA LedgerNext == AccountsProofs!IInv /\ [Accounts!Next]_Accounts!vars => AccountsProofs!IInv'
  BY SameLedger, NoneInLedger, AccountsProofs!NextInv DEF Accounts!vars, AccountsProofs!vars

LEMMA LedgerShown ==
    AccountsProofs!IInv =>
        /\ Accounts!TypeOK /\ Accounts!LiveCodesUnique
        /\ Accounts!DefaultIsSingle /\ Accounts!VoidedWasUnused
  BY SameLedger, NoneInLedger, AccountsProofs!InvImpliesUnused DEF AccountsProofs!IInv

-----------------------------------------------------------------------------
(* The services by turns.                                                  *)

IInv ==
    \/ service = "catalogue" /\ CodedProofs!IInv
    \/ service = "replacement" /\ JoinedInv
    \/ service = "ledger" /\ AccountsProofs!IInv

allVars == <<service, table, req, catalogueRest, replacementRest>>

LEMMA InitInv == Init => IInv
  BY CatalogueInit, JoinedInit, LedgerInit DEF Init, IInv

\* A step of one service is a step of its module, or none.
LEMMA NextInv == IInv /\ [Next]_allVars => IInv'
  <1> SUFFICES ASSUME IInv, [Next]_allVars PROVE IInv'
    OBVIOUS
  <1>1. service' = service
    BY DEF Next, allVars
  <1>2. CASE service = "catalogue"
    <2>1. [Coded!Next]_Coded!vars
      BY <1>2 DEF Next, allVars, catalogueRest, replacementRest, Coded!vars
    <2> QED
      BY <1>1, <1>2, <2>1, CatalogueNext DEF IInv
  <1>3. CASE service = "replacement"
    <2>1. [Joined!Next]_Joined!vars
      BY <1>3 DEF Next, allVars, catalogueRest, replacementRest, Joined!vars
    <2> QED
      BY <1>1, <1>3, <2>1, JoinedNext DEF IInv
  <1>4. CASE service = "ledger"
    <2>1. [Accounts!Next]_Accounts!vars
      BY <1>4 DEF Next, allVars, catalogueRest, replacementRest, Accounts!vars
    <2> QED
      BY <1>1, <1>4, <2>1, LedgerNext DEF IInv
  <1> QED
    BY <1>2, <1>3, <1>4 DEF IInv

LEMMA Invariance == Spec => []IInv
  BY InitInv, NextInv, PTL DEF Spec, allVars

\* The types are kept in every service, whatever the requests and however
\* they interleave.
THEOREM TypeCorrect == Spec => []TypeOK
  <1>1. IInv => TypeOK
    BY CatalogueShown, LedgerShown DEF IInv, JoinedInv, TypeOK
  <1> QED
    BY <1>1, Invariance, PTL

\* Two live rows of a table have one name or code only where no index keeps
\* them apart, and only through two requests side by side (RoleService,
\* PermissionService, OrganizationTypeService, ChartOfAccountService).
THEOREM CodesUnique == Spec => []LiveCodesUnique
  <1>1. IInv => LiveCodesUnique
    BY CatalogueShown, LedgerShown DEF IInv, LiveCodesUnique
  <1> QED
    BY <1>1, Invariance, PTL

\* A refused request has left no live row, the role that was saved before it
\* was looked for again included (RoleService.CreateRoleAsync).
THEOREM RefusedLeaves == Spec => []RefusedLeavesNothing
  <1>1. IInv => RefusedLeavesNothing
    BY CatalogueShown DEF IInv, RefusedLeavesNothing
  <1> QED
    BY <1>1, Invariance, PTL

\* What is shown of a role or a menu item is exactly what the last
\* replacement asked for when none was saved beside it, less what is voided or
\* switched off, and otherwise nothing that was never asked for
\* (SetPermissionsAsync, UpdateRolesAsync).
THEOREM ReplacementShown == Spec => []ShownIsAsAsked
  <1>1. IInv => ShownIsAsAsked
    BY JoinedInvShown DEF IInv, ShownIsAsAsked
  <1> QED
    BY <1>1, Invariance, PTL

\* The default chosen last is the only one when no other was chosen while its
\* request ran, and what is marked was chosen since one was alone
\* (PaymentAccountService).
THEOREM SingleDefault == Spec => []DefaultIsSingle
  <1>1. IInv => DefaultIsSingle
    BY LedgerShown DEF IInv, DefaultIsSingle
  <1> QED
    BY <1>1, Invariance, PTL

\* A delete never voids a chart account that a payment account used when it
\* was called (ChartOfAccountService.DeleteAsync).
THEOREM DeleteSpares == Spec => []VoidedWasUnused
  <1>1. IInv => VoidedWasUnused
    BY LedgerShown DEF IInv, VoidedWasUnused
  <1> QED
    BY <1>1, Invariance, PTL
=============================================================================

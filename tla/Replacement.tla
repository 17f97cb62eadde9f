----------------------------- MODULE Replacement -----------------------------
(***************************************************************************)
(* The rows that join a role to its permissions (RolePermissionService)    *)
(* and a menu item to its roles (MenuService), replaced as a whole by      *)
(* requests that run side by side, while roles and permissions are voided  *)
(* and permissions switched off and on.                                    *)
(* One role, or one menu item, is looked at: the owner.                    *)
(*                                                                         *)
(* A request validates what it was asked for and loads what is there, in   *)
(* two statements, then deletes and inserts the difference in one save.    *)
(***************************************************************************)
EXTENDS Naturals, FiniteSets

CONSTANTS
    Items,      \* the permissions, or the roles, there are
    Requests

VARIABLES
    table,      \* "role_permission" or "menu_role"
    links,      \* the items joined to the owner
    voided,     \* the items that are voided
    inactive,   \* the permissions that are switched off (Active)
    ownerGone,  \* the owner is voided
    req,        \* the requests
    saves,      \* history: number of replacements saved
    last,       \* history: what the replacement saved last was asked for
    asked,      \* history: what was there, and what saved replacements were asked for
    alone       \* history: none was saved while that one was under way

vars == <<table, links, voided, inactive, ownerGone, req, saves, last, asked, alone>>

Tables == {"role_permission", "menu_role"}
Pcs == {"new", "begun", "validated", "loaded", "ready", "done"}
Request == [want : SUBSET Items, existing : SUBSET Items, pc : Pcs,
            since : Nat, answer : {"none", "ok", "4xx", "500"}]

Init ==
    /\ table \in Tables
    /\ links \in SUBSET Items
    /\ voided = {} /\ ownerGone = FALSE
    /\ inactive \in IF table = "role_permission" THEN SUBSET Items ELSE {{}}
    /\ \E want \in [Requests -> SUBSET Items] :
         req = [q \in Requests |-> [want |-> want[q], existing |-> {}, pc |-> "new",
                                    since |-> 0, answer |-> "none"]]
    /\ saves = 0 /\ last = links /\ asked = links /\ alone = TRUE

Goes(q, pc) == req' = [req EXCEPT ![q].pc = pc]
Answers(q, answer) == req' = [req EXCEPT ![q].pc = "done", ![q].answer = answer]

(* A role counts unless it is voided, whatever its Active says; a          *)
(* permission has to be active too.                                        *)
Hidden == voided \cup inactive

Valid(q) == req[q].want \cap Hidden = {}

(* The owner has to exist.                                                 *)
Begin(q) ==
    /\ req[q].pc = "new"
    /\ IF ownerGone THEN Answers(q, "4xx") ELSE Goes(q, "begun")
    /\ UNCHANGED <<table, links, voided, inactive, ownerGone, saves, last, asked, alone>>

(* SetPermissionsAsync validates, then loads; UpdateRolesInternalAsync     *)
(* loads, then validates unless it was asked for nothing.                  *)
Validate(q) ==
    /\ req[q].pc = IF table = "role_permission" THEN "begun" ELSE "loaded"
    /\ IF Valid(q) THEN Goes(q, IF table = "role_permission" THEN "validated" ELSE "ready")
                   ELSE Answers(q, "4xx")
    /\ UNCHANGED <<table, links, voided, inactive, ownerGone, saves, last, asked, alone>>

LoadExisting(q) ==
    /\ req[q].pc = IF table = "role_permission" THEN "validated" ELSE "begun"
    /\ req' = [req EXCEPT ![q].existing = links, ![q].since = saves,
                          ![q].pc = IF table = "role_permission" \/ req[q].want = {}
                                    THEN "ready" ELSE "loaded"]
    /\ UNCHANGED <<table, links, voided, inactive, ownerGone, saves, last, asked, alone>>

Removed(q) == req[q].existing \ req[q].want
Added(q) == req[q].want \ req[q].existing
Kept(q) == req[q].want \cap req[q].existing

(* Mutant: what is there is not removed.                                   *)
ReplacedByAll(q) == links \cup Added(q)

Replaced(q) == (links \ Removed(q)) \cup Added(q)

(* A row that was to go is gone, or one that was to come is there: the     *)
(* save fails as a whole.                                                  *)
Conflicts(q) == ~(Removed(q) \subseteq links) \/ Added(q) \cap links # {}

(* EF turns the removal and the insert of one row into an update.  When it *)
(* sends one (SyncedAt) and the row is gone, the save fails; without a     *)
(* column to update it sends none and does not notice.                     *)
MissesKept(q) == ~(Kept(q) \subseteq links)

(* The reply of the save may be lost.                                      *)
Save(q) ==
    /\ req[q].pc = "ready" /\ ~Conflicts(q)
    /\ links' = Replaced(q)
    /\ saves' = saves + 1
    /\ last' = req[q].want
    /\ asked' = asked \cup req[q].want
    /\ alone' = (req[q].since = saves)
    /\ Answers(q, "ok") \/ Answers(q, "500")
    /\ UNCHANGED <<table, voided, inactive, ownerGone>>

SaveFails(q) ==
    /\ req[q].pc = "ready" /\ (Conflicts(q) \/ MissesKept(q))
    /\ Answers(q, "500")
    /\ UNCHANGED <<table, links, voided, inactive, ownerGone, saves, last, asked, alone>>

(* Any other statement fails.                                              *)
Fail(q) ==
    /\ req[q].pc \notin {"new", "done"}
    /\ Answers(q, "500")
    /\ UNCHANGED <<table, links, voided, inactive, ownerGone, saves, last, asked, alone>>

Handle(q) == Begin(q) \/ Validate(q) \/ LoadExisting(q) \/ Save(q) \/ SaveFails(q) \/ Fail(q)

(* DeleteRoleAsync and PermissionService.DeleteAsync, which switches the   *)
(* permission off too: links stay.  No route voids a menu item.            *)
VoidItem ==
    /\ \E p \in Items \ voided :
         /\ voided' = voided \cup {p}
         /\ inactive' = IF table = "role_permission" THEN inactive \cup {p} ELSE inactive
    /\ UNCHANGED <<table, links, ownerGone, req, saves, last, asked, alone>>

(* PermissionService.UpdateAsync with Active: links stay.  An update that  *)
(* saves after a void is left out: no query looks at Active of a voided    *)
(* permission.                                                             *)
SetActive ==
    /\ table = "role_permission"
    /\ \E p \in Items \ voided :
         inactive' = IF p \in inactive THEN inactive \ {p} ELSE inactive \cup {p}
    /\ UNCHANGED <<table, links, voided, ownerGone, req, saves, last, asked, alone>>

VoidOwner ==
    /\ table = "role_permission" /\ ~ownerGone
    /\ ownerGone' = TRUE
    /\ UNCHANGED <<table, links, voided, inactive, req, saves, last, asked, alone>>

Next == (\E q \in Requests : Handle(q)) \/ VoidItem \/ SetActive \/ VoidOwner

Spec == Init /\ [][Next]_vars

-----------------------------------------------------------------------------
(* What GetPermissionsByRoleAsync answers, and MeService for a user with   *)
(* the role, of what is joined: no permission that is voided or switched   *)
(* off, nothing of a voided role.  The menu queries look at no role.       *)
InEffect(set) ==
    CASE table = "menu_role" -> set
      [] table = "role_permission" /\ ownerGone -> {}
      [] OTHER -> set \ Hidden

Shown == InEffect(links)

(* Every variable has a value of its kind.                                 *)
TypeOK ==
    /\ table \in Tables
    /\ links \in SUBSET Items /\ voided \in SUBSET Items /\ inactive \in SUBSET Items
    /\ last \in SUBSET Items /\ asked \in SUBSET Items
    /\ ownerGone \in BOOLEAN /\ alone \in BOOLEAN
    /\ saves \in Nat
    /\ req \in [Requests -> Request]

(* A replacement that ran alone left exactly what it was asked for: that   *)
(* is shown, less what is voided or switched off, and again what was       *)
(* switched on again.  Two side by side may leave a mixture, yet nothing   *)
(* that no request asked for and that was not there before.                *)
ShownIsAsAsked ==
    /\ alone => Shown = InEffect(last)
    /\ Shown \subseteq InEffect(asked)
=============================================================================

------------------------------ MODULE MCFrontend ------------------------------
(***************************************************************************)
(* The frontend: one page of App.jsx's routes is mounted at a time, or the *)
(* session shell is looked at by itself (page = "shell").                  *)
(***************************************************************************)
EXTENDS CrudPage, AppShell, TLC

CONSTANTS Empty, Filled, Seeds, Items

VARIABLE page

Users == INSTANCE UsersPage
Roles == INSTANCE RolesPage
Permissions == INSTANCE PermissionsPage
RolePermissions == INSTANCE RolePermissionsPage
UserRoles == INSTANCE UserRolesPage
Organizations == INSTANCE OrganizationsPage
OrganizationTypes == INSTANCE OrganizationTypesPage
PaymentAccounts == INSTANCE PaymentAccountsPage
ChartOfAccounts == INSTANCE ChartOfAccountsPage
MenuItems == INSTANCE MenuItemsPage

\* There is something to type.
ASSUME FilledAssumption == Filled # {}

ASSUME MaxCallsAssumption == MaxCalls \in Nat

\* null is no form and no row.
ASSUME NoRowAssumption ==
    /\ \A body \in Users!Bodies : body # NoRow
    /\ \A body \in UserRoles!Bodies : body # NoRow
    /\ NoRow \notin [id : Ids \cup Seeds, body : Users!Bodies \cup UserRoles!Bodies]

\* The seed rows have numbers for ids, the API gives out Guids.
ASSUME SeedsAssumption == Seeds \cap Ids = {}

allVars == <<page, vars, shellVars>>

Forms == {"users", "roles", "permissions", "chart-of-accounts"}
Patched == {"organizations", "organization-types", "menu-items", "payment-accounts"}
Assigned == {"role-permissions", "user-roles"}

-----------------------------------------------------------------------------
(* One row in the table to begin with and one id free; for the pages that  *)
(* assign, two rows with different items.                                  *)
First == CHOOSE i \in Ids : TRUE
OneRow == [i \in Ids |-> IF i = First
                         THEN [f \in Users!Inputs |-> IF f = "key" THEN CHOOSE t \in Filled : TRUE
                                                                   ELSE Empty]
                         ELSE NoRow]
TwoRows == [i \in Ids |-> IF i = First THEN {} ELSE Items]

NoPage ==
    /\ rows = {} /\ loading = FALSE /\ saving = FALSE /\ drawerOpen = FALSE
    /\ editing = NoRow /\ filledFrom = NoRow /\ error = FALSE /\ crossed = FALSE
    /\ form = {} /\ calls = {} /\ sent = 1 /\ lastLoad = 1
    /\ db = [i \in Ids |-> NoRow] /\ past = [i \in Ids |-> {}]

FrontInit ==
    \/ /\ page \in Forms \cup Patched
       /\ db = OneRow /\ Users!Init
       /\ Init /\ stored = None
    \/ /\ page \in Assigned
       /\ db = TwoRows /\ UserRoles!Init
       /\ Init /\ stored = None
    \/ /\ page = "shell"
       /\ NoPage /\ Init

Pages ==
    \/ page = "users" /\ Users!Next
    \/ page = "roles" /\ Roles!Next
    \/ page = "permissions" /\ Permissions!Next
    \/ page = "role-permissions" /\ RolePermissions!Next
    \/ page = "user-roles" /\ UserRoles!Next
    \/ page = "organizations" /\ Organizations!Next
    \/ page = "organization-types" /\ OrganizationTypes!Next
    \/ page = "payment-accounts" /\ PaymentAccounts!Next
    \/ page = "chart-of-accounts" /\ ChartOfAccounts!Next
    \/ page = "menu-items" /\ MenuItems!Next

FrontNext ==
    \/ Pages /\ UNCHANGED <<page, shellVars>>
    \/ page = "shell" /\ Next /\ UNCHANGED <<page, vars>>

(* Every call is answered (axios has no timeout; the gateway's and TCP's   *)
(* end a call that the API leaves), and a handler that can resume does.    *)
Serves ==
    \/ page = "users" /\ Users!Serve(Users!Routes)
    \/ page \in {"roles", "permissions", "chart-of-accounts"} /\ Roles!Serve(Roles!Routes)
    \/ page \in {"organizations", "menu-items"} /\ Organizations!Serve(Organizations!Routes)
    \/ page = "organization-types" /\ OrganizationTypes!Serve(OrganizationTypes!Routes)
    \/ page = "payment-accounts" /\ PaymentAccounts!ServeAccounts
    \/ page = "role-permissions" /\ RolePermissions!ServeAssign(RolePermissions!Routes)
    \/ page = "user-roles" /\ UserRoles!ServeAssign(UserRoles!Routes)

Answers ==
    \/ page \in Forms /\ Users!Answers
    \/ page = "organizations" /\ Organizations!Answers
    \/ page \in {"organization-types", "menu-items"} /\ MenuItems!Answers
    \/ page = "payment-accounts" /\ PaymentAccounts!Answers
    \/ page = "role-permissions" /\ RolePermissions!Answers
    \/ page = "user-roles" /\ UserRoles!Answers

Fairness ==
    /\ WF_allVars(Serves /\ UNCHANGED <<page, shellVars>>)
    /\ WF_allVars(Answers /\ UNCHANGED <<page, shellVars>>)
    /\ WF_allVars(page = "shell" /\ Progress /\ UNCHANGED <<page, vars>>)

FrontSpec == FrontInit /\ [][FrontNext]_allVars /\ Fairness

-----------------------------------------------------------------------------
(* Every variable has a value of its kind.                                 *)
AllTypesOK ==
    CASE page \in Forms -> Users!TypeOK
      [] page \in Patched -> MenuItems!TypeOK
      [] page \in Assigned -> UserRoles!TypeOK
      [] OTHER -> TypeOK

(* FormIsOfItsRow, of the pages with a form: what the drawer holds is of   *)
(* the row in its title.                                                   *)
FormOfItsRow == page \in Forms \cup Patched => FormIsOfItsRow

(* FormIsOfItsRow, of the pages that assign: the selection in the drawer   *)
(* is of the row in its title.                                             *)
SelectionOfItsRow == page \in Assigned => FormIsOfItsRow

(* FreshOrExplained, of the pages that load again after each change.       *)
FreshOrExplained == page \in Forms => Users!FreshOrExplained

(* ListTracksServer and AccountsTrackServer, of the pages that patch their *)
(* list.                                                                   *)
ListTracksServer ==
    IF page = "payment-accounts" THEN PaymentAccounts!AccountsTrackServer
    ELSE page \in Patched => MenuItems!ListTracksServer

(* ShownWasGranted, of the pages that assign.                              *)
ShownWasGranted == page \in Assigned => UserRoles!ShownWasGranted

(* The drawers of all pages keep DrawerContract.                           *)
Drawer == INSTANCE DrawerContract WITH
    Targets <- Ids \cup Seeds \cup {NoRow}, NoTarget <- NoRow,
    open <- drawerOpen,
    target <- IF drawerOpen THEN Target ELSE NoRow,
    saved <- {IF c.op = "create" THEN NoRow ELSE c.id : c \in Saves}
KeepsDrawerContract == Drawer!Spec

(* The tab comes to rest once the user pauses (the bounds make the user    *)
(* pause): the table stops loading, the drawer's buttons come back, a      *)
(* sign-in that came back from Keycloak leaves the callback.               *)
Busy == loading \/ saving \/ route = "callback"
ComesToRest == Busy ~> ~Busy
=============================================================================

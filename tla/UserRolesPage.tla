---------------------------- MODULE UserRolesPage ----------------------------
(***************************************************************************)
(* UserRolesPage.jsx over /api/users.  A user comes with its roles; the API *)
(* has none of the three ways to save.                                     *)
(***************************************************************************)
EXTENDS AssignPage

Init == AssignInit

loadPageData == LoadAnswered(TRUE)
loadUserRoles == GetAnswered
openEditDrawer(user) == OpenEdit(user)
closeDrawer == Close
toggleRole == Toggle
handleSaveUserRoles == Submit \/ SaveAnswered

Toolbar == Refresh
Table == \E user \in rows : openEditDrawer(user)
Drawer == toggleRole \/ closeDrawer
Routes == {}
Answers == loadPageData \/ loadUserRoles \/ SaveAnswered

Next ==
    \/ loadPageData \/ loadUserRoles \/ handleSaveUserRoles
    \/ Toolbar \/ Table \/ Drawer
    \/ ServeAssign(Routes)

Spec == Init /\ [][Next]_vars
TypeOK == PageTypeOK(Bodies, Ids)
==============================================================================

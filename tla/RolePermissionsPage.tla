------------------------- MODULE RolePermissionsPage -------------------------
(***************************************************************************)
(* RolePermissionsPage.jsx over /api/roles and /api/role-permissions.  The *)
(* API has no list of assignments and roles come without theirs, so after a *)
(* load nothing is cached; of the three ways to save it has the second.    *)
(***************************************************************************)
EXTENDS AssignPage

Init == AssignInit

loadPageData == LoadAnswered(FALSE)
loadRolePermissions == GetAnswered
openEditDrawer(role) == OpenEdit(role)
closeDrawer == Close
togglePermission == Toggle
handleSavePermissions == Submit \/ SaveAnswered

Toolbar == Refresh
Table == \E role \in rows : openEditDrawer(role)
Drawer == togglePermission \/ closeDrawer
Routes == {1}
Answers == loadPageData \/ loadRolePermissions \/ SaveAnswered

Next ==
    \/ loadPageData \/ loadRolePermissions \/ handleSavePermissions
    \/ Toolbar \/ Table \/ Drawer
    \/ ServeAssign(Routes)

Spec == Init /\ [][Next]_vars
TypeOK == PageTypeOK(Bodies, Ids)
==============================================================================

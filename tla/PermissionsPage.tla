--------------------------- MODULE PermissionsPage ---------------------------
(***************************************************************************)
(* PermissionsPage.jsx over /api/permissions.  Code and module are         *)
(* required; the code cannot be changed once the permission exists.        *)
(***************************************************************************)
EXTENDS ReloadPage

Init == FormInit

loadPermissions == LoadAnswered
openCreateDrawer == OpenCreate
openEditDrawer(permission) == OpenEdit(permission)
closeDrawer == Close(TRUE)
handleSubmit == Submit(Inputs) \/ SubmitAnswered
handleDelete(permission) == Delete(permission)

Toolbar == Refresh \/ openCreateDrawer
Table == \E permission \in rows : openEditDrawer(permission) \/ handleDelete(permission)
Drawer == Type(IF editing = NoRow THEN Inputs ELSE {"info"}) \/ closeDrawer
Routes == {"create", "update", "delete"}

Next ==
    \/ loadPermissions \/ handleSubmit \/ DeleteAnswered
    \/ Toolbar \/ Table \/ Drawer
    \/ Serve(Routes)

Spec == Init /\ [][Next]_vars
TypeOK == PageTypeOK(Bodies, Ids)
==============================================================================

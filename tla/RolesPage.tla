------------------------------ MODULE RolesPage ------------------------------
(***************************************************************************)
(* RolesPage.jsx over /api/roles.  The name is required, and cannot be     *)
(* changed once the role exists.                                           *)
(***************************************************************************)
EXTENDS ReloadPage

Init == FormInit

loadPageData == LoadAnswered
openCreateDrawer == OpenCreate
openEditDrawer(role) == OpenEdit(role)
closeDrawer == Close(TRUE)
handleSubmit == Submit({"key"}) \/ SubmitAnswered
handleDelete(role) == Delete(role)

Toolbar == Refresh \/ openCreateDrawer
Table == \E role \in rows : openEditDrawer(role) \/ handleDelete(role)
Drawer == Type(IF editing = NoRow THEN Inputs ELSE {"info"}) \/ closeDrawer
Routes == {"create", "update", "delete"}

Next ==
    \/ loadPageData \/ handleSubmit \/ DeleteAnswered
    \/ Toolbar \/ Table \/ Drawer
    \/ Serve(Routes)

Spec == Init /\ [][Next]_vars
TypeOK == PageTypeOK(Bodies, Ids)
==============================================================================

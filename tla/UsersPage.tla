------------------------------ MODULE UsersPage ------------------------------
(***************************************************************************)
(* UsersPage.jsx over /api/users.  Username (key) and email (info) are     *)
(* required; the username and the password of a user cannot be changed.    *)
(* The API has no DELETE for users.  Closing the drawer leaves its state as *)
(* it is: openCreateDrawer has to reset it.                                *)
(***************************************************************************)
EXTENDS ReloadPage

Init == FormInit

loadPageData == LoadAnswered
openCreateDrawer == OpenCreate
openEditDrawer(user) == OpenEdit(user)
closeDrawer == Close(FALSE)
handleSubmit == Submit({"key", "info"}) \/ SubmitAnswered
handleDelete(user) == Delete(user)

Toolbar == Refresh \/ openCreateDrawer
Table == \E user \in rows : openEditDrawer(user) \/ handleDelete(user)
Drawer == Type(IF editing = NoRow THEN Inputs ELSE {"info"}) \/ closeDrawer
Routes == {"create", "update"}

Next ==
    \/ loadPageData \/ handleSubmit \/ DeleteAnswered
    \/ Toolbar \/ Table \/ Drawer
    \/ Serve(Routes)

Spec == Init /\ [][Next]_vars
TypeOK == PageTypeOK(Bodies, Ids)
==============================================================================

-------------------------- MODULE OrganizationsPage --------------------------
(***************************************************************************)
(* OrganizationsPage.jsx over /api/organizations, which has no PUT and no  *)
(* DELETE.  The name is required.                                          *)
(***************************************************************************)
EXTENDS PatchPage

Init == FormInit

loadOrganizations == LoadAnswered(FALSE)
openCreateDrawer == OpenCreate
openEditDrawer(organization) == OpenEdit(organization)
closeDrawer == Close(TRUE)
handleSubmit == Submit({"key"}) \/ SubmitAnswered
handleDelete(organization) == Delete(organization)

Table == \E organization \in rows : openEditDrawer(organization) \/ handleDelete(organization)
Drawer == Type(Inputs) \/ closeDrawer
Routes == {"create"}
Answers == loadOrganizations \/ SubmitAnswered \/ DeleteAnswered

Next ==
    \/ loadOrganizations \/ handleSubmit \/ DeleteAnswered
    \/ openCreateDrawer \/ Table \/ Drawer
    \/ Serve(Routes)

Spec == Init /\ [][Next]_vars
TypeOK == PageTypeOK(Bodies, AllIds)
==============================================================================

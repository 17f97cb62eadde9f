------------------------ MODULE OrganizationTypesPage ------------------------
(***************************************************************************)
(* OrganizationTypesPage.jsx over /api/organization-types.  Name and code  *)
(* are required; an empty list shows the seed rows.                        *)
(***************************************************************************)
EXTENDS PatchPage

Init == FormInit

loadRows == LoadAnswered(TRUE)
openCreateDrawer == OpenCreate
openEditDrawer(row) == OpenEdit(row)
closeDrawer == Close(TRUE)
handleSubmit == Submit(Inputs) \/ SubmitAnswered
handleDelete(row) == Delete(row)

Table == \E row \in rows : openEditDrawer(row) \/ handleDelete(row)
Drawer == Type(Inputs) \/ closeDrawer
Routes == {"create", "update", "delete"}
Answers == loadRows \/ SubmitAnswered \/ DeleteAnswered

Next ==
    \/ loadRows \/ handleSubmit \/ DeleteAnswered
    \/ openCreateDrawer \/ Table \/ Drawer
    \/ Serve(Routes)

Spec == Init /\ [][Next]_vars
TypeOK == PageTypeOK(Bodies, AllIds)
==============================================================================

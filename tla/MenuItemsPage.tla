---------------------------- MODULE MenuItemsPage ----------------------------
(***************************************************************************)
(* MenuItemsPage.jsx over /api/menu-items, which has no PUT for an item and *)
(* no DELETE.  Name and URL are required; an empty list shows the seed rows. *)
(***************************************************************************)
EXTENDS PatchPage

Init == FormInit

loadPageData == LoadAnswered(TRUE)
openCreateDrawer == OpenCreate
openEditDrawer(row) == OpenEdit(row)
closeDrawer == Close(TRUE)
handleSubmit == Submit(Inputs) \/ SubmitAnswered
handleDelete(row) == Delete(row)

Table == \E row \in rows : openEditDrawer(row) \/ handleDelete(row)
Drawer == Type(Inputs) \/ closeDrawer
Routes == {"create"}
Answers == loadPageData \/ SubmitAnswered \/ DeleteAnswered

Next ==
    \/ loadPageData \/ handleSubmit \/ DeleteAnswered
    \/ openCreateDrawer \/ Table \/ Drawer
    \/ Serve(Routes)

Spec == Init /\ [][Next]_vars
TypeOK == PageTypeOK(Bodies, AllIds)
==============================================================================

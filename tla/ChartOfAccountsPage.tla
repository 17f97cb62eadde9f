------------------------- MODULE ChartOfAccountsPage -------------------------
(***************************************************************************)
(* ChartOfAccountsPage.jsx over /api/chart-of-accounts.  Code and name are *)
(* required; the code cannot be changed once the account exists.           *)
(***************************************************************************)
EXTENDS ReloadPage

Init == FormInit

loadAccounts == LoadAnswered
openCreateDrawer == OpenCreate
openEditDrawer(account) == OpenEdit(account)
closeDrawer == Close(TRUE)
handleSubmit == Submit(Inputs) \/ SubmitAnswered
handleDelete(account) == Delete(account)

Toolbar == Refresh \/ openCreateDrawer
Table == \E account \in rows : openEditDrawer(account) \/ handleDelete(account)
Drawer == Type(IF editing = NoRow THEN Inputs ELSE {"info"}) \/ closeDrawer
Routes == {"create", "update", "delete"}

Next ==
    \/ loadAccounts \/ handleSubmit \/ DeleteAnswered
    \/ Toolbar \/ Table \/ Drawer
    \/ Serve(Routes)

Spec == Init /\ [][Next]_vars
TypeOK == PageTypeOK(Bodies, Ids)
==============================================================================

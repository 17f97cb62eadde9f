------------------------- MODULE PaymentAccountsPage -------------------------
(***************************************************************************)
(* PaymentAccountsPage.jsx over /api/payment-accounts, which has no PUT and *)
(* no DELETE.  The organization (key) is required, and so are a type and a *)
(* holder; info is filled for a default account.  Setting a default clears *)
(* every other row of the page, the API only those of the organization; an *)
(* account created as default clears them at the API only.                 *)
(***************************************************************************)
EXTENDS PatchPage

Init == FormInit

Yes == CHOOSE t \in Filled : TRUE

loadPaymentAccounts == LoadAnswered(FALSE)
openCreateDrawer == OpenCreate
openEditDrawer(account) == OpenEdit(account)
closeDrawer == Close(TRUE)
handleSubmit == Submit({"key"}) \/ SubmitAnswered
handleDelete(account) == Delete(account)

handleSetDefault(account) ==
    /\ RowButton(account) /\ account.body["info"] = Empty
    /\ Send("default", account.id, NoRow)
    /\ UNCHANGED pageVars

SetDefaultAnswered ==
    \E c \in calls :
        /\ Answered(c, {"default"})
        /\ IF c.st = "ok"
           THEN /\ rows' = {[r EXCEPT !.body["info"] = IF r.id = c.id THEN Yes ELSE Empty] :
                             r \in rows}
                /\ UNCHANGED error
           ELSE Fails(c)
        /\ Done(c)
        /\ UNCHANGED <<loading, lastLoad, crossed, saving, drawerVars>>

Table == \E account \in rows :
    openEditDrawer(account) \/ handleDelete(account) \/ handleSetDefault(account)
Drawer == Type(Inputs) \/ closeDrawer

(* The API: the accounts of one organization, all but i no longer default. *)
Cleared(org, i) ==
    [j \in Ids |-> IF db[j] # NoRow /\ j # i /\ db[j]["key"] = org
                   THEN [db[j] EXCEPT !["info"] = Empty] ELSE db[j]]

CommitAccount(c, i, body, st) ==
    /\ db' = [(IF body["info"] # Empty THEN Cleared(body["key"], i) ELSE db) EXCEPT ![i] = body]
    /\ past' = [past EXCEPT ![i] = @ \cup {body}]
    /\ calls' = (calls \ {c}) \cup {[c EXCEPT !.st = st, !.id = i]}

ServeAccount(c) ==
    \E st \in {"ok", "failed"} :
      \/ c.op = "create" /\ \E i \in {j \in Ids : past[j] = {}} :
             CommitAccount(c, i, c.body, st)
      \/ /\ c.op = "default" /\ c.id \in Ids /\ db[c.id] # NoRow
         /\ CommitAccount(c, c.id, [db[c.id] EXCEPT !["info"] = Yes], st)

ServeAccounts ==
    /\ \E c \in calls : c.st = "sent" /\ (ServeList(c) \/ ServeAccount(c) \/ Refuse(c))
    /\ UNCHANGED <<pageVars, sent>>

Answers == loadPaymentAccounts \/ SubmitAnswered \/ DeleteAnswered \/ SetDefaultAnswered

Next ==
    \/ loadPaymentAccounts \/ handleSubmit \/ DeleteAnswered \/ SetDefaultAnswered
    \/ openCreateDrawer \/ Table \/ Drawer
    \/ ServeAccounts

Spec == Init /\ [][Next]_vars
TypeOK == PageTypeOK(Bodies, AllIds)

(* When nothing is under way, no change has failed and none overlapped the *)
(* load, the accounts shown are the API's, of the same organizations; the  *)
(* default marks may differ.                                               *)
Unmarked(rs) == {[id |-> r.id, org |-> r.body["key"]] : r \in rs}
AccountsTrackServer ==
    (Quiet /\ ~crossed /\ ~error) => Unmarked(Shown) = Unmarked(RowsOf(db))
==============================================================================

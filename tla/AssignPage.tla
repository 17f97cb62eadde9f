------------------------------ MODULE AssignPage ------------------------------
(***************************************************************************)
(* The pages that assign a set to a row: the permissions of a role, the    *)
(* roles of a user.  A row's body is what the page's map has cached for    *)
(* it, {} when it has nothing; the form is the selection in the drawer.    *)
(*                                                                         *)
(* Opening a row shows what is cached and asks for what is assigned; that  *)
(* answer goes into the drawer whichever row it shows by then.  A save     *)
(* tries three requests, step 0 to 2, each when the one before failed.     *)
(***************************************************************************)
EXTENDS CrudPage

CONSTANT Items      \* what can be assigned

Bodies == SUBSET Items

AssignInit == Mounted([Ids -> Bodies \cup {NoRow}]) /\ form = {}

(* Embedded: the rows of the list say what is assigned.  All GETs must     *)
(* succeed.                                                                *)
LoadAnswered(Embedded) ==
    \E c \in calls :
        /\ Answered(c, {"list"})
        /\ rows' = CASE c.st = "failed" -> {}
                     [] c.st = "ok" /\ Embedded -> c.list
                     [] OTHER -> {[id |-> r.id, body |-> {}] : r \in c.list}
        /\ error' = (error \/ c.st = "failed")
        /\ loading' = FALSE
        /\ crossed' = (c.n # lastLoad)
        /\ Done(c)
        /\ UNCHANGED <<lastLoad, saving, drawerVars>>

OpenEdit(r) ==
    /\ RowButton(r)
    /\ editing' = r
    /\ drawerOpen' = TRUE
    /\ form' = r.body
    /\ filledFrom' = r.id
    /\ Send("get", r.id, NoRow)
    /\ UNCHANGED <<loadVars, saving, error>>

(* Mutant: the answer is cached for the row the drawer shows by then.      *)
CachedForShown(i, body) ==
    {IF r.id = Target THEN [id |-> Target, body |-> body] ELSE r : r \in rows}

Cached(i, body) == {IF r.id = i THEN [id |-> i, body |-> body] ELSE r : r \in rows}

(* An answer with nothing assigned is ignored, and so is a failure.        *)
GetAnswered ==
    \E c \in calls :
        /\ Answered(c, {"get"})
        /\ IF c.st = "ok" /\ \E r \in c.list : r.body # {}
           THEN \E r \in c.list :
                  /\ form' = r.body
                  /\ filledFrom' = c.id
                  /\ rows' = Cached(c.id, r.body)
           ELSE UNCHANGED <<form, filledFrom, rows>>
        /\ Done(c)
        /\ UNCHANGED <<loading, lastLoad, crossed, saving, error, drawerOpen, editing>>

Reset ==
    /\ drawerOpen' = FALSE
    /\ editing' = NoRow
    /\ form' = {}
    /\ filledFrom' = NoRow

Close ==
    /\ CanClose
    /\ Reset
    /\ UNCHANGED <<loadVars, saving, error, callVars>>

Toggle ==
    /\ drawerOpen
    /\ \E p \in Items : form' = IF p \in form THEN form \ {p} ELSE form \cup {p}
    /\ UNCHANGED <<loadVars, saving, error, drawerOpen, editing, filledFrom, callVars>>

Submit ==
    /\ CanSubmit
    /\ saving' = TRUE
    /\ Send("update", editing.id, form)
    /\ UNCHANGED <<loadVars, error, drawerVars>>

SaveAnswered ==
    \E c \in calls :
        /\ Answered(c, {"update"})
        /\ \/ /\ c.st = "failed" /\ c.step < 2
              /\ DoneThen(c, "update", c.id, c.body, c.step + 1)
              /\ UNCHANGED <<rows, saving, error, drawerVars>>
           \/ /\ c.st = "failed" /\ c.step = 2
              /\ saving' = FALSE
              /\ error' = TRUE
              /\ Done(c)
              /\ UNCHANGED <<rows, drawerVars>>
           \/ /\ c.st = "ok"
              /\ rows' = Cached(c.id, c.body)
              /\ saving' = FALSE
              /\ Reset
              /\ Done(c)
              /\ UNCHANGED error
        /\ UNCHANGED <<loading, lastLoad, crossed>>

-----------------------------------------------------------------------------
(* The API: Routes are the steps of a save it has an endpoint for.         *)
ServeGet(c) ==
    /\ c.op = "get"
    /\ calls' = (calls \ {c}) \cup
                {[c EXCEPT !.st = "ok", !.list = {r \in RowsOf(db) : r.id = c.id}]}
    /\ UNCHANGED <<db, past>>

ServeSave(c, Routes) ==
    /\ c.op = "update" /\ c.step \in Routes
    /\ \E st \in {"ok", "failed"} : Commit(c, c.id, c.body, st)

ServeAssign(Routes) ==
    /\ \E c \in calls :
        /\ c.st = "sent"
        /\ ServeList(c) \/ ServeGet(c) \/ ServeSave(c, Routes) \/ Refuse(c)
    /\ UNCHANGED <<pageVars, sent>>

-----------------------------------------------------------------------------
(* What the table shows as assigned to a row was assigned to that row at   *)
(* some time: no selection of another row, and none that was not saved.    *)
ShownWasGranted == \A r \in rows : r.body = {} \/ r.body \in past[r.id]
=============================================================================

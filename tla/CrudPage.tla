------------------------------- MODULE CrudPage -------------------------------
(***************************************************************************)
(* What the pages under modules/access/pages have in common: the React     *)
(* state of one mounted page, its drawer (CrudDrawerForm), the calls it    *)
(* has under way through httpClient, and the table of the API behind them. *)
(*                                                                         *)
(* A call is sent, served by the API and answered, each in a step of its   *)
(* own, so answers arrive in any order; the API may refuse a call, and may *)
(* commit one whose answer is lost.  A group of GETs awaited together      *)
(* (Promise.all, Promise.allSettled) is one "list" call: the page goes on  *)
(* when all have settled, and only the rows are kept of what they bring.   *)
(*                                                                         *)
(* The drawer's overlay stops a pointer, not the keyboard: focus is not    *)
(* kept in the drawer, so the page behind an open one can still be used.   *)
(***************************************************************************)
EXTENDS Naturals, FiniteSets

CONSTANTS
    Ids,        \* ids the API gives out
    NoRow,      \* null
    MaxCalls    \* bound: no call is begun by the user beyond this many

VARIABLES
    rows,       \* the list in the table, [id, body] each
    loading, saving, drawerOpen,
    editing,    \* the row the drawer was opened for, NoRow when it creates
    form,       \* what the drawer's inputs hold
    error,      \* a failure has been reported and not been cleared since
    calls,      \* the calls under way
    sent,       \* how many calls were sent
    db,         \* the API's table: id -> body, NoRow when there is none
    lastLoad,   \* history: number of the list call sent last
    crossed,    \* history: the list is not that of the last load alone
    filledFrom, \* history: the row the form was filled from last
    past        \* history: the bodies each id has had

callVars == <<calls, sent, db, past>>
loadVars == <<rows, loading, lastLoad, crossed>>
drawerVars == <<drawerOpen, editing, form, filledFrom>>
pageVars == <<loadVars, saving, error, drawerVars>>
vars == <<pageVars, callVars>>

NewCall(op, id, body, step) ==
    [n |-> sent + 1, op |-> op, id |-> id, body |-> body, step |-> step,
     st |-> "sent", list |-> {}]

(* The user begins a call; httpClient puts it on the wire.                 *)
Send(op, id, body) ==
    /\ sent < MaxCalls
    /\ sent' = sent + 1
    /\ calls' = calls \cup {NewCall(op, id, body, 0)}
    /\ UNCHANGED <<db, past>>

(* A handler resumes on the answer of c and sends nothing more.            *)
Done(c) ==
    /\ calls' = calls \ {c}
    /\ UNCHANGED <<sent, db, past>>

(* A handler resumes on the answer of c and awaits a further call.         *)
DoneThen(c, op, id, body, step) ==
    /\ calls' = (calls \ {c}) \cup {NewCall(op, id, body, step)}
    /\ sent' = sent + 1
    /\ UNCHANGED <<db, past>>

Answered(c, ops) == c \in calls /\ c.st # "sent" /\ c.op \in ops
Under(ops) == {c \in calls : c.op \in ops}

(* Mutant: rows that are gone are listed.                                  *)
RowsOfAll(table) == {[id |-> i, body |-> table[i]] : i \in Ids}

RowsOf(table) == {[id |-> i, body |-> table[i]] : i \in {j \in Ids : table[j] # NoRow}}

-----------------------------------------------------------------------------
(* The API.  Routes are the operations it has for the page.                *)

Commit(c, i, body, st) ==
    /\ db' = [db EXCEPT ![i] = body]
    /\ past' = [past EXCEPT ![i] = @ \cup {body}]
    /\ calls' = (calls \ {c}) \cup {[c EXCEPT !.st = st, !.id = i]}

ServeList(c) ==
    /\ c.op = "list"
    /\ calls' = (calls \ {c}) \cup {[c EXCEPT !.st = "ok", !.list = RowsOf(db)]}
    /\ UNCHANGED <<db, past>>

ServeWrite(c, Routes) ==
    /\ c.op \in Routes
    /\ \E st \in {"ok", "failed"} :
         \/ c.op = "create" /\ \E i \in {j \in Ids : past[j] = {}} : Commit(c, i, c.body, st)
         \/ c.op = "update" /\ c.id \in Ids /\ db[c.id] # NoRow /\ Commit(c, c.id, c.body, st)
         \/ c.op = "delete" /\ c.id \in Ids /\ db[c.id] # NoRow /\ Commit(c, c.id, NoRow, st)

Refuse(c) ==
    /\ calls' = (calls \ {c}) \cup {[c EXCEPT !.st = "failed"]}
    /\ UNCHANGED <<db, past>>

Serve(Routes) ==
    /\ \E c \in calls : c.st = "sent" /\ (ServeList(c) \/ ServeWrite(c, Routes) \/ Refuse(c))
    /\ UNCHANGED <<pageVars, sent>>

-----------------------------------------------------------------------------
(* The drawer's buttons wait for a save, the page's for a load.            *)

(* Mutants: buttons that stay enabled during a save.                       *)
ClosesAnyTime == drawerOpen
SubmitsAnyTime == drawerOpen

CanClose == drawerOpen /\ ~saving

CanSubmit == drawerOpen /\ ~saving

RowButton(r) == ~loading /\ r \in rows

(* The list function up to its first await, and the Refresh button.        *)
LoadStarts ==
    /\ loading' = TRUE
    /\ error' = FALSE
    /\ lastLoad' = sent + 1
    /\ UNCHANGED <<rows, crossed>>

Refresh ==
    /\ ~loading
    /\ Send("list", NoRow, NoRow)
    /\ LoadStarts
    /\ UNCHANGED <<saving, drawerVars>>

(* The page is mounted: state as useState has it, the first load sent.     *)
Mounted(tables) ==
    /\ rows = {} /\ loading = TRUE /\ saving = FALSE /\ drawerOpen = FALSE
    /\ editing = NoRow /\ filledFrom = NoRow /\ error = FALSE /\ crossed = FALSE
    /\ db \in tables
    /\ past = [i \in Ids |-> {db[i]} \ {NoRow}]
    /\ sent = 1 /\ lastLoad = 1
    /\ calls = {[n |-> 1, op |-> "list", id |-> NoRow, body |-> NoRow, step |-> 0,
                 st |-> "sent", list |-> {}]}

(* Every variable of a page whose forms and rows hold Bodies and whose     *)
(* rows may have the ids of AllIds.                                        *)
PageTypeOK(Bodies, AllIds) ==
    LET Row == [id : AllIds, body : Bodies]
        MaxSent == 1 + 3 * MaxCalls IN
    /\ rows \subseteq Row
    /\ <<loading, saving, drawerOpen, error, crossed>> \in [1..5 -> BOOLEAN]
    /\ editing \in Row \cup {NoRow}
    /\ filledFrom \in AllIds \cup {NoRow}
    /\ form \in Bodies
    /\ sent \in 1..MaxSent /\ lastLoad \in 1..sent
    /\ db \in [Ids -> Bodies \cup {NoRow}]
    /\ past \in [Ids -> SUBSET (Bodies \cup {NoRow})]
    /\ \A c \in calls :
         /\ c.n \in 1..sent /\ c.step \in 0..3
         /\ c.op \in {"list", "get", "create", "update", "delete", "default"}
         /\ c.st \in {"sent", "ok", "failed"}
         /\ c.id \in AllIds \cup {NoRow} /\ c.body \in Bodies \cup {NoRow}
         /\ c.list \subseteq Row

-----------------------------------------------------------------------------
Quiet == calls = {}
Saves == Under({"create", "update"})
Target == IF editing = NoRow THEN NoRow ELSE editing.id

(* What the open drawer holds was filled from the row in its title (from   *)
(* no row, when it creates): what is saved is what was shown for the row.  *)
FormIsOfItsRow == drawerOpen => filledFrom = Target

(* At most one save is under way, with a drawer open and its buttons       *)
(* disabled until it is answered, also when another row was opened in the  *)
(* meantime; and they are disabled for nothing but that save, or the load  *)
(* that a save began.                                                      *)
OneSaveAtATime ==
    /\ Cardinality(Saves) <= 1
    /\ Saves # {} => drawerOpen /\ saving
    /\ saving => Saves # {} \/ \E c \in calls : c.op = "list" /\ c.step = 1
=============================================================================

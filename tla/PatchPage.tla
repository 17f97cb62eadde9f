------------------------------ MODULE PatchPage ------------------------------
(***************************************************************************)
(* The pages that load their list when they are mounted and then patch it  *)
(* after each change of their own: organizations, organization types, menu *)
(* items, payment accounts.  A load that fails shows seed rows in silence; *)
(* a change that fails is reported by alert().  Add does not wait for the  *)
(* load, so its answer may overwrite a row that was created meanwhile.     *)
(***************************************************************************)
EXTENDS FormPage

CONSTANT Seeds      \* ids of the seed rows: numbers, never ids of the API

SeedRows == [id : Seeds, body : {[f \in Inputs |-> t] : t \in Filled}]
AllIds == Ids \cup Seeds

(* SeedsIfEmpty: the page shows seed rows for an empty list too.           *)
LoadAnswered(SeedsIfEmpty) ==
    \E c \in calls :
        /\ Answered(c, {"list"})
        /\ rows' = IF c.st = "failed" \/ (SeedsIfEmpty /\ c.list = {})
                   THEN SeedRows ELSE c.list
        /\ loading' = FALSE
        /\ crossed' = (crossed \/ c.st = "failed" \/ sent > lastLoad)
        /\ Done(c)
        /\ UNCHANGED <<lastLoad, saving, error, drawerVars>>

(* Nothing is said of a payload that lacks what is required.               *)
Submit(Required) ==
    /\ CanSubmit /\ ~Invalid(Required)
    /\ saving' = TRUE
    /\ Save
    /\ UNCHANGED <<loadVars, error, drawerVars>>

Fails(c) ==
    /\ error' = TRUE
    /\ UNCHANGED rows

(* Mutant: a failed save leaves the buttons disabled (no finally).         *)
SubmitAnsweredHangs ==
    \E c \in calls :
        /\ Answered(c, {"create", "update"})
        /\ c.st = "failed"
        /\ Fails(c)
        /\ Done(c)
        /\ UNCHANGED <<loading, lastLoad, crossed, saving, drawerVars>>

SubmitAnswered ==
    \E c \in calls :
        /\ Answered(c, {"create", "update"})
        /\ IF c.st = "ok"
           THEN /\ LET row == [id |-> c.id, body |-> c.body] IN
                     rows' = IF c.op = "create" THEN rows \cup {row}
                             ELSE {IF r.id = c.id THEN row ELSE r : r \in rows}
                /\ drawerOpen' = FALSE
                /\ Reset
                /\ UNCHANGED error
           ELSE Fails(c) /\ UNCHANGED drawerVars
        /\ saving' = FALSE
        /\ Done(c)
        /\ UNCHANGED <<loading, lastLoad, crossed>>

(* Mutant: the deleted row stays in the table.                             *)
DeleteAnsweredKeepsRow ==
    \E c \in calls :
        /\ Answered(c, {"delete"})
        /\ IF c.st = "ok" THEN UNCHANGED <<rows, error>> ELSE Fails(c)
        /\ Done(c)
        /\ UNCHANGED <<loading, lastLoad, crossed, saving, drawerVars>>

DeleteAnswered ==
    \E c \in calls :
        /\ Answered(c, {"delete"})
        /\ IF c.st = "ok"
           THEN rows' = {r \in rows : r.id # c.id} /\ UNCHANGED error
           ELSE Fails(c)
        /\ Done(c)
        /\ UNCHANGED <<loading, lastLoad, crossed, saving, drawerVars>>

-----------------------------------------------------------------------------
(* When nothing is under way, no change has failed and none overlapped the *)
(* load, the rows patched one change at a time are the API's table, seed   *)
(* rows aside.                                                             *)
Shown == {r \in rows : r.id \in Ids}
ListTracksServer == (Quiet /\ ~crossed /\ ~error) => Shown = RowsOf(db)
=============================================================================

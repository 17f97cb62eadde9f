------------------------------ MODULE ReloadPage ------------------------------
(***************************************************************************)
(* The pages that load their list again after each change: users, roles,   *)
(* permissions, chart of accounts.  Failures go to the banner (error).     *)
(***************************************************************************)
EXTENDS FormPage

(* Mutant: a load that fails is not reported.                              *)
LoadAnsweredSilently ==
    \E c \in calls :
        /\ Answered(c, {"list"})
        /\ rows' = IF c.st = "ok" THEN c.list ELSE {}
        /\ loading' = FALSE
        /\ saving' = (saving /\ c.step # 1)
        /\ crossed' = (c.n # lastLoad)
        /\ Done(c)
        /\ UNCHANGED <<error, lastLoad, drawerVars>>

(* The list function from its answer on.  Step 1: a submit awaits this     *)
(* load, and goes on to its finally.                                       *)
LoadAnswered ==
    \E c \in calls :
        /\ Answered(c, {"list"})
        /\ rows' = IF c.st = "ok" THEN c.list ELSE {}
        /\ error' = (error \/ c.st = "failed")
        /\ loading' = FALSE
        /\ saving' = (saving /\ c.step # 1)
        /\ crossed' = (c.n # lastLoad)
        /\ Done(c)
        /\ UNCHANGED <<lastLoad, drawerVars>>

Submit(Required) ==
    /\ CanSubmit
    /\ IF Invalid(Required)
       THEN error' = TRUE /\ UNCHANGED <<saving, callVars>>
       ELSE saving' = TRUE /\ error' = FALSE /\ Save
    /\ UNCHANGED <<loadVars, drawerVars>>

SubmitAnswered ==
    \E c \in calls :
        /\ Answered(c, {"create", "update"})
        /\ IF c.st = "ok"
           THEN /\ drawerOpen' = FALSE
                /\ Reset
                /\ LoadStarts
                /\ DoneThen(c, "list", NoRow, NoRow, 1)
                /\ UNCHANGED saving
           ELSE /\ error' = TRUE
                /\ saving' = FALSE
                /\ Done(c)
                /\ UNCHANGED <<loadVars, drawerVars>>

DeleteAnswered ==
    \E c \in calls :
        /\ Answered(c, {"delete"})
        /\ IF c.st = "ok"
           THEN LoadStarts /\ DoneThen(c, "list", NoRow, NoRow, 0)
           ELSE error' = TRUE /\ Done(c) /\ UNCHANGED loadVars
        /\ UNCHANGED <<saving, drawerVars>>

Answers == LoadAnswered \/ SubmitAnswered \/ DeleteAnswered

-----------------------------------------------------------------------------
(* When nothing is under way, the load started last is the one shown and   *)
(* no banner says otherwise, the table is the API's: an own change whose   *)
(* answer was lost, or a load that failed, is always under a banner.       *)
FreshOrExplained == (Quiet /\ ~crossed /\ ~error) => rows = RowsOf(db)
=============================================================================

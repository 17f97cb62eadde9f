------------------------------- MODULE FormPage -------------------------------
(***************************************************************************)
(* The pages whose drawer is a form filled from the row of the table: all  *)
(* but the two that assign permissions and roles.                          *)
(***************************************************************************)
EXTENDS CrudPage

CONSTANTS
    Empty,      \* ""
    Filled      \* what the user may type or choose

(* The two inputs kept of a form: what a save requires, and the rest.      *)
Inputs == {"key", "info"}
Bodies == [Inputs -> Filled \cup {Empty}]
initialForm == [f \in Inputs |-> Empty]

FormInit == Mounted([Ids -> Bodies \cup {NoRow}]) /\ form = initialForm

Reset ==
    /\ editing' = NoRow
    /\ form' = initialForm
    /\ filledFrom' = NoRow

(* Mutant: Add without resetForm.                                          *)
OpenCreateKeepsForm ==
    /\ editing' = NoRow
    /\ drawerOpen' = TRUE
    /\ UNCHANGED <<form, filledFrom, loadVars, saving, error, callVars>>

OpenCreate ==
    /\ Reset
    /\ drawerOpen' = TRUE
    /\ UNCHANGED <<loadVars, saving, error, callVars>>

OpenEdit(r) ==
    /\ RowButton(r)
    /\ editing' = r
    /\ form' = r.body
    /\ filledFrom' = r.id
    /\ drawerOpen' = TRUE
    /\ UNCHANGED <<loadVars, saving, error, callVars>>

Close(resets) ==
    /\ CanClose
    /\ drawerOpen' = FALSE
    /\ IF resets THEN Reset ELSE UNCHANGED <<editing, form, filledFrom>>
    /\ UNCHANGED <<loadVars, saving, error, callVars>>

(* The inputs are not disabled while a save is under way.                  *)
Type(Fields) ==
    /\ drawerOpen
    /\ \E f \in Fields : \E t \in (Filled \cup {Empty}) \ {form[f]} :
         form' = [form EXCEPT ![f] = t]
    /\ UNCHANGED <<loadVars, saving, error, drawerOpen, editing, filledFrom, callVars>>

Invalid(Required) == \E f \in Required : form[f] = Empty
Save == IF editing # NoRow THEN Send("update", editing.id, form)
                           ELSE Send("create", NoRow, form)

Delete(r) ==
    /\ RowButton(r)
    /\ Send("delete", r.id, NoRow)
    /\ UNCHANGED pageVars
=============================================================================

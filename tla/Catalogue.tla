------------------------------ MODULE Catalogue ------------------------------
(***************************************************************************)
(* RoleService, PermissionService and OrganizationTypeService: rows that   *)
(* are known by a name or code, created, changed and voided by requests    *)
(* that run side by side.  One of the three tables is looked at a time.    *)
(*                                                                         *)
(* A request is a few awaited statements, each a step, at READ COMMITTED;  *)
(* all it writes goes out in one SaveChangesAsync.  A row is voided, never *)
(* removed, and EF updates only the columns that differ from what was      *)
(* loaded.  The schema is the one DbContext maps.                          *)
(***************************************************************************)
EXTENDS Entities, Naturals, FiniteSets

VARIABLES
    table,      \* the table looked at
    rows,       \* [code, voided, by] each, by the request that wrote the code
    req,        \* the requests
    beside      \* history: the requests that were under way beside each one

vars == <<table, rows, req, beside>>

Tables == {"role", "permission", "organization_type"}

Request == [op : CatalogueOps \cup {None}, id : Ids \cup {None}, code : Codes \cup {None},
            old : Codes \cup {None}, types : BOOLEAN,
            pc : {"new", "loaded", "checked", "saved", "done"},
            answer : Replies \cup {None}]

NewRequest == [op |-> None, id |-> None, code |-> None, old |-> None, types |-> FALSE,
               pc |-> "new", answer |-> None]

Live(i) == rows[i] # None /\ ~rows[i].voided
UnderWay(q) == req[q].op # None /\ req[q].pc # "done"

(* The unique indexes on role.name_cache and permission.code cover voided  *)
(* rows too; organization_type has none.                                   *)
Indexed(i) == table # "organization_type" /\ rows[i] # None

Init ==
    /\ table \in Tables
    /\ rows \in [Ids -> Row \cup {None}]
    /\ \A i \in Ids : rows[i] # None => rows[i].by = None
    /\ \A i, j \in Ids : i # j /\ rows[i] # None /\ rows[j] # None => rows[i].code # rows[j].code
    /\ req = [q \in Requests |-> NewRequest]
    /\ beside = [q \in Requests |-> {}]

Goes(q, pc) == req' = [req EXCEPT ![q].pc = pc]
Answers(q, answer) == req' = [req EXCEPT ![q].pc = "done", ![q].answer = answer]

(* The client's call.  An update may leave the code out, and one of a role *)
(* always does; a role may name the organization types it is assignable to.*)
Call(q) ==
    /\ req[q].op = None
    /\ \E op \in CatalogueOps, i \in Ids \cup {None}, k \in Codes \cup {None}, types \in BOOLEAN :
         /\ (i = None) <=> (op = "create")
         /\ op = "create" => k # None
         /\ op = "delete" \/ (op = "update" /\ table = "role") => k = None
         /\ types => table = "role" /\ op = "create"
         /\ req' = [req EXCEPT ![q] = [NewRequest EXCEPT !.op = op, !.id = i, !.code = k,
                                                         !.types = types]]
    /\ beside' = [p \in Requests |->
         IF p = q THEN {r \in Requests : UnderWay(r)}
         ELSE IF UnderWay(p) THEN beside[p] \cup {q} ELSE beside[p]]
    /\ UNCHANGED <<table, rows>>

(* The row of an update or a delete is loaded, when it is live.            *)
Load(q) ==
    /\ req[q].op \in {"update", "delete"} /\ req[q].pc = "new"
    /\ IF Live(req[q].id)
       THEN req' = [req EXCEPT ![q].pc = "loaded", ![q].old = rows[req[q].id].code]
       ELSE Answers(q, "4xx")
    /\ UNCHANGED <<table, rows, beside>>

(* Mutant: the check of an update sees the row itself alone.               *)
TakenByItself(q) == \E i \in Ids : i = req[q].id /\ Live(i) /\ rows[i].code = req[q].code

Taken(q) == \E i \in Ids : i # req[q].id /\ Live(i) /\ rows[i].code = req[q].code

(* The code is free, and the organization types of a role are all known.   *)
Check(q) ==
    /\ req[q].code # None
    /\ \/ req[q].op = "create" /\ req[q].pc = "new"
       \/ req[q].op = "update" /\ req[q].pc = "loaded"
    /\ IF Taken(q) THEN Answers(q, "4xx")
       ELSE Goes(q, "checked") \/ (req[q].types /\ Answers(q, "4xx"))
    /\ UNCHANGED <<table, rows, beside>>

ReadyToSave(q) ==
    \/ req[q].pc = "checked"
    \/ req[q].pc = "loaded" /\ req[q].code = None

(* A written code meets the unique index, or does not.                     *)
Collides(q) == \E i \in Ids : i # req[q].id /\ Indexed(i) /\ rows[i].code = req[q].code

(* SaveChangesAsync ends: the reply may be lost on its way.                *)
SaveEnds(q, i) ==
    \/ req' = [req EXCEPT ![q].id = i,
                          ![q].pc = IF req[q].types THEN "saved" ELSE "done",
                          ![q].answer = IF req[q].types THEN None ELSE "ok"]
    \/ Answers(q, "500")

(* Mutant: the organization types are checked after the role was saved.    *)
SaveThenCheckTypes(q) ==
    /\ ReadyToSave(q) /\ req[q].op = "create" /\ ~Collides(q)
    /\ \E i \in {j \in Ids : rows[j] = None} :
         rows' = [rows EXCEPT ![i] = [code |-> req[q].code, voided |-> FALSE, by |-> q]]
    /\ Answers(q, IF req[q].types THEN "4xx" ELSE "ok")
    /\ UNCHANGED <<table, beside>>

(* A role that names organization types is not done when it is saved.      *)
SaveCreate(q) ==
    /\ ReadyToSave(q) /\ req[q].op = "create" /\ ~Collides(q)
    /\ \E i \in {j \in Ids : rows[j] = None} :
         /\ rows' = [rows EXCEPT ![i] = [code |-> req[q].code, voided |-> FALSE, by |-> q]]
         /\ SaveEnds(q, i)
    /\ UNCHANGED <<table, beside>>

(* Mutant: an update that leaves the code out clears it.                   *)
ChangesToNothing(q) == req[q].code # req[q].old

(* The code of an update goes out if it is another than was loaded.        *)
Changes(q) == req[q].code # None /\ req[q].code # req[q].old

SaveUpdate(q) ==
    /\ ReadyToSave(q) /\ req[q].op = "update"
    /\ IF Changes(q)
       THEN /\ ~Collides(q)
            /\ rows' = [rows EXCEPT ![req[q].id].code = req[q].code, ![req[q].id].by = q]
       ELSE UNCHANGED rows
    /\ SaveEnds(q, req[q].id)
    /\ UNCHANGED <<table, beside>>

SaveDelete(q) ==
    /\ ReadyToSave(q) /\ req[q].op = "delete"
    /\ rows' = [rows EXCEPT ![req[q].id].voided = TRUE]
    /\ SaveEnds(q, req[q].id)
    /\ UNCHANGED <<table, beside>>

(* SetOrgTypesAsync: it looks for the role again, and stores nothing.      *)
SetOrgTypes(q) ==
    /\ req[q].pc = "saved"
    /\ Answers(q, IF Live(req[q].id) THEN "ok" ELSE "4xx")
    /\ UNCHANGED <<table, rows, beside>>

(* A statement fails, a save that meets the index first of all: the save   *)
(* is undone as a whole and the request ends in a 500.                     *)
Fail(q) ==
    /\ UnderWay(q)
    /\ Answers(q, "500")
    /\ UNCHANGED <<table, rows, beside>>

Save(q) == SaveCreate(q) \/ SaveUpdate(q) \/ SaveDelete(q)
Handle(q) == Load(q) \/ Check(q) \/ Save(q) \/ SetOrgTypes(q) \/ Fail(q)

Next == \E q \in Requests : Call(q) \/ Handle(q)

Spec == Init /\ [][Next]_vars

-----------------------------------------------------------------------------
(* Every variable has a value of its kind.                                 *)
TypeOK ==
    /\ table \in Tables
    /\ rows \in [Ids -> Row \cup {None}]
    /\ req \in [Requests -> Request]
    /\ beside \in [Requests -> SUBSET Requests]

(* Two live rows never have one code, however the requests interleave      *)
(* between their check and their save; organization types may, but only    *)
(* through two requests that were under way at the same time.              *)
LiveCodesUnique ==
    \A i, j \in Ids :
        i # j /\ Live(i) /\ Live(j) /\ rows[i].code = rows[j].code =>
            /\ table = "organization_type"
            /\ \E p, q \in Requests : {p, q} = {rows[i].by, rows[j].by} /\ p # q /\ q \in beside[p]

(* A request that is refused (4xx) has left no live row: the create of a   *)
(* role, which saves the role before it looks for it again, is refused     *)
(* only when another request has voided it in between.                     *)
RefusedLeavesNothing ==
    \A q \in Requests : req[q].answer = "4xx" => ~\E i \in Ids : Live(i) /\ rows[i].by = q
=============================================================================

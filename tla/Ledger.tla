-------------------------------- MODULE Ledger --------------------------------
(***************************************************************************)
(* ChartOfAccountService and PaymentAccountService: the chart accounts,    *)
(* and the payment accounts of one organization, which name a chart        *)
(* account and one of which is the default.  Requests run side by side,    *)
(* one awaited statement a step, at READ COMMITTED.                        *)
(***************************************************************************)
EXTENDS Entities, Naturals

VARIABLES
    chart,      \* chart accounts: code, parent, voided
    pay,        \* payment accounts: chart, isDefault
    req,        \* the requests
    saves,      \* history: number of saves that chose a default
    alone,      \* history: no other was chosen while the last one's request was
                \* under way, from its first read on
    rivals,     \* history: the defaults chosen since one was alone, that one included
    before      \* history: the payment accounts there were when the delete that
                \* voided a chart account was called

vars == <<chart, pay, req, saves, alone, rivals, before>>
defaultVars == <<saves, alone, rivals>>

Request == [op : LedgerOps \cup {None}, id : Ids \cup Pays \cup {None},
            code : Codes \cup {None}, chart : Ids \cup {None}, isDefault : BOOLEAN,
            was : Chart \cup {None},
            pc : {"new", "loaded", "codeFree", "ready", "done"}, answer : Replies \cup {None},
            list : SUBSET Pays, there : SUBSET Pays, since : Nat]

NewRequest == [op |-> None, id |-> None, code |-> None, chart |-> None, isDefault |-> FALSE,
               was |-> None, pc |-> "new", answer |-> None, list |-> {}, there |-> {}, since |-> 0]

LiveChart(c) == c \in Ids /\ chart[c] # None /\ ~chart[c].voided
Existing == {p \in Pays : pay[p] # None}
Defaults == {p \in Existing : pay[p].isDefault}

Init ==
    /\ chart \in [Ids -> {None} \cup [code : Codes, parent : {None}, voided : {FALSE}]]
    /\ \A c, d \in Ids : c # d /\ chart[c] # None /\ chart[d] # None => chart[c].code # chart[d].code
    /\ pay \in [Pays -> Pay \cup {None}]
    /\ \A p \in Existing : pay[p].chart = None \/ LiveChart(pay[p].chart)
    /\ \A p, r \in Defaults : p = r
    /\ req = [q \in Requests |-> NewRequest]
    /\ saves = 0 /\ alone = TRUE
    /\ rivals = Defaults
    /\ before = [c \in Ids |-> {}]

Goes(q, pc) == req' = [req EXCEPT ![q].pc = pc]
Answers(q, answer) == req' = [req EXCEPT ![q].pc = "done", ![q].answer = answer]

(* The client's call.  code and chart may be left out of an update, chart  *)
(* (the parent, of a chart account) of a create.                           *)
Call(q) ==
    /\ req[q].op = None
    /\ \E op \in LedgerOps, i \in Ids \cup Pays \cup {None}, k \in Codes \cup {None},
          c \in Ids \cup {None}, d \in BOOLEAN :
         /\ i \in CASE op \in {"createChart", "createPay"} -> {None}
                    [] op = "setDefault" -> Pays
                    [] OTHER -> Ids
         /\ op = "createChart" => k # None
         /\ op \notin {"createChart", "updateChart"} => k = None
         /\ op \in {"deleteChart", "setDefault"} => c = None
         /\ d => op = "createPay"
         /\ req' = [req EXCEPT ![q] =
              [NewRequest EXCEPT !.op = op, !.id = i, !.code = k, !.chart = c, !.isDefault = d,
                                 !.there = Existing]]
    /\ UNCHANGED <<chart, pay, defaultVars, before>>

-----------------------------------------------------------------------------
(* ChartOfAccountService.                                                  *)

LoadChart(q) ==
    /\ req[q].op \in {"updateChart", "deleteChart"} /\ req[q].pc = "new"
    /\ IF LiveChart(req[q].id)
       THEN req' = [req EXCEPT ![q].was = chart[req[q].id], ![q].pc = "loaded"]
       ELSE Answers(q, "4xx")
    /\ UNCHANGED <<chart, pay, defaultVars, before>>

CodeTaken(q) ==
    \E c \in Ids : c # req[q].id /\ LiveChart(c) /\ chart[c].code = req[q].code

CheckCode(q) ==
    /\ \/ req[q].op = "createChart" /\ req[q].pc = "new"
       \/ req[q].op = "updateChart" /\ req[q].pc = "loaded"
    /\ IF CodeTaken(q) THEN Answers(q, "4xx") ELSE Goes(q, "codeFree")
    /\ UNCHANGED <<chart, pay, defaultVars, before>>

(* Only the account itself is no parent.                                   *)
CheckParent(q) ==
    /\ req[q].pc = "codeFree"
    /\ IF req[q].chart = None \/ (req[q].chart # req[q].id /\ LiveChart(req[q].chart))
       THEN Goes(q, "ready") ELSE Answers(q, "4xx")
    /\ UNCHANGED <<chart, pay, defaultVars, before>>

(* Mutant: only the default payment account counts.                        *)
UsedByDefault(c) == \E p \in Defaults : pay[p].chart = c

Used(c) == \E p \in Existing : pay[p].chart = c

CheckUse(q) ==
    /\ req[q].op = "deleteChart" /\ req[q].pc = "loaded"
    /\ IF Used(req[q].id) THEN Answers(q, "4xx") ELSE Goes(q, "ready")
    /\ UNCHANGED <<chart, pay, defaultVars, before>>

SaveEnds(q) == Answers(q, "ok") \/ Answers(q, "500")

(* The unique index covers the codes of the accounts that are not voided.  *)
SaveCreate(q) ==
    /\ req[q].op = "createChart" /\ req[q].pc = "ready" /\ ~CodeTaken(q)
    /\ \E c \in {d \in Ids : chart[d] = None} :
         chart' = [chart EXCEPT ![c] = [code |-> req[q].code, parent |-> req[q].chart,
                                        voided |-> FALSE]]
    /\ SaveEnds(q)
    /\ UNCHANGED <<pay, defaultVars, before>>

(* What an update leaves out, or finds as it is, is not written.  A voided *)
(* account is out of the index.                                            *)
Written(given, was, now) == IF given \in {None, was} THEN now ELSE given

SaveUpdate(q) ==
    LET c == req[q].id
        code == Written(req[q].code, req[q].was.code, chart[c].code) IN
    /\ req[q].op = "updateChart" /\ req[q].pc = "ready"
    /\ code = chart[c].code \/ chart[c].voided \/ ~CodeTaken(q)
    /\ chart' = [chart EXCEPT
         ![c].code = code,
         ![c].parent = Written(req[q].chart, req[q].was.parent, @)]
    /\ SaveEnds(q)
    /\ UNCHANGED <<pay, defaultVars, before>>

SaveDelete(q) ==
    LET c == req[q].id IN
    /\ req[q].op = "deleteChart" /\ req[q].pc = "ready"
    /\ chart' = [chart EXCEPT ![c].voided = TRUE]
    /\ before' = [before EXCEPT ![c] = @ \cup req[q].there]
    /\ SaveEnds(q)
    /\ UNCHANGED <<pay, defaultVars>>

-----------------------------------------------------------------------------
(* PaymentAccountService.  The chart account is not looked for.  A new     *)
(* default loads the others first; SetDefault loads the account, then all. *)
(* list is the rows that the DbContext tracks with the mark: a row it      *)
(* tracks already keeps the values it was read with first.                 *)

LoadAccount(q) ==
    /\ req[q].op = "setDefault" /\ req[q].pc = "new"
    /\ IF req[q].id \in Existing
       THEN req' = [req EXCEPT ![q].list = Defaults \cap {req[q].id}, ![q].since = saves,
                               ![q].pc = "loaded"]
       ELSE Answers(q, "500")
    /\ UNCHANGED <<chart, pay, defaultVars, before>>

LoadAll(q) ==
    /\ req[q].op = "setDefault" /\ req[q].pc = "loaded"
    /\ req' = [req EXCEPT ![q].list = @ \cup (Defaults \ {req[q].id}), ![q].pc = "ready"]
    /\ UNCHANGED <<chart, pay, defaultVars, before>>

LoadOthers(q) ==
    /\ req[q].op = "createPay" /\ req[q].isDefault /\ req[q].pc = "new"
    /\ req' = [req EXCEPT ![q].list = Defaults, ![q].since = saves, ![q].pc = "ready"]
    /\ UNCHANGED <<chart, pay, defaultVars, before>>

Chosen(q, p) ==
    /\ saves' = saves + 1
    /\ alone' = (req[q].since = saves)
    /\ rivals' = IF req[q].since = saves THEN {p} ELSE rivals \cup {p}

(* Mutant: the others keep their mark.                                     *)
Unmarked(q, p) == FALSE

(* Loaded with the mark: EF updates only the rows whose mark changes.      *)
Cleared(q, p) == p \in req[q].list

CreatePay(q) ==
    /\ req[q].op = "createPay"
    /\ req[q].pc = IF req[q].isDefault THEN "ready" ELSE "new"
    /\ \E n \in Pays \ Existing :
         /\ pay' = [p \in Pays |->
              IF p = n THEN [chart |-> req[q].chart, isDefault |-> req[q].isDefault]
              ELSE IF p \in Existing /\ Cleared(q, p) THEN [pay[p] EXCEPT !.isDefault = FALSE]
              ELSE pay[p]]
         /\ IF req[q].isDefault THEN Chosen(q, n) ELSE UNCHANGED defaultVars
    /\ SaveEnds(q)
    /\ UNCHANGED <<chart, before>>

SetDefault(q) ==
    /\ req[q].op = "setDefault" /\ req[q].pc = "ready"
    /\ pay' = [p \in Pays |->
         IF p = req[q].id /\ p \notin req[q].list THEN [pay[p] EXCEPT !.isDefault = TRUE]
         ELSE IF p # req[q].id /\ p \in Existing /\ Cleared(q, p)
              THEN [pay[p] EXCEPT !.isDefault = FALSE]
         ELSE pay[p]]
    /\ Chosen(q, req[q].id)
    /\ SaveEnds(q)
    /\ UNCHANGED <<chart, before>>

-----------------------------------------------------------------------------
(* A statement fails, a save that meets the index first of all.            *)
Fail(q) ==
    /\ req[q].op # None /\ req[q].pc # "done"
    /\ Answers(q, "500")
    /\ UNCHANGED <<chart, pay, defaultVars, before>>

Handle(q) ==
    \/ LoadChart(q) \/ CheckCode(q) \/ CheckParent(q) \/ CheckUse(q)
    \/ SaveCreate(q) \/ SaveUpdate(q) \/ SaveDelete(q)
    \/ LoadAccount(q) \/ LoadAll(q) \/ LoadOthers(q) \/ CreatePay(q) \/ SetDefault(q)
    \/ Fail(q)

Next == \E q \in Requests : Call(q) \/ Handle(q)

Spec == Init /\ [][Next]_vars

-----------------------------------------------------------------------------
(* Every variable has a value of its kind.                                 *)
TypeOK ==
    /\ chart \in [Ids -> Chart \cup {None}]
    /\ pay \in [Pays -> Pay \cup {None}]
    /\ req \in [Requests -> Request]
    /\ saves \in Nat
    /\ alone \in BOOLEAN
    /\ rivals \in SUBSET Pays
    /\ before \in [Ids -> SUBSET Pays]

(* Live chart accounts have different codes, however creates and updates   *)
(* interleave between their check and their save.                          *)
LiveCodesUnique ==
    \A c, d \in Ids :
        c # d /\ LiveChart(c) /\ LiveChart(d) => chart[c].code # chart[d].code

(* Once a default was chosen by a request that none crossed, it is the one *)
(* default, whatever there was before it; requests side by side may leave  *)
(* several, or none, but no account keeps or gets back a mark that was     *)
(* chosen before them.                                                     *)
DefaultIsSingle ==
    /\ alone => Defaults = rivals /\ \A p, r \in rivals : p = r
    /\ Defaults \subseteq rivals

(* A payment account of a voided chart account came after the delete was   *)
(* called: the delete saw every use there was when it was called.          *)
VoidedWasUnused ==
    \A c \in Ids : chart[c] # None /\ chart[c].voided =>
        \A p \in before[c] : pay[p].chart # c
=============================================================================

---------------------------- MODULE LedgerProofs ----------------------------
(***************************************************************************)
(* Proofs about Ledger, for any chart and payment accounts, codes and      *)
(* requests.                                                               *)
(*                                                                         *)
(* The argument: a payment account never changes its chart account and is  *)
(* never removed, so those a delete found when it was called cannot come   *)
(* to use what it voids; marks change only with a save that is counted, so *)
(* the marks a request loaded are those there are until another is saved;  *)
(* and the unique index decides when two codes meet.                       *)
(***************************************************************************)
EXTENDS Ledger, TLAPS

\* What is known of a request r between its steps.
ReqOK(r) ==
    /\ r.op \in {"createChart", "createPay"} => r.id = None
    /\ r.op \in {"updateChart", "deleteChart"} =>
         r.id \in Ids /\ (r.pc \in {"loaded", "codeFree", "ready"} => chart[r.id] # None)
    /\ r.op = "updateChart" /\ r.pc \in {"loaded", "codeFree", "ready"} => r.was \in Chart
    /\ r.pc = "codeFree" => r.op \in {"createChart", "updateChart"}
    /\ r.op = "createChart" => r.code \in Codes
    /\ r.op = "setDefault" =>
         r.id \in Pays /\ (r.pc \in {"loaded", "ready"} => r.id \in Existing)
    /\ r.there \subseteq Existing
    /\ r.op = "deleteChart" /\ r.pc = "ready" => \A p \in r.there : pay[p].chart # r.id
    /\ r.op = "createPay" /\ r.pc = "new" => r.list = {}
    /\ r.op = "setDefault" /\ r.pc = "loaded" =>
         r.since <= saves /\ (r.since = saves => r.list = Defaults \cap {r.id})
    /\ r.op \in {"createPay", "setDefault"} /\ r.pc = "ready" =>
         r.since <= saves /\ (r.since = saves => r.list = Defaults)

BeforeOK == \A c \in Ids : before[c] \subseteq Existing /\ \A p \in before[c] : pay[p].chart # c

IInv ==
    /\ TypeOK
    /\ \A q \in Requests : ReqOK(req[q])
    /\ BeforeOK
    /\ DefaultIsSingle
    /\ LiveCodesUnique

-----------------------------------------------------------------------------

\* No request has come yet, and at most one payment account is marked.
LEMMA InitInv == Init => IInv
  <1> SUFFICES ASSUME Init PROVE IInv
    OBVIOUS
  <1>1. NewRequest \in Request /\ ReqOK(NewRequest)
    <2>1. NewRequest \in Request
      BY DEF NewRequest, Request
    <2>2. /\ NewRequest.op = None /\ NewRequest.there = {} /\ NewRequest.pc = "new"
          /\ NewRequest.list = {}
      BY DEF NewRequest
    <2>3. None \notin LedgerOps
      BY NoneAssumption
    <2> QED
      BY <2>1, <2>2, <2>3 DEF ReqOK, LedgerOps
  <1>2. req \in [Requests -> Request] /\ \A q \in Requests : ReqOK(req[q])
    BY <1>1 DEF Init
  <1>3. chart \in [Ids -> Chart \cup {None}]
    BY DEF Init, Chart
  <1>4. alone \in BOOLEAN
    BY DEF Init
  <1>5. TypeOK
    <2>1. rivals \in SUBSET Pays
      BY DEF Init, Defaults, Existing
    <2>2. before \in [Ids -> SUBSET Pays]
      BY DEF Init
    <2> QED
      BY <1>2, <1>3, <1>4, <2>1, <2>2 DEF Init, TypeOK
  <1>6. BeforeOK
    BY DEF Init, BeforeOK
  <1>7. LiveCodesUnique
    BY DEF Init, LiveCodesUnique, LiveChart
  <1> QED
    BY <1>2, <1>5, <1>6, <1>7 DEF Init, IInv, DefaultIsSingle

\* A request changes its own record only.
LEMMA StepInv ==
    ASSUME IInv, NEW q \in Requests, NEW r \in Request, ReqOK(r),
           req' = [req EXCEPT ![q] = r],
           UNCHANGED <<chart, pay, saves, rivals, alone, before>>
    PROVE  IInv'
  <1>1. req' \in [Requests -> Request]
    BY DEF IInv, TypeOK
  <1>2. TypeOK'
    <2>1. alone' \in BOOLEAN
      BY DEF IInv, TypeOK
    <2> QED
      BY <1>1, <2>1 DEF IInv, TypeOK
  <1>6. ASSUME NEW p \in Requests PROVE ReqOK(req[p])'
    <2>1. CASE p = q
      <3>1. req'[p] = r
        BY <2>1 DEF IInv, TypeOK
      <3> QED
        BY <3>1 DEF ReqOK, Existing, Defaults
    <2>2. CASE p # q
      <3>1. req'[p] = req[p] /\ ReqOK(req[p])
        BY <2>2 DEF IInv, TypeOK
      <3> QED
        BY <3>1 DEF ReqOK, Existing, Defaults
    <2> QED
      BY <2>1, <2>2
  <1>7. BeforeOK' /\ DefaultIsSingle' /\ LiveCodesUnique'
    BY DEF IInv, BeforeOK, DefaultIsSingle, LiveCodesUnique, LiveChart, Existing, Defaults
  <1> QED
    BY <1>2, <1>6, <1>7 DEF IInv

\* An answer ends the request, and is a record like the one before.
LEMMA Answered ==
    ASSUME IInv, NEW q \in Requests, NEW a \in {"ok", "4xx", "500"}, Answers(q, a)
    PROVE  \E r \in Request : /\ ReqOK(r) /\ r.pc = "done"
                              /\ r.op = req[q].op /\ r.id = req[q].id /\ r.there = req[q].there
                              /\ req' = [req EXCEPT ![q] = r]
  <1> DEFINE r == [req[q] EXCEPT !.pc = "done", !.answer = a]
  <1>1. req[q] \in Request /\ ReqOK(req[q])
    BY DEF IInv, TypeOK
  <1>2. r \in Request
    BY <1>1 DEF Request, Replies
  <1>3. /\ r.op = req[q].op /\ r.id = req[q].id /\ r.there = req[q].there /\ r.pc = "done"
        /\ r.code = req[q].code
    BY <1>1 DEF Request
  <1>4. ReqOK(r)
    BY <1>1, <1>3 DEF ReqOK
  <1>5. req' = [req EXCEPT ![q] = r]
    BY DEF Answers, IInv, TypeOK
  <1> QED
    BY <1>2, <1>3, <1>4, <1>5

LEMMA AnsweredInv ==
    ASSUME IInv, NEW q \in Requests, NEW a \in {"ok", "4xx", "500"}, Answers(q, a),
           UNCHANGED <<chart, pay, saves, rivals, alone, before>>
    PROVE  IInv'
  BY Answered, StepInv

-----------------------------------------------------------------------------

\* The client's call: a fresh record.
LEMMA CallInv ==
    ASSUME IInv, NEW q \in Requests, Call(q)
    PROVE  IInv'
  <1>1. PICK op \in LedgerOps, i \in Ids \cup Pays \cup {None}, k \in Codes \cup {None},
             c \in Ids \cup {None}, d \in BOOLEAN :
          /\ i \in CASE op \in {"createChart", "createPay"} -> {None}
                     [] op = "setDefault" -> Pays
                     [] OTHER -> Ids
          /\ op = "createChart" => k # None
          /\ op \notin {"createChart", "updateChart"} => k = None
          /\ op \in {"deleteChart", "setDefault"} => c = None
          /\ d => op = "createPay"
          /\ req' = [req EXCEPT ![q] =
               [NewRequest EXCEPT !.op = op, !.id = i, !.code = k, !.chart = c, !.isDefault = d,
                                  !.there = Existing]]
    BY DEF Call
  <1> DEFINE r == [NewRequest EXCEPT !.op = op, !.id = i, !.code = k, !.chart = c,
                                     !.isDefault = d, !.there = Existing]
  <1>2. /\ r.op = op /\ r.id = i /\ r.code = k /\ r.there = Existing /\ r.list = {}
        /\ r.pc = "new"
    BY DEF NewRequest
  <1>3. d \in {TRUE, FALSE}
    BY <1>1
  <1>4. r \in Request
    <2>1. Existing \subseteq Pays
      BY DEF Existing
    <2> QED
      BY <1>3, <2>1 DEF NewRequest, Request
  <1>5. ReqOK(r)
    <2>1. op \in {"updateChart", "deleteChart"} => i \in Ids
      BY <1>1
    <2>2. op = "setDefault" => i \in Pays
      BY <1>1
    <2>3. /\ op \in {"createChart", "createPay"} => i = None
          /\ op = "createChart" => k \in Codes
      BY <1>1
    <2> HIDE DEF r
    <2> QED
      BY <1>2, <2>1, <2>2, <2>3 DEF ReqOK
  <1> HIDE DEF r
  <1>6. req' = [req EXCEPT ![q] = r]
    BY <1>1 DEF r
  <1> QED
    BY <1>4, <1>5, <1>6, StepInv DEF Call, defaultVars

\* The statements that only read.
LEMMA LoadChartInv ==
    ASSUME IInv, NEW q \in Requests, LoadChart(q)
    PROVE  IInv'
  <1>1. CASE Answers(q, "4xx")
    BY <1>1, AnsweredInv DEF LoadChart, defaultVars
  <1>2. CASE /\ LiveChart(req[q].id)
             /\ req' = [req EXCEPT ![q].was = chart[req[q].id], ![q].pc = "loaded"]
    <2> DEFINE r == [req[q] EXCEPT !.was = chart[req[q].id], !.pc = "loaded"]
    <2>1. req[q] \in Request /\ ReqOK(req[q])
      BY DEF IInv, TypeOK
    <2>2. chart[req[q].id] \in Chart
      BY <1>2 DEF LiveChart, IInv, TypeOK
    <2>3. r \in Request
      BY <2>1, <2>2 DEF Request
    <2>4. /\ r.op = req[q].op /\ r.id = req[q].id /\ r.there = req[q].there
          /\ r.was \in Chart /\ r.pc = "loaded"
          /\ r.op \in {"updateChart", "deleteChart"} /\ chart[r.id] # None /\ r.id \in Ids
      BY <1>2, <2>1, <2>2 DEF Request, LoadChart, LiveChart
    <2>5. ReqOK(r)
      BY <2>1, <2>4 DEF ReqOK
    <2>6. req' = [req EXCEPT ![q] = r]
      BY <1>2 DEF IInv, TypeOK
    <2> QED
      BY <2>3, <2>5, <2>6, StepInv DEF LoadChart, defaultVars
  <1> QED
    BY <1>1, <1>2 DEF LoadChart

\* The checks of code, parent and use: the record differs in pc alone.
LEMMA GoesInv ==
    ASSUME IInv, NEW q \in Requests, NEW pc \in {"codeFree", "ready"}, Goes(q, pc),
           \/ CheckCode(q) /\ pc = "codeFree"
           \/ CheckParent(q) /\ pc = "ready" /\ req[q].op \in {"createChart", "updateChart"}
           \/ CheckUse(q) /\ ~Used(req[q].id) /\ pc = "ready"
    PROVE  IInv'
  <1> DEFINE r == [req[q] EXCEPT !.pc = pc]
  <1>1. req[q] \in Request /\ ReqOK(req[q])
    BY DEF IInv, TypeOK
  <1>2. r \in Request
    BY <1>1 DEF Request
  <1>3. /\ r.op = req[q].op /\ r.id = req[q].id /\ r.there = req[q].there /\ r.pc = pc
        /\ r.code = req[q].code /\ r.was = req[q].was
    BY <1>1 DEF Request
  <1>4. ReqOK(r)
    <2>1. CASE CheckCode(q) /\ pc = "codeFree"
      BY <2>1, <1>1, <1>3 DEF ReqOK, CheckCode
    <2>2. CASE CheckParent(q) /\ pc = "ready" /\ req[q].op \in {"createChart", "updateChart"}
      BY <2>2, <1>1, <1>3 DEF ReqOK, CheckParent
    <2>3. CASE CheckUse(q) /\ ~Used(req[q].id) /\ pc = "ready"
      BY <2>3, <1>1, <1>3 DEF ReqOK, CheckUse, Used
    <2> QED
      BY <2>1, <2>2, <2>3
  <1>5. req' = [req EXCEPT ![q] = r]
    BY DEF Goes, IInv, TypeOK
  <1>6. UNCHANGED <<chart, pay, saves, rivals, alone, before>>
    BY DEF CheckCode, CheckParent, CheckUse, defaultVars
  <1> QED
    BY <1>2, <1>4, <1>5, <1>6, StepInv

LEMMA ChecksInv ==
    ASSUME IInv, NEW q \in Requests,
           CheckCode(q) \/ CheckParent(q) \/ CheckUse(q) \/ Fail(q)
    PROVE  IInv'
  <1>1. CheckParent(q) => req[q].op \in {"createChart", "updateChart"}
    BY DEF CheckParent, IInv, ReqOK
  <1> QED
    BY <1>1, GoesInv, AnsweredInv
    DEF CheckCode, CheckParent, CheckUse, Fail, defaultVars

\* The account to mark is loaded first, with the mark it has.
LEMMA LoadAccountInv ==
    ASSUME IInv, NEW q \in Requests, LoadAccount(q)
    PROVE  IInv'
  <1>1. CASE Answers(q, "500")
    BY <1>1, AnsweredInv DEF LoadAccount, defaultVars
  <1>2. CASE /\ req[q].id \in Existing
             /\ req' = [req EXCEPT ![q].list = Defaults \cap {req[q].id}, ![q].since = saves,
                                   ![q].pc = "loaded"]
    <2> DEFINE r == [req[q] EXCEPT !.list = Defaults \cap {req[q].id}, !.since = saves,
                                   !.pc = "loaded"]
    <2>1. req[q] \in Request /\ ReqOK(req[q]) /\ saves \in Nat
      BY DEF IInv, TypeOK
    <2>2. Defaults \subseteq Pays
      BY DEF Defaults, Existing
    <2>3. r \in Request
      BY <2>1, <2>2 DEF Request
    <2>4. /\ r.op = "setDefault" /\ r.id = req[q].id /\ r.there = req[q].there /\ r.pc = "loaded"
          /\ r.list = Defaults \cap {r.id} /\ r.since = saves
      BY <2>1 DEF Request, LoadAccount
    <2>5. ReqOK(r)
      BY <1>2, <2>1, <2>4 DEF ReqOK, LoadAccount
    <2>6. req' = [req EXCEPT ![q] = r]
      BY <1>2 DEF IInv, TypeOK
    <2> QED
      BY <2>3, <2>5, <2>6, StepInv DEF LoadAccount, defaultVars
  <1> QED
    BY <1>1, <1>2 DEF LoadAccount

\* Then all: with what was kept of the first, the marks there are as long as
\* none was saved since.
LEMMA LoadAllInv ==
    ASSUME IInv, NEW q \in Requests, LoadAll(q)
    PROVE  IInv'
  <1> DEFINE marked == req[q].list \cup (Defaults \ {req[q].id})
             r == [req[q] EXCEPT !.list = marked, !.pc = "ready"]
  <1>1. req[q] \in Request /\ ReqOK(req[q]) /\ req[q].list \subseteq Pays
    BY DEF IInv, TypeOK, Request
  <1>2. marked \subseteq Pays
    BY <1>1 DEF Defaults, Existing
  <1>3. r \in Request
    BY <1>1, <1>2 DEF Request
  <1>4. /\ r.op = "setDefault" /\ r.id = req[q].id /\ r.there = req[q].there /\ r.pc = "ready"
        /\ r.list = marked /\ r.since = req[q].since
    BY <1>1 DEF Request, LoadAll
  <1>5. r.since = saves => marked = Defaults
    BY <1>1, <1>4 DEF ReqOK, LoadAll
  <1>6. req' = [req EXCEPT ![q] = r]
    BY DEF LoadAll, IInv, TypeOK
  <1> HIDE DEF r, marked
  <1>7. ReqOK(r)
    BY <1>1, <1>4, <1>5 DEF ReqOK, LoadAll
  <1> QED
    BY <1>3, <1>6, <1>7, StepInv DEF LoadAll, defaultVars

\* The marked accounts are loaded: all there are until the next counted save.
LEMMA LoadOthersInv ==
    ASSUME IInv, NEW q \in Requests, LoadOthers(q)
    PROVE  IInv'
  <1> DEFINE r == [req[q] EXCEPT !.list = Defaults, !.since = saves, !.pc = "ready"]
  <1>1. req[q] \in Request /\ ReqOK(req[q]) /\ saves \in Nat
    BY DEF IInv, TypeOK
  <1>2. Defaults \subseteq Pays
    BY DEF Defaults, Existing
  <1>3. r \in Request
    BY <1>1, <1>2 DEF Request
  <1>4. /\ r.op = req[q].op /\ r.id = req[q].id /\ r.there = req[q].there /\ r.pc = "ready"
        /\ r.list = Defaults /\ r.since = saves
    BY <1>1 DEF Request
  <1>5. ReqOK(r)
    BY <1>1, <1>4 DEF ReqOK, LoadOthers
  <1>6. req' = [req EXCEPT ![q] = r]
    BY DEF LoadOthers, IInv, TypeOK
  <1> QED
    BY <1>3, <1>5, <1>6, StepInv DEF LoadOthers, defaultVars

-----------------------------------------------------------------------------

\* The end of a save leaves a record that needs nothing but its history.
LEMMA SaveEndsRecord ==
    ASSUME IInv, NEW q \in Requests, SaveEnds(q)
    PROVE  /\ req' \in [Requests -> Request]
           /\ \A p \in Requests : p # q => req'[p] = req[p]
           /\ req'[q].pc = "done" /\ req'[q].op = req[q].op /\ req'[q].id = req[q].id
           /\ req'[q].there = req[q].there
           /\ req[q].op = "createChart" => req'[q].code \in Codes
  <1>1. PICK r \in Request : /\ ReqOK(r) /\ r.pc = "done"
                             /\ r.op = req[q].op /\ r.id = req[q].id /\ r.there = req[q].there
                             /\ req' = [req EXCEPT ![q] = r]
    BY Answered DEF SaveEnds
  <1>2. req' \in [Requests -> Request] /\ req'[q] = r
    BY <1>1 DEF IInv, TypeOK
  <1>3. \A p \in Requests : p # q => req'[p] = req[p]
    BY <1>1 DEF IInv, TypeOK
  <1> QED
    BY <1>1, <1>2, <1>3 DEF ReqOK

\* A save of chart accounts: none disappears.
LEMMA ChartSaveInv ==
    ASSUME IInv, NEW q \in Requests, SaveEnds(q),
           chart' \in [Ids -> Chart \cup {None}],
           \A c \in Ids : chart[c] # None => chart'[c] # None,
           before' \in [Ids -> SUBSET Pays],
           UNCHANGED <<pay, saves, rivals, alone>>,
           BeforeOK', LiveCodesUnique'
    PROVE  IInv'
  <1>1. alone' \in BOOLEAN
    BY DEF IInv, TypeOK
  <1>2. TypeOK'
    BY <1>1, SaveEndsRecord DEF IInv, TypeOK
  <1>3. ASSUME NEW p \in Requests PROVE ReqOK(req[p])'
    <2>1. ReqOK(req[p])
      BY DEF IInv
    <2>2. CASE p # q
      BY <2>1, <2>2, SaveEndsRecord DEF ReqOK, Existing, Defaults
    <2>3. CASE p = q
      BY <2>1, <2>3, SaveEndsRecord DEF ReqOK, Existing, Defaults
    <2> QED
      BY <2>2, <2>3
  <1>4. DefaultIsSingle'
    BY DEF IInv, DefaultIsSingle, Defaults, Existing
  <1> QED
    BY <1>2, <1>3, <1>4 DEF IInv

\* The index keeps a new account from meeting a live one.
LEMMA SaveCreateInv ==
    ASSUME IInv, NEW q \in Requests, SaveCreate(q)
    PROVE  IInv'
  <1>1. PICK c \in {d \in Ids : chart[d] = None} :
          chart' = [chart EXCEPT ![c] = [code |-> req[q].code, parent |-> req[q].chart,
                                         voided |-> FALSE]]
    BY DEF SaveCreate
  <1> DEFINE new == [code |-> req[q].code, parent |-> req[q].chart, voided |-> FALSE]
  <1>2. req[q] \in Request /\ req[q].code \in Codes /\ req[q].id = None
    BY DEF IInv, TypeOK, ReqOK, SaveCreate
  <1>3. new \in Chart /\ new # None
    <2>1. req[q].chart \in Ids \cup {None}
      BY <1>2 DEF Request
    <2>2. new \in Chart
      BY <1>2, <2>1 DEF Chart
    <2> HIDE DEF new
    <2> QED
      BY <2>2, NoneAssumption
  <1>4. chart' \in [Ids -> Chart \cup {None}]
    BY <1>1, <1>3 DEF IInv, TypeOK
  <1>5. \A d \in Ids : chart[d] # None => chart'[d] # None
    BY <1>1, <1>3 DEF IInv, TypeOK
  <1>6. LiveCodesUnique'
    <2>1. \A d \in Ids : d # c => chart'[d] = chart[d]
      BY <1>1 DEF IInv, TypeOK
    <2>2. chart'[c].code = req[q].code
      BY <1>1 DEF IInv, TypeOK
    <2>3. \A d \in Ids : d # c /\ LiveChart(d)' => LiveChart(d) /\ chart[d].code # req[q].code
      BY <1>2, <2>1, NoneAssumption DEF SaveCreate, CodeTaken, LiveChart
    <2> QED
      BY <2>1, <2>2, <2>3 DEF IInv, LiveCodesUnique
  <1>7. BeforeOK' /\ before' \in [Ids -> SUBSET Pays]
    BY DEF SaveCreate, IInv, TypeOK, BeforeOK, Existing
  <1> QED
    BY <1>4, <1>5, <1>6, <1>7, ChartSaveInv DEF SaveCreate, defaultVars

\* The index keeps a changed code from meeting a live one.
LEMMA SaveUpdateInv ==
    ASSUME IInv, NEW q \in Requests, SaveUpdate(q)
    PROVE  IInv'
  <1>0. PICK c : c = req[q].id
    OBVIOUS
  <1> DEFINE code == Written(req[q].code, req[q].was.code, chart[c].code)
         parent == Written(req[q].chart, req[q].was.parent, chart[c].parent)
  <1>1. req[q] \in Request /\ c \in Ids /\ chart[c] \in Chart
    BY <1>0 DEF IInv, TypeOK, ReqOK, SaveUpdate
  <1>2. code \in Codes /\ parent \in Ids \cup {None}
    BY <1>1 DEF Request, Chart, Written
  <1> DEFINE new == [chart[c] EXCEPT !.code = code, !.parent = parent]
  <1>3. new \in Chart /\ new.code = code /\ new.voided = chart[c].voided /\ new # None
    BY <1>1, <1>2, NoneAssumption DEF Chart
  <1>4. chart' = [chart EXCEPT ![c] = new]
    BY <1>0, <1>1 DEF SaveUpdate, IInv, TypeOK
  <1>5. code = chart[c].code \/ chart[c].voided \/ ~CodeTaken(q)
    BY <1>0 DEF SaveUpdate
  <1>6. code = chart[c].code \/ code = req[q].code
    BY DEF Written
  <1> HIDE DEF new, code, parent
  <1>7. chart' \in [Ids -> Chart \cup {None}]
    BY <1>1, <1>3, <1>4 DEF IInv, TypeOK
  <1>8. /\ chart'[c] = new
        /\ \A d \in Ids : d # c => chart'[d] = chart[d]
    BY <1>1, <1>4 DEF IInv, TypeOK
  <1>9. LiveCodesUnique'
    <2>1. ASSUME NEW d \in Ids, d # c, LiveChart(c)', LiveChart(d)'
          PROVE  chart'[c].code # chart'[d].code
      <3>1. LiveChart(c) /\ LiveChart(d) /\ chart'[c].code = code
        BY <1>1, <1>3, <1>8, <2>1, NoneAssumption DEF LiveChart
      <3>2. code = chart[c].code => code # chart[d].code
        BY <1>1, <2>1, <3>1 DEF IInv, LiveCodesUnique
      <3>3. code # chart[c].code => code # chart[d].code
        BY <1>0, <1>5, <1>6, <2>1, <3>1 DEF CodeTaken, LiveChart
      <3> QED
        BY <1>8, <2>1, <3>1, <3>2, <3>3
    <2>2. \A d, e \in Ids :
             d # e /\ d # c /\ e # c /\ LiveChart(d)' /\ LiveChart(e)' => chart'[d].code # chart'[e].code
      BY <1>8 DEF IInv, LiveCodesUnique, LiveChart
    <2> QED
      BY <1>1, <2>1, <2>2 DEF LiveCodesUnique
  <1>10. BeforeOK' /\ before' \in [Ids -> SUBSET Pays]
    BY DEF SaveUpdate, IInv, TypeOK, BeforeOK, Existing
  <1>11. \A d \in Ids : chart[d] # None => chart'[d] # None
    BY <1>3, <1>8
  <1> QED
    BY <1>7, <1>9, <1>10, <1>11, ChartSaveInv DEF SaveUpdate, defaultVars

\* What the delete found when it was called does not use the account.
LEMMA SaveDeleteInv ==
    ASSUME IInv, NEW q \in Requests, SaveDelete(q)
    PROVE  IInv'
  <1> DEFINE c == req[q].id
  <1>1. /\ req[q] \in Request /\ c \in Ids /\ chart[c] \in Chart
        /\ req[q].there \subseteq Existing /\ \A p \in req[q].there : pay[p].chart # c
    BY DEF IInv, TypeOK, ReqOK, SaveDelete
  <1>2. chart' = [chart EXCEPT ![c] = [chart[c] EXCEPT !.voided = TRUE]]
    BY DEF SaveDelete, IInv, TypeOK
  <1>3. [chart[c] EXCEPT !.voided = TRUE] \in Chart /\ [chart[c] EXCEPT !.voided = TRUE] # None
    BY <1>1, NoneAssumption DEF Chart
  <1>4. chart' \in [Ids -> Chart \cup {None}]
    BY <1>1, <1>2, <1>3 DEF IInv, TypeOK
  <1>5. /\ chart'[c].voided = TRUE
        /\ \A d \in Ids : d # c => chart'[d] = chart[d]
    BY <1>1, <1>2 DEF IInv, TypeOK, Chart
  <1>6. \A d \in Ids : chart[d] # None => chart'[d] # None
    BY <1>2, <1>3, <1>5 DEF IInv, TypeOK
  <1>7. LiveCodesUnique'
    BY <1>5 DEF IInv, LiveCodesUnique, LiveChart
  <1>8. /\ before' \in [Ids -> SUBSET Pays]
        /\ before'[c] = before[c] \cup req[q].there
        /\ \A d \in Ids : d # c => before'[d] = before[d]
    BY <1>1 DEF SaveDelete, IInv, TypeOK, Request
  <1>9. BeforeOK'
    BY <1>1, <1>8 DEF SaveDelete, IInv, BeforeOK, Existing
  <1> QED
    BY <1>4, <1>6, <1>7, <1>8, <1>9, ChartSaveInv DEF SaveDelete, defaultVars

-----------------------------------------------------------------------------

\* A save of payment accounts: none disappears or changes its chart account,
\* and marks change only when the save is counted.
LEMMA PaySaveInv ==
    ASSUME IInv, NEW q \in Requests, SaveEnds(q),
           pay' \in [Pays -> Pay \cup {None}],
           \A p \in Existing : p \in Existing' /\ pay'[p].chart = pay[p].chart,
           UNCHANGED <<chart, before>>,
           \/ UNCHANGED defaultVars /\ Defaults' = Defaults
           \/ saves' = saves + 1 /\ rivals' \in SUBSET Pays /\ alone' \in BOOLEAN,
           DefaultIsSingle'
    PROVE  IInv'
  <1>1. alone' \in BOOLEAN /\ saves' \in Nat /\ rivals' \in SUBSET Pays
    <2>1. alone \in BOOLEAN /\ saves \in Nat /\ rivals \in SUBSET Pays
      BY DEF IInv, TypeOK
    <2>2. CASE UNCHANGED defaultVars
      BY <2>1, <2>2 DEF defaultVars
    <2>3. CASE saves' = saves + 1 /\ rivals' \in SUBSET Pays /\ alone' \in BOOLEAN
      BY <2>1, <2>3
    <2> QED
      BY <2>2, <2>3
  <1>2. TypeOK'
    <2>1. chart' \in [Ids -> Chart \cup {None}] /\ before' \in [Ids -> SUBSET Pays]
      BY DEF IInv, TypeOK
    <2> QED
      BY <1>1, <2>1, SaveEndsRecord DEF TypeOK
  <1>3. ASSUME NEW p \in Requests PROVE ReqOK(req[p])'
    <2>1. ReqOK(req[p]) /\ req[p] \in Request
      BY DEF IInv, TypeOK
    <2>2. CASE p # q
      <3>1. req'[p] = req[p]
        BY <2>2, SaveEndsRecord
      <3>2. /\ req[p].op \in {"createPay", "setDefault"} /\ req[p].pc = "ready" =>
                  req[p].since <= saves' /\ (req[p].since = saves' => req[p].list = Defaults')
        BY <2>1 DEF ReqOK, IInv, TypeOK, Request, defaultVars
      <3>6. req[p].op = "setDefault" /\ req[p].pc = "loaded" =>
              /\ req[p].since <= saves'
              /\ req[p].since = saves' => req[p].list = Defaults' \cap {req[p].id}
        <4>1. req[p].since \in Nat /\ saves \in Nat
          BY <2>1 DEF IInv, TypeOK, Request
        <4>2. CASE saves' = saves /\ Defaults' = Defaults
          BY <2>1, <4>2 DEF ReqOK
        <4>3. CASE saves' = saves + 1
          BY <2>1, <4>1, <4>3 DEF ReqOK
        <4> QED
          BY <4>2, <4>3 DEF defaultVars
      <3>3. req[p].there \subseteq Existing'
        BY <2>1 DEF ReqOK
      <3>4. req[p].op = "deleteChart" /\ req[p].pc = "ready" =>
              \A a \in req[p].there : pay'[a].chart # req[p].id
        BY <2>1 DEF ReqOK
      <3>5. req[p].op = "setDefault" /\ req[p].pc \in {"loaded", "ready"} => req[p].id \in Existing'
        BY <2>1 DEF ReqOK
      <3> QED
        BY <2>1, <3>1, <3>2, <3>3, <3>4, <3>5, <3>6 DEF ReqOK
    <2>3. CASE p = q
      <3>1. req'[p].there \subseteq Existing'
        BY <2>1, <2>3, SaveEndsRecord DEF ReqOK
      <3> QED
        BY <2>1, <2>3, <3>1, SaveEndsRecord DEF ReqOK
    <2> QED
      BY <2>2, <2>3
  <1>4. BeforeOK'
    BY DEF IInv, BeforeOK
  <1>5. LiveCodesUnique'
    BY DEF IInv, LiveCodesUnique, LiveChart
  <1> QED
    BY <1>2, <1>3, <1>4, <1>5 DEF IInv

\* What clearing the loaded marks leaves of an account that was there.
LEMMA ClearedPay ==
    ASSUME IInv, NEW p \in Existing
    PROVE  /\ pay[p] \in Pay
           /\ [pay[p] EXCEPT !.isDefault = FALSE] \in Pay
           /\ [pay[p] EXCEPT !.isDefault = FALSE].isDefault = FALSE
           /\ [pay[p] EXCEPT !.isDefault = TRUE] \in Pay
           /\ [pay[p] EXCEPT !.isDefault = TRUE].isDefault = TRUE
           /\ [pay[p] EXCEPT !.isDefault = FALSE].chart = pay[p].chart
           /\ [pay[p] EXCEPT !.isDefault = TRUE].chart = pay[p].chart
  <1>1. pay[p] \in Pay
    BY DEF IInv, TypeOK, Existing
  <1> QED
    BY <1>1 DEF Pay

\* What a counted save leaves of the marks and of the rivals.
LEMMA ChosenSingle ==
    ASSUME IInv, NEW q \in Requests, NEW n \in Pays, Chosen(q, n),
           Defaults' \subseteq Defaults \cup {n}, alone' => Defaults' = {n}
    PROVE  DefaultIsSingle' /\ rivals' \in SUBSET Pays
  <1>1. rivals' = IF req[q].since = saves THEN {n} ELSE rivals \cup {n}
    BY DEF Chosen
  <1>2. (alone' <=> req[q].since = saves) /\ alone' \in BOOLEAN
    BY DEF Chosen
  <1>3. Defaults \subseteq rivals /\ rivals \in SUBSET Pays
    BY DEF IInv, TypeOK, DefaultIsSingle
  <1>4. CASE alone'
    BY <1>1, <1>2, <1>4 DEF DefaultIsSingle
  <1>5. CASE ~alone'
    BY <1>1, <1>2, <1>3, <1>5 DEF DefaultIsSingle
  <1> QED
    BY <1>2, <1>4, <1>5

\* A new default clears what it loaded: all marks, when none is saved beside.
LEMMA CreatePayInv ==
    ASSUME IInv, NEW q \in Requests, CreatePay(q)
    PROVE  IInv'
  <1>1. PICK n \in Pays \ Existing :
         /\ pay' = [p \in Pays |->
              IF p = n THEN [chart |-> req[q].chart, isDefault |-> req[q].isDefault]
              ELSE IF p \in Existing /\ Cleared(q, p) THEN [pay[p] EXCEPT !.isDefault = FALSE]
              ELSE pay[p]]
         /\ IF req[q].isDefault THEN Chosen(q, n) ELSE UNCHANGED defaultVars
    BY DEF CreatePay
  <1>2. req[q] \in Request /\ ReqOK(req[q]) /\ saves \in Nat
    BY DEF IInv, TypeOK
  <1>3. req[q].isDefault \in BOOLEAN /\ req[q].chart \in Ids \cup {None}
    BY <1>2 DEF Request
  <1>4. pay'[n] \in Pay /\ pay'[n].isDefault = req[q].isDefault
    BY <1>1, <1>3 DEF Pay
  <1>5. \A p \in Existing : /\ pay'[p] \in Pay /\ pay'[p].chart = pay[p].chart
                            /\ p \in req[q].list => pay'[p].isDefault = FALSE
                            /\ p \notin req[q].list => pay'[p] = pay[p]
    <2>1. ASSUME NEW p \in Existing
          PROVE pay'[p] = IF p \in req[q].list THEN [pay[p] EXCEPT !.isDefault = FALSE] ELSE pay[p]
      BY <1>1 DEF Cleared, Existing
    <2> QED
      BY <2>1, ClearedPay
  <1>6. \A p \in Pays \ (Existing \cup {n}) : pay'[p] = None
    BY <1>1 DEF Existing
  <1>7. Existing' = Existing \cup {n}
    BY <1>1, <1>4, <1>5, <1>6, NoneAssumption DEF Existing
  <1>8. pay' \in [Pays -> Pay \cup {None}]
    <2>1. \A p \in Pays : pay'[p] \in Pay \cup {None}
      BY <1>4, <1>5, <1>6
    <2>2. DOMAIN pay' = Pays /\ pay' = [p \in Pays |-> pay'[p]]
      BY <1>1
    <2> QED
      BY <2>1, <2>2
  <1>9. CASE req[q].isDefault
    <2>1. Chosen(q, n) /\ req[q].pc = "ready" /\ req[q].op = "createPay"
      BY <1>1, <1>9 DEF CreatePay
    <2>2. alone' \in BOOLEAN /\ (alone' => req[q].since = saves)
      BY <2>1 DEF Chosen
    <2>3. alone' => Defaults' = {n}
      BY <1>2, <1>4, <1>5, <1>7, <1>9, <2>1, <2>2 DEF ReqOK, Defaults
    <2>4. Defaults' \subseteq Defaults \cup {n}
      BY <1>5, <1>7 DEF Defaults
    <2>5. DefaultIsSingle' /\ rivals' \in SUBSET Pays
      BY <1>1, <2>1, <2>2, <2>3, <2>4, ChosenSingle
    <2> QED
      BY <1>5, <1>7, <1>8, <2>1, <2>2, <2>5, PaySaveInv DEF CreatePay, Chosen
  <1>10. CASE ~req[q].isDefault
    <2>1. UNCHANGED defaultVars /\ req[q].list = {}
      BY <1>1, <1>2, <1>10 DEF CreatePay, ReqOK
    <2>2. Defaults' = Defaults
      <3>1. \A p \in Existing : pay'[p] = pay[p]
        BY <1>5, <2>1
      <3>2. pay'[n].isDefault = FALSE
        BY <1>3, <1>4, <1>10
      <3> QED
        BY <1>7, <3>1, <3>2 DEF Defaults
    <2>3. DefaultIsSingle'
      BY <2>1, <2>2 DEF DefaultIsSingle, defaultVars, IInv
    <2> QED
      BY <1>5, <1>7, <1>8, <2>1, <2>2, <2>3, PaySaveInv DEF CreatePay
  <1> QED
    BY <1>3, <1>9, <1>10

\* The chosen account alone is marked, when none is saved beside.
LEMMA SetDefaultInv ==
    ASSUME IInv, NEW q \in Requests, SetDefault(q)
    PROVE  IInv'
  <1>0. PICK n : n = req[q].id
    OBVIOUS
  <1>1. /\ req[q] \in Request /\ ReqOK(req[q]) /\ saves \in Nat
        /\ req[q].op = "setDefault" /\ req[q].pc = "ready" /\ n \in Existing /\ n \in Pays
    BY <1>0 DEF IInv, TypeOK, SetDefault, ReqOK
  <1>2. \A p \in Existing :
          pay'[p] = IF p = n /\ p \notin req[q].list THEN [pay[p] EXCEPT !.isDefault = TRUE]
                    ELSE IF p # n /\ p \in req[q].list THEN [pay[p] EXCEPT !.isDefault = FALSE]
                    ELSE pay[p]
    BY <1>0 DEF SetDefault, Cleared, Existing
  <1>3. \A p \in Existing : pay'[p] \in Pay /\ pay'[p].chart = pay[p].chart
    BY <1>2, ClearedPay
  <1>4. \A p \in Pays \ Existing : pay'[p] = None
    BY <1>0, <1>1 DEF SetDefault, Existing
  <1>5. Existing' = Existing
    BY <1>3, <1>4, NoneAssumption DEF Existing
  <1>6. pay' \in [Pays -> Pay \cup {None}]
    <2>1. \A p \in Pays : pay'[p] \in Pay \cup {None}
      BY <1>3, <1>4
    <2>2. pay' = [p \in Pays |-> pay'[p]]
      BY DEF SetDefault
    <2> QED
      BY <2>1, <2>2
  <1>7. Chosen(q, n)
    BY <1>0 DEF SetDefault
  <1>8. alone' \in BOOLEAN /\ (alone' => req[q].since = saves)
    BY <1>7 DEF Chosen
  <1>9. alone' => Defaults' = {n}
    <2>1. ASSUME alone' PROVE Defaults' = {n}
      <3>1. req[q].list = Defaults
        BY <1>1, <1>8, <2>1 DEF ReqOK
      <3>2. pay'[n].isDefault = TRUE
        <4>1. CASE n \in Defaults
          <5>1. pay'[n] = pay[n] /\ pay[n].isDefault
            BY <1>1, <1>2, <3>1, <4>1 DEF Defaults
          <5>2. pay[n].isDefault \in BOOLEAN
            BY <1>1, ClearedPay DEF Pay
          <5> QED
            BY <5>1, <5>2
        <4>2. CASE n \notin Defaults
          BY <1>1, <1>2, <3>1, <4>2, ClearedPay
        <4> QED
          BY <4>1, <4>2
      <3>3. \A p \in Existing : p # n => ~pay'[p].isDefault
        BY <1>2, <3>1, ClearedPay DEF Defaults
      <3> QED
        BY <1>1, <1>5, <3>2, <3>3 DEF Defaults
    <2> QED
      BY <2>1
  <1>11. Defaults' \subseteq Defaults \cup {n}
    BY <1>2, <1>5, ClearedPay DEF Defaults
  <1>10. DefaultIsSingle' /\ rivals' \in SUBSET Pays
    BY <1>1, <1>7, <1>8, <1>9, <1>11, ChosenSingle
  <1> QED
    BY <1>1, <1>3, <1>5, <1>6, <1>7, <1>8, <1>10, PaySaveInv DEF SetDefault, Chosen

-----------------------------------------------------------------------------

\* Every step keeps the invariant.
LEMMA NextInv == IInv /\ [Next]_vars => IInv'
  <1> SUFFICES ASSUME IInv, [Next]_vars PROVE IInv'
    OBVIOUS
  <1>1. ASSUME NEW q \in Requests, Call(q) PROVE IInv'
    BY <1>1, CallInv
  <1>2. ASSUME NEW q \in Requests, Handle(q) PROVE IInv'
    BY <1>2, LoadChartInv, ChecksInv, LoadAccountInv, LoadAllInv, LoadOthersInv, SaveCreateInv, SaveUpdateInv,
       SaveDeleteInv, CreatePayInv, SetDefaultInv DEF Handle
  <1>3. CASE UNCHANGED vars
    <2>1. alone' \in BOOLEAN
      BY <1>3 DEF vars, IInv, TypeOK
    <2>2. TypeOK'
      BY <1>3, <2>1 DEF vars, IInv, TypeOK
    <2>3. \A q \in Requests : ReqOK(req[q])'
      BY <1>3 DEF vars, IInv, ReqOK, Existing, Defaults
    <2>4. BeforeOK' /\ DefaultIsSingle' /\ LiveCodesUnique'
      BY <1>3 DEF vars, IInv, BeforeOK, DefaultIsSingle, LiveCodesUnique, LiveChart, Existing,
         Defaults
    <2> QED
      BY <2>2, <2>3, <2>4 DEF IInv
  <1> QED
    BY <1>1, <1>2, <1>3 DEF Next

\* The types are kept, whatever the requests and however they interleave.
THEOREM TypeCorrect == Spec => []TypeOK
  <1>1. IInv => TypeOK
    BY DEF IInv
  <1> QED
    BY <1>1, InitInv, NextInv, PTL DEF Spec

\* The checks and the unique index together keep the codes of the live chart
\* accounts apart (ChartOfAccountService.CreateAsync, UpdateAsync).
THEOREM ChartCodesUnique == Spec => []LiveCodesUnique
  <1>1. IInv => LiveCodesUnique
    BY DEF IInv
  <1> QED
    BY <1>1, InitInv, NextInv, PTL DEF Spec

\* The default chosen last is the only one when no other was chosen while its
\* request ran, and what is marked was chosen since one was alone
\* (PaymentAccountService).
THEOREM SingleDefault == Spec => []DefaultIsSingle
  <1>1. IInv => DefaultIsSingle
    BY DEF IInv
  <1> QED
    BY <1>1, InitInv, NextInv, PTL DEF Spec

LEMMA InvImpliesUnused == IInv => VoidedWasUnused
  BY DEF IInv, BeforeOK, VoidedWasUnused

\* A delete never voids a chart account that a payment account used when it
\* was called (ChartOfAccountService.DeleteAsync).
THEOREM DeleteSpares == Spec => []VoidedWasUnused
  BY InitInv, NextInv, InvImpliesUnused, PTL DEF Spec
=============================================================================

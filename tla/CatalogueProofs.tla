--------------------------- MODULE CatalogueProofs ---------------------------
(***************************************************************************)
(* Proofs about Catalogue, for any ids, codes and requests.                *)
(*                                                                         *)
(* The argument: where there is a unique index, it alone keeps the codes   *)
(* apart.  Where there is none, a request has seen its code free: a row    *)
(* that has it by then was written by a request that was under way too.    *)
(* And a request has no row before its save; one that has saved is refused *)
(* only when its row is live no more.                                      *)
(***************************************************************************)
EXTENDS Catalogue, TLAPS

\* What is known of a request q between its steps.
RequestInv(q) ==
    /\ req[q].op = None => req[q].pc = "new" /\ req[q].answer = None
    /\ req[q].pc # "done" => req[q].answer = None
    /\ req[q].op = "create" => req[q].code \in Codes
    /\ req[q].op \in {"update", "delete"} =>
         /\ req[q].id \in Ids
         /\ req[q].pc \in {"loaded", "checked"} => rows[req[q].id] # None
    /\ req[q].op = "create" /\ req[q].pc \in {"new", "loaded", "checked"} => req[q].id = None
    /\ req[q].pc = "loaded" => req[q].op \in {"update", "delete"}
    /\ req[q].pc \in {"new", "loaded", "checked"} =>
         \A i \in Ids : rows[i] # None => rows[i].by # q
    /\ req[q].pc = "saved" => \A i \in Ids : rows[i] # None /\ rows[i].by = q => i = req[q].id
    /\ req[q].answer = "4xx" => ~\E i \in Ids : Live(i) /\ rows[i].by = q

\* A row that has the code of a request that saw it free was written by
\* another beside it.
FreeInv(q) ==
    req[q].pc = "checked" =>
        \A i \in Ids : Live(i) /\ i # req[q].id /\ rows[i].code = req[q].code =>
            rows[i].by \in beside[q] \ {q}

BesideInv ==
    /\ \A p, q \in Requests : p # q /\ UnderWay(p) /\ UnderWay(q) => p \in beside[q]
    /\ \A p, q \in Requests : p \in beside[q] => q \in beside[p] /\ req[p].op # None

IndexInv ==
    table # "organization_type" =>
        \A i, j \in Ids : i # j /\ rows[i] # None /\ rows[j] # None => rows[i].code # rows[j].code

\* Rows with one code were written side by side.
TwinsInv ==
    \A i, j \in Ids :
        i # j /\ Live(i) /\ Live(j) /\ rows[i].code = rows[j].code =>
            /\ rows[i].by \in Requests /\ rows[j].by \in Requests
            /\ rows[i].by # rows[j].by /\ rows[i].by \in beside[rows[j].by]

IInv ==
    /\ TypeOK
    /\ \A q \in Requests : RequestInv(q)
    /\ \A q \in Requests : FreeInv(q)
    /\ BesideInv
    /\ IndexInv
    /\ TwinsInv

-----------------------------------------------------------------------------

LEMMA InitInv == Init => IInv
  <1> SUFFICES ASSUME Init PROVE IInv
    OBVIOUS
  <1>1. NewRequest \in Request
    BY DEF NewRequest, Request
  <1>2. \A q \in Requests : /\ req[q].op = None /\ req[q].pc = "new" /\ req[q].answer = None
    BY DEF Init, NewRequest
  <1>3. TypeOK
    BY <1>1 DEF Init, TypeOK
  <1>4. None \notin Requests /\ None \notin CatalogueOps /\ None # "4xx"
    BY NoneAssumption DEF Replies
  <1>5. \A q \in Requests : RequestInv(q)
    BY <1>2, <1>4 DEF Init, RequestInv, CatalogueOps
  <1>6. (\A q \in Requests : FreeInv(q)) /\ BesideInv
    BY <1>2 DEF Init, FreeInv, BesideInv, UnderWay
  <1>7. IndexInv /\ TwinsInv
    BY DEF Init, IndexInv, TwinsInv, Live
  <1> QED
    BY <1>3, <1>5, <1>6, <1>7 DEF IInv

-----------------------------------------------------------------------------

\* A step of a request that is under way and writes no row.
LEMMA StepInv ==
    ASSUME IInv, NEW q \in Requests, NEW r \in Request,
           req' = [req EXCEPT ![q] = r], UNCHANGED <<table, rows, beside>>,
           UnderWay(q), r.op = req[q].op, RequestInv(q)', FreeInv(q)'
    PROVE  IInv'
  <1>1. /\ req' \in [Requests -> Request] /\ req'[q] = r
        /\ \A p \in Requests : p # q => req'[p] = req[p]
    BY DEF IInv, TypeOK
  <1>2. TypeOK'
    BY <1>1 DEF IInv, TypeOK
  <1>3. \A p \in Requests : RequestInv(p)' /\ FreeInv(p)'
    BY <1>1 DEF IInv, RequestInv, FreeInv, Live
  <1>4. BesideInv'
    BY <1>1 DEF IInv, BesideInv, UnderWay
  <1>5. IndexInv' /\ TwinsInv'
    BY DEF IInv, IndexInv, TwinsInv, Live
  <1> QED
    BY <1>2, <1>3, <1>4, <1>5 DEF IInv

\* An answer; a refusal only to a request that has no live row.
LEMMA AnswersInv ==
    ASSUME IInv, NEW q \in Requests, NEW a \in Replies, Answers(q, a), UnderWay(q),
           UNCHANGED <<table, rows, beside>>,
           a = "4xx" => ~\E i \in Ids : Live(i) /\ rows[i].by = q
    PROVE  IInv'
  <1> DEFINE r == [req[q] EXCEPT !.pc = "done", !.answer = a]
  <1>1. req[q] \in Request /\ RequestInv(q)
    BY DEF IInv, TypeOK
  <1>2. r \in Request
    BY <1>1 DEF Request
  <1>3. r.op = req[q].op /\ r.id = req[q].id /\ r.code = req[q].code /\ r.pc = "done" /\ r.answer = a
    BY <1>1 DEF Request
  <1>4. req' = [req EXCEPT ![q] = r] /\ req'[q] = r
    BY DEF Answers, IInv, TypeOK
  <1> HIDE DEF r
  <1>5. RequestInv(q)'
    BY <1>1, <1>3, <1>4 DEF RequestInv, UnderWay, Live
  <1>6. FreeInv(q)'
    BY <1>3, <1>4 DEF FreeInv
  <1> QED
    BY <1>2, <1>3, <1>4, <1>5, <1>6, StepInv

\* A call: beside it is every request under way, and it is beside them.
LEMMA CallInv ==
    ASSUME IInv, NEW q \in Requests, Call(q)
    PROVE  IInv'
  <1>1. PICK op \in CatalogueOps, i \in Ids \cup {None}, k \in Codes \cup {None}, types \in BOOLEAN :
         /\ (i = None) <=> (op = "create")
         /\ op = "create" => k # None
         /\ op = "delete" \/ (op = "update" /\ table = "role") => k = None
         /\ types => table = "role" /\ op = "create"
         /\ req' = [req EXCEPT ![q] = [NewRequest EXCEPT !.op = op, !.id = i, !.code = k,
                                                         !.types = types]]
    BY DEF Call
  <1> DEFINE r == [NewRequest EXCEPT !.op = op, !.id = i, !.code = k, !.types = types]
  <1>2. r \in Request
    BY DEF NewRequest, Request
  <1>3. r.op = op /\ r.id = i /\ r.code = k /\ r.pc = "new" /\ r.answer = None
    BY DEF NewRequest
  <1> HIDE DEF r
  <1>4. /\ req' \in [Requests -> Request] /\ req'[q] = r
        /\ \A p \in Requests : p # q => req'[p] = req[p]
    BY <1>1, <1>2 DEF r, IInv, TypeOK
  <1>5. /\ beside'[q] = {p \in Requests : UnderWay(p)}
        /\ \A p \in Requests : p # q =>
              beside'[p] = IF UnderWay(p) THEN beside[p] \cup {q} ELSE beside[p]
        /\ beside' \in [Requests -> SUBSET Requests]
    BY DEF Call, IInv, TypeOK
  <1>6. TypeOK'
    BY <1>4, <1>5 DEF Call, IInv, TypeOK
  <1>7. req[q].op = None /\ req[q].pc = "new" /\ ~UnderWay(q)
    BY DEF Call, IInv, RequestInv, UnderWay
  <1>8. op # None /\ None # "4xx"
    BY NoneAssumption DEF Replies
  <1>9. ASSUME NEW p \in Requests PROVE RequestInv(p)' /\ FreeInv(p)'
    <2>1. CASE p = q
      BY <2>1, <1>1, <1>3, <1>4, <1>7, <1>8 DEF Call, IInv, RequestInv, FreeInv, Live
    <2>2. CASE p # q
      <3>1. req'[p] = req[p] /\ rows' = rows /\ beside[p] \subseteq beside'[p]
        BY <2>2, <1>4, <1>5 DEF Call
      <3> QED
        BY <3>1 DEF IInv, RequestInv, FreeInv, Live
    <2> QED
      BY <2>1, <2>2
  <1>10. BesideInv'
    <2>1. \A p \in Requests : p # q => (UnderWay(p)' <=> UnderWay(p))
      BY <1>4 DEF UnderWay
    <2>2. \A p \in Requests : q \notin beside[p]
      BY <1>7 DEF IInv, BesideInv
    <2>3. \A p, s \in Requests : p # s /\ UnderWay(p)' /\ UnderWay(s)' => p \in beside'[s]
      BY <1>5, <2>1 DEF IInv, BesideInv
    <2>4. \A p, s \in Requests : p \in beside'[s] => s \in beside'[p]
      BY <1>5, <1>7, <2>2 DEF IInv, BesideInv
    <2>5. \A p, s \in Requests : p \in beside'[s] => req'[p].op # None
      BY <1>3, <1>4, <1>5, <1>8 DEF IInv, BesideInv, UnderWay
    <2> QED
      BY <2>3, <2>4, <2>5 DEF BesideInv
  <1>11. IndexInv'
    BY DEF Call, IInv, IndexInv
  <1>12. TwinsInv'
    <2>1. \A p \in Requests : p # q => beside[p] \subseteq beside'[p]
      BY <1>5
    <2>2. \A p \in Requests : p \notin beside[q]
      BY <1>7 DEF IInv, BesideInv
    <2> QED
      BY <2>1, <2>2 DEF Call, IInv, TwinsInv, Live
  <1> QED
    BY <1>6, <1>9, <1>10, <1>11, <1>12 DEF IInv

\* The row to change is there.
LEMMA LoadInv ==
    ASSUME IInv, NEW q \in Requests, Load(q)
    PROVE  IInv'
  <1>1. req[q] \in Request /\ RequestInv(q) /\ UnderWay(q) /\ req[q].id \in Ids
    BY NoneAssumption DEF IInv, TypeOK, Load, UnderWay, RequestInv, CatalogueOps
  <1>2. CASE Live(req[q].id)
    <2> DEFINE r == [req[q] EXCEPT !.pc = "loaded", !.old = rows[req[q].id].code]
    <2>1. rows[req[q].id].code \in Codes
      BY <1>1, <1>2 DEF Live, IInv, TypeOK, Row
    <2>2. r \in Request
      BY <1>1, <2>1 DEF Request
    <2>3. /\ r.op = req[q].op /\ r.id = req[q].id /\ r.code = req[q].code /\ r.pc = "loaded"
          /\ r.answer = req[q].answer
      BY <1>1 DEF Request
    <2>4. req' = [req EXCEPT ![q] = r] /\ req'[q] = r
      BY <1>2 DEF Load, IInv, TypeOK
    <2> HIDE DEF r
    <2>5. /\ req[q].op \in {"update", "delete"} /\ req[q].pc = "new" /\ req[q].answer = None
          /\ rows' = rows /\ rows[req[q].id] # None /\ None # "4xx"
          /\ \A i \in Ids : rows[i] # None => rows[i].by # q
      BY <1>1, <1>2, NoneAssumption DEF Load, RequestInv, Live, Replies
    <2>6. RequestInv(q)'
      BY <1>1, <2>3, <2>4, <2>5, NoneAssumption DEF RequestInv, CatalogueOps
    <2>7. FreeInv(q)'
      BY <2>3, <2>4 DEF FreeInv
    <2> QED
      BY <1>1, <2>2, <2>3, <2>4, <2>6, <2>7, StepInv DEF Load
  <1>3. CASE ~Live(req[q].id)
    <2>1. ~\E i \in Ids : Live(i) /\ rows[i].by = q
      BY <1>1 DEF Load, RequestInv, Live
    <2> QED
      BY <1>1, <1>3, <2>1, AnswersInv DEF Load, Replies
  <1> QED
    BY <1>2, <1>3

\* The code is seen to be free.
LEMMA CheckInv ==
    ASSUME IInv, NEW q \in Requests, Check(q)
    PROVE  IInv'
  <1>1. req[q] \in Request /\ RequestInv(q) /\ UnderWay(q)
    BY NoneAssumption DEF IInv, TypeOK, Check, UnderWay, CatalogueOps
  <1>2. CASE Answers(q, "4xx")
    <2>1. ~\E i \in Ids : Live(i) /\ rows[i].by = q
      BY <1>1 DEF Check, RequestInv, Live
    <2> QED
      BY <1>1, <1>2, <2>1, AnswersInv DEF Check, Replies
  <1>3. CASE ~Taken(q) /\ Goes(q, "checked")
    <2> DEFINE r == [req[q] EXCEPT !.pc = "checked"]
    <2>1. r \in Request
      BY <1>1 DEF Request
    <2>2. /\ r.op = req[q].op /\ r.id = req[q].id /\ r.code = req[q].code /\ r.pc = "checked"
          /\ r.answer = req[q].answer
      BY <1>1 DEF Request
    <2>3. req' = [req EXCEPT ![q] = r] /\ req'[q] = r
      BY <1>3 DEF Goes, IInv, TypeOK
    <2> HIDE DEF r
    <2>4. /\ req[q].op \in {"create", "update"} /\ req[q].answer = None
          /\ rows' = rows /\ None # "4xx"
          /\ \A i \in Ids : rows[i] # None => rows[i].by # q
          /\ req[q].op = "create" => req[q].code \in Codes /\ req[q].id = None
          /\ req[q].op = "update" => req[q].id \in Ids /\ rows[req[q].id] # None
      BY <1>1, NoneAssumption DEF Check, RequestInv, Replies
    <2>5. RequestInv(q)'
      BY <1>1, <2>2, <2>3, <2>4, NoneAssumption DEF RequestInv, CatalogueOps
    <2>6. FreeInv(q)'
      BY <1>3, <2>2, <2>3 DEF Check, FreeInv, Taken, Live
    <2> QED
      BY <1>1, <2>1, <2>2, <2>3, <2>5, <2>6, StepInv DEF Check
  <1> QED
    BY <1>2, <1>3 DEF Check

\* The role is looked for again: it is gone only when its row is not live.
LEMMA SetOrgTypesInv ==
    ASSUME IInv, NEW q \in Requests, SetOrgTypes(q)
    PROVE  IInv'
  <1>1. RequestInv(q) /\ UnderWay(q)
    BY DEF IInv, SetOrgTypes, UnderWay, RequestInv
  <1>2. CASE Live(req[q].id)
    BY <1>1, <1>2, AnswersInv DEF SetOrgTypes, Replies
  <1>3. CASE ~Live(req[q].id)
    <2>1. ~\E i \in Ids : Live(i) /\ rows[i].by = q
      BY <1>1, <1>3 DEF SetOrgTypes, RequestInv, Live
    <2> QED
      BY <1>1, <1>3, <2>1, AnswersInv DEF SetOrgTypes, Replies
  <1> QED
    BY <1>2, <1>3

LEMMA FailInv ==
    ASSUME IInv, NEW q \in Requests, Fail(q)
    PROVE  IInv'
  BY AnswersInv DEF Fail, Replies

-----------------------------------------------------------------------------

\* What a save does to the row i: it leaves the code and who wrote it, or
\* it writes a code that was seen free and that met no index.
Keeps(i) ==
    /\ rows[i] # None
    /\ rows'[i].code = rows[i].code /\ rows'[i].by = rows[i].by
    /\ rows[i].voided => rows'[i].voided

Writes(q, i) ==
    /\ req[q].pc = "checked" /\ ~Collides(q)
    /\ rows'[i].code = req[q].code /\ rows'[i].by = q

\* The save of one row.
LEMMA SaveInv ==
    ASSUME IInv, NEW q \in Requests, NEW i \in Ids, req[q].op # None,
           ReadyToSave(q), SaveEnds(q, i), UNCHANGED <<table, beside>>,
           req[q].op = "create" \/ req[q].id = i,
           rows' \in [Ids -> Row \cup {None}], rows'[i] # None,
           \A j \in Ids : j # i => rows'[j] = rows[j],
           Keeps(i) \/ Writes(q, i)
    PROVE  IInv'
  <1>1. /\ req[q] \in Request /\ RequestInv(q) /\ FreeInv(q) /\ UnderWay(q)
        /\ req[q].pc \in {"loaded", "checked"} /\ req[q].answer = None
    BY DEF IInv, TypeOK, ReadyToSave, UnderWay, RequestInv
  <1>2. None # "4xx" /\ None \notin Requests /\ "4xx" # "500" /\ "4xx" # "ok" /\ None \notin Ids
    BY NoneAssumption DEF Replies
  <1>3. /\ req' \in [Requests -> Request]
        /\ req'[q].op = req[q].op /\ req'[q].code = req[q].code
        /\ \/ req'[q].pc = "saved" /\ req'[q].answer = None /\ req'[q].id = i
           \/ req'[q].pc = "done" /\ req'[q].answer \in {"ok", "500"} /\ req'[q].id \in {i, req[q].id}
        /\ \A p \in Requests : p # q => req'[p] = req[p]
    <2>1. CASE Answers(q, "500")
      <3> DEFINE r == [req[q] EXCEPT !.pc = "done", !.answer = "500"]
      <3>1. r \in Request /\ r.op = req[q].op /\ r.code = req[q].code /\ r.id = req[q].id
            /\ r.pc = "done" /\ r.answer = "500"
        BY <1>1 DEF Request, Replies
      <3>2. req' = [req EXCEPT ![q] = r]
        BY <2>1 DEF Answers
      <3> HIDE DEF r
      <3> QED
        BY <3>1, <3>2 DEF IInv, TypeOK
    <2>2. CASE ~Answers(q, "500")
      <3> DEFINE r == [req[q] EXCEPT !.id = i,
                           !.pc = IF req[q].types THEN "saved" ELSE "done",
                           !.answer = IF req[q].types THEN None ELSE "ok"]
      <3>1. /\ r \in Request /\ r.op = req[q].op /\ r.code = req[q].code /\ r.id = i
            /\ \/ r.pc = "saved" /\ r.answer = None
               \/ r.pc = "done" /\ r.answer = "ok"
        BY <1>1 DEF Request, Replies
      <3>2. req' = [req EXCEPT ![q] = r]
        BY <2>2 DEF SaveEnds
      <3> HIDE DEF r
      <3> QED
        BY <3>1, <3>2 DEF IInv, TypeOK
    <2> QED
      BY <2>1, <2>2
  <1>4. TypeOK'
    BY <1>3 DEF IInv, TypeOK
  <1>5. ASSUME NEW j \in Ids, rows'[j] # None, rows'[j].by # q
        PROVE  /\ rows[j] # None /\ rows'[j].code = rows[j].code /\ rows'[j].by = rows[j].by
               /\ Live(j)' => Live(j)
    BY <1>5 DEF Keeps, Writes, Live
  <1>6. ASSUME NEW j \in Ids, rows'[j] # None, rows'[j].by = q
        PROVE  j = i /\ Writes(q, i)
    BY <1>1, <1>6 DEF RequestInv, Keeps
  <1>7. \A j \in Ids : rows[j] # None => rows'[j] # None
    OBVIOUS
  <1>8. ASSUME NEW p \in Requests PROVE RequestInv(p)' /\ FreeInv(p)'
    <2>1. CASE p = q
      <3>1. ~(req'[q].pc \in {"new", "loaded", "checked"}) /\ req'[q].answer # "4xx"
        BY <1>2, <1>3
      <3>2. req[q].op # "create" => req'[q].id \in Ids
        BY <1>3
      <3>3. req'[q].pc = "saved" => \A j \in Ids : rows'[j] # None /\ rows'[j].by = q => j = req'[q].id
        BY <1>3, <1>6
      <3>4. RequestInv(q)'
        BY <1>1, <1>3, <3>1, <3>2, <3>3 DEF RequestInv
      <3> QED
        BY <2>1, <3>1, <3>4 DEF FreeInv
    <2>2. CASE p # q
      <3>1. req'[p] = req[p] /\ RequestInv(p) /\ FreeInv(p)
        BY <2>2, <1>3 DEF IInv
      <3>2. \A j \in Ids : rows'[j] # None /\ rows'[j].by = p =>
               rows[j] # None /\ rows[j].by = p /\ (Live(j)' => Live(j))
        BY <2>2, <1>5
      <3>3. RequestInv(p)'
        BY <3>1, <3>2, <1>7 DEF RequestInv, Live
      <3>4. FreeInv(p)'
        <4> SUFFICES ASSUME req[p].pc = "checked", NEW j \in Ids,
                            Live(j)', j # req[p].id, rows'[j].code = req[p].code
                     PROVE  rows'[j].by \in beside[p] \ {p}
          BY <3>1 DEF FreeInv
        <4>1. CASE rows'[j].by = q
          <5>1. UnderWay(p)
            BY <3>1 DEF UnderWay, RequestInv
          <5> QED
            BY <4>1, <5>1, <1>1, <2>2 DEF IInv, BesideInv
        <4>2. CASE rows'[j].by # q
          BY <4>2, <3>1, <1>5 DEF FreeInv, Live
        <4> QED
          BY <4>1, <4>2
      <3> QED
        BY <3>3, <3>4
    <2> QED
      BY <2>1, <2>2
  <1>9. BesideInv'
    BY <1>1, <1>3 DEF IInv, BesideInv, UnderWay
  <1>10. IndexInv'
    <2> SUFFICES ASSUME table # "organization_type", NEW j \in Ids, NEW k \in Ids, j # k,
                        rows'[j] # None, rows'[k] # None
                 PROVE  rows'[j].code # rows'[k].code
      BY DEF IndexInv
    <2>1. \A l \in Ids : l # i /\ rows[l] # None /\ Writes(q, i) => rows[l].code # req[q].code
      BY <1>1, <1>2 DEF Writes, Collides, Indexed, RequestInv
    <2> QED
      BY <2>1 DEF IInv, IndexInv, Keeps, Writes
  <1>11. TwinsInv'
    <2> DEFINE Twins(j, k) ==
          /\ rows'[j].by \in Requests /\ rows'[k].by \in Requests
          /\ rows'[j].by # rows'[k].by /\ rows'[j].by \in beside[rows'[k].by]
    <2>1. ASSUME NEW j \in Ids, j # i, Writes(q, i), Live(j)', rows'[j].code = req[q].code
          PROVE  Twins(j, i) /\ Twins(i, j)
      <3>1. rows'[j] = rows[j] /\ Live(j) /\ j # req[q].id
        BY <2>1, <1>1, <1>2 DEF Live, RequestInv
      <3>2. rows[j].by \in beside[q] \ {q}
        BY <2>1, <3>1, <1>1 DEF FreeInv, Writes
      <3>3. rows[j].by \in Requests /\ q \in beside[rows[j].by]
        BY <3>2 DEF IInv, TypeOK, BesideInv
      <3> QED
        BY <2>1, <3>1, <3>2, <3>3 DEF Writes
    <2>2. ASSUME NEW j \in Ids, NEW k \in Ids, j # k, Live(j)', Live(k)',
                 rows'[j].code = rows'[k].code
          PROVE  Twins(j, k)
      <3>1. CASE rows'[j].by = q
        BY <2>1, <2>2, <3>1, <1>6 DEF Live, Writes
      <3>2. CASE rows'[k].by = q
        BY <2>1, <2>2, <3>2, <1>6 DEF Live, Writes
      <3>3. CASE rows'[j].by # q /\ rows'[k].by # q
        BY <2>2, <3>3, <1>5 DEF IInv, TwinsInv, Live
      <3> QED
        BY <3>1, <3>2, <3>3
    <2> QED
      BY <2>2 DEF TwinsInv
  <1> QED
    BY <1>4, <1>8, <1>9, <1>10, <1>11 DEF IInv

LEMMA SaveCreateInv ==
    ASSUME IInv, NEW q \in Requests, SaveCreate(q)
    PROVE  IInv'
  <1>1. PICK i \in {j \in Ids : rows[j] = None} :
          /\ rows' = [rows EXCEPT ![i] = [code |-> req[q].code, voided |-> FALSE, by |-> q]]
          /\ SaveEnds(q, i)
    BY DEF SaveCreate
  <1> DEFINE row == [code |-> req[q].code, voided |-> FALSE, by |-> q]
  <1>2. req[q].code \in Codes /\ req[q].pc = "checked" /\ req[q].op # None
    BY NoneAssumption DEF IInv, RequestInv, SaveCreate, ReadyToSave, CatalogueOps
  <1>3. row \in Row /\ row # None
    <2>1. row \in Row
      BY <1>2 DEF Row
    <2> HIDE DEF row
    <2> QED
      BY <2>1, NoneAssumption
  <1>4. row.code = req[q].code /\ row.by = q
    OBVIOUS
  <1> HIDE DEF row
  <1>5. /\ rows' \in [Ids -> Row \cup {None}] /\ rows'[i] = row
        /\ \A j \in Ids : j # i => rows'[j] = rows[j]
    BY <1>1, <1>3 DEF row, IInv, TypeOK
  <1>6. Writes(q, i)
    BY <1>2, <1>4, <1>5 DEF Writes, SaveCreate
  <1> QED
    BY <1>1, <1>2, <1>3, <1>5, <1>6, SaveInv DEF SaveCreate

\* An update or a delete finds its row.
LEMMA RowIsThere ==
    ASSUME IInv, NEW q \in Requests, ReadyToSave(q), req[q].op \in {"update", "delete"}
    PROVE  req[q].id \in Ids /\ rows[req[q].id] \in Row /\ rows[req[q].id] # None /\ req[q].op # None
  BY NoneAssumption DEF IInv, RequestInv, ReadyToSave, TypeOK, CatalogueOps

LEMMA SaveUpdateInv ==
    ASSUME IInv, NEW q \in Requests, SaveUpdate(q)
    PROVE  IInv'
  <1>1. req[q].id \in Ids /\ rows[req[q].id] \in Row /\ rows[req[q].id] # None /\ req[q].op # None
    BY RowIsThere DEF SaveUpdate
  <1>2. CASE Changes(q)
    <2> DEFINE row == [rows[req[q].id] EXCEPT !.code = req[q].code, !.by = q]
    <2>1. req[q].code \in Codes /\ req[q].pc = "checked"
      BY <1>2 DEF Changes, SaveUpdate, ReadyToSave, IInv, TypeOK, Request
    <2>2. row \in Row /\ row # None /\ row.code = req[q].code /\ row.by = q
      BY <1>1, <2>1, NoneAssumption DEF Row
    <2> HIDE DEF row
    <2>3. rows' = [rows EXCEPT ![req[q].id] = row]
      BY <1>2 DEF row, SaveUpdate
    <2>4. /\ rows' \in [Ids -> Row \cup {None}] /\ rows'[req[q].id] = row
          /\ \A j \in Ids : j # req[q].id => rows'[j] = rows[j]
      BY <1>1, <2>2, <2>3 DEF IInv, TypeOK
    <2>5. Writes(q, req[q].id)
      BY <1>2, <2>1, <2>2, <2>4 DEF Writes, SaveUpdate
    <2> QED
      BY <1>1, <2>2, <2>4, <2>5, SaveInv DEF SaveUpdate
  <1>3. CASE ~Changes(q)
    <2>1. rows' = rows
      BY <1>3 DEF SaveUpdate
    <2>2. Keeps(req[q].id)
      BY <1>1, <2>1 DEF Keeps
    <2> QED
      BY <1>1, <2>1, <2>2, SaveInv DEF SaveUpdate, IInv, TypeOK
  <1> QED
    BY <1>2, <1>3

LEMMA SaveDeleteInv ==
    ASSUME IInv, NEW q \in Requests, SaveDelete(q)
    PROVE  IInv'
  <1>1. req[q].id \in Ids /\ rows[req[q].id] \in Row /\ rows[req[q].id] # None /\ req[q].op # None
    BY RowIsThere DEF SaveDelete
  <1> DEFINE row == [rows[req[q].id] EXCEPT !.voided = TRUE]
  <1>2. /\ row \in Row /\ row # None /\ row.code = rows[req[q].id].code
        /\ row.by = rows[req[q].id].by /\ row.voided
    BY <1>1, NoneAssumption DEF Row
  <1> HIDE DEF row
  <1>3. rows' = [rows EXCEPT ![req[q].id] = row]
    BY DEF row, SaveDelete
  <1>4. /\ rows' \in [Ids -> Row \cup {None}] /\ rows'[req[q].id] = row
        /\ \A j \in Ids : j # req[q].id => rows'[j] = rows[j]
    BY <1>1, <1>2, <1>3 DEF IInv, TypeOK
  <1>5. Keeps(req[q].id)
    BY <1>1, <1>2, <1>4 DEF Keeps
  <1> QED
    BY <1>1, <1>2, <1>4, <1>5, SaveInv DEF SaveDelete

-----------------------------------------------------------------------------

LEMMA NextInv == IInv /\ [Next]_vars => IInv'
  <1> SUFFICES ASSUME IInv, [Next]_vars PROVE IInv'
    OBVIOUS
  <1>1. ASSUME NEW q \in Requests, Call(q) PROVE IInv'
    BY <1>1, CallInv
  <1>2. ASSUME NEW q \in Requests, Handle(q) PROVE IInv'
    <2>1. CASE Load(q)
      BY <2>1, LoadInv
    <2>2. CASE Check(q)
      BY <2>2, CheckInv
    <2>3. CASE Save(q)
      BY <2>3, SaveCreateInv, SaveUpdateInv, SaveDeleteInv DEF Save
    <2>4. CASE SetOrgTypes(q)
      BY <2>4, SetOrgTypesInv
    <2>5. CASE Fail(q)
      BY <2>5, FailInv
    <2> QED
      BY <1>2, <2>1, <2>2, <2>3, <2>4, <2>5 DEF Handle
  <1>3. CASE UNCHANGED vars
    <2>1. TypeOK' /\ BesideInv' /\ IndexInv'
      BY <1>3 DEF vars, IInv, TypeOK, BesideInv, UnderWay, IndexInv
    <2>2. (\A q \in Requests : RequestInv(q)' /\ FreeInv(q)') /\ TwinsInv'
      BY <1>3 DEF vars, IInv, RequestInv, FreeInv, TwinsInv, Live
    <2> QED
      BY <2>1, <2>2 DEF IInv
  <1> QED
    BY <1>1, <1>2, <1>3 DEF Next

LEMMA Invariance == Spec => []IInv
  BY InitInv, NextInv, PTL DEF Spec

(* Every variable keeps its kind in every behaviour.                       *)
THEOREM TypeCorrect == Spec => []TypeOK
  <1>1. IInv => TypeOK
    BY DEF IInv
  <1> QED
    BY <1>1, Invariance, PTL

LEMMA InvImpliesUnique == IInv => LiveCodesUnique
  <1> SUFFICES ASSUME IInv, NEW i \in Ids, NEW j \in Ids, i # j, Live(i), Live(j),
                      rows[i].code = rows[j].code
               PROVE  /\ table = "organization_type"
                      /\ \E p, q \in Requests :
                           {p, q} = {rows[i].by, rows[j].by} /\ p # q /\ q \in beside[p]
    BY DEF LiveCodesUnique
  <1>1. table = "organization_type"
    BY DEF IInv, IndexInv, Live
  <1>2. /\ rows[i].by \in Requests /\ rows[j].by \in Requests
        /\ rows[i].by # rows[j].by /\ rows[i].by \in beside[rows[j].by]
    BY DEF IInv, TwinsInv
  <1> QED
    BY <1>1, <1>2

LEMMA InvImpliesRefused == IInv => RefusedLeavesNothing
  BY DEF IInv, RequestInv, RefusedLeavesNothing

(* However the requests interleave, two live rows have one code only in    *)
(* the table without an index, written by two requests side by side.       *)
THEOREM CodesUnique == Spec => []LiveCodesUnique
  BY Invariance, InvImpliesUnique, PTL

(* A refused request has left no live row, the role that was saved before  *)
(* its organization types were looked at included.                         *)
THEOREM RefusedLeaves == Spec => []RefusedLeavesNothing
  BY Invariance, InvImpliesRefused, PTL
=============================================================================

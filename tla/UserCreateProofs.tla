-------------------------- MODULE UserCreateProofs --------------------------
(***************************************************************************)
(* Proofs about UserCreate, for any requests, keys, usernames, account ids *)
(* and faults.                                                             *)
(*                                                                         *)
(* The argument: a key's row names one request for good (KeysOwned), so    *)
(* only that request writes the row or opens accounts under the key.  It   *)
(* opens one account at most, because the account of a lost reply is still *)
(* live while it retries and Keycloak refuses the username.  It deletes    *)
(* the account only from a step that follows a saved ABORTED.              *)
(***************************************************************************)
EXTENDS UserCreate, TLAPS

Before == {"findSaga", "findUser", "insertSaga"}

Creating == {"kcCreate", "backoff"}

Holding == Creating \cup {"commit", "readBack", "abort", "kcDelete",
                          "markCompensated", "created"}

\* What a request knows of its own row and account at each step.
RequestInv(r) ==
    /\ pc[r] \in Before => attempts[r] = 0
    /\ pc[r] = "kcCreate" => attempts[r] < MaxAttempts
    /\ pc[r] \in Before \cup Creating =>
         kcId[r] = Null /\ entry[r] = "Detached" /\ userRef[r] = Null
    /\ pc[r] \in Holding => saga[Key(r)] # Null /\ saga[Key(r)].localId = r
    /\ pc[r] \in Creating \cup {"commit"} => saga[Key(r)].state = "RUNNING"
    /\ pc[r] = "abort" => saga[Key(r)].state \in {"RUNNING", "COMMITTED"}
    /\ pc[r] \in {"kcDelete", "markCompensated"} => saga[Key(r)].state = "ABORTED"
    /\ pc[r] \in {"readBack", "created"} =>
         saga[Key(r)].state = "COMMITTED" /\ userRef[r] = kcId[r]
    /\ pc[r] = "commit" => entry[r] = "Added"
    /\ pc[r] \in {"commit", "readBack", "created", "kcDelete", "markCompensated"}
         => kcId[r] # Null
    /\ kcId[r] # Null => maker[kcId[r]] = r
    /\ pc[r] \in {"commit", "readBack", "created", "abort", "kcDelete"}
         /\ kcId[r] # Null => account[kcId[r]] = "live"
    /\ pc[r] = "markCompensated" => account[kcId[r]] = "deleted"

\* What a row of saga_log says.
RowInv(k) ==
    saga[k] # Null =>
      /\ Key(saga[k].localId) = k
      /\ saga[k].state = "COMMITTED" =>
           /\ saga[k].target # Null
           /\ userRef[saga[k].localId] = saga[k].target
           /\ account[saga[k].target] = "live"
           /\ maker[saga[k].target] = saga[k].localId
      /\ saga[k].state = "COMPENSATED" =>
           \A i \in KcIds : maker[i] = saga[k].localId => account[i] = "deleted"

\* Every account belongs to the row of its maker's key, and is its only one.
AccountInv(i) ==
    /\ maker[i] = Null <=> account[i] = "unused"
    /\ maker[i] # Null =>
         /\ saga[Key(maker[i])] # Null
         /\ saga[Key(maker[i])].localId = maker[i]
         /\ pc[maker[i]] \in Creating => account[i] = "live"
         /\ \A j \in KcIds : maker[j] = maker[i] => j = i

IInv ==
    /\ TypeOK
    /\ \A r \in Requests : RequestInv(r)
    /\ \A k \in Keys : RowInv(k)
    /\ \A i \in KcIds : AccountInv(i)

-----------------------------------------------------------------------------

\* With no request begun and both stores empty, IInv holds.
LEMMA InitInv == Init => IInv
  <1> SUFFICES ASSUME Init PROVE IInv
    OBVIOUS
  <1>1. TypeOK
    BY DEF Init, TypeOK, Forms, Steps, EntryStates, AccountStates, MaxAttempts
  <1>2. \A r \in Requests : RequestInv(r)
    BY DEF Init, RequestInv, Before, Creating, Holding, MaxAttempts
  <1>3. \A k \in Keys : RowInv(k)
    BY DEF Init, RowInv
  <1>4. \A i \in KcIds : AccountInv(i)
    BY DEF Init, AccountInv
  <1> QED
    BY <1>1, <1>2, <1>3, <1>4 DEF IInv

\* What a request writes into saga_log is a row, and names the request.
LEMMA RowWritten ==
  ASSUME TypeOK, NEW r \in Requests, NEW state \in SagaStates
  PROVE  /\ SagaRow(r, state) \in SagaRows
         /\ SagaRow(r, state) # Null
         /\ SagaRow(r, state).localId = r
         /\ SagaRow(r, state).state = state
  BY NullAssumption DEF TypeOK, SagaRow, Target, SagaRows

\* Two requests never work under the same key.
LEMMA KeysOwned ==
  ASSUME IInv, NEW r \in Requests, NEW s \in Requests, r # s,
         pc[r] \in Holding, pc[s] \in Holding
  PROVE  Key(r) # Key(s)
  BY DEF IInv, RequestInv

\* Looking the key up leaves both stores as they are; a replayed row's target is
\* an account id.
LEMMA FindSagaInv ==
  ASSUME IInv, NEW r \in Requests, FindSaga(r)
  PROVE  IInv'
  <1> USE NullAssumption
  <1> USE DEF GoTo, Key, db, realm
  <1>0. TypeOK
    BY DEF IInv
  <1>1. saga[Key(r)] # Null => saga[Key(r)].target \in KcIds \cup {Null}
    BY <1>0 DEF TypeOK, Forms, SagaRows
  <1>2. /\ pc[r] = "findSaga"
        /\ \/ pc' = [pc EXCEPT ![r] = "findUser"]
           \/ pc' = [pc EXCEPT ![r] = "insertSaga"]
           \/ pc' = [pc EXCEPT ![r] = "failed"]
        /\ existing' \in [Requests -> KcIds \cup {Null}]
        /\ UNCHANGED <<req, cancelled, attempts, kcId, entry, saga, userRef,
                       account, maker>>
    BY <1>0, <1>1 DEF FindSaga, TypeOK
  <1>3. TypeOK'
    BY <1>0, <1>2 DEF TypeOK, Steps, Working, Answered
  <1>4. ASSUME NEW s \in Requests PROVE RequestInv(s)'
    BY <1>0, <1>2 DEF IInv, RequestInv, Before, Creating, Holding, TypeOK
  <1>5. ASSUME NEW k \in Keys PROVE RowInv(k)'
    BY <1>2 DEF IInv, RowInv
  <1>6. ASSUME NEW i \in KcIds PROVE AccountInv(i)'
    BY <1>0, <1>2 DEF IInv, AccountInv, Creating, TypeOK
  <1> QED
    BY <1>3, <1>4, <1>5, <1>6 DEF IInv

\* Neither answering a replay nor going on to claim the key disturbs IInv.
LEMMA FindUserInv ==
  ASSUME IInv, NEW r \in Requests, FindUser(r)
  PROVE  IInv'
  <1> USE NullAssumption
  <1> USE DEF FindUser, GoTo, Key, db, realm
  <1>1. TypeOK'
    BY DEF IInv, TypeOK, Steps, Working, Answered
  <1>2. ASSUME NEW s \in Requests PROVE RequestInv(s)'
    BY DEF IInv, RequestInv, Before, Creating, Holding, TypeOK
  <1>3. ASSUME NEW k \in Keys PROVE RowInv(k)'
    BY DEF IInv, RowInv
  <1>4. ASSUME NEW i \in KcIds PROVE AccountInv(i)'
    BY DEF IInv, AccountInv, Creating, TypeOK
  <1> QED
    BY <1>1, <1>2, <1>3, <1>4 DEF IInv

\* A new row of saga_log names the request that inserted it, and a request that
\* was refused its key learns nothing it could write under it.
LEMMA InsertSagaInv ==
  ASSUME IInv, NEW r \in Requests, InsertSaga(r)
  PROVE  IInv'
  <1> USE NullAssumption
  <1> USE DEF InsertSaga, KeyFree, Returns, SagaRow, Target, GoTo, Key, db, realm
  <1>1. TypeOK'
    BY DEF IInv, RequestInv, Before, TypeOK, Steps, Working, Answered, Forms, SagaRows, SagaStates, MaxAttempts
  <1>2. ASSUME NEW s \in Requests PROVE RequestInv(s)'
    <2>1. CASE s = r
      <3>1. /\ TypeOK /\ pc[r] = "insertSaga" /\ Key(r) \in Keys
            /\ kcId'[r] = Null /\ entry'[r] = "Detached" /\ userRef'[r] = Null
            /\ attempts'[r] = 0 /\ Key(r)' = Key(r)
        BY DEF IInv, RequestInv, Before, TypeOK, Forms
      <3>2. \/ pc'[r] = "failed"
            \/ pc'[r] = "kcCreate" /\ saga'[Key(r)] = SagaRow(r, "RUNNING")
        BY <3>1 DEF TypeOK
      <3>3. /\ SagaRow(r, "RUNNING") # Null /\ SagaRow(r, "RUNNING").localId = r
            /\ SagaRow(r, "RUNNING").state = "RUNNING"
        BY <3>1, RowWritten DEF SagaStates
      <3> QED
        BY <2>1, <3>1, <3>2, <3>3 DEF RequestInv, Before, Creating, Holding, MaxAttempts
    <2>2. CASE s # r
      <3>1. RequestInv(s) /\ (saga[Key(s)] # Null => saga'[Key(s)] = saga[Key(s)])
        BY <2>2 DEF IInv, TypeOK, Forms
      <3>2. pc'[s] = pc[s]
        BY <2>2 DEF IInv, TypeOK
      <3> QED
        BY <3>1, <3>2 DEF RequestInv, Before, Creating, Holding
    <2> QED
      BY <2>1, <2>2
  <1>3. ASSUME NEW k \in Keys PROVE RowInv(k)'
    BY DEF IInv, AccountInv, TypeOK, Forms, SagaRows, RowInv
  <1>4. ASSUME NEW i \in KcIds PROVE AccountInv(i)'
    BY DEF IInv, AccountInv, Creating, TypeOK, Forms, SagaRows
  <1> QED
    BY <1>1, <1>2, <1>3, <1>4 DEF IInv

\* POST /users opens the first account of its request: an earlier one, of a lost
\* reply, is still live under the username and is answered with a 409.
LEMMA KcCreateInv ==
  ASSUME IInv, NEW r \in Requests, KcCreate(r)
  PROVE  IInv'
  <1> USE NullAssumption
  <1> USE DEF GoTo, Key, db, realm
  <1>0. TypeOK /\ RequestInv(r) /\ pc[r] = "kcCreate" /\ attempts[r] \in 0 .. 2
    BY DEF IInv, RequestInv, KcCreate, TypeOK, MaxAttempts
  <1>1. CASE FailedAttempt(r) /\ UNCHANGED realm
    <2>1. TypeOK'
      BY <1>0, <1>1 DEF TypeOK, Steps, Working, KcCreate, FailedAttempt, MaxAttempts
    <2>2. ASSUME NEW s \in Requests PROVE RequestInv(s)'
      BY <1>0, <1>1 DEF IInv, RequestInv, Before, Creating, Holding, TypeOK, KcCreate, FailedAttempt
    <2>3. ASSUME NEW k \in Keys PROVE RowInv(k)'
      BY <1>0, <1>1 DEF IInv, RowInv, KcCreate, FailedAttempt
    <2>4. ASSUME NEW i \in KcIds PROVE AccountInv(i)'
      BY <1>0, <1>1 DEF IInv, AccountInv, Creating, TypeOK, KcCreate, FailedAttempt
    <2> QED
      BY <2>1, <2>2, <2>3, <2>4 DEF IInv
  <1>2. ASSUME NEW i0 \in KcIds, OpenAccount(r, i0),
               ~UsernameTaken(req[r].username),
               Accept(r, i0) \/ AcceptBlank(r) \/ FailedAttempt(r)
        PROVE  IInv'
    <2>0. /\ UNCHANGED <<req, cancelled, existing, saga, userRef>>
          /\ maker[i0] = Null
      BY <1>2 DEF KcCreate, OpenAccount, IInv, AccountInv
    \* The request's earlier account would be live and hold the username.
    <2>1. \A j \in KcIds : maker[j] # r
      BY <1>0, <1>2 DEF IInv, AccountInv, UsernameTaken, Creating
    <2>2. TypeOK'
      BY <1>0, <1>2, <2>0 DEF TypeOK, Steps, Working, Answered, EntryStates, AccountStates,
         OpenAccount, Accept, AcceptBlank, FailedAttempt, MaxAttempts
    <2>3. ASSUME NEW s \in Requests PROVE RequestInv(s)'
      BY <1>0, <1>2, <2>0, <2>1 DEF IInv, RequestInv, Before, Creating, Holding, TypeOK,
         AccountInv, OpenAccount, Accept, AcceptBlank, FailedAttempt
    <2>4. ASSUME NEW k \in Keys PROVE RowInv(k)'
      BY <1>0, <1>2, <2>0, <2>1 DEF IInv, RequestInv, RowInv, Creating, TypeOK, SagaRows,
         AccountInv, OpenAccount
    <2>5. ASSUME NEW i \in KcIds PROVE AccountInv(i)'
      BY <1>0, <1>2, <2>0, <2>1 DEF IInv, RequestInv, AccountInv, Creating, Holding, TypeOK,
         AccountStates, OpenAccount, Accept, AcceptBlank, FailedAttempt
    <2> QED
      BY <2>2, <2>3, <2>4, <2>5 DEF IInv
  <1> QED
    BY <1>1, <1>2 DEF KcCreate

\* The next attempt follows only while attempts are left.
LEMMA BackoffInv ==
  ASSUME IInv, NEW r \in Requests, Backoff(r)
  PROVE  IInv'
  <1> USE NullAssumption
  <1> USE DEF Backoff, MayRetry, GoTo, Key, db, realm
  <1>1. TypeOK'
    BY DEF IInv, TypeOK, Steps, Working, Answered, MaxAttempts
  <1>2. ASSUME NEW s \in Requests PROVE RequestInv(s)'
    BY DEF IInv, RequestInv, AccountInv, Before, Creating, Holding, TypeOK, MaxAttempts
  <1>3. ASSUME NEW k \in Keys PROVE RowInv(k)'
    BY DEF IInv, RowInv
  <1>4. ASSUME NEW i \in KcIds PROVE AccountInv(i)'
    BY DEF IInv, AccountInv, Creating, TypeOK
  <1> QED
    BY <1>1, <1>2, <1>3, <1>4 DEF IInv

\* The transaction writes the row and COMMITTED together, over a live account of
\* the request's own.
LEMMA CommitInv ==
  ASSUME IInv, NEW r \in Requests, Commit(r)
  PROVE  IInv'
  <1> USE NullAssumption
  <1> USE DEF SagaRows, SagaStates, SagaRow, Target, GoTo, Key, db, realm
  <1> DEFINE i0 == kcId[r]
             row == SagaRow(r, "COMMITTED")
  <1>0. /\ TypeOK /\ RequestInv(r) /\ pc[r] = "commit"
        /\ i0 \in KcIds /\ account[i0] = "live" /\ maker[i0] = r
        /\ Key(r) \in Keys /\ entry[r] = "Added"
    BY DEF IInv, RequestInv, Commit, TypeOK, Forms
  <1>1. row \in SagaRows /\ row # Null
    BY <1>0 DEF TypeOK
  <1>2. \/ saga' = [saga EXCEPT ![Key(r)] = row] /\ userRef' = [userRef EXCEPT ![r] = i0]
        \/ UNCHANGED db
    BY DEF Commit
  <1>3. \/ entry' = [entry EXCEPT ![r] = "Unchanged"] /\ GoTo(r, "readBack")
        \/ UNCHANGED entry /\ GoTo(r, "abort")
    BY DEF Commit
  <1>4. UNCHANGED <<req, cancelled, attempts, kcId, existing, realm>>
    BY DEF Commit
  <1>5. TypeOK'
    <2>1. saga' \in [Keys -> SagaRows \cup {Null}] /\ userRef' \in [Requests -> KcIds \cup {Null}]
      BY <1>0, <1>1, <1>2 DEF TypeOK
    <2>2. pc' \in [Requests -> Steps] /\ entry' \in [Requests -> EntryStates]
      BY <1>0, <1>3 DEF TypeOK, Steps, Working, Answered, EntryStates
    <2> QED
      BY <1>0, <1>4, <2>1, <2>2 DEF TypeOK
  <1>6. ASSUME NEW s \in Requests PROVE RequestInv(s)'
    <2>1. CASE s = r
      BY <1>0, <1>1, <2>1 DEF Commit, Returns, RowAccepted, RequestInv, Before, Creating,
         Holding, TypeOK, Forms
    <2>2. CASE s # r
      <3>1. RequestInv(s) /\ (pc[s] \in Holding => Key(s) # Key(r))
        BY <1>0, <2>2 DEF IInv, RequestInv, Holding
      <3>2. /\ pc'[s] = pc[s] /\ entry'[s] = entry[s] /\ userRef'[s] = userRef[s]
            /\ Key(s) # Key(r) => saga'[Key(s)] = saga[Key(s)]
        BY <1>0, <1>2, <1>3, <2>2 DEF TypeOK, Forms
      <3> QED
        BY <1>0, <1>4, <3>1, <3>2 DEF RequestInv, Before, Creating, Holding
    <2> QED
      BY <2>1, <2>2
  <1>7. ASSUME NEW k \in Keys PROVE RowInv(k)'
    BY DEF IInv, RequestInv, RowInv, Holding, TypeOK, Forms, Commit, RowAccepted
  <1>8. ASSUME NEW i \in KcIds PROVE AccountInv(i)'
    <2>1. \A k \in Keys : saga[k] # Null => saga'[k] # Null /\ saga'[k].localId = saga[k].localId
      BY <1>0, <1>1, <1>2 DEF TypeOK, RequestInv, Holding
    <2>2. \A s \in Requests : pc'[s] \in Creating => pc[s] \in Creating
      BY <1>0, <1>3 DEF TypeOK, Creating
    <2>3. AccountInv(i)
      BY DEF IInv
    <2> QED
      BY <1>0, <1>4, <2>1, <2>2, <2>3 DEF AccountInv, TypeOK, Forms
  <1> QED
    BY <1>5, <1>6, <1>7, <1>8 DEF IInv

\* A failed read-back reaches the catch with the saga still COMMITTED.
LEMMA ReadBackInv ==
  ASSUME IInv, NEW r \in Requests, ReadBack(r)
  PROVE  IInv'
  <1> USE NullAssumption
  <1> USE DEF ReadBack, GoTo, Key, db, realm
  <1>1. TypeOK'
    BY DEF IInv, TypeOK, Steps, Working, Answered
  <1>2. ASSUME NEW s \in Requests PROVE RequestInv(s)'
    BY DEF IInv, RequestInv, Before, Creating, Holding, TypeOK
  <1>3. ASSUME NEW k \in Keys PROVE RowInv(k)'
    BY DEF IInv, RowInv
  <1>4. ASSUME NEW i \in KcIds PROVE AccountInv(i)'
    BY DEF IInv, AccountInv, Creating, TypeOK
  <1> QED
    BY <1>1, <1>2, <1>3, <1>4 DEF IInv

\* The catch saves ABORTED, or leaves the row as it was; only a saved ABORTED is
\* followed by the compensation.
LEMMA AbortInv ==
  ASSUME IInv, NEW r \in Requests, Abort(r)
  PROVE  IInv'
  <1> USE NullAssumption
  <1> USE DEF Abort, MayCompensate, Returns, SagaRow, Target, RowAccepted, GoTo, Key, db, realm
  <1>1. TypeOK'
    BY DEF IInv, TypeOK, Steps, Working, Answered, EntryStates, Forms, SagaRows, SagaStates
  <1>2. ASSUME NEW s \in Requests PROVE RequestInv(s)'
    <2>1. CASE s = r
      <3>1. TypeOK /\ pc[r] = "abort" /\ Key(r) \in Keys /\ RequestInv(r)
        BY DEF IInv, TypeOK, Forms
      <3>2. \/ pc'[r] = "failed"
            \/ /\ pc'[r] = "kcDelete" /\ kcId[r] # Null
               /\ saga'[Key(r)] = SagaRow(r, "ABORTED")
        BY <3>1 DEF TypeOK
      <3>3. /\ SagaRow(r, "ABORTED") # Null /\ SagaRow(r, "ABORTED").localId = r
            /\ SagaRow(r, "ABORTED").state = "ABORTED"
        BY <3>1, RowWritten DEF SagaStates
      <3>4. UNCHANGED <<req, cancelled, attempts, kcId, existing, account, maker>>
        OBVIOUS
      <3> QED
        BY <2>1, <3>1, <3>2, <3>3, <3>4 DEF RequestInv, Before, Creating, Holding
    <2>2. CASE s # r
      <3>1. RequestInv(s) /\ (pc[s] \in Holding => saga'[Key(s)] = saga[Key(s)])
        BY <2>2, KeysOwned DEF IInv, TypeOK, Forms, Holding
      <3>2. /\ pc'[s] = pc[s] /\ entry'[s] = entry[s] /\ userRef'[s] = userRef[s]
        BY <2>2 DEF IInv, TypeOK
      <3> QED
        BY <3>1, <3>2 DEF RequestInv, Before, Creating, Holding
    <2> QED
      BY <2>1, <2>2
  <1>3. ASSUME NEW k \in Keys PROVE RowInv(k)'
    BY DEF IInv, RequestInv, Holding, TypeOK, Forms, SagaRows, RowInv
  <1>4. ASSUME NEW i \in KcIds PROVE AccountInv(i)'
    <2>1. AccountInv(i) /\ (maker[i] # Null => maker[i] \in Requests /\ Key(maker[i]) \in Keys)
      BY DEF IInv, TypeOK, Forms
    <2>2. \A k \in Keys : saga[k] # Null =>
            saga'[k] # Null /\ saga'[k].localId = saga[k].localId
      <3>1. TypeOK /\ saga[Key(r)].localId = r
        BY DEF IInv, RequestInv, Holding
      <3>2. SagaRow(r, "ABORTED") # Null /\ SagaRow(r, "ABORTED").localId = r
        BY <3>1, RowWritten DEF SagaStates
      <3>3. saga' = saga \/ saga' = [saga EXCEPT ![Key(r)] = SagaRow(r, "ABORTED")]
        OBVIOUS
      <3> QED
        BY <3>1, <3>2, <3>3 DEF TypeOK
    <2>3. \A s \in Requests : pc'[s] \in Creating => pc[s] \in Creating
      BY DEF IInv, TypeOK, Creating
    <2> QED
      BY <2>1, <2>2, <2>3 DEF AccountInv
  <1> QED
    BY <1>1, <1>2, <1>3, <1>4 DEF IInv

\* The account that is deleted belongs to no row other than the aborted one.
LEMMA KcDeleteInv ==
  ASSUME IInv, NEW r \in Requests, KcDelete(r)
  PROVE  IInv'
  <1> USE NullAssumption
  <1> USE DEF KcDelete, Returns, GoTo, Key, db, realm
  <1>1. TypeOK'
    BY DEF IInv, TypeOK, Steps, Working, Answered, AccountStates
  <1>2. ASSUME NEW s \in Requests PROVE RequestInv(s)'
    BY DEF IInv, RequestInv, Before, Creating, Holding, TypeOK
  <1>3. ASSUME NEW k \in Keys PROVE RowInv(k)'
    BY DEF IInv, RequestInv, Holding, TypeOK, Forms, SagaRows, RowInv
  <1>4. ASSUME NEW i \in KcIds PROVE AccountInv(i)'
    BY DEF IInv, AccountInv, RequestInv, Creating, TypeOK
  <1> QED
    BY <1>1, <1>2, <1>3, <1>4 DEF IInv

\* COMPENSATED is written over a deleted account, the only one of its request.
LEMMA MarkCompensatedInv ==
  ASSUME IInv, NEW r \in Requests, MarkCompensated(r)
  PROVE  IInv'
  <1> USE NullAssumption
  <1> USE DEF MarkCompensated, SagaRow, Target, GoTo, Key, db, realm
  <1>1. TypeOK'
    BY DEF IInv, TypeOK, Steps, Working, Answered, Forms, SagaRows, SagaStates
  <1>2. ASSUME NEW s \in Requests PROVE RequestInv(s)'
    BY DEF IInv, RequestInv, Before, Creating, Holding, TypeOK, Forms, SagaRows
  <1>3. ASSUME NEW k \in Keys PROVE RowInv(k)'
    BY DEF IInv, RequestInv, AccountInv, Holding, TypeOK, Forms, SagaRows, RowInv
  <1>4. ASSUME NEW i \in KcIds PROVE AccountInv(i)'
    <2>1. AccountInv(i) /\ (maker[i] # Null => maker[i] \in Requests /\ Key(maker[i]) \in Keys)
      BY DEF IInv, TypeOK, Forms
    <2>2. \A k \in Keys : saga[k] # Null =>
            saga'[k] # Null /\ saga'[k].localId = saga[k].localId
      <3>1. TypeOK /\ saga[Key(r)].localId = r
        BY DEF IInv, RequestInv, Holding
      <3>2. SagaRow(r, "COMPENSATED") # Null /\ SagaRow(r, "COMPENSATED").localId = r
        BY <3>1, RowWritten DEF SagaStates
      <3>3. saga' = saga \/ saga' = [saga EXCEPT ![Key(r)] = SagaRow(r, "COMPENSATED")]
        OBVIOUS
      <3> QED
        BY <3>1, <3>2, <3>3 DEF TypeOK
    <2>3. \A s \in Requests : pc'[s] \in Creating => pc[s] \in Creating
      BY DEF IInv, TypeOK, Creating
    <2> QED
      BY <2>1, <2>2, <2>3 DEF AccountInv
  <1> QED
    BY <1>1, <1>2, <1>3, <1>4 DEF IInv

\* A cancelled token changes nothing yet.
LEMMA DisconnectInv ==
  ASSUME IInv, NEW r \in Requests, Disconnect(r)
  PROVE  IInv'
  <1> USE NullAssumption
  <1> USE DEF Disconnect, GoTo, Key, db, realm
  <1>1. TypeOK'
    BY DEF IInv, TypeOK
  <1>2. ASSUME NEW s \in Requests PROVE RequestInv(s)'
    BY DEF IInv, RequestInv, TypeOK
  <1>3. ASSUME NEW k \in Keys PROVE RowInv(k)'
    BY DEF IInv, RowInv
  <1>4. ASSUME NEW i \in KcIds PROVE AccountInv(i)'
    BY DEF IInv, AccountInv, TypeOK
  <1> QED
    BY <1>1, <1>2, <1>3, <1>4 DEF IInv

\* A stopped process changes neither store; what it leaves behind is RUNNING,
\* ABORTED or whole.
LEMMA CrashInv ==
  ASSUME IInv, Crash
  PROVE  IInv'
  <1> USE DEF Key, db, realm
  <1>1. TypeOK'
    BY DEF IInv, TypeOK, Crash, Steps
  <1>2. ASSUME NEW s \in Requests PROVE RequestInv(s)'
    BY DEF IInv, RequestInv, Before, Creating, Holding, TypeOK, Crash, Working
  <1>3. ASSUME NEW k \in Keys PROVE RowInv(k)'
    BY DEF IInv, RowInv, Crash
  <1>4. ASSUME NEW i \in KcIds PROVE AccountInv(i)'
    BY DEF IInv, AccountInv, Creating, TypeOK, Crash, Working
  <1> QED
    BY <1>1, <1>2, <1>3, <1>4 DEF IInv

-----------------------------------------------------------------------------

\* IInv holds in every reachable state, whatever faults are switched on.
THEOREM Invariance == Spec => []IInv
  <1>1. Init => IInv
    BY InitInv
  <1>2. IInv /\ [Next]_vars => IInv'
    <2> SUFFICES ASSUME IInv, [Next]_vars PROVE IInv'
      OBVIOUS
    <2>1. ASSUME NEW r \in Requests, FindSaga(r) \/ Handle(r) \/ Disconnect(r)
          PROVE  IInv'
      BY <2>1, FindSagaInv, FindUserInv, InsertSagaInv, KcCreateInv, BackoffInv,
         CommitInv, ReadBackInv, AbortInv, KcDeleteInv, MarkCompensatedInv,
         DisconnectInv DEF Handle
    <2>2. CASE Crash
      BY <2>2, CrashInv
    <2>3. CASE UNCHANGED vars
      BY <2>3 DEF vars, IInv, TypeOK, RequestInv, RowInv, AccountInv, Key
    <2> QED
      BY <2>1, <2>2, <2>3 DEF Next, AllDone
  <1> QED
    BY <1>1, <1>2, PTL DEF Spec

\* Every variable keeps its type; in particular a saga never counts more than
\* MaxAttempts attempts.
THEOREM TypeCorrect == Spec => []TypeOK
  BY Invariance, PTL DEF IInv

\* A committed saga always stands for a row of user_ref and a live account.
THEOREM CommittedStaysWhole == Spec => []CommittedIsWhole
  <1>1. IInv => CommittedIsWhole
    BY DEF IInv, RowInv, CommittedIsWhole
  <1> QED
    BY <1>1, Invariance, PTL

\* COMPENSATED is never written over a live account.
THEOREM CompensationIsHonest == Spec => []CompensatedIsGone
  <1>1. IInv => CompensatedIsGone
    BY DEF IInv, RowInv, CompensatedIsGone
  <1> QED
    BY <1>1, Invariance, PTL

\* One idempotency key opens at most one Keycloak account.
THEOREM AtMostOneAccount == Spec => []OneAccountPerKey
  <1>1. IInv => OneAccountPerKey
    <2> SUFFICES ASSUME IInv,
                        NEW i \in KcIds, NEW j \in KcIds,
                        maker[i] # Null, maker[j] # Null,
                        Key(maker[i]) = Key(maker[j])
                 PROVE  i = j
      BY DEF OneAccountPerKey
    <2>1. maker[i] = maker[j]
      BY DEF IInv, AccountInv
    <2> QED
      BY <2>1 DEF IInv, AccountInv
  <1> QED
    BY <1>1, Invariance, PTL

\* A create answered 201 is never undone.
THEOREM CreatedIsDurable == Spec => []CreatedStays
  <1>1. IInv => CreatedStays
    BY DEF IInv, RequestInv, Holding, CreatedStays
  <1> QED
    BY <1>1, Invariance, PTL

\* An account nobody in user_ref refers to shows in saga_log.
THEOREM OrphansAreVisible == Spec => []OrphanIsVisible
  <1>1. IInv => OrphanIsVisible
    <2> SUFFICES ASSUME IInv, NEW i \in KcIds, account[i] = "live",
                        \A r \in Requests : userRef[r] # i
                 PROVE  /\ saga[Key(maker[i])] # Null
                        /\ saga[Key(maker[i])].state \in {"RUNNING", "ABORTED"}
      BY DEF OrphanIsVisible
    <2> DEFINE m == maker[i]
               k == Key(m)
    <2>1. /\ m \in Requests /\ k \in Keys
          /\ saga[k] # Null /\ saga[k].localId = m /\ saga[k] \in SagaRows
      BY NullAssumption DEF IInv, TypeOK, AccountInv, Forms, Key
    <2>2. saga[k].state # "COMMITTED"
      <3> SUFFICES ASSUME saga[k].state = "COMMITTED" PROVE FALSE
        OBVIOUS
      <3>1. saga[k].target \in KcIds /\ maker[saga[k].target] = m
        BY <2>1 DEF IInv, RowInv, SagaRows
      <3>2. saga[k].target = i
        BY <2>1, <3>1, NullAssumption DEF IInv, AccountInv
      <3> QED
        BY <2>1, <3>2 DEF IInv, RowInv
    <2>3. saga[k].state # "COMPENSATED"
      BY <2>1 DEF IInv, RowInv
    <2> QED
      BY <2>1, <2>2, <2>3 DEF SagaRows, SagaStates
  <1> QED
    BY <1>1, Invariance, PTL

\* A saga row moves along the edges of SagaLifecycle only.
THEOREM SagasMoveForward == Spec => SagaLifecycle
  <1> DEFINE Moves(k) ==
         saga'[k] # saga[k] =>
           IF saga[k] = Null THEN saga'[k].state = "RUNNING"
           ELSE /\ saga'[k] # Null
                /\ saga'[k].localId = saga[k].localId
                /\ <<saga[k].state, saga'[k].state>> \in
                     {<<"RUNNING", "COMMITTED">>, <<"RUNNING", "ABORTED">>,
                      <<"COMMITTED", "ABORTED">>, <<"ABORTED", "COMPENSATED">>}
  <1>1. ASSUME IInv, Next, NEW k \in Keys PROVE Moves(k)
    <2> USE DEF Key, db, SagaStates
    <2>0. TypeOK
      BY <1>1 DEF IInv
    <2>1. CASE \E r \in Requests : FindSaga(r) \/ FindUser(r) \/ KcCreate(r) \/ Backoff(r)
                                     \/ ReadBack(r) \/ KcDelete(r) \/ Disconnect(r)
      BY <2>1 DEF FindSaga, FindUser, KcCreate, Backoff, ReadBack, KcDelete, Disconnect
    <2>2. ASSUME NEW r \in Requests, InsertSaga(r) PROVE Moves(k)
      BY <2>0, <2>2, RowWritten DEF InsertSaga, KeyFree, TypeOK
    <2>3. ASSUME NEW r \in Requests, Commit(r) PROVE Moves(k)
      BY <1>1, <2>0, <2>3, RowWritten DEF Commit, IInv, RequestInv, Holding, TypeOK
    <2>4. ASSUME NEW r \in Requests, Abort(r) PROVE Moves(k)
      BY <1>1, <2>0, <2>4, RowWritten DEF Abort, IInv, RequestInv, Holding, TypeOK
    <2>5. ASSUME NEW r \in Requests, MarkCompensated(r) PROVE Moves(k)
      BY <1>1, <2>0, <2>5, RowWritten DEF MarkCompensated, IInv, RequestInv, Holding, TypeOK
    <2>6. CASE Crash \/ AllDone
      BY <2>6 DEF Crash, AllDone, vars
    <2> QED
      BY <1>1, <2>1, <2>2, <2>3, <2>4, <2>5, <2>6 DEF Next, Handle
  <1>2. IInv /\ [Next]_vars => [\A k \in Keys : Moves(k)]_vars
    BY <1>1
  <1> QED
    BY <1>2, Invariance, PTL DEF Spec, SagaLifecycle

-----------------------------------------------------------------------------
(***************************************************************************)
(* CreateUserAsync implements AccountContract.                             *)
(***************************************************************************)

Claims == [k \in Keys |-> ClaimOf(saga[k])]

Opened == [k \in Keys |-> { i \in KcIds : maker[i] # Null /\ Key(maker[i]) = k }]

\* A step that leaves every row's claim and the realm alone is invisible.
LEMMA Invisible ==
  ASSUME UNCHANGED <<req, realm>>, Claims' = Claims
  PROVE  UNCHANGED <<Claims, Opened, account>>
  BY DEF Opened, realm, Key

\* Writing one row changes one claim.
LEMMA ClaimWritten ==
  ASSUME TypeOK, NEW k \in Keys, NEW row, saga' = [saga EXCEPT ![k] = row]
  PROVE  Claims' = [Claims EXCEPT ![k] = ClaimOf(row)]
  BY DEF TypeOK, Claims

\* A row's claim follows its state.
LEMMA ClaimOfRow ==
  ASSUME TypeOK, NEW r \in Requests
  PROVE  /\ ClaimOf(SagaRow(r, "RUNNING")) = "pending"
         /\ ClaimOf(SagaRow(r, "COMMITTED")) = "granted"
         /\ ClaimOf(SagaRow(r, "ABORTED")) = "revoked"
         /\ ClaimOf(SagaRow(r, "COMPENSATED")) = "revoked"
  <1>1. \A st \in SagaStates : SagaRow(r, st) # Null /\ SagaRow(r, st).state = st
    BY RowWritten
  <1> QED
    BY <1>1 DEF ClaimOf, SagaStates

\* The claim of a request's own key follows its row.
LEMMA ClaimOwned ==
  ASSUME IInv, NEW r \in Requests, pc[r] \in Holding
  PROVE  /\ Key(r) \in Keys
         /\ saga[Key(r)].state = "RUNNING" => Claims[Key(r)] = "pending"
         /\ saga[Key(r)].state = "COMMITTED" => Claims[Key(r)] = "granted"
         /\ saga[Key(r)].state = "ABORTED" => Claims[Key(r)] = "revoked"
  <1>1. Key(r) \in Keys /\ saga[Key(r)] # Null
    BY DEF IInv, TypeOK, Forms, Key, RequestInv
  <1> QED
    BY <1>1 DEF Claims, ClaimOf

\* Every step of CreateUserAsync is a step of the contract, or invisible to it.
THEOREM CreateKeepsContract == Spec => KeepsContract
  <1> DEFINE View == <<Claims, Opened, account>>
  <1>1. Init => Contract!Init
    BY NullAssumption DEF Init, Contract!Init, ClaimOf
  <1>2. ASSUME IInv, Next PROVE Contract!Next \/ UNCHANGED View
    <2>0. TypeOK
      BY <1>2 DEF IInv
    <2>1. CASE \E r \in Requests : FindSaga(r) \/ FindUser(r) \/ Backoff(r)
                                     \/ ReadBack(r) \/ Disconnect(r)
      <3>1. UNCHANGED <<saga, req, realm>>
        BY <2>1 DEF FindSaga, FindUser, Backoff, ReadBack, Disconnect, db
      <3> QED
        BY <3>1, Invisible DEF Claims
    <2>2. ASSUME NEW r \in Requests, InsertSaga(r) PROVE Contract!Next \/ UNCHANGED View
      <3>1. UNCHANGED <<req, realm>> /\ Key(r) \in Keys
        BY <2>0, <2>2 DEF InsertSaga, TypeOK, Forms, Key
      <3>2. CASE saga' = saga
        BY <3>1, <3>2, Invisible DEF Claims
      <3>3. CASE /\ saga[Key(r)] = Null
                 /\ saga' = [saga EXCEPT ![Key(r)] = SagaRow(r, "RUNNING")]
        <4>1. Claims[Key(r)] = "free"
          BY <3>1, <3>3 DEF Claims, ClaimOf
        <4>2. Claims' = [Claims EXCEPT ![Key(r)] = "pending"]
          <5>1. Claims' = [Claims EXCEPT ![Key(r)] = ClaimOf(SagaRow(r, "RUNNING"))]
            BY <2>0, <3>1, <3>3, ClaimWritten
          <5> QED
            BY <2>0, <5>1, ClaimOfRow
        <4>3. UNCHANGED <<Opened, account>>
          BY <3>1 DEF Opened, realm, Key
        <4>4. Contract!Claim(Key(r))
          BY <4>1, <4>2, <4>3 DEF Contract!Claim, Claims, Opened
        <4> QED
          BY <3>1, <4>4 DEF Contract!Next
      <3> QED
        BY <2>2, <3>2, <3>3 DEF InsertSaga, KeyFree
    <2>3. ASSUME NEW r \in Requests, KcCreate(r) PROVE Contract!Next \/ UNCHANGED View
      <3>1. /\ UNCHANGED <<req, saga>> /\ Key(r) \in Keys /\ RequestInv(r)
            /\ pc[r] = "kcCreate" /\ Claims[Key(r)] = "pending"
        BY <1>2, <2>0, <2>3, ClaimOwned
        DEF KcCreate, db, IInv, RequestInv, Creating, Holding
      <3>2. CASE UNCHANGED realm
        BY <3>1, <3>2, Invisible DEF Claims
      <3>3. ASSUME NEW i \in KcIds, OpenAccount(r, i), ~UsernameTaken(req[r].username)
            PROVE  Contract!Open(Key(r), i)
        <4>1. \A j \in KcIds : maker[j] # Null => Key(maker[j]) # Key(r)
          BY <1>2, <3>1, <3>3
          DEF IInv, AccountInv, RequestInv, UsernameTaken, Creating, Holding
        <4>2. Opened[Key(r)] = {}
          BY <3>1, <4>1 DEF Opened
        <4>3. Opened' = [Opened EXCEPT ![Key(r)] = {i}]
          <5>1. maker[i] = Null /\ r # Null /\ maker' = [maker EXCEPT ![i] = r]
            BY <1>2, <3>3, NullAssumption DEF OpenAccount, IInv, AccountInv
          <5>2. ASSUME NEW k \in Keys
                PROVE  Opened'[k] = [Opened EXCEPT ![Key(r)] = {i}][k]
            BY <2>0, <3>1, <4>1, <5>1 DEF Opened, Key, TypeOK
          <5> QED
            BY <5>2 DEF Opened
        <4> QED
          BY <3>1, <3>3, <4>2, <4>3 DEF Contract!Open, OpenAccount, Claims, Opened
      <3>4. UNCHANGED realm \/ \E i \in KcIds :
               OpenAccount(r, i) /\ ~UsernameTaken(req[r].username)
        BY <2>3 DEF KcCreate
      <3>5. CASE \E i \in KcIds : Contract!Open(Key(r), i)
        BY <3>1, <3>5 DEF Contract!Next, Contract!Open
      <3> QED
        BY <3>2, <3>3, <3>4, <3>5
    <2>4. ASSUME NEW r \in Requests, Commit(r) PROVE Contract!Next \/ UNCHANGED View
      <3>1. /\ UNCHANGED <<req, realm>> /\ Key(r) \in Keys /\ pc[r] = "commit"
            /\ Claims[Key(r)] = "pending" /\ kcId[r] \in KcIds
            /\ maker[kcId[r]] = r /\ account[kcId[r]] = "live"
        BY <1>2, <2>0, <2>4, ClaimOwned DEF Commit, IInv, RequestInv, TypeOK, Holding
      <3>2. CASE saga' = saga
        BY <3>1, <3>2, Invisible DEF Claims
      <3>3. CASE saga' = [saga EXCEPT ![Key(r)] = SagaRow(r, "COMMITTED")]
        <4>1. Claims' = [Claims EXCEPT ![Key(r)] = "granted"]
          <5>1. Claims' = [Claims EXCEPT ![Key(r)] = ClaimOf(SagaRow(r, "COMMITTED"))]
            BY <2>0, <3>1, <3>3, ClaimWritten
          <5> QED
            BY <2>0, <5>1, ClaimOfRow
        <4>2. kcId[r] \in Opened[Key(r)]
          BY <3>1, NullAssumption DEF Opened
        <4>3. UNCHANGED <<Opened, account>>
          BY <3>1 DEF Opened, realm, Key
        <4>4. Contract!Grant(Key(r))
          BY <3>1, <4>1, <4>2, <4>3 DEF Contract!Grant, Claims, Opened
        <4> QED
          BY <3>1, <4>4 DEF Contract!Next
      <3> QED
        BY <2>4, <3>2, <3>3 DEF Commit, db
    <2>5. ASSUME NEW r \in Requests, Abort(r) PROVE Contract!Next \/ UNCHANGED View
      <3>1. /\ UNCHANGED <<req, realm>> /\ Key(r) \in Keys /\ pc[r] = "abort"
            /\ Claims[Key(r)] \in {"pending", "granted"}
        BY <1>2, <2>0, <2>5, ClaimOwned DEF Abort, IInv, RequestInv, TypeOK, Holding
      <3>2. CASE saga' = saga
        BY <3>1, <3>2, Invisible DEF Claims
      <3>3. CASE saga' = [saga EXCEPT ![Key(r)] = SagaRow(r, "ABORTED")]
        <4>1. Claims' = [Claims EXCEPT ![Key(r)] = "revoked"]
          <5>1. Claims' = [Claims EXCEPT ![Key(r)] = ClaimOf(SagaRow(r, "ABORTED"))]
            BY <2>0, <3>1, <3>3, ClaimWritten
          <5> QED
            BY <2>0, <5>1, ClaimOfRow
        <4>2. UNCHANGED <<Opened, account>>
          BY <3>1 DEF Opened, realm, Key
        <4>3. Contract!Revoke(Key(r))
          BY <3>1, <4>1, <4>2 DEF Contract!Revoke, Claims, Opened
        <4> QED
          BY <3>1, <4>3 DEF Contract!Next
      <3> QED
        BY <2>5, <3>2, <3>3 DEF Abort
    <2>6. ASSUME NEW r \in Requests, KcDelete(r) PROVE Contract!Next \/ UNCHANGED View
      <3>1. /\ UNCHANGED <<req, saga, maker>> /\ Key(r) \in Keys
            /\ Claims[Key(r)] = "revoked" /\ kcId[r] \in KcIds
            /\ maker[kcId[r]] = r /\ account[kcId[r]] = "live"
        BY <1>2, <2>0, <2>6, ClaimOwned
        DEF KcDelete, db, IInv, RequestInv, TypeOK, Holding
      <3>2. CASE account' = account
        BY <3>1, <3>2, Invisible DEF Claims, realm
      <3>3. CASE account' = [account EXCEPT ![kcId[r]] = "deleted"]
        <4>1. kcId[r] \in Opened[Key(r)]
          BY <3>1, NullAssumption DEF Opened
        <4>2. UNCHANGED <<Claims, Opened>>
          BY <3>1 DEF Claims, Opened, Key
        <4>3. Contract!Close(Key(r), kcId[r])
          BY <3>1, <3>3, <4>1, <4>2 DEF Contract!Close, Claims, Opened
        <4> QED
          BY <3>1, <4>3 DEF Contract!Next
      <3> QED
        BY <2>6, <3>2, <3>3 DEF KcDelete
    <2>7. ASSUME NEW r \in Requests, MarkCompensated(r) PROVE UNCHANGED View
      <3>1. /\ UNCHANGED <<req, realm>> /\ Key(r) \in Keys /\ Claims[Key(r)] = "revoked"
        BY <1>2, <2>0, <2>7, ClaimOwned
        DEF MarkCompensated, IInv, RequestInv, TypeOK, Holding
      <3>2. CASE saga' = saga
        BY <3>1, <3>2, Invisible DEF Claims
      <3>3. CASE saga' = [saga EXCEPT ![Key(r)] = SagaRow(r, "COMPENSATED")]
        <4>1. Claims' = [Claims EXCEPT ![Key(r)] = "revoked"]
          <5>1. Claims' = [Claims EXCEPT ![Key(r)] = ClaimOf(SagaRow(r, "COMPENSATED"))]
            BY <2>0, <3>1, <3>3, ClaimWritten
          <5> QED
            BY <2>0, <5>1, ClaimOfRow
        <4>2. Claims' = Claims
          BY <3>1, <4>1 DEF Claims
        <4> QED
          BY <3>1, <4>2, Invisible
      <3> QED
        BY <2>7, <3>2, <3>3 DEF MarkCompensated
    <2>8. CASE Crash \/ AllDone
      <3>1. UNCHANGED <<saga, req, realm>>
        BY <2>8 DEF Crash, AllDone, vars, db, realm
      <3> QED
        BY <3>1, Invisible DEF Claims
    <2> QED
      BY <1>2, <2>1, <2>2, <2>3, <2>4, <2>5, <2>6, <2>7, <2>8 DEF Next, Handle
  <1>3. UNCHANGED vars => UNCHANGED View
    BY DEF vars, Claims, Opened, Key
  <1>4. IInv /\ [Next]_vars => [Contract!Next]_View
    BY <1>2, <1>3
  <1> QED
    BY <1>1, <1>4, Invariance, PTL DEF Spec, KeepsContract, Contract!Spec, Claims, Opened

-----------------------------------------------------------------------------
(***************************************************************************)
(* The two stores, under a Keycloak that may refuse a call and nothing     *)
(* worse.  Each other fault, and an id that does not parse, can split them. *)
(***************************************************************************)

OnlyRefusals == Faults \subseteq {"kcRefused"} /\ GuidIds = KcIds

\* The request's account, and how it is paired with a row.
PairInv(r) ==
    /\ ~cancelled[r] /\ req[r].valid
    /\ pc[r] \notin {"readBack", "created"} => userRef[r] = Null
    /\ pc[r] = "abort" => kcId[r] = Null /\ entry[r] = "Detached"
    /\ pc[r] \notin {"kcDelete", "markCompensated", "crashed"}
    /\ userRef[r] # Null => maker[userRef[r]] = r /\ account[userRef[r]] = "live"

\* A live account awaits the commit of its row, or has the row.
LiveInv(i) ==
    account[i] = "live" =>
        \/ pc[maker[i]] = "commit" /\ kcId[maker[i]] = i
        \/ userRef[maker[i]] = i

PairsInv ==
    /\ \A r \in Requests : PairInv(r)
    /\ \A i \in KcIds : LiveInv(i)

\* Nothing but an answer or a refusal of Keycloak ends a call.
LEMMA CallsAreAnswered ==
  ASSUME OnlyRefusals, NEW r \in Requests, ~cancelled[r]
  PROVE  /\ DbOutcomes(cancelled[r]) = {"ok"}
         /\ KcOutcomes(cancelled[r]) \subseteq {"ok", "refused"}
  BY DEF OnlyRefusals, DbOutcomes, KcOutcomes, CallOutcomes, Outcomes

\* With no request begun there is nothing to pair.
LEMMA PairsInit ==
  ASSUME OnlyRefusals, Init
  PROVE  PairsInv
  BY NullAssumption DEF OnlyRefusals, Init, PairsInv, PairInv, LiveInv, Forms

\* Steps that touch neither store, and leave the request neither at its commit
\* nor from it, keep the pairs.
LEMMA PairsKept ==
  ASSUME TypeOK, PairsInv, NEW r \in Requests, NEW step,
         pc' = [pc EXCEPT ![r] = step],
         pc[r] # "commit" /\ step # "commit",
         step \notin {"kcDelete", "markCompensated", "crashed"},
         pc[r] \in {"readBack", "created"} => step \in {"readBack", "created"},
         step = "abort" => kcId[r] = Null /\ entry[r] = "Detached",
         UNCHANGED <<req, cancelled, kcId, entry, userRef, realm>>
  PROVE  PairsInv'
  <1> USE NullAssumption DEF TypeOK, PairsInv, realm
  <1>1. ASSUME NEW s \in Requests PROVE PairInv(s)'
    BY DEF PairInv
  <1>2. ASSUME NEW i \in KcIds PROVE LiveInv(i)'
    BY DEF LiveInv
  <1> QED
    BY <1>1, <1>2

\* An accepted account awaits its commit: every id parses, and none is lost.
LEMMA KcCreatePairs ==
  ASSUME OnlyRefusals, IInv, PairsInv, NEW r \in Requests, KcCreate(r)
  PROVE  PairsInv'
  <1>1. /\ TypeOK /\ RequestInv(r) /\ PairInv(r) /\ pc[r] = "kcCreate"
        /\ kcId[r] = Null /\ entry[r] = "Detached"
    BY DEF IInv, PairsInv, KcCreate, RequestInv, Creating
  <1>2. KcOutcomes(cancelled[r]) \subseteq {"ok", "refused"} /\ "noLocation" \notin Faults
    BY <1>1, CallsAreAnswered DEF PairInv, OnlyRefusals
  <1>3. CASE FailedAttempt(r) /\ UNCHANGED realm
    <2>1. /\ pc' = [pc EXCEPT ![r] = "backoff"]
          /\ UNCHANGED <<req, cancelled, kcId, entry, userRef, realm>>
      BY <1>3 DEF KcCreate, FailedAttempt, GoTo, db
    <2> QED
      BY <1>1, <2>1, PairsKept
  <1>4. ASSUME NEW i0 \in KcIds, OpenAccount(r, i0), Accept(r, i0)
        PROVE  PairsInv'
    <2>1. /\ pc' = [pc EXCEPT ![r] = "commit"]
          /\ entry' = [entry EXCEPT ![r] = "Added"]
          /\ kcId' = [kcId EXCEPT ![r] = i0]
          /\ account' = [account EXCEPT ![i0] = "live"]
          /\ maker' = [maker EXCEPT ![i0] = r]
          /\ account[i0] = "unused"
      BY <1>4 DEF OpenAccount, Accept, OnlyRefusals, GoTo
    <2>2. UNCHANGED <<req, cancelled, userRef>>
      BY DEF KcCreate, db
    <2>3. ASSUME NEW s \in Requests PROVE PairInv(s)'
      BY <1>1, <2>1, <2>2 DEF PairsInv, PairInv, TypeOK
    <2>4. ASSUME NEW i \in KcIds PROVE LiveInv(i)'
      BY <1>1, <2>1, <2>2, NullAssumption DEF PairsInv, LiveInv, TypeOK, IInv, AccountInv
    <2> QED
      BY <2>3, <2>4 DEF PairsInv
  <1> QED
    BY <1>2, <1>3, <1>4 DEF KcCreate, AcceptBlank

\* The commit of an account of one's own meets no constraint.
LEMMA CommitPairs ==
  ASSUME OnlyRefusals, IInv, PairsInv, NEW r \in Requests, Commit(r)
  PROVE  PairsInv'
  <1>1. /\ TypeOK /\ RequestInv(r) /\ PairInv(r) /\ pc[r] = "commit"
        /\ kcId[r] \in KcIds /\ maker[kcId[r]] = r /\ account[kcId[r]] = "live"
        /\ userRef[r] = Null
    BY DEF IInv, PairsInv, PairInv, Commit, RequestInv, TypeOK
  <1>2. RowAccepted(r)
    BY <1>1, NullAssumption DEF RowAccepted, PairsInv, PairInv
  <1>3. DbOutcomes(cancelled[r]) = {"ok"}
    BY <1>1, CallsAreAnswered DEF PairInv
  <1>4. /\ userRef' = [userRef EXCEPT ![r] = kcId[r]]
        /\ pc' = [pc EXCEPT ![r] = "readBack"]
        /\ entry' = [entry EXCEPT ![r] = "Unchanged"]
        /\ UNCHANGED <<req, cancelled, kcId, realm>>
    BY <1>2, <1>3 DEF Commit, Returns, GoTo
  <1>5. ASSUME NEW s \in Requests PROVE PairInv(s)'
    BY <1>1, <1>4 DEF PairsInv, PairInv, TypeOK, realm
  <1>6. ASSUME NEW i \in KcIds PROVE LiveInv(i)'
    BY <1>1, <1>4, NullAssumption DEF PairsInv, LiveInv, TypeOK, IInv, AccountInv, realm
  <1> QED
    BY <1>5, <1>6 DEF PairsInv

\* Only a request without an account reaches the catch, which then saves the
\* aborted saga and compensates nothing.
LEMMA AbortPairs ==
  ASSUME OnlyRefusals, IInv, PairsInv, NEW r \in Requests, Abort(r)
  PROVE  PairsInv'
  <1>1. /\ TypeOK /\ PairInv(r) /\ pc[r] = "abort"
        /\ kcId[r] = Null /\ entry[r] = "Detached"
    BY DEF IInv, PairsInv, PairInv, Abort
  <1>2. /\ pc' = [pc EXCEPT ![r] = "failed"]
        /\ UNCHANGED <<req, cancelled, kcId, entry, userRef, realm>>
    BY <1>1 DEF Abort, MayCompensate, GoTo
  <1> QED
    BY <1>1, <1>2, PairsKept

\* The other steps open, save and delete nothing.
LEMMA OtherPairs ==
  ASSUME OnlyRefusals, IInv, PairsInv, NEW r \in Requests,
         FindSaga(r) \/ FindUser(r) \/ InsertSaga(r) \/ Backoff(r) \/ ReadBack(r)
  PROVE  PairsInv'
  <1>1. TypeOK /\ RequestInv(r) /\ PairInv(r)
    BY DEF IInv, PairsInv
  <1>2. DbOutcomes(cancelled[r]) = {"ok"}
    BY <1>1, CallsAreAnswered DEF PairInv
  <1>3. UNCHANGED <<req, cancelled, kcId, entry, userRef, realm>>
    BY DEF FindSaga, FindUser, InsertSaga, Backoff, ReadBack, db
  <1>4. PICK step \in {"findUser", "insertSaga", "failed", "replayed", "kcCreate", "abort", "created"} :
          /\ pc' = [pc EXCEPT ![r] = step]
          /\ pc[r] = "readBack" <=> step = "created"
          /\ step = "abort" => pc[r] = "backoff"
          /\ pc[r] \notin {"commit", "created"}
    BY <1>2 DEF FindSaga, FindUser, InsertSaga, Backoff, ReadBack, GoTo
  <1>5. step = "abort" => kcId[r] = Null /\ entry[r] = "Detached"
    BY <1>1, <1>4 DEF RequestInv, Creating
  <1> QED
    BY <1>1, <1>3, <1>4, <1>5, PairsKept

\* A Keycloak that refuses calls, and does nothing worse, never splits the two
\* stores: when no request is at work, live accounts and rows of user_ref pair
\* up, however often creates failed, were retried or met (CreateUserAsync).
THEOREM StoresStayTogether == OnlyRefusals => (Spec => []StoresAgree)
  <1> SUFFICES ASSUME OnlyRefusals PROVE Spec => []StoresAgree
    OBVIOUS
  <1>1. Init => PairsInv
    BY PairsInit
  <1>2. IInv /\ PairsInv /\ [Next]_vars => PairsInv'
    <2> SUFFICES ASSUME IInv, PairsInv, [Next]_vars PROVE PairsInv'
      OBVIOUS
    <2>1. ASSUME NEW r \in Requests, KcDelete(r) \/ MarkCompensated(r) PROVE FALSE
      BY <2>1 DEF PairsInv, PairInv, KcDelete, MarkCompensated
    <2>2. ASSUME NEW r \in Requests, FindSaga(r) \/ Handle(r) PROVE PairsInv'
      BY <2>1, <2>2, KcCreatePairs, CommitPairs, AbortPairs, OtherPairs DEF Handle
    <2>3. CASE Crash \/ \E r \in Requests : Disconnect(r)
      BY <2>3 DEF Crash, Disconnect, OnlyRefusals
    <2>4. CASE UNCHANGED vars
      BY <2>4 DEF vars, PairsInv, PairInv, LiveInv
    <2> QED
      BY <2>2, <2>3, <2>4 DEF Next, AllDone
  <1>3. IInv /\ PairsInv => StoresAgree
    <2> SUFFICES ASSUME IInv, PairsInv, \A r \in Requests : pc[r] \notin Working,
                        NEW i \in KcIds
                 PROVE  account[i] = "live" <=> \E r \in Requests : userRef[r] = i
      BY DEF StoresAgree
    <2>1. ASSUME account[i] = "live" PROVE \E r \in Requests : userRef[r] = i
      <3>1. maker[i] \in Requests
        BY <2>1, NullAssumption DEF IInv, TypeOK, AccountInv
      <3> QED
        BY <2>1, <3>1 DEF PairsInv, LiveInv, Working
    <2>2. ASSUME NEW r \in Requests, userRef[r] = i PROVE account[i] = "live"
      BY <2>2, NullAssumption DEF PairsInv, PairInv
    <2> QED
      BY <2>1, <2>2
  <1> QED
    BY <1>1, <1>2, <1>3, Invariance, PTL DEF Spec

=============================================================================

-------------------------- MODULE UserUpdateProofs --------------------------
(***************************************************************************)
(* Proofs about UserUpdate, for any requests, keys, emails and faults.     *)
(*                                                                         *)
(* The argument: the row of a key names, for good, the one request that    *)
(* may reach Keycloak under it, and stays RUNNING until that request       *)
(* commits.  When requests come one at a time, the one at work has read    *)
(* the row as it is, and only a RUNNING saga stands over a split.          *)
(***************************************************************************)
EXTENDS UserUpdate, TLAPS

\* The steps of an update that holds its key.
Holding == {"kcUpdate", "backoff", "commit"}

RequestInv(r) ==
    /\ pc[r] \in Holding \cup {"insertSaga"} => req[r].op = "UPDATE_USER"
    /\ pc[r] = "deactivate" => req[r].op = "DEACTIVATE_USER"
    /\ pc[r] \in {"findUser", "insertSaga", "kcUpdate"} => attempts[r] < MaxAttempts
    /\ r \in put \/ pc[r] \in Holding \cup {"done"} =>
         saga[Key(r)] # Null /\ saga[Key(r)].owner = r
    /\ pc[r] \in Holding => saga[Key(r)].state = "RUNNING"
    /\ pc[r] = "commit" => r \in put

SagaInv(k) ==
    saga[k] # Null /\ saga[k].op = "UPDATE_USER" /\ saga[k].state = "COMMITTED"
        => saga[k].owner \in put

NoneRunning == \A k \in Keys : saga[k] # Null => saga[k].state = "COMMITTED"

OnlyUpdates == \A k \in Keys : saga[k] # Null => saga[k].op = "UPDATE_USER"

OneAtWork == \A r, s \in Requests : pc[r] \in Working /\ pc[s] \in Working => r = s

\* What is known of a request as long as requests come one at a time.
SerialInv(r) ==
    /\ pc[r] \in Working => read[r] = row
    /\ pc[r] = "commit" => kc = req[r].body

Agree == /\ row.email = kc.email
         /\ OnlyUpdates => row.active = kc.active

IInv ==
    /\ TypeOK
    /\ \A r \in Requests : RequestInv(r)
    /\ \A k \in Keys : SagaInv(k)
    /\ ~overlapped => /\ OneAtWork
                      /\ \A r \in Requests : SerialInv(r)
                      /\ NoneRunning => Agree

-----------------------------------------------------------------------------

\* Before any request begins nothing is claimed and the stores are alike.
LEMMA InitInv == Init => IInv
  <1> SUFFICES ASSUME Init PROVE IInv
    OBVIOUS
  <1>1. TypeOK
    <2> DEFINE Sent == { f \in Forms :
                  f.op = "DEACTIVATE_USER" => f.body = [row EXCEPT !.active = FALSE] }
    <2>1. req \in [Requests -> Sent] /\ row \in Rows
      BY DEF Init
    <2>2. Sent \subseteq Forms
      OBVIOUS
    <2> HIDE DEF Sent
    <2>3. req \in [Requests -> Forms]
      BY <2>1, <2>2
    <2>4. /\ row \in Rows /\ kc \in Rows
          /\ read \in [Requests -> Rows]
      BY <2>1 DEF Init
    <2>5. /\ pc \in [Requests -> Steps]
          /\ cancelled \in [Requests -> BOOLEAN]
          /\ attempts \in [Requests -> 0 .. MaxAttempts]
          /\ saga \in [Keys -> SagaRows \cup {Null}]
          /\ put \subseteq Requests
      BY DEF Init, Steps, MaxAttempts
    <2>6. overlapped \in BOOLEAN
      BY DEF Init
    <2> QED
      BY <2>3, <2>4, <2>5, <2>6 DEF TypeOK
  <1>2. \A r \in Requests : RequestInv(r)
    BY DEF Init, RequestInv, Holding, MaxAttempts
  <1>3. \A k \in Keys : SagaInv(k)
    BY DEF Init, SagaInv
  <1>4. OneAtWork /\ (\A r \in Requests : SerialInv(r)) /\ Agree
    BY DEF Init, OneAtWork, SerialInv, Agree, Working
  <1> QED
    BY <1>1, <1>2, <1>3, <1>4 DEF IInv

\* The row a request writes.
LEMMA SagaRowType ==
  ASSUME TypeOK, NEW r \in Requests, NEW state \in {"RUNNING", "COMMITTED"}
  PROVE  /\ SagaRow(r, state) \in SagaRows
         /\ SagaRow(r, state) # Null
         /\ SagaRow(r, state).owner = r
         /\ SagaRow(r, state).op = req[r].op
         /\ SagaRow(r, state).state = state
         /\ Key(r) \in Keys
  <1>1. req[r] \in Forms /\ attempts[r] \in 0 .. MaxAttempts
    BY DEF TypeOK
  <1>2. SagaRow(r, state) \in SagaRows
    BY <1>1 DEF SagaRow, SagaRows, Forms
  <1> QED
    BY <1>1, <1>2, NullAssumption DEF SagaRow, Key, Forms

\* Reading the user: an overlap is noted, and a request alone reads what is there.
LEMMA FindUserInv ==
  ASSUME IInv, NEW q \in Requests, FindUser(q)
  PROVE  IInv'
  <1>0. /\ TypeOK /\ pc[q] = "findUser"
        /\ UNCHANGED <<req, cancelled, attempts, saga, row, kc, put>>
    BY DEF IInv, FindUser, db, realm
  <1>1. CASE /\ read' = [read EXCEPT ![q] = row]
             /\ GoTo(q, IF req[q].op = "UPDATE_USER" THEN "insertSaga" ELSE "deactivate")
             /\ overlapped' = (overlapped \/ \E s \in Requests : pc[s] \in Working)
    <2>1. TypeOK'
      <3>1. overlapped' \in BOOLEAN
        BY <1>1
      <3> QED
        BY <1>0, <1>1, <3>1 DEF TypeOK, GoTo, Steps, Working
    <2>2. req[q].op \in Ops
      BY <1>0 DEF TypeOK, Forms
    <2>3. \A r \in Requests : RequestInv(r)'
      BY <1>0, <1>1, <2>2 DEF IInv, TypeOK, RequestInv, GoTo, Holding, Key, Ops
    <2>4. \A k \in Keys : SagaInv(k)'
      BY <1>0 DEF IInv, SagaInv
    <2>5. ASSUME ~overlapped'
          PROVE  OneAtWork' /\ (\A r \in Requests : SerialInv(r)') /\ (NoneRunning => Agree)'
      <3>1. ~overlapped /\ \A s \in Requests : pc[s] \notin Working
        BY <1>1, <2>5
      <3>2. OneAtWork' /\ \A r \in Requests : SerialInv(r)'
        BY <1>0, <1>1, <3>1 DEF IInv, TypeOK, OneAtWork, SerialInv, GoTo, Working
      <3>3. (NoneRunning => Agree)'
        BY <1>0, <3>1 DEF IInv, NoneRunning, Agree, OnlyUpdates
      <3> QED
        BY <3>2, <3>3
    <2> QED
      BY <2>1, <2>3, <2>4, <2>5 DEF IInv
  <1>2. CASE GoTo(q, "failed") /\ UNCHANGED <<read, overlapped>>
    <2>1. TypeOK'
      BY <1>0, <1>2 DEF TypeOK, GoTo, Steps, Answered
    <2>2. \A r \in Requests : RequestInv(r)'
      BY <1>0, <1>2 DEF IInv, TypeOK, RequestInv, GoTo, Holding, Key
    <2>3. \A k \in Keys : SagaInv(k)'
      BY <1>0 DEF IInv, SagaInv
    <2>4. ~overlapped' => /\ OneAtWork' /\ (\A r \in Requests : SerialInv(r)')
                          /\ (NoneRunning => Agree)'
      BY <1>0, <1>2 DEF IInv, TypeOK, OneAtWork, SerialInv, NoneRunning, Agree,
                        OnlyUpdates, GoTo, Working
    <2> QED
      BY <2>1, <2>2, <2>3, <2>4 DEF IInv
  <1> QED
    BY <1>1, <1>2 DEF FindUser

\* A step from work to work or to an answer that leaves both stores, the log and
\* the claims alone.
LEMMA MovesOn ==
  ASSUME IInv, NEW q \in Requests, NEW step \in Steps,
         GoTo(q, step), pc[q] \in Working,
         \/ step = "failed"
         \/ pc[q] \in Holding /\ step = "backoff"
         \/ pc[q] \in Holding /\ step = "kcUpdate" /\ attempts'[q] < MaxAttempts,
         \A r \in Requests \ {q} : attempts'[r] = attempts[r],
         attempts' \in [Requests -> 0 .. MaxAttempts],
         UNCHANGED <<req, cancelled, read, saga, row, kc, put, overlapped>>
  PROVE  IInv'
  <1>1. TypeOK'
    BY DEF IInv, TypeOK, GoTo
  <1>2. \A r \in Requests : RequestInv(r)'
    BY DEF IInv, TypeOK, RequestInv, GoTo, Holding, Key
  <1>3. \A k \in Keys : SagaInv(k)'
    BY DEF IInv, SagaInv
  <1>4. ~overlapped' => /\ OneAtWork' /\ (\A r \in Requests : SerialInv(r)')
                        /\ (NoneRunning => Agree)'
    BY DEF IInv, TypeOK, OneAtWork, SerialInv, NoneRunning, Agree, OnlyUpdates,
           GoTo, Working, Holding
  <1> QED
    BY <1>1, <1>2, <1>3, <1>4 DEF IInv

\* Claiming a free key: its row is this request's and RUNNING.
LEMMA InsertSagaInv ==
  ASSUME IInv, NEW q \in Requests, InsertSaga(q)
  PROVE  IInv'
  <1>0. /\ TypeOK /\ pc[q] = "insertSaga" /\ req[q].op = "UPDATE_USER"
        /\ UNCHANGED <<req, cancelled, attempts, read, row, kc, put, overlapped>>
    BY DEF IInv, RequestInv, InsertSaga, realm
  <1>1. CASE saga' = saga /\ GoTo(q, "failed")
    BY <1>0, <1>1, MovesOn DEF Steps, Working, Answered, TypeOK
  <1>2. CASE /\ KeyFree(q) /\ saga' = [saga EXCEPT ![Key(q)] = SagaRow(q, "RUNNING")]
             /\ GoTo(q, "kcUpdate") \/ GoTo(q, "failed")
    <2>1. /\ SagaRow(q, "RUNNING") \in SagaRows /\ SagaRow(q, "RUNNING") # Null
          /\ SagaRow(q, "RUNNING").owner = q
          /\ SagaRow(q, "RUNNING").state = "RUNNING"
          /\ Key(q) \in Keys
          /\ saga[Key(q)] = Null
      BY <1>0, <1>2, SagaRowType DEF KeyFree
    <2>2. TypeOK'
      BY <1>0, <1>2, <2>1 DEF TypeOK, GoTo, Steps, Working, Answered
    <2>3. \A r \in Requests : RequestInv(r)'
      <3> TAKE r \in Requests
      <3>1. CASE r = q
        BY <1>0, <1>2, <2>1, <3>1 DEF IInv, TypeOK, RequestInv, GoTo, Holding, Key
      <3>2. CASE r # q
        BY <1>0, <1>2, <2>1, <3>2 DEF IInv, TypeOK, RequestInv, GoTo, Holding, Key
      <3> QED
        BY <3>1, <3>2
    <2>4. \A k \in Keys : SagaInv(k)'
      BY <1>0, <1>2, <2>1 DEF IInv, TypeOK, SagaInv
    <2>5. ~overlapped' => OneAtWork' /\ \A r \in Requests : SerialInv(r)'
      BY <1>0, <1>2 DEF IInv, TypeOK, OneAtWork, SerialInv, GoTo, Working
    <2>6. ~NoneRunning'
      BY <1>0, <1>2, <2>1 DEF TypeOK, NoneRunning
    <2> QED
      BY <2>2, <2>3, <2>4, <2>5, <2>6 DEF IInv
  <1> QED
    BY <1>1, <1>2 DEF InsertSaga

\* Reaching Keycloak happens under a saga of one's own that is RUNNING.
LEMMA KcUpdateInv ==
  ASSUME IInv, NEW q \in Requests, KcUpdate(q)
  PROVE  IInv'
  <1>0. /\ TypeOK /\ pc[q] = "kcUpdate" /\ req[q].op = "UPDATE_USER"
        /\ Key(q) \in Keys
        /\ saga[Key(q)] # Null /\ saga[Key(q)].owner = q
        /\ saga[Key(q)].state = "RUNNING" /\ attempts[q] < MaxAttempts
        /\ UNCHANGED <<req, cancelled, read, saga, row, overlapped>>
    BY SagaRowType DEF IInv, RequestInv, Holding, KcUpdate, db
  <1>1. /\ attempts' \in [Requests -> 0 .. MaxAttempts]
        /\ \A r \in Requests \ {q} : attempts'[r] = attempts[r]
    BY <1>0 DEF KcUpdate, TypeOK, MaxAttempts
  <1>2. CASE UNCHANGED <<kc, put>> /\ GoTo(q, "backoff")
    BY <1>0, <1>1, <1>2, MovesOn DEF Steps, Working, Holding
  <1>3. CASE /\ kc' = req[q].body /\ put' = put \cup {q}
             /\ GoTo(q, "commit") \/ GoTo(q, "backoff")
    <2>1. TypeOK'
      <3>1. req[q].body \in Rows
        BY <1>0 DEF TypeOK, Forms
      <3> QED
        BY <1>0, <1>1, <1>3, <3>1 DEF TypeOK, GoTo, Steps, Working
    <2>2. \A r \in Requests : RequestInv(r)'
      BY <1>0, <1>1, <1>3 DEF IInv, TypeOK, RequestInv, GoTo, Holding, Key
    <2>3. \A k \in Keys : SagaInv(k)'
      BY <1>0, <1>3 DEF IInv, SagaInv
    <2>4. ~overlapped' => OneAtWork' /\ \A r \in Requests : SerialInv(r)'
      BY <1>0, <1>3 DEF IInv, TypeOK, OneAtWork, SerialInv, GoTo, Working
    <2>5. ~NoneRunning'
      BY <1>0 DEF NoneRunning
    <2> QED
      BY <2>1, <2>2, <2>3, <2>4, <2>5 DEF IInv
  <1> QED
    BY <1>2, <1>3 DEF KcUpdate, realm

\* A retry keeps the claim and counts what was tried; a last error ends it.
LEMMA BackoffInv ==
  ASSUME IInv, NEW q \in Requests, Backoff(q)
  PROVE  IInv'
  <1>0. /\ TypeOK /\ pc[q] = "backoff"
        /\ UNCHANGED <<req, cancelled, attempts, read, saga, row, kc, put, overlapped>>
    BY DEF IInv, Backoff, db, realm
  <1>1. (GoTo(q, "kcUpdate") /\ attempts[q] < MaxAttempts) \/ GoTo(q, "failed")
    BY DEF Backoff, MayRetry, Retry, GivenUp
  <1> QED
    BY <1>0, <1>1, MovesOn DEF TypeOK, Steps, Working, Answered, Holding

\* Committing an update under its own claim, after Keycloak has applied it; a
\* request that was alone leaves both stores with what it asked for.
LEMMA CommitInv ==
  ASSUME IInv, NEW q \in Requests, Commit(q)
  PROVE  IInv'
  <1>0. /\ TypeOK /\ pc[q] = "commit" /\ q \in put
        /\ saga[Key(q)] # Null /\ saga[Key(q)].owner = q
        /\ UNCHANGED <<req, cancelled, attempts, read, kc, put, overlapped>>
    BY DEF IInv, RequestInv, Holding, Commit, realm
  <1>1. CASE UNCHANGED <<saga, row>> /\ GoTo(q, "failed")
    BY <1>0, <1>1, MovesOn DEF TypeOK, Steps, Working, Answered
  <1>2. CASE /\ row' = Changes(q)
             /\ saga' = [saga EXCEPT ![Key(q)] = SagaRow(q, "COMMITTED")]
             /\ GoTo(q, "done") \/ GoTo(q, "failed")
    <2>1. /\ SagaRow(q, "COMMITTED") \in SagaRows /\ SagaRow(q, "COMMITTED") # Null
          /\ SagaRow(q, "COMMITTED").owner = q
          /\ Key(q) \in Keys
          /\ req[q].body \in Rows /\ read[q] \in Rows
      BY <1>0, SagaRowType DEF TypeOK, Forms
    <2>2. row' \in Rows
      BY <1>0, <1>2, <2>1 DEF TypeOK, Changes, Rows
    <2>3. TypeOK'
      BY <1>0, <1>2, <2>1, <2>2 DEF TypeOK, GoTo, Steps, Answered
    <2>4. \A r \in Requests : RequestInv(r)'
      <3> TAKE r \in Requests
      <3>1. CASE Key(r) = Key(q) /\ r # q
        BY <1>0, <1>2, <2>1, <3>1 DEF IInv, TypeOK, RequestInv, GoTo, Holding, Key
      <3>2. CASE Key(r) # Key(q)
        BY <1>0, <1>2, <2>1, <3>2 DEF IInv, TypeOK, RequestInv, GoTo, Holding, Key
      <3>3. CASE r = q
        BY <1>0, <1>2, <2>1, <3>3 DEF IInv, TypeOK, RequestInv, GoTo, Holding, Key
      <3> QED
        BY <3>1, <3>2, <3>3
    <2>5. \A k \in Keys : SagaInv(k)'
      BY <1>0, <1>2, <2>1 DEF IInv, TypeOK, SagaInv
    <2>6. ASSUME ~overlapped'
          PROVE  OneAtWork' /\ (\A r \in Requests : SerialInv(r)') /\ Agree'
      <3>1. /\ OneAtWork /\ read[q] = row /\ kc = req[q].body
        BY <1>0, <2>6 DEF IInv, SerialInv, Working
      <3>2. OneAtWork' /\ \A r \in Requests : SerialInv(r)'
        BY <1>0, <1>2, <3>1 DEF TypeOK, OneAtWork, SerialInv, GoTo, Working
      <3>3. row'.email = req[q].body.email
        BY <1>2, <3>1 DEF Changes
      <3>4. row'.active = req[q].body.active
        BY <1>2, <3>1 DEF Changes
      <3> QED
        BY <1>0, <3>1, <3>2, <3>3, <3>4 DEF Agree
    <2> QED
      BY <2>3, <2>4, <2>5, <2>6 DEF IInv
  <1> QED
    BY <1>1, <1>2 DEF Commit, db

\* A deactivation touches the flag only, and shows in the log as what it is.
LEMMA DeactivateInv ==
  ASSUME IInv, NEW q \in Requests, Deactivate(q)
  PROVE  IInv'
  <1>0. /\ TypeOK /\ pc[q] = "deactivate" /\ req[q].op = "DEACTIVATE_USER"
        /\ UNCHANGED <<req, cancelled, attempts, read, kc, put, overlapped>>
    BY DEF IInv, RequestInv, Deactivate, realm
  <1>1. CASE UNCHANGED <<saga, row>> /\ GoTo(q, "failed")
    BY <1>0, <1>1, MovesOn DEF TypeOK, Steps, Working, Answered
  <1>2. CASE /\ KeyFree(q)
             /\ row' = [row EXCEPT !.active = FALSE] \/ row' = row
             /\ saga' = [saga EXCEPT ![Key(q)] = SagaRow(q, "COMMITTED")]
             /\ GoTo(q, "done") \/ GoTo(q, "failed")
    <2>1. /\ SagaRow(q, "COMMITTED") \in SagaRows /\ SagaRow(q, "COMMITTED") # Null
          /\ SagaRow(q, "COMMITTED").owner = q
          /\ SagaRow(q, "COMMITTED").op = "DEACTIVATE_USER"
          /\ Key(q) \in Keys /\ saga[Key(q)] = Null
      BY <1>0, <1>2, SagaRowType DEF KeyFree
    <2>2. row' \in Rows /\ row'.email = row.email
      BY <1>0, <1>2 DEF TypeOK, Rows
    <2>3. TypeOK'
      BY <1>0, <1>2, <2>1, <2>2 DEF TypeOK, GoTo, Steps, Answered
    <2>4. \A r \in Requests : RequestInv(r)'
      BY <1>0, <1>2, <2>1 DEF IInv, TypeOK, RequestInv, GoTo, Holding, Key
    <2>5. \A k \in Keys : SagaInv(k)'
      BY <1>0, <1>2, <2>1 DEF IInv, TypeOK, SagaInv
    <2>6. ASSUME ~overlapped'
          PROVE  OneAtWork' /\ (\A r \in Requests : SerialInv(r)') /\ (NoneRunning => Agree)'
      <3>1. OneAtWork
        BY <1>0, <2>6 DEF IInv
      <3>2. OneAtWork' /\ \A r \in Requests : SerialInv(r)'
        BY <1>0, <1>2, <3>1 DEF TypeOK, OneAtWork, SerialInv, GoTo, Working
      <3>3. ~OnlyUpdates'
        BY <1>0, <1>2, <2>1 DEF TypeOK, OnlyUpdates
      <3>4. NoneRunning' => NoneRunning
        BY <1>0, <1>2, <2>1 DEF TypeOK, NoneRunning
      <3> QED
        BY <1>0, <2>2, <2>6, <3>2, <3>3, <3>4 DEF IInv, Agree
    <2> QED
      BY <2>3, <2>4, <2>5, <2>6 DEF IInv
  <1> QED
    BY <1>1, <1>2 DEF Deactivate, db

\* A client that goes away changes nothing but its token.
LEMMA DisconnectInv ==
  ASSUME IInv, NEW q \in Requests, Disconnect(q)
  PROVE  IInv'
  <1>0. /\ TypeOK
        /\ UNCHANGED <<pc, req, attempts, read, saga, row, kc, put, overlapped>>
        /\ cancelled' = [cancelled EXCEPT ![q] = TRUE]
    BY DEF IInv, Disconnect, db, realm
  <1>1. cancelled' \in [Requests -> BOOLEAN]
    BY <1>0 DEF TypeOK
  <1>2. TypeOK'
    BY <1>0, <1>1 DEF TypeOK
  <1> QED
    BY <1>0, <1>2 DEF IInv, RequestInv, SagaInv, OneAtWork, SerialInv, NoneRunning,
                      Agree, OnlyUpdates, Key

\* A crash leaves every claim and every row as it is.
LEMMA CrashInv == ASSUME IInv, Crash PROVE IInv'
  <1>0. /\ TypeOK
        /\ UNCHANGED <<req, cancelled, attempts, read, saga, row, kc, put, overlapped>>
        /\ pc' = [r \in Requests |-> IF pc[r] \in Working THEN "crashed" ELSE pc[r]]
    BY DEF IInv, Crash, db, realm
  <1>1. TypeOK'
    BY <1>0 DEF TypeOK, Steps
  <1>2. \A r \in Requests : RequestInv(r)'
    BY <1>0 DEF IInv, RequestInv, Holding, Working, Key
  <1>3. \A k \in Keys : SagaInv(k)'
    BY <1>0 DEF IInv, SagaInv
  <1>4. OneAtWork' /\ \A r \in Requests : SerialInv(r)'
    BY <1>0 DEF OneAtWork, SerialInv, Working
  <1>5. ~overlapped' => (NoneRunning => Agree)'
    BY <1>0 DEF IInv, NoneRunning, Agree, OnlyUpdates
  <1> QED
    BY <1>1, <1>2, <1>3, <1>4, <1>5 DEF IInv

-----------------------------------------------------------------------------

\* IInv holds in every reachable state.
THEOREM Invariance == Spec => []IInv
  <1>1. Init => IInv
    BY InitInv
  <1>2. IInv /\ [Next]_vars => IInv'
    <2> SUFFICES ASSUME IInv, [Next]_vars PROVE IInv'
      OBVIOUS
    <2>1. CASE \E r \in Requests : FindUser(r) \/ Handle(r) \/ Disconnect(r)
      BY <2>1, FindUserInv, InsertSagaInv, KcUpdateInv, BackoffInv, CommitInv,
         DeactivateInv, DisconnectInv
      DEF Handle
    <2>2. CASE Crash
      BY <2>2, CrashInv
    <2>3. CASE UNCHANGED vars
      BY <2>3 DEF vars, IInv, TypeOK, RequestInv, SagaInv, OneAtWork, SerialInv,
                  NoneRunning, Agree, OnlyUpdates, Key
    <2> QED
      BY <2>1, <2>2, <2>3 DEF Next, AllDone
  <1> QED
    BY <1>1, <1>2, PTL DEF Spec

\* Every variable keeps its type; no request counts a fourth attempt.
THEOREM TypeCorrect == Spec => []TypeOK
  BY Invariance, PTL DEF IInv

\* An update that saga_log calls COMMITTED has been applied by Keycloak.
THEOREM CommittedUpdatesWerePut == Spec => []CommittedWasPut
  <1>1. IInv => CommittedWasPut
    BY DEF IInv, SagaInv, CommittedWasPut, Log
  <1> QED
    BY <1>1, Invariance, PTL

\* Of the requests that share a key, one at most ever takes effect.
THEOREM KeysTakeEffectOnce == Spec => []KeyTakesEffectOnce
  <1>1. IInv => KeyTakesEffectOnce
    BY DEF IInv, RequestInv, KeyTakesEffectOnce
  <1> QED
    BY <1>1, Invariance, PTL

\* When requests came one at a time and no saga is RUNNING, the stores agree,
\* whatever was retried, lost or left by a crash.
THEOREM SerialAgreement == Spec => []SettledSerialAgrees
  <1>1. IInv => SettledSerialAgrees
    <2> SUFFICES ASSUME IInv, ~overlapped, \A s \in Log : s.state = "COMMITTED"
                 PROVE  /\ row.email = kc.email
                        /\ (\A s \in Log : s.op = "UPDATE_USER") => row.active = kc.active
      BY DEF SettledSerialAgrees
    <2>1. NoneRunning
      BY DEF NoneRunning, Log
    <2>2. Agree
      BY <2>1 DEF IInv
    <2>3. (\A s \in Log : s.op = "UPDATE_USER") => OnlyUpdates
      BY DEF OnlyUpdates, Log
    <2> QED
      BY <2>2, <2>3 DEF Agree
  <1> QED
    BY <1>1, Invariance, PTL

\* Only a request that saw the user inactive and asks for active reactivates it.
THEOREM StaleUpdatesDoNotReactivate == Spec => StaleUpdateKeepsDeactivation
  <1> DEFINE Reactivates(r) == /\ pc[r] = "commit" /\ pc'[r] # "commit"
                               /\ ~read[r].active /\ req[r].body.active
             OnlyOnPurpose == ~row.active /\ row'.active => \E r \in Requests : Reactivates(r)
  <1>1. IInv /\ [Next]_vars => [OnlyOnPurpose]_vars
    <2> SUFFICES ASSUME IInv, Next, ~row.active, row'.active
                 PROVE  \E r \in Requests : Reactivates(r)
      OBVIOUS
    <2>0. TypeOK
      BY DEF IInv
    <2>1. row' # row
      OBVIOUS
    <2>2. PICK r \in Requests : Commit(r) \/ Deactivate(r)
      BY <2>1 DEF Next, FindUser, Handle, InsertSaga, KcUpdate, Backoff, Disconnect,
                  Crash, AllDone, vars, db
    <2>3. CASE Commit(r)
      <3>1. row' = Changes(r) /\ (GoTo(r, "done") \/ GoTo(r, "failed"))
        BY <2>1, <2>3 DEF Commit, db
      <3>2. /\ read[r].active \in BOOLEAN /\ req[r].body.active \in BOOLEAN
            /\ pc' = [pc EXCEPT ![r] = "done"] \/ pc' = [pc EXCEPT ![r] = "failed"]
        BY <2>0, <3>1 DEF TypeOK, Forms, Rows, GoTo
      <3>3. req[r].body.active # read[r].active /\ req[r].body.active
        BY <3>1 DEF Changes
      <3> QED
        BY <2>0, <2>3, <3>2, <3>3 DEF Commit, TypeOK
    <2>4. CASE Deactivate(r)
      BY <2>0, <2>1, <2>4 DEF Deactivate, db, TypeOK, Rows
    <2> QED
      BY <2>2, <2>3, <2>4
  <1> QED
    BY <1>1, Invariance, PTL DEF Spec, StaleUpdateKeepsDeactivation
=============================================================================

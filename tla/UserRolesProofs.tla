-------------------------- MODULE UserRolesProofs --------------------------
(***************************************************************************)
(* Proofs about UserRoles, for any requests, keys, roles and faults.       *)
(*                                                                         *)
(* The argument: what a request wants was held when it read the rows or    *)
(* is what it assigns, so no store ever gets a role nobody granted.  When  *)
(* requests come one at a time, each call finds what the last one left,    *)
(* and the saga stays RUNNING until both stores hold what was wanted.      *)
(***************************************************************************)
EXTENDS UserRoles, TLAPS

\* The steps that make another attempt's calls to Keycloak.
Calling == {"kcRead", "kcClear", "kcAdd"}

\* The steps of a request that holds its key.
Holding == Calling \cup {"backoff", "loadRows", "saveRows"}

RequestInv(r) ==
    /\ pc[r] \in Calling \cup {"begin", "insertSaga"} => attempts[r] < MaxAttempts
    /\ pc[r] \in Holding => /\ saga[Key(r)] # Null /\ saga[Key(r)].owner = r
                            /\ saga[Key(r)].state = "RUNNING"
    /\ wanted[r] \subseteq granted

NoneRunning == \A k \in Keys : saga[k] # Null => saga[k].state = "COMMITTED"

OneAtWork == \A r, s \in Requests : pc[r] \in Working /\ pc[s] \in Working => r = s

\* What each call finds as long as requests come one at a time.
SerialInv(r) ==
    /\ pc[r] = "kcClear" => seen[r] = mapped
    /\ pc[r] = "kcAdd" => mapped = {}
    /\ pc[r] \in {"loadRows", "saveRows"} => mapped = wanted[r] \cap KcRoles
    /\ pc[r] = "saveRows" => seen[r] = userRoles

Agree == mapped = userRoles \cap KcRoles

IInv ==
    /\ TypeOK
    /\ \A r \in Requests : RequestInv(r)
    /\ OnlyGrantedRoles
    /\ ~overlapped => /\ OneAtWork
                      /\ \A r \in Requests : SerialInv(r)
                      /\ NoneRunning => Agree

-----------------------------------------------------------------------------

\* Before any request begins nothing is claimed and the stores are alike.
LEMMA InitInv == Init => IInv
  <1> SUFFICES ASSUME Init PROVE IInv
    OBVIOUS
  <1>1. TypeOK
    <2>1. overlapped \in BOOLEAN
      BY DEF Init
    <2>2. /\ userRoles \subseteq Roles /\ mapped \subseteq KcRoles
          /\ granted \subseteq Roles
      BY DEF Init
    <2> QED
      BY <2>1, <2>2 DEF Init, TypeOK, Steps, MaxAttempts
  <1>2. \A r \in Requests : RequestInv(r)
    BY DEF Init, RequestInv, Calling, Holding, MaxAttempts
  <1>3. OnlyGrantedRoles
    BY DEF Init, OnlyGrantedRoles
  <1>4. OneAtWork /\ (\A r \in Requests : SerialInv(r)) /\ Agree
    BY DEF Init, OneAtWork, SerialInv, Agree, Working
  <1> QED
    BY <1>1, <1>2, <1>3, <1>4 DEF IInv

\* The row a request writes.
LEMMA SagaRowType ==
  ASSUME TypeOK, NEW r \in Requests, NEW state \in {"RUNNING", "COMMITTED"}
  PROVE  /\ SagaRow(r, state) \in SagaRows
         /\ SagaRow(r, state) # Null
         /\ SagaRow(r, state).owner = r
         /\ SagaRow(r, state).state = state
         /\ Key(r) \in Keys
  <1>1. req[r] \in Forms /\ attempts[r] \in 0 .. MaxAttempts
    BY DEF TypeOK
  <1>2. SagaRow(r, state) \in SagaRows
    BY <1>1 DEF SagaRow, SagaRows
  <1> QED
    BY <1>1, <1>2, NullAssumption DEF SagaRow, Key, Forms

\* A step that ends in failure and leaves both stores and the log alone.
LEMMA Fails ==
  ASSUME IInv, NEW q \in Requests, GoTo(q, "failed"),
         UNCHANGED <<req, cancelled, attempts, wanted, seen, saga, userRoles,
                     mapped, overlapped, granted>>
  PROVE  IInv'
  <1>1. TypeOK'
    BY DEF IInv, TypeOK, GoTo, Steps, Answered
  <1>2. \A r \in Requests : RequestInv(r)'
    BY DEF IInv, TypeOK, RequestInv, GoTo, Calling, Holding, Key
  <1>3. OnlyGrantedRoles'
    BY DEF IInv, OnlyGrantedRoles
  <1>4. ~overlapped' => /\ OneAtWork' /\ (\A r \in Requests : SerialInv(r)')
                        /\ (NoneRunning => Agree)'
    BY DEF IInv, TypeOK, OneAtWork, SerialInv, NoneRunning, Agree, GoTo, Working
  <1> QED
    BY <1>1, <1>2, <1>3, <1>4 DEF IInv

\* A request wants roles that are held now or that it assigns itself.
LEMMA BeginInv ==
  ASSUME IInv, NEW q \in Requests, Begin(q)
  PROVE  IInv'
  <1>0. /\ TypeOK /\ pc[q] = "begin"
        /\ UNCHANGED <<req, cancelled, attempts, seen, saga, userRoles, mapped>>
    BY DEF IInv, Begin, db
  <1>1. CASE GoTo(q, "failed") /\ UNCHANGED <<wanted, history>>
    BY <1>0, <1>1, Fails DEF history
  <1>2. CASE /\ wanted' = [wanted EXCEPT ![q] = RoleIds(q) \cap LiveRoles]
             /\ granted' = IF req[q].op = "assign"
                           THEN granted \cup {req[q].role} ELSE granted
             /\ overlapped' = (overlapped \/ \E s \in Requests : pc[s] \in Working)
             /\ GoTo(q, "insertSaga")
    <2>1. req[q].role \in Roles /\ userRoles \subseteq granted /\ userRoles \subseteq Roles
      BY <1>0 DEF IInv, OnlyGrantedRoles, TypeOK, Forms
    <2>2. /\ granted' \subseteq Roles /\ granted \subseteq granted'
          /\ RoleIds(q) \cap LiveRoles \subseteq Roles
          /\ RoleIds(q) \cap LiveRoles \subseteq granted'
      BY <1>0, <1>2, <2>1 DEF RoleIds, TypeOK
    <2>3. TypeOK'
      <3>1. overlapped' \in BOOLEAN
        BY <1>2
      <3> QED
        BY <1>0, <1>2, <2>2, <3>1 DEF TypeOK, GoTo, Steps, Working
    <2>4. \A r \in Requests : RequestInv(r)'
      BY <1>0, <1>2, <2>2 DEF IInv, TypeOK, RequestInv, GoTo, Calling, Holding, Key
    <2>5. OnlyGrantedRoles'
      BY <1>0, <2>2 DEF IInv, OnlyGrantedRoles
    <2>6. ASSUME ~overlapped'
          PROVE  OneAtWork' /\ (\A r \in Requests : SerialInv(r)') /\ (NoneRunning => Agree)'
      <3>1. ~overlapped /\ \A s \in Requests : pc[s] \notin Working
        BY <1>2, <2>6
      <3>2. OneAtWork' /\ \A r \in Requests : SerialInv(r)'
        BY <1>0, <1>2, <3>1 DEF TypeOK, OneAtWork, SerialInv, GoTo, Working
      <3>3. (NoneRunning => Agree)'
        BY <1>0, <3>1 DEF IInv, NoneRunning, Agree
      <3> QED
        BY <3>2, <3>3
    <2> QED
      BY <2>3, <2>4, <2>5, <2>6 DEF IInv
  <1> QED
    BY <1>1, <1>2 DEF Begin

\* Claiming a free key: its row is this request's and RUNNING.
LEMMA InsertSagaInv ==
  ASSUME IInv, NEW q \in Requests, InsertSaga(q)
  PROVE  IInv'
  <1>0. /\ TypeOK /\ pc[q] = "insertSaga"
        /\ UNCHANGED <<req, cancelled, attempts, wanted, seen, userRoles, mapped,
                       overlapped, granted>>
    BY DEF IInv, InsertSaga, history
  <1>1. CASE saga' = saga /\ GoTo(q, "failed")
    BY <1>0, <1>1, Fails
  <1>2. CASE /\ KeyFree(q) /\ saga' = [saga EXCEPT ![Key(q)] = SagaRow(q, "RUNNING")]
             /\ GoTo(q, "kcRead") \/ GoTo(q, "failed")
    <2>1. /\ SagaRow(q, "RUNNING") \in SagaRows /\ SagaRow(q, "RUNNING") # Null
          /\ SagaRow(q, "RUNNING").owner = q
          /\ SagaRow(q, "RUNNING").state = "RUNNING"
          /\ Key(q) \in Keys /\ saga[Key(q)] = Null
      BY <1>0, <1>2, SagaRowType DEF KeyFree
    <2>2. TypeOK'
      BY <1>0, <1>2, <2>1 DEF TypeOK, GoTo, Steps, Working, Answered
    <2>3. \A r \in Requests : RequestInv(r)'
      <3> TAKE r \in Requests
      <3>1. CASE r = q
        BY <1>0, <1>2, <2>1, <3>1
        DEF IInv, TypeOK, RequestInv, GoTo, Calling, Holding, Key
      <3>2. CASE r # q
        BY <1>0, <1>2, <2>1, <3>2
        DEF IInv, TypeOK, RequestInv, GoTo, Calling, Holding, Key
      <3> QED
        BY <3>1, <3>2
    <2>4. OnlyGrantedRoles'
      BY <1>0 DEF IInv, OnlyGrantedRoles
    <2>5. ~overlapped' => OneAtWork' /\ \A r \in Requests : SerialInv(r)'
      BY <1>0, <1>2 DEF IInv, TypeOK, OneAtWork, SerialInv, GoTo, Working
    <2>6. ~NoneRunning'
      BY <1>0, <1>2, <2>1 DEF TypeOK, NoneRunning
    <2> QED
      BY <2>2, <2>3, <2>4, <2>5, <2>6 DEF IInv
  <1> QED
    BY <1>1, <1>2 DEF InsertSaga

-----------------------------------------------------------------------------

\* A request that holds its key keeps the log from being settled.
LEMMA HoldingIsRunning ==
  ASSUME IInv, NEW q \in Requests, pc[q] \in Holding
  PROVE  ~NoneRunning
  BY SagaRowType DEF IInv, RequestInv, NoneRunning

\* A call to Keycloak under a claim preserves IInv if it grants nothing, and if,
\* of a request alone, it leaves what the next call expects.
LEMMA KcCallInv ==
  ASSUME IInv, NEW q \in Requests, NEW step \in Holding,
         pc[q] \in Calling, GoTo(q, step),
         UNCHANGED <<req, cancelled, wanted, saga, userRoles, overlapped, granted>>,
         attempts' \in [Requests -> 0 .. MaxAttempts],
         \A r \in Requests : attempts'[r] # attempts[r] => r = q /\ step = "backoff",
         seen' \in [Requests -> SUBSET Roles],
         mapped' \subseteq mapped \cup (wanted[q] \cap KcRoles),
         ~overlapped => SerialInv(q)'
  PROVE  IInv'
  <1>0. TypeOK /\ wanted[q] \subseteq granted
    BY DEF IInv, RequestInv
  <1>1. mapped' \subseteq KcRoles /\ mapped' \subseteq granted
    BY <1>0 DEF IInv, OnlyGrantedRoles, TypeOK
  <1>2. TypeOK'
    BY <1>0, <1>1 DEF TypeOK, GoTo, Steps, Working, Holding, Calling
  <1>3. \A r \in Requests : RequestInv(r)'
    BY <1>0 DEF IInv, TypeOK, RequestInv, GoTo, Calling, Holding, Key
  <1>4. OnlyGrantedRoles'
    BY <1>1 DEF IInv, OnlyGrantedRoles
  <1>5. ~overlapped' => OneAtWork' /\ \A r \in Requests : SerialInv(r)'
    <2> SUFFICES ASSUME ~overlapped'
                 PROVE  OneAtWork' /\ \A r \in Requests : SerialInv(r)'
      OBVIOUS
    <2>1. OneAtWork
      BY DEF IInv
    <2>2. OneAtWork'
      BY <1>0, <2>1 DEF TypeOK, OneAtWork, GoTo, Working, Calling, Holding
    <2>3. \A r \in Requests \ {q} : pc'[r] \notin Working
      BY <1>0, <2>1 DEF TypeOK, OneAtWork, GoTo, Working, Calling
    <2> QED
      BY <2>2, <2>3 DEF SerialInv, Working
  <1>6. ~NoneRunning'
    BY HoldingIsRunning DEF NoneRunning, Holding
  <1> QED
    BY <1>2, <1>3, <1>4, <1>5, <1>6 DEF IInv

\* The first call to make is one the mappings at hand allow.
LEMMA NextCallRight ==
  ASSUME NEW q \in Requests, NEW current
  PROVE  /\ NextCall(q, current) \in {"kcClear", "kcAdd", "loadRows"}
         /\ NextCall(q, current) = "kcAdd" => current = {}
         /\ NextCall(q, current) = "loadRows" =>
              current = {} /\ wanted[q] \cap KcRoles = {}
         /\ NextCall(q, {}) # "kcClear"
  BY DEF NextCall

\* A failed call counts one attempt of the three.
LEMMA FailedAttemptCounts ==
  ASSUME IInv, NEW q \in Requests, pc[q] \in Calling, FailedAttempt(q)
  PROVE  /\ GoTo(q, "backoff")
         /\ attempts' \in [Requests -> 0 .. MaxAttempts]
         /\ \A r \in Requests : attempts'[r] # attempts[r] => r = q
  BY DEF IInv, TypeOK, RequestInv, FailedAttempt, MaxAttempts

\* Reading the mappings: alone, the request knows what is there.
LEMMA KcReadInv ==
  ASSUME IInv, NEW q \in Requests, KcRead(q)
  PROVE  IInv'
  <1>0. /\ TypeOK /\ pc[q] = "kcRead" /\ pc[q] \in Calling
        /\ UNCHANGED <<req, cancelled, wanted, saga, userRoles, mapped, overlapped, granted>>
        /\ mapped \subseteq Roles
    BY RolesAssumption DEF IInv, TypeOK, KcRead, Calling, db, history
  <1>1. CASE FailedAttempt(q) /\ UNCHANGED seen
    <2>1. SerialInv(q)'
      BY <1>0, <1>1, FailedAttemptCounts DEF TypeOK, SerialInv, GoTo
    <2> QED
      BY <1>0, <1>1, <2>1, FailedAttemptCounts, KcCallInv DEF TypeOK, Holding
  <1>2. CASE /\ seen' = [seen EXCEPT ![q] = mapped]
             /\ GoTo(q, NextCall(q, mapped)) /\ UNCHANGED attempts
    <2>1. SerialInv(q)'
      BY <1>0, <1>2, NextCallRight DEF TypeOK, SerialInv, GoTo
    <2>2. NextCall(q, mapped) \in Holding
      BY NextCallRight DEF Holding, Calling
    <2> QED
      BY <1>0, <1>2, <2>1, <2>2, KcCallInv DEF TypeOK
  <1> QED
    BY <1>1, <1>2 DEF KcRead

\* Deleting the mappings read: alone, that is all of them.
LEMMA KcClearInv ==
  ASSUME IInv, NEW q \in Requests, KcClear(q)
  PROVE  IInv'
  <1>0. /\ TypeOK /\ pc[q] = "kcClear" /\ pc[q] \in Calling
        /\ UNCHANGED <<req, cancelled, wanted, seen, saga, userRoles, overlapped, granted>>
        /\ mapped' \subseteq mapped
    BY DEF IInv, KcClear, Cleared, Calling, db, history
  <1>1. CASE FailedAttempt(q)
    <2>1. SerialInv(q)'
      BY <1>0, <1>1, FailedAttemptCounts DEF TypeOK, SerialInv, GoTo
    <2> QED
      BY <1>0, <1>1, <2>1, FailedAttemptCounts, KcCallInv DEF TypeOK, Holding
  <1>2. CASE mapped' = Cleared(q) /\ GoTo(q, NextCall(q, {})) /\ UNCHANGED attempts
    <2>1. ~overlapped => mapped' = {}
      BY <1>0, <1>2 DEF IInv, SerialInv, Cleared
    <2>2. ~overlapped => SerialInv(q)'
      BY <1>0, <1>2, <2>1, NextCallRight DEF TypeOK, SerialInv, GoTo
    <2>3. NextCall(q, {}) \in Holding
      BY NextCallRight DEF Holding, Calling
    <2> QED
      BY <1>0, <1>2, <2>2, <2>3, KcCallInv DEF TypeOK
  <1> QED
    BY <1>1, <1>2 DEF KcClear

\* Adding the wanted mappings: alone, they are then the only ones.
LEMMA KcAddInv ==
  ASSUME IInv, NEW q \in Requests, KcAdd(q)
  PROVE  IInv'
  <1>0. /\ TypeOK /\ pc[q] = "kcAdd" /\ pc[q] \in Calling
        /\ UNCHANGED <<req, cancelled, wanted, seen, saga, userRoles, overlapped, granted>>
        /\ mapped' \subseteq mapped \cup (wanted[q] \cap KcRoles)
    BY DEF IInv, KcAdd, Calling, db, history
  <1>1. CASE FailedAttempt(q)
    <2>1. SerialInv(q)'
      BY <1>0, <1>1, FailedAttemptCounts DEF TypeOK, SerialInv, GoTo
    <2> QED
      BY <1>0, <1>1, <2>1, FailedAttemptCounts, KcCallInv DEF TypeOK, Holding
  <1>2. CASE /\ mapped' = mapped \cup (wanted[q] \cap KcRoles)
             /\ GoTo(q, "loadRows") /\ UNCHANGED attempts
    <2>1. ~overlapped => SerialInv(q)'
      BY <1>0, <1>2 DEF IInv, TypeOK, SerialInv, GoTo
    <2> QED
      BY <1>0, <1>2, <2>1, KcCallInv DEF TypeOK, Holding
  <1> QED
    BY <1>1, <1>2 DEF KcAdd

\* A retry starts over from the mappings as they are; a last error ends it.
LEMMA BackoffInv ==
  ASSUME IInv, NEW q \in Requests, Backoff(q)
  PROVE  IInv'
  <1>0. /\ TypeOK /\ pc[q] = "backoff"
        /\ UNCHANGED <<req, cancelled, attempts, wanted, seen, saga, userRoles,
                       mapped, overlapped, granted>>
    BY DEF IInv, Backoff, db, history
  <1>1. CASE GoTo(q, "failed")
    BY <1>0, <1>1, Fails
  <1>2. CASE GoTo(q, "kcRead") /\ attempts[q] < MaxAttempts
    <2>1. TypeOK'
      BY <1>0, <1>2 DEF TypeOK, GoTo, Steps, Working
    <2>2. \A r \in Requests : RequestInv(r)'
      BY <1>0, <1>2 DEF IInv, TypeOK, RequestInv, GoTo, Calling, Holding, Key
    <2>3. OnlyGrantedRoles'
      BY <1>0 DEF IInv, OnlyGrantedRoles
    <2>4. ~overlapped' => /\ OneAtWork' /\ (\A r \in Requests : SerialInv(r)')
                          /\ (NoneRunning => Agree)'
      BY <1>0, <1>2 DEF IInv, TypeOK, OneAtWork, SerialInv, NoneRunning, Agree,
                        GoTo, Working
    <2> QED
      BY <2>1, <2>2, <2>3, <2>4 DEF IInv
  <1> QED
    BY <1>1, <1>2 DEF Backoff, MayRetry, GivenUp

-----------------------------------------------------------------------------

\* Loading the rows: alone, the request knows what is there.
LEMMA LoadRowsInv ==
  ASSUME IInv, NEW q \in Requests, LoadRows(q)
  PROVE  IInv'
  <1>0. /\ TypeOK /\ pc[q] = "loadRows"
        /\ UNCHANGED <<req, cancelled, attempts, wanted, saga, userRoles, mapped,
                       overlapped, granted>>
    BY DEF IInv, LoadRows, db, history
  <1>1. CASE GoTo(q, "failed") /\ UNCHANGED seen
    BY <1>0, <1>1, Fails
  <1>2. CASE seen' = [seen EXCEPT ![q] = userRoles] /\ GoTo(q, "saveRows")
    <2>1. TypeOK'
      BY <1>0, <1>2 DEF TypeOK, GoTo, Steps, Working
    <2>2. \A r \in Requests : RequestInv(r)'
      BY <1>0, <1>2 DEF IInv, TypeOK, RequestInv, GoTo, Calling, Holding, Key
    <2>3. OnlyGrantedRoles'
      BY <1>0 DEF IInv, OnlyGrantedRoles
    <2>4. ~overlapped' => OneAtWork' /\ \A r \in Requests : SerialInv(r)'
      BY <1>0, <1>2 DEF IInv, TypeOK, OneAtWork, SerialInv, GoTo, Working
    <2>5. ~overlapped' => (NoneRunning => Agree)'
      BY <1>0 DEF IInv, NoneRunning, Agree
    <2> QED
      BY <2>1, <2>2, <2>3, <2>4, <2>5 DEF IInv
  <1> QED
    BY <1>1, <1>2 DEF LoadRows

\* Saving the rows writes wanted roles only; alone, it writes all of them and
\* the stores agree again.
LEMMA SaveRowsInv ==
  ASSUME IInv, NEW q \in Requests, SaveRows(q)
  PROVE  IInv'
  <1>0. /\ TypeOK /\ pc[q] = "saveRows"
        /\ saga[Key(q)] # Null /\ saga[Key(q)].owner = q
        /\ wanted[q] \subseteq granted
        /\ UNCHANGED <<req, cancelled, attempts, wanted, seen, mapped, overlapped, granted>>
    BY DEF IInv, RequestInv, Holding, SaveRows, history
  <1>1. CASE UNCHANGED <<saga, userRoles>> /\ GoTo(q, "failed")
    BY <1>0, <1>1, Fails
  <1>2. CASE /\ userRoles' = (userRoles \ seen[q]) \cup wanted[q]
             /\ saga' = [saga EXCEPT ![Key(q)] = SagaRow(q, "COMMITTED")]
             /\ GoTo(q, "done") \/ GoTo(q, "failed")
    <2>1. /\ SagaRow(q, "COMMITTED") \in SagaRows /\ SagaRow(q, "COMMITTED") # Null
          /\ SagaRow(q, "COMMITTED").owner = q
          /\ Key(q) \in Keys
      BY <1>0, SagaRowType
    <2>2. TypeOK'
      BY <1>0, <1>2, <2>1 DEF TypeOK, GoTo, Steps, Answered
    <2>3. \A r \in Requests : RequestInv(r)'
      <3> TAKE r \in Requests
      <3>1. CASE r = q
        BY <1>0, <1>2, <3>1 DEF IInv, TypeOK, RequestInv, GoTo, Calling, Holding
      <3>2. CASE r # q /\ Key(r) = Key(q)
        BY <1>0, <1>2, <2>1, <3>2
        DEF IInv, TypeOK, RequestInv, GoTo, Calling, Holding, Key
      <3>3. CASE Key(r) # Key(q)
        BY <1>0, <1>2, <2>1, <3>3
        DEF IInv, TypeOK, RequestInv, GoTo, Calling, Holding, Key
      <3> QED
        BY <3>1, <3>2, <3>3
    <2>4. OnlyGrantedRoles'
      BY <1>0, <1>2 DEF IInv, OnlyGrantedRoles
    <2>5. ASSUME ~overlapped'
          PROVE  OneAtWork' /\ (\A r \in Requests : SerialInv(r)') /\ Agree'
      <3>1. /\ OneAtWork /\ mapped = wanted[q] \cap KcRoles /\ seen[q] = userRoles
        BY <1>0, <2>5 DEF IInv, SerialInv
      <3>2. OneAtWork' /\ \A r \in Requests : SerialInv(r)'
        BY <1>0, <1>2, <3>1 DEF TypeOK, OneAtWork, SerialInv, GoTo, Working
      <3>3. userRoles' = wanted[q]
        BY <1>2, <3>1
      <3> QED
        BY <1>0, <3>1, <3>2, <3>3 DEF Agree
    <2> QED
      BY <2>2, <2>3, <2>4, <2>5 DEF IInv
  <1> QED
    BY <1>1, <1>2 DEF SaveRows, db

-----------------------------------------------------------------------------

\* A client that goes away changes nothing but its token.
LEMMA DisconnectInv ==
  ASSUME IInv, NEW q \in Requests, Disconnect(q)
  PROVE  IInv'
  <1>0. /\ TypeOK
        /\ UNCHANGED <<pc, req, attempts, wanted, seen, saga, userRoles, mapped,
                       overlapped, granted>>
        /\ cancelled' = [cancelled EXCEPT ![q] = TRUE]
    BY DEF IInv, Disconnect, db, history
  <1>1. cancelled' \in [Requests -> BOOLEAN]
    BY <1>0 DEF TypeOK
  <1>2. TypeOK'
    BY <1>0, <1>1 DEF TypeOK
  <1> QED
    BY <1>0, <1>2 DEF IInv, RequestInv, OneAtWork, SerialInv, NoneRunning, Agree,
                      OnlyGrantedRoles, Key

\* A crash leaves every claim, every row and every mapping as it is.
LEMMA CrashInv == ASSUME IInv, Crash PROVE IInv'
  <1>0. /\ TypeOK
        /\ UNCHANGED <<req, cancelled, attempts, wanted, seen, saga, userRoles,
                       mapped, overlapped, granted>>
        /\ pc' = [r \in Requests |-> IF pc[r] \in Working THEN "crashed" ELSE pc[r]]
    BY DEF IInv, Crash, db, history
  <1>1. TypeOK'
    BY <1>0 DEF TypeOK, Steps
  <1>2. \A r \in Requests : RequestInv(r)'
    BY <1>0 DEF IInv, RequestInv, Calling, Holding, Working, Key
  <1>3. OnlyGrantedRoles'
    BY <1>0 DEF IInv, OnlyGrantedRoles
  <1>4. OneAtWork' /\ \A r \in Requests : SerialInv(r)'
    BY <1>0 DEF OneAtWork, SerialInv, Working
  <1>5. ~overlapped' => (NoneRunning => Agree)'
    BY <1>0 DEF IInv, NoneRunning, Agree
  <1> QED
    BY <1>1, <1>2, <1>3, <1>4, <1>5 DEF IInv

-----------------------------------------------------------------------------

\* IInv holds in every reachable state.
THEOREM Invariance == Spec => []IInv
  <1>1. Init => IInv
    BY InitInv
  <1>2. IInv /\ [Next]_vars => IInv'
    <2> SUFFICES ASSUME IInv, [Next]_vars PROVE IInv'
      OBVIOUS
    <2>1. CASE \E r \in Requests : Begin(r) \/ Handle(r) \/ Disconnect(r)
      BY <2>1, BeginInv, InsertSagaInv, KcReadInv, KcClearInv, KcAddInv, BackoffInv,
         LoadRowsInv, SaveRowsInv, DisconnectInv
      DEF Handle
    <2>2. CASE Crash
      BY <2>2, CrashInv
    <2>3. CASE UNCHANGED vars
      BY <2>3 DEF vars, IInv, TypeOK, RequestInv, OneAtWork, SerialInv, NoneRunning,
                  Agree, OnlyGrantedRoles, Key
    <2> QED
      BY <2>1, <2>2, <2>3 DEF Next, AllDone
  <1> QED
    BY <1>1, <1>2, PTL DEF Spec

\* Every variable keeps its type; no request counts a fourth attempt.
THEOREM TypeCorrect == Spec => []TypeOK
  BY Invariance, PTL DEF IInv

\* No interleaving gives the user a role nobody granted, here or in Keycloak.
THEOREM NoRoleFromNowhere == Spec => []OnlyGrantedRoles
  BY Invariance, PTL DEF IInv

\* When requests came one at a time and no saga is RUNNING, the stores agree.
THEOREM SerialAgreement == Spec => []SettledSerialAgrees
  <1>1. IInv => SettledSerialAgrees
    <2> SUFFICES ASSUME IInv, ~overlapped, \A s \in Log : s.state = "COMMITTED"
                 PROVE  Agree
      BY DEF SettledSerialAgrees, Agree
    <2>1. NoneRunning
      BY DEF NoneRunning, Log
    <2> QED
      BY <2>1 DEF IInv
  <1> QED
    BY <1>1, Invariance, PTL
=============================================================================

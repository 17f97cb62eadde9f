------------------------- MODULE AuthSessionProofs -------------------------
(***************************************************************************)
(* Proofs about AuthSession, for any requests, logins, tokens and times.   *)
(*                                                                         *)
(* The argument: a session id belongs to one login for good, a login's sid *)
(* to itself and a minted id to the login of the token it was minted for.  *)
(* Sessions are saved under, and token keys point to, ids of their token's *)
(* own login only, and that outlives every overwrite, expiry and logout.   *)
(***************************************************************************)
EXTENDS AuthSession, TLAPS

\* The session id s is the login l's.
Belongs(s, l) ==
    \/ s \in Logins /\ s = l
    \/ s \in Requests /\ Token(s) # Null /\ l = LoginOf[Token(s)]

Verifying == {"readSession", "readToken", "readByToken", "validate",
              "saveSession", "saveToken"}

\* What a request knows at each step.
RequestInv(q) ==
    /\ pc[q] \in Verifying => Token(q) # Null
    /\ pc[q] \in {"readSession", "logoutRead", "logoutSession"} => req[q].sid # Null
    /\ pc[q] = "readByToken" =>
         found[q] \in Sids /\ Belongs(found[q], LoginOf[Token(q)])
    /\ claims[q] # Null =>
         Token(q) # Null /\ LoginOf[claims[q]] = LoginOf[Token(q)]

\* Whose the cached sessions and token keys are.
SessionInv(s) == sessions[s] # Null => Belongs(s, LoginOf[sessions[s].token])

TokenKeyInv(t) == tokenKeys[t] # Null => Belongs(tokenKeys[t].sid, LoginOf[t])

IInv ==
    /\ TypeOK
    /\ \A q \in Requests : RequestInv(q)
    /\ \A s \in Sids : SessionInv(s)
    /\ \A t \in Tokens : TokenKeyInv(t)
    /\ DeniedIsExpired

-----------------------------------------------------------------------------

\* With an empty cache and no request begun, IInv holds.
LEMMA InitInv == Init => IInv
  <1> SUFFICES ASSUME Init PROVE IInv
    OBVIOUS
  <1> USE TimesAssumption
  <1>1. TypeOK
    BY DEF Init, TypeOK, Steps
  <1>2. \A q \in Requests : RequestInv(q)
    BY DEF Init, RequestInv, Verifying
  <1>3. /\ \A s \in Sids : SessionInv(s)
        /\ \A t \in Tokens : TokenKeyInv(t)
    BY DEF Init, SessionInv, TokenKeyInv
  <1>4. DeniedIsExpired
    BY DEF Init, DeniedIsExpired
  <1> QED
    BY <1>1, <1>2, <1>3, <1>4 DEF IInv

\* The forms of requests: a token travels with its own login's sid or with none.
LEMMA OwnForm ==
  ASSUME TypeOK, NEW q \in Requests, Token(q) # Null
  PROVE  /\ Token(q) \in Tokens
         /\ LoginOf[Token(q)] \in Logins
         /\ req[q].sid # Null => req[q].sid = LoginOf[Token(q)]
         /\ Sid(q) \in Sids
         /\ Belongs(Sid(q), LoginOf[Token(q)])
  <1>1. req[q] \in Forms
    BY DEF TypeOK
  <1>2. Token(q) \in Tokens /\ LoginOf[Token(q)] \in Logins
    BY <1>1, TokensAssumption DEF Forms, Token
  <1>3. req[q].sid # Null => req[q].sid = LoginOf[Token(q)]
    BY <1>1 DEF Forms, Token
  <1> QED
    BY <1>2, <1>3 DEF Sid, Sids, Belongs

\* A cached session that answers a request of a login it belongs to is that
\* login's.
LEMMA SameLogin ==
  ASSUME TypeOK, NEW s \in Sids, NEW l \in Logins, NEW m \in Logins,
         Belongs(s, l), Belongs(s, m)
  PROVE  l = m
  BY SidsAssumption DEF Belongs, Sids

\* The time to live of a saved session is a positive number.
LEMMA TtlPositive ==
  ASSUME TypeOK, NEW t \in Tokens
  PROVE  Ttl(t) \in Nat /\ Ttl(t) > 0
  BY TokensAssumption, TimesAssumption DEF TypeOK, Ttl

\* A step that moves one request, leaves requests, cache and clock alone, and
\* keeps what that request knows, preserves IInv.
LEMMA OneMoves ==
  ASSUME IInv, NEW q \in Requests,
         TypeOK', RequestInv(q)',
         UNCHANGED <<now, req, redis>>,
         \A p \in Requests \ {q} : /\ pc'[p] = pc[p]
                                   /\ found'[p] = found[p]
                                   /\ claims'[p] = claims[p],
         pc'[q] = "denied" /\ Token(q) # Null => now > ExpOf[Token(q)] + Skew
  PROVE  IInv'
  <1>1. \A p \in Requests : RequestInv(p)'
    BY DEF IInv, RequestInv, Token, Belongs
  <1>2. /\ \A s \in Sids : SessionInv(s)'
        /\ \A t \in Tokens : TokenKeyInv(t)'
    BY DEF IInv, SessionInv, TokenKeyInv, redis, Belongs, Token
  <1>3. DeniedIsExpired'
    BY DEF IInv, DeniedIsExpired, Token
  <1> QED
    BY <1>1, <1>2, <1>3 DEF IInv

\* Beginning a request makes no call.
LEMMA BeginInv ==
  ASSUME IInv, NEW q \in Requests, Begin(q)
  PROVE  IInv'
  <1>1. TypeOK'
    BY DEF IInv, TypeOK, Begin, GoTo, Steps, Working, Answered, redis
  <1>2. RequestInv(q)'
    BY DEF IInv, TypeOK, RequestInv, Begin, GoTo, Verifying, Token, Belongs
  <1> QED
    BY <1>1, <1>2, OneMoves DEF IInv, TypeOK, Begin, GoTo, redis

\* A fresh session of the request's login answers it with that login's claims.
LEMMA AnswerFromInv ==
  ASSUME IInv, NEW q \in Requests, NEW s \in Sids, NEW onMiss \in {"readToken", "validate"},
         pc[q] \in {"readSession", "readByToken"},
         Belongs(s, LoginOf[Token(q)]),
         AnswerFrom(q, sessions[s], onMiss),
         UNCHANGED <<now, req, found, ttl, redis>>
  PROVE  IInv'
  <1>0. /\ TypeOK /\ Token(q) # Null /\ SessionInv(s)
        /\ sessions[s] \in Sessions \cup {Null}
    BY DEF IInv, RequestInv, Verifying, TypeOK
  <1>1. Fresh(sessions[s]) => /\ sessions[s] # Null
                              /\ sessions[s].token \in Tokens
                              /\ LoginOf[sessions[s].token] = LoginOf[Token(q)]
    <2> SUFFICES ASSUME Fresh(sessions[s])
                 PROVE  /\ sessions[s] # Null
                        /\ sessions[s].token \in Tokens
                        /\ LoginOf[sessions[s].token] = LoginOf[Token(q)]
      OBVIOUS
    <2>1. sessions[s] # Null /\ sessions[s].token \in Tokens
      BY <1>0 DEF Fresh, Sessions
    <2>2. Belongs(s, LoginOf[sessions[s].token])
      BY <1>0, <2>1 DEF SessionInv
    <2>3. LoginOf[sessions[s].token] \in Logins /\ LoginOf[Token(q)] \in Logins
      BY <1>0, <2>1, OwnForm, TokensAssumption
    <2> QED
      BY <1>0, <2>1, <2>2, <2>3, SameLogin
  <1>2. TypeOK'
    BY <1>0, <1>1 DEF TypeOK, AnswerFrom, GoTo, Steps, Working, Answered, redis
  <1>3. RequestInv(q)'
    BY <1>0, <1>1 DEF IInv, TypeOK, RequestInv, AnswerFrom, GoTo, Verifying, Token
  <1> QED
    BY <1>0, <1>2, <1>3, OneMoves DEF TypeOK, AnswerFrom, GoTo

\* A request whose call failed, or that leaves its findings alone, only moves.
LEMMA MovesOn ==
  ASSUME IInv, NEW q \in Requests, NEW step \in Steps \ {"denied"},
         GoTo(q, step),
         pc[q] # "begin",
         step \in Verifying => pc[q] \in Verifying /\ step \notin {"readSession", "readByToken"},
         step \in {"logoutRead", "logoutSession"} =>
             pc[q] \in {"logoutRead", "logoutSession"},
         UNCHANGED <<now, req, found, claims, redis>>, ttl' \in [Requests -> Nat]
  PROVE  IInv'
  <1>1. TypeOK'
    BY DEF IInv, TypeOK, GoTo, redis
  <1>2. RequestInv(q)'
    BY DEF IInv, TypeOK, RequestInv, GoTo, Verifying, Token
  <1> QED
    BY <1>1, <1>2, OneMoves DEF IInv, TypeOK, GoTo

\* A session found by its id belongs to the request's login.
LEMMA ReadSessionInv ==
  ASSUME IInv, NEW q \in Requests, ReadSession(q)
  PROVE  IInv'
  <1>0. /\ TypeOK /\ Token(q) # Null /\ req[q].sid # Null /\ pc[q] = "readSession"
        /\ UNCHANGED <<now, req, found, ttl, redis>>
    BY DEF IInv, RequestInv, Verifying, ReadSession
  <1>1. req[q].sid \in Sids /\ Belongs(req[q].sid, LoginOf[Token(q)])
    BY <1>0, OwnForm DEF Sids, Belongs
  <1>2. CASE AnswerFrom(q, sessions[req[q].sid], "readToken")
    BY <1>0, <1>1, <1>2, AnswerFromInv
  <1>3. CASE GoTo(q, "failed") /\ UNCHANGED claims
    BY <1>0, <1>3, MovesOn DEF Steps, Working, Answered, Verifying, TypeOK
  <1> QED
    BY <1>2, <1>3 DEF ReadSession

\* A token key points to an id of the token's login.
LEMMA ReadTokenInv ==
  ASSUME IInv, NEW q \in Requests, ReadToken(q)
  PROVE  IInv'
  <1>0. /\ TypeOK /\ Token(q) # Null /\ pc[q] = "readToken"
        /\ UNCHANGED <<now, req, ttl, claims, redis>>
    BY DEF IInv, RequestInv, Verifying, ReadToken
  <1>1. CASE GoTo(q, "failed") /\ UNCHANGED found
    BY <1>0, <1>1, MovesOn DEF Steps, Working, Answered, Verifying, TypeOK
  <1>2. CASE GoTo(q, "validate") /\ UNCHANGED found
    BY <1>0, <1>2, MovesOn DEF Steps, Working, Answered, Verifying, TypeOK
  <1>3. CASE /\ tokenKeys[Token(q)] # Null
             /\ found' = [found EXCEPT ![q] = tokenKeys[Token(q)].sid]
             /\ GoTo(q, "readByToken")
    <2>1. Token(q) \in Tokens
      BY <1>0, OwnForm
    <2>2. tokenKeys[Token(q)].sid \in Sids
      BY <1>0, <1>3, <2>1 DEF TypeOK, TokenKeys
    <2>3. Belongs(tokenKeys[Token(q)].sid, LoginOf[Token(q)])
      BY <1>3, <2>1 DEF IInv, TokenKeyInv
    <2>4. TypeOK'
      BY <1>0, <1>3, <2>2 DEF TypeOK, GoTo, Steps, Working, redis
    <2>5. RequestInv(q)'
      BY <1>0, <1>3, <2>2, <2>3
      DEF IInv, TypeOK, RequestInv, GoTo, Verifying, Token, Belongs
    <2> QED
      BY <1>0, <1>3, <2>4, <2>5, OneMoves DEF TypeOK, GoTo
  <1> QED
    BY <1>1, <1>2, <1>3 DEF ReadToken

\* A session found by the token's hash belongs to the request's login.
LEMMA ReadByTokenInv ==
  ASSUME IInv, NEW q \in Requests, ReadByToken(q)
  PROVE  IInv'
  <1>0. /\ TypeOK /\ Token(q) # Null /\ pc[q] = "readByToken"
        /\ UNCHANGED <<now, req, found, ttl, redis>>
        /\ found[q] \in Sids /\ Belongs(found[q], LoginOf[Token(q)])
    BY DEF IInv, RequestInv, Verifying, ReadByToken
  <1>1. CASE AnswerFrom(q, sessions[found[q]], "validate")
    BY <1>0, <1>1, AnswerFromInv
  <1>2. CASE GoTo(q, "failed") /\ UNCHANGED claims
    BY <1>0, <1>2, MovesOn DEF Steps, Working, Answered, Verifying, TypeOK
  <1> QED
    BY <1>1, <1>2 DEF ReadByToken

\* The validation answers with the request's own token, or refuses an expired one.
LEMMA ValidateInv ==
  ASSUME IInv, NEW q \in Requests, Validate(q)
  PROVE  IInv'
  <1>0. /\ TypeOK /\ Token(q) # Null /\ pc[q] = "validate"
        /\ UNCHANGED <<now, req, found, ttl, redis>>
        /\ Token(q) \in Tokens
    BY OwnForm DEF IInv, RequestInv, Verifying, Validate
  <1>1. CASE claims' = [claims EXCEPT ![q] = Token(q)] /\ GoTo(q, "saveSession")
    <2>1. TypeOK'
      BY <1>0, <1>1 DEF TypeOK, GoTo, Steps, Working, redis
    <2>2. RequestInv(q)'
      BY <1>0, <1>1 DEF IInv, TypeOK, RequestInv, GoTo, Verifying, Token
    <2> QED
      BY <1>0, <1>1, <2>1, <2>2, OneMoves DEF TypeOK, GoTo
  <1>2. CASE ~Valid(Token(q)) /\ GoTo(q, "denied") /\ UNCHANGED claims
    <2>1. TypeOK'
      BY <1>0, <1>2 DEF TypeOK, GoTo, Steps, Answered, redis
    <2>2. RequestInv(q)'
      BY <1>0, <1>2 DEF IInv, TypeOK, RequestInv, GoTo, Verifying, Token
    <2>3. now > ExpOf[Token(q)] + Skew
      BY <1>0, <1>2, TokensAssumption, TimesAssumption DEF Valid, TypeOK
    <2> QED
      BY <1>0, <1>2, <2>1, <2>2, <2>3, OneMoves DEF TypeOK, GoTo
  <1>3. CASE GoTo(q, "undecided") /\ UNCHANGED claims
    BY <1>0, <1>3, MovesOn DEF Steps, Working, Answered, Verifying, TypeOK
  <1> QED
    BY <1>1, <1>2, <1>3 DEF Validate

\* Changing the cache and moving one request that keeps its findings preserves
\* IInv, if the new entries are where they belong.
LEMMA CacheWritten ==
  ASSUME IInv, NEW q \in Requests, NEW step \in {"saveToken", "allowed", "failed",
                                                 "logoutToken", "loggedOut"},
         GoTo(q, step),
         step = "saveToken" => pc[q] = "saveSession",
         UNCHANGED <<now, req, found, claims>>,
         TypeOK',
         \A s \in Sids : SessionInv(s)',
         \A t \in Tokens : TokenKeyInv(t)'
  PROVE  IInv'
  <1>1. \A p \in Requests : RequestInv(p)'
    BY DEF IInv, TypeOK, RequestInv, GoTo, Verifying, Token, Belongs
  <1>2. DeniedIsExpired'
    BY DEF IInv, TypeOK, DeniedIsExpired, GoTo, Token
  <1> QED
    BY <1>1, <1>2 DEF IInv

\* A session is saved under an id of its token's login.
LEMMA SaveSessionInv ==
  ASSUME IInv, NEW q \in Requests, SaveSession(q)
  PROVE  IInv'
  <1>0. /\ TypeOK /\ Token(q) # Null /\ pc[q] = "saveSession"
        /\ UNCHANGED <<now, req, found, claims, tokenKeys>>
        /\ Token(q) \in Tokens /\ Sid(q) \in Sids
        /\ Belongs(Sid(q), LoginOf[Token(q)])
    BY OwnForm DEF IInv, RequestInv, Verifying, SaveSession
  <1> DEFINE new == [token |-> Token(q), dies |-> now + Ttl(Token(q))]
  <1>1. new \in Sessions /\ ttl' \in [Requests -> Nat]
    BY <1>0, TtlPositive DEF Sessions, SaveSession, TypeOK
  <1>2. PICK step \in {"saveToken", "failed"} : GoTo(q, step)
    BY DEF SaveSession
  <1>3. sessions' = sessions \/ sessions' = [sessions EXCEPT ![Sid(q)] = new]
    BY DEF SaveSession
  <1>4. TypeOK'
    BY <1>0, <1>1, <1>2, <1>3 DEF TypeOK, GoTo, Steps, Working, Answered
  <1>5. \A s \in Sids : SessionInv(s)'
    BY <1>0, <1>3 DEF IInv, TypeOK, SessionInv, Belongs, Token
  <1>6. \A t \in Tokens : TokenKeyInv(t)'
    BY <1>0 DEF IInv, TokenKeyInv, Belongs, Token
  <1> QED
    BY <1>0, <1>2, <1>4, <1>5, <1>6, CacheWritten

\* A token key points to an id of the token's login.
LEMMA SaveTokenInv ==
  ASSUME IInv, NEW q \in Requests, SaveToken(q)
  PROVE  IInv'
  <1>0. /\ TypeOK /\ Token(q) # Null /\ pc[q] = "saveToken"
        /\ UNCHANGED <<now, req, found, ttl, claims, sessions>>
        /\ Token(q) \in Tokens /\ Sid(q) \in Sids
        /\ Belongs(Sid(q), LoginOf[Token(q)])
    BY OwnForm DEF IInv, RequestInv, Verifying, SaveToken
  <1> DEFINE new == [sid |-> Sid(q), dies |-> now + ttl[q]]
  <1>1. new \in TokenKeys
    BY <1>0 DEF TokenKeys, TypeOK
  <1>2. PICK step \in {"allowed", "failed"} : GoTo(q, step)
    BY DEF SaveToken
  <1>3. tokenKeys' = tokenKeys \/ tokenKeys' = [tokenKeys EXCEPT ![Token(q)] = new]
    BY DEF SaveToken
  <1>4. TypeOK'
    BY <1>0, <1>1, <1>2, <1>3 DEF TypeOK, GoTo, Steps, Working, Answered
  <1>5. \A s \in Sids : SessionInv(s)'
    BY <1>0 DEF IInv, SessionInv, Belongs, Token
  <1>6. \A t \in Tokens : TokenKeyInv(t)'
    BY <1>0, <1>3 DEF IInv, TypeOK, TokenKeyInv, Belongs, Token
  <1> QED
    BY <1>0, <1>2, <1>4, <1>5, <1>6, CacheWritten

\* Reading the session to log out changes nothing but the request.
LEMMA LogoutReadInv ==
  ASSUME IInv, NEW q \in Requests, LogoutRead(q)
  PROVE  IInv'
  <1>0. /\ TypeOK /\ pc[q] = "logoutRead" /\ req[q].sid # Null
        /\ UNCHANGED <<now, req, ttl, claims, redis>>
    BY DEF IInv, RequestInv, LogoutRead
  <1>1. req[q].sid \in Sids
    BY <1>0 DEF TypeOK, Forms, Sids
  <1>2. PICK f \in Tokens \cup {Null}, step \in {"logoutSession", "failed"} :
          GoTo(q, step) /\ (found' = [found EXCEPT ![q] = f] \/ UNCHANGED found)
    <2>1. CASE GoTo(q, "failed") /\ UNCHANGED found
      BY <2>1
    <2>2. CASE /\ found' = [found EXCEPT ![q] = IF sessions[req[q].sid] = Null THEN Null
                                                ELSE sessions[req[q].sid].token]
               /\ GoTo(q, "logoutSession")
      BY <1>0, <1>1, <2>2 DEF TypeOK, Sessions
    <2> QED
      BY <2>1, <2>2 DEF LogoutRead
  <1>3. TypeOK'
    BY <1>0, <1>2 DEF TypeOK, GoTo, Steps, Working, Answered, redis
  <1>4. RequestInv(q)'
    BY <1>0, <1>2 DEF IInv, TypeOK, RequestInv, GoTo, Verifying, Token
  <1> QED
    BY <1>0, <1>2, <1>3, <1>4, OneMoves DEF TypeOK, GoTo

\* Deleting a session disturbs nobody else's.
LEMMA LogoutSessionInv ==
  ASSUME IInv, NEW q \in Requests, LogoutSession(q)
  PROVE  IInv'
  <1>0. TypeOK /\ UNCHANGED <<now, req, found, ttl, claims, tokenKeys>>
    BY DEF IInv, LogoutSession
  <1>1. PICK step \in {"logoutToken", "loggedOut", "failed"} : GoTo(q, step)
    BY DEF LogoutSession
  <1>2. sessions' = sessions \/ sessions' = [sessions EXCEPT ![req[q].sid] = Null]
    BY DEF LogoutSession
  <1>3. TypeOK'
    BY <1>0, <1>1, <1>2 DEF TypeOK, GoTo, Steps, Working, Answered
  <1>4. \A s \in Sids : SessionInv(s)'
    BY <1>0, <1>2 DEF IInv, TypeOK, SessionInv, Belongs, Token
  <1>5. \A t \in Tokens : TokenKeyInv(t)'
    BY <1>0 DEF IInv, TokenKeyInv, Belongs, Token
  <1> QED
    BY <1>0, <1>1, <1>3, <1>4, <1>5, CacheWritten

\* Deleting a token key disturbs nobody else's.
LEMMA LogoutTokenInv ==
  ASSUME IInv, NEW q \in Requests, LogoutToken(q)
  PROVE  IInv'
  <1>0. TypeOK /\ UNCHANGED <<now, req, found, ttl, claims, sessions>>
    BY DEF IInv, LogoutToken
  <1>1. PICK step \in {"loggedOut", "failed"} : GoTo(q, step)
    BY DEF LogoutToken
  <1>2. tokenKeys' = tokenKeys \/ tokenKeys' = [tokenKeys EXCEPT ![found[q]] = Null]
    BY DEF LogoutToken
  <1>3. TypeOK'
    BY <1>0, <1>1, <1>2 DEF TypeOK, GoTo, Steps, Working, Answered
  <1>4. \A s \in Sids : SessionInv(s)'
    BY <1>0 DEF IInv, SessionInv, Belongs, Token
  <1>5. \A t \in Tokens : TokenKeyInv(t)'
    BY <1>0, <1>2 DEF IInv, TypeOK, TokenKeyInv, Belongs, Token
  <1> QED
    BY <1>0, <1>1, <1>3, <1>4, <1>5, CacheWritten

\* Time only drops keys, and what was expired stays so.
LEMMA TickInv == ASSUME IInv, Tick PROVE IInv'
  <1>0. TypeOK /\ UNCHANGED <<pc, req, found, ttl, claims>>
    BY DEF IInv, Tick
  <1>1. TypeOK'
    BY <1>0, TimesAssumption DEF TypeOK, Tick, Kept
  <1>2. \A q \in Requests : RequestInv(q)'
    BY <1>0 DEF IInv, RequestInv, Token, Belongs
  <1>3. \A s \in Sids : SessionInv(s)'
    BY <1>0 DEF IInv, SessionInv, Tick, Kept, Belongs, Token
  <1>4. \A t \in Tokens : TokenKeyInv(t)'
    BY <1>0 DEF IInv, TokenKeyInv, Tick, Kept, Belongs, Token
  <1>5. DeniedIsExpired'
    <2> SUFFICES ASSUME NEW q \in Requests, pc[q] = "denied", Token(q) # Null
                 PROVE  now' > ExpOf[Token(q)] + Skew
      BY <1>0 DEF DeniedIsExpired, Token
    <2>1. now > ExpOf[Token(q)] + Skew
      BY DEF IInv, DeniedIsExpired
    <2>2. ExpOf[Token(q)] \in Nat
      BY <1>0, OwnForm, TokensAssumption
    <2> QED
      BY <1>0, <2>1, <2>2, TimesAssumption DEF Tick, TypeOK
  <1> QED
    BY <1>1, <1>2, <1>3, <1>4, <1>5 DEF IInv

\* A stopped service leaves the cache as it is.
LEMMA CrashInv == ASSUME IInv, Crash PROVE IInv'
  <1>0. TypeOK /\ UNCHANGED <<now, req, found, ttl, claims, redis>>
    BY DEF IInv, Crash
  <1>1. TypeOK'
    BY <1>0 DEF TypeOK, Crash, Steps, redis
  <1>2. \A q \in Requests : RequestInv(q)'
    BY <1>0 DEF IInv, TypeOK, RequestInv, Crash, Verifying, Token, Belongs
  <1>3. /\ \A s \in Sids : SessionInv(s)'
        /\ \A t \in Tokens : TokenKeyInv(t)'
    BY <1>0 DEF IInv, SessionInv, TokenKeyInv, redis, Belongs, Token
  <1>4. DeniedIsExpired'
    BY <1>0 DEF IInv, TypeOK, DeniedIsExpired, Crash, Token
  <1> QED
    BY <1>1, <1>2, <1>3, <1>4 DEF IInv

-----------------------------------------------------------------------------

\* IInv holds in every reachable state, whatever Redis and the clock do.
THEOREM Invariance == Spec => []IInv
  <1>1. Init => IInv
    BY InitInv
  <1>2. IInv /\ [Next]_vars => IInv'
    <2> SUFFICES ASSUME IInv, [Next]_vars PROVE IInv'
      OBVIOUS
    <2>1. CASE \E q \in Requests : Begin(q) \/ Handle(q)
      BY <2>1, BeginInv, ReadSessionInv, ReadTokenInv, ReadByTokenInv, ValidateInv,
         SaveSessionInv, SaveTokenInv, LogoutReadInv, LogoutSessionInv,
         LogoutTokenInv
      DEF Handle
    <2>2. CASE Tick
      BY <2>2, TickInv
    <2>3. CASE Crash
      BY <2>3, CrashInv
    <2>4. CASE UNCHANGED vars
      BY <2>4 DEF vars, IInv, TypeOK, RequestInv, SessionInv, TokenKeyInv,
                  DeniedIsExpired, Token, Belongs
    <2> QED
      BY <2>1, <2>2, <2>3, <2>4 DEF Next, AllDone
  <1> QED
    BY <1>1, <1>2, PTL DEF Spec

\* Every variable keeps its type; no time to live is ever zero or negative.
THEOREM TypeCorrect == Spec => []TypeOK
  BY Invariance, PTL DEF IInv

\* No request is ever answered with another login's claims.
THEOREM AnswersAreOwn == Spec => []AnswerIsOwnLogin
  <1>1. IInv => AnswerIsOwnLogin
    BY DEF IInv, RequestInv, AnswerIsOwnLogin
  <1> QED
    BY <1>1, Invariance, PTL

\* A token is refused as invalid only after its lifetime and the skew.
THEOREM ValidIsNeverDenied == Spec => []DeniedIsExpired
  BY Invariance, PTL DEF IInv

\* No answer carries the claims of a token expired beyond the skew.
THEOREM AnswersAreFresh == Spec => AnswerIsFresh
  <1> DEFINE Decided == \A q \in Requests : claims'[q] # claims[q] =>
                            now <= ExpOf[claims'[q]] + Skew
  <1>1. IInv /\ [Next]_vars => [Decided]_vars
    <2> SUFFICES ASSUME IInv, Next, NEW q \in Requests, claims'[q] # claims[q]
                 PROVE  now <= ExpOf[claims'[q]] + Skew
      OBVIOUS
    <2>0. TypeOK
      BY DEF IInv
    <2>1. claims # claims'
      OBVIOUS
    <2>2. PICK p \in Requests : ReadSession(p) \/ ReadByToken(p) \/ Validate(p)
      BY <2>1 DEF Next, Begin, Handle, ReadToken, SaveSession, SaveToken, LogoutRead,
                  LogoutSession, LogoutToken, Tick, Crash, AllDone, vars
    <2>3. CASE Validate(p)
      <3>1. claims' = [claims EXCEPT ![p] = Token(p)] /\ Valid(Token(p))
        BY <2>1, <2>3 DEF Validate
      <3> QED
        BY <2>0, <3>1 DEF Valid, TypeOK
    <2>4. CASE ReadSession(p) \/ ReadByToken(p)
      <3>1. PICK s \in Sids : /\ claims' = [claims EXCEPT ![p] = sessions[s].token]
                              /\ Fresh(sessions[s])
        <4>1. CASE ReadSession(p)
          <5>1. req[p].sid \in Sids
            BY <2>0, <4>1 DEF IInv, RequestInv, ReadSession, TypeOK, Forms, Sids
          <5> QED
            BY <2>1, <4>1, <5>1 DEF ReadSession, AnswerFrom
        <4>2. CASE ReadByToken(p)
          <5>1. found[p] \in Sids
            BY <4>2 DEF IInv, RequestInv, ReadByToken
          <5> QED
            BY <2>1, <4>2, <5>1 DEF ReadByToken, AnswerFrom
        <4> QED
          BY <2>4, <4>1, <4>2
      <3>2. claims'[q] = sessions[s].token /\ sessions[s].token \in Tokens
        BY <2>0, <3>1 DEF Fresh, TypeOK, Sessions
      <3>3. ExpOf[sessions[s].token] \in Nat
        BY <3>2, TokensAssumption
      <3> QED
        BY <2>0, <3>1, <3>2, <3>3, TimesAssumption DEF Fresh, TypeOK
    <2> QED
      BY <2>2, <2>3, <2>4
  <1> QED
    BY <1>1, Invariance, PTL DEF Spec, AnswerIsFresh
=============================================================================

---------------------------- MODULE AuthSession ----------------------------
(***************************************************************************)
(* AuthService.Api: every API call is first verified here, against the     *)
(* sessions cached in Redis and, on a miss, by validating the bearer token *)
(* itself; a session can be logged out.  AuthVerificationService makes the *)
(* decisions, RedisSessionStore the separate Redis calls under them.       *)
(*                                                                         *)
(* Clients are the frontend's: a token travels with the session id of its  *)
(* own login (Keycloak's sid) or with none.  Time is a counter; Redis      *)
(* drops a key the moment its time to live is over.                        *)
(***************************************************************************)
EXTENDS Integers, FiniteSets

CONSTANTS
    Null,
    Requests,   \* verify and logout requests
    Logins,     \* Keycloak sessions, named by their sid
    Tokens,     \* access tokens; one login gets several, by refreshing
    LoginOf,    \* [Tokens -> Logins]
    ExpOf,      \* [Tokens -> Nat]  the exp claim
    Skew,       \* ClockSkew of the validation
    TtlMinutes, \* Session:TtlMinutes
    MaxTime,    \* bound of the clock
    Faults      \* redisRefused, redisReplyLost, jwksDown, crash

ASSUME TokensAssumption ==
    LoginOf \in [Tokens -> Logins] /\ ExpOf \in [Tokens -> Nat]

ASSUME TimesAssumption == Skew \in Nat /\ TtlMinutes \in Nat \ {0} /\ MaxTime \in Nat

\* A session id the service mints is a Guid of its own.
ASSUME SidsAssumption == Logins \cap Requests = {} /\ Null \notin Logins \cup Tokens \cup Requests

VARIABLES
    now,        \* the clocks of the service and of Redis
    pc,         \* [Requests -> Steps]
    req,        \* [Requests -> Forms]
    found,      \* [Requests -> Sids, Tokens or Null]  the result of an earlier read
    ttl,        \* [Requests -> Nat]  the time to live a save computed
    claims,     \* [Requests -> Tokens or Null]  whose claims the answer carries
    sessions,   \* [Sids -> Sessions or Null]  um:session:<id>
    tokenKeys   \* [Tokens -> TokenKeys or Null]  um:token:<hash>

vars == <<now, pc, req, found, ttl, claims, sessions, tokenKeys>>

redis == <<sessions, tokenKeys>>

-----------------------------------------------------------------------------

\* A session id of a login, or the Guid minted for a request that sent none.
Sids == Logins \cup Requests

\* A cached session: the token it was made from, and the end of its key.
Sessions == [token : Tokens, dies : Nat]

TokenKeys == [sid : Sids, dies : Nat]

ASSUME NullEntryAssumption == Null \notin Sessions \cup TokenKeys

Forms == { f \in [op : {"verify", "logout"}, token : Tokens \cup {Null},
                  sid : Logins \cup {Null}] :
             f.token # Null /\ f.sid # Null => f.sid = LoginOf[f.token] }

Working == {"readSession", "readToken", "readByToken", "validate", "saveSession",
            "saveToken", "logoutRead", "logoutSession", "logoutToken"}

\* undecided is a 401 too: the keys of the realm could not be fetched.
Answered == {"allowed", "denied", "undecided", "loggedOut", "failed"}

Steps == {"begin", "crashed"} \cup Working \cup Answered

TypeOK ==
    /\ now \in 0 .. MaxTime
    /\ pc \in [Requests -> Steps]
    /\ req \in [Requests -> Forms]
    /\ found \in [Requests -> Sids \cup Tokens \cup {Null}]
    /\ ttl \in [Requests -> Nat]
    /\ claims \in [Requests -> Tokens \cup {Null}]
    /\ sessions \in [Sids -> Sessions \cup {Null}]
    /\ tokenKeys \in [Tokens -> TokenKeys \cup {Null}]

Init ==
    /\ now = 0
    /\ pc = [q \in Requests |-> "begin"]
    /\ req \in [Requests -> Forms]
    /\ found = [q \in Requests |-> Null]
    /\ ttl = [q \in Requests |-> 0]
    /\ claims = [q \in Requests |-> Null]
    /\ sessions = [s \in Sids |-> Null]
    /\ tokenKeys = [t \in Tokens |-> Null]

-----------------------------------------------------------------------------

GoTo(q, step) == pc' = [pc EXCEPT ![q] = step]

Token(q) == req[q].token

\* Slip: a session saved without an id is saved under one shared id.
SharedSid(q) == IF req[q].sid = Null THEN CHOOSE p \in Requests : TRUE ELSE req[q].sid

\* The id a session is saved under.
Sid(q) == IF req[q].sid = Null THEN q ELSE req[q].sid

\* A Redis call is done and answered, done and the answer lost, or not done.
RedisOutcomes ==
    {"ok"} \cup (IF "redisReplyLost" \in Faults THEN {"lost"} ELSE {})
           \cup (IF "redisRefused" \in Faults THEN {"refused"} ELSE {})

\* Slip: a cached session is good while Redis has it.
FreshWhileKept(entry) == entry # Null

\* A cached session is good until its token expires.
Fresh(entry) == entry # Null /\ now < ExpOf[entry.token]

\* Slip: the validation allows no clock skew.
ValidWithoutSkew(t) == now <= ExpOf[t]

\* The lifetime check of the token validation.
Valid(t) == now <= ExpOf[t] + Skew

\* Slip: the time to live of a token in its skew is not corrected.
TtlUncorrected(t) == ExpOf[t] - now

\* SaveAsync keeps a session until its token expires, or for TtlMinutes if that
\* is past.
Ttl(t) == IF ExpOf[t] > now THEN ExpOf[t] - now ELSE TtlMinutes

(***************************************************************************)
(* Requests without a bearer token, or without a session to log out, end   *)
(* here; the others make their first call to Redis.                        *)
(***************************************************************************)
Begin(q) ==
    /\ pc[q] = "begin"
    /\ GoTo(q, IF req[q].op = "logout"
               THEN IF req[q].sid = Null THEN "loggedOut" ELSE "logoutRead"
               ELSE IF Token(q) = Null THEN "denied"
               ELSE IF req[q].sid = Null THEN "readToken" ELSE "readSession")
    /\ UNCHANGED <<now, req, found, ttl, claims, redis>>

\* Answer from the cached session, or take the step that follows a miss.
AnswerFrom(q, entry, onMiss) ==
    IF Fresh(entry)
    THEN claims' = [claims EXCEPT ![q] = entry.token] /\ GoTo(q, "allowed")
    ELSE UNCHANGED claims /\ GoTo(q, onMiss)

(***************************************************************************)
(* Look the session up by its id.                                          *)
(***************************************************************************)
ReadSession(q) ==
    /\ pc[q] = "readSession"
    /\ \E o \in RedisOutcomes :
         IF o = "ok" THEN AnswerFrom(q, sessions[req[q].sid], "readToken")
                     ELSE GoTo(q, "failed") /\ UNCHANGED claims
    /\ UNCHANGED <<now, req, found, ttl, redis>>

(***************************************************************************)
(* Look the session up by the token's hash: first the id,                  *)
(***************************************************************************)
ReadToken(q) ==
    /\ pc[q] = "readToken"
    /\ \E o \in RedisOutcomes :
         IF o # "ok" THEN GoTo(q, "failed") /\ UNCHANGED found
         ELSE IF tokenKeys[Token(q)] = Null
         THEN GoTo(q, "validate") /\ UNCHANGED found
         ELSE /\ found' = [found EXCEPT ![q] = tokenKeys[Token(q)].sid]
              /\ GoTo(q, "readByToken")
    /\ UNCHANGED <<now, req, ttl, claims, redis>>

(***************************************************************************)
(* then the session, which may be gone by now.                             *)
(***************************************************************************)
ReadByToken(q) ==
    /\ pc[q] = "readByToken"
    /\ \E o \in RedisOutcomes :
         IF o = "ok" THEN AnswerFrom(q, sessions[found[q]], "validate")
                     ELSE GoTo(q, "failed") /\ UNCHANGED claims
    /\ UNCHANGED <<now, req, found, ttl, redis>>

(***************************************************************************)
(* Validate the token against the realm's keys.  A failure to fetch them   *)
(* is answered like an invalid token.                                      *)
(***************************************************************************)
Validate(q) ==
    /\ pc[q] = "validate"
    /\ \/ /\ Valid(Token(q))
          /\ claims' = [claims EXCEPT ![q] = Token(q)]
          /\ GoTo(q, "saveSession")
       \/ ~Valid(Token(q)) /\ GoTo(q, "denied") /\ UNCHANGED claims
       \/ "jwksDown" \in Faults /\ GoTo(q, "undecided") /\ UNCHANGED claims
    /\ UNCHANGED <<now, req, found, ttl, redis>>

(***************************************************************************)
(* Save the session under its id, over the one that may be there.          *)
(***************************************************************************)
SaveSession(q) ==
    /\ pc[q] = "saveSession"
    /\ ttl' = [ttl EXCEPT ![q] = Ttl(Token(q))]
    /\ \E o \in RedisOutcomes :
         /\ sessions' = IF o = "refused" THEN sessions
                        ELSE [sessions EXCEPT ![Sid(q)] =
                                [token |-> Token(q), dies |-> now + Ttl(Token(q))]]
         /\ GoTo(q, IF o = "ok" THEN "saveToken" ELSE "failed")
    /\ UNCHANGED <<now, req, found, claims, tokenKeys>>

(***************************************************************************)
(* Point the token's hash to it.                                           *)
(***************************************************************************)
SaveToken(q) ==
    /\ pc[q] = "saveToken"
    /\ \E o \in RedisOutcomes :
         /\ tokenKeys' = IF o = "refused" THEN tokenKeys
                         ELSE [tokenKeys EXCEPT ![Token(q)] =
                                 [sid |-> Sid(q), dies |-> now + ttl[q]]]
         /\ GoTo(q, IF o = "ok" THEN "allowed" ELSE "failed")
    /\ UNCHANGED <<now, req, found, ttl, claims, sessions>>

-----------------------------------------------------------------------------

(***************************************************************************)
(* Logging out reads the session for its token, deletes it, and deletes    *)
(* the key of that one token; keys of tokens it had before stay.           *)
(***************************************************************************)
LogoutRead(q) ==
    /\ pc[q] = "logoutRead"
    /\ \E o \in RedisOutcomes :
         LET entry == sessions[req[q].sid] IN
         IF o = "ok"
         THEN /\ found' = [found EXCEPT ![q] = IF entry = Null THEN Null ELSE entry.token]
              /\ GoTo(q, "logoutSession")
         ELSE GoTo(q, "failed") /\ UNCHANGED found
    /\ UNCHANGED <<now, req, ttl, claims, redis>>

LogoutSession(q) ==
    /\ pc[q] = "logoutSession"
    /\ \E o \in RedisOutcomes :
         /\ sessions' = IF o = "refused" THEN sessions
                        ELSE [sessions EXCEPT ![req[q].sid] = Null]
         /\ GoTo(q, IF o # "ok" THEN "failed"
                    ELSE IF found[q] = Null THEN "loggedOut" ELSE "logoutToken")
    /\ UNCHANGED <<now, req, found, ttl, claims, tokenKeys>>

LogoutToken(q) ==
    /\ pc[q] = "logoutToken"
    /\ \E o \in RedisOutcomes :
         /\ tokenKeys' = IF o = "refused" THEN tokenKeys
                         ELSE [tokenKeys EXCEPT ![found[q]] = Null]
         /\ GoTo(q, IF o = "ok" THEN "loggedOut" ELSE "failed")
    /\ UNCHANGED <<now, req, found, ttl, claims, sessions>>

-----------------------------------------------------------------------------

\* The entry, unless its time to live is over at the given time.
Kept(entry, time) == IF entry # Null /\ entry.dies <= time THEN Null ELSE entry

\* Time passes, and Redis drops what has expired.
Tick ==
    /\ now < MaxTime
    /\ now' = now + 1
    /\ sessions' = [s \in Sids |-> Kept(sessions[s], now + 1)]
    /\ tokenKeys' = [t \in Tokens |-> Kept(tokenKeys[t], now + 1)]
    /\ UNCHANGED <<pc, req, found, ttl, claims>>

\* AuthService stops with every request in it; Redis keeps its keys.
Crash ==
    /\ "crash" \in Faults
    /\ \E q \in Requests : pc[q] \in Working
    /\ pc' = [q \in Requests |-> IF pc[q] \in Working THEN "crashed" ELSE pc[q]]
    /\ UNCHANGED <<now, req, found, ttl, claims, redis>>

Handle(q) ==
    \/ ReadSession(q) \/ ReadToken(q) \/ ReadByToken(q) \/ Validate(q)
    \/ SaveSession(q) \/ SaveToken(q)
    \/ LogoutRead(q) \/ LogoutSession(q) \/ LogoutToken(q)

\* Every request has been answered or lost: nothing is left to do.
AllDone ==
    /\ \A q \in Requests : pc[q] \in Answered \cup {"crashed"}
    /\ UNCHANGED vars

Next ==
    \/ \E q \in Requests : Begin(q) \/ Handle(q)
    \/ Tick
    \/ Crash
    \/ AllDone

Spec == Init /\ [][Next]_vars

-----------------------------------------------------------------------------
(***************************************************************************)
(* Properties.                                                             *)
(***************************************************************************)

\* A request is answered with the claims of its own login, though sessions are
\* overwritten, found by older tokens, and saved under minted ids: no sharing
\* of keys between RedisSessionStore's two maps ever mixes two logins up.
AnswerIsOwnLogin ==
    \A q \in Requests : claims[q] # Null => LoginOf[claims[q]] = LoginOf[Token(q)]

\* The claims of an answer come from a token that, at the moment the service
\* decided, was within its lifetime and the allowed skew; in particular the
\* session SaveAsync keeps for TtlMinutes after its token expired never answers.
AnswerIsFresh ==
    [][\A q \in Requests : claims'[q] # claims[q] =>
         now <= ExpOf[claims'[q]] + Skew]_vars

\* A token is refused as invalid only when it is expired beyond the skew: no
\* stale session, no dangling token key and no logout makes the service refuse
\* a token that the validation would accept.
DeniedIsExpired ==
    \A q \in Requests : pc[q] = "denied" /\ Token(q) # Null =>
        now > ExpOf[Token(q)] + Skew
=============================================================================

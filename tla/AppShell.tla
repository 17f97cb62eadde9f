------------------------------- MODULE AppShell -------------------------------
(***************************************************************************)
(* The browser tab around the pages: signing in through Keycloak, the      *)
(* session slice of the Redux store, the copy of the token in localStorage *)
(* that httpClient puts on every call, and the calls of /me that fill the  *)
(* layout's user and menus.                                                *)
(*                                                                         *)
(* A token is the user it was issued to.  A full page load drops the store *)
(* and every call under way; localStorage stays.  Only this tab is         *)
(* modelled.                                                               *)
(***************************************************************************)
EXTENDS Naturals, FiniteSets

CONSTANTS
    Accounts,   \* the users who can sign in
    None,       \* null
    MaxLoads    \* bound: full page loads

VARIABLES
    route,      \* "login", "keycloak" (another site), "callback" or "app"
    stored,     \* localStorage access_token and session_id
    token,      \* session.token in the store
    me, menus,  \* whose they are: session.me, menu.items
    code,       \* the user whose code is in the callback's URL
    processed,  \* the ref of CallbackPage
    effects,    \* times React still runs the effect of CallbackPage
    exchanges,  \* history: exchanges of the present code
    fetches,    \* the calls under way
    loads       \* full page loads so far

shellVars == <<route, stored, token, me, menus, code, processed, effects, exchanges,
               fetches, loads>>

(* A call takes the token that is stored when it is sent.                  *)
Fetch(by) == [by |-> by, as |-> stored, st |-> "sent"]

Init ==
    /\ stored \in Accounts \cup {None}
    /\ route = "login" /\ token = stored
    /\ me = None /\ menus = None /\ code = None
    /\ processed = FALSE /\ effects = 0 /\ exchanges = 0
    /\ fetches = {} /\ loads = 0

(* The store as it is after a page load: initialState reads localStorage.  *)
PageLoad ==
    /\ loads < MaxLoads /\ loads' = loads + 1
    /\ token' = stored /\ me' = None /\ menus' = None
    /\ processed' = FALSE
    /\ UNCHANGED stored

(* LoginPage: signinRedirect leaves the application.                       *)
startKeycloakLogin ==
    /\ route = "login"
    /\ route' = "keycloak"
    /\ fetches' = {}
    /\ UNCHANGED <<stored, token, me, menus, code, processed, effects, exchanges, loads>>

(* Keycloak sends the browser to /auth/callback.  React runs the effect    *)
(* once, or twice (StrictMode in development).                             *)
KeycloakReturns ==
    /\ route = "keycloak"
    /\ PageLoad
    /\ route' = "callback"
    /\ code' \in Accounts
    /\ effects' \in {1, 2}
    /\ exchanges' = 0
    /\ UNCHANGED fetches

(* Mutant: the effect exchanges the code each time it runs.                *)
callbackEffectUnguarded ==
    /\ route = "callback" /\ effects > 0
    /\ effects' = effects - 1
    /\ processed' = TRUE
    /\ fetches' = fetches \cup {Fetch("exchange")}
    /\ exchanges' = exchanges + (IF code = None THEN 0 ELSE 1)
    /\ UNCHANGED <<route, stored, token, me, menus, code, loads>>

callbackEffect ==
    /\ route = "callback" /\ effects > 0
    /\ effects' = effects - 1
    /\ processed' = TRUE
    /\ IF processed THEN UNCHANGED <<fetches, exchanges>>
       ELSE /\ fetches' = fetches \cup {Fetch("exchange")}
            /\ exchanges' = exchanges + (IF code = None THEN 0 ELSE 1)
    /\ UNCHANGED <<route, stored, token, me, menus, code, loads>>

ToLogin(f) ==
    /\ route' = "login"
    /\ effects' = 0
    /\ fetches' = fetches \ {f}
    /\ UNCHANGED <<stored, token, me, menus>>

(* Mutant: the new token goes to the store and not to localStorage.        *)
LoginNotStored(f) ==
    /\ token' = code
    /\ fetches' = (fetches \ {f}) \cup {[by |-> "callback", as |-> stored, st |-> "sent"]}
    /\ UNCHANGED <<stored, route, effects, me, menus>>

(* completeKeycloakLogin and setOidcSession, then the callback's /me.      *)
LoginCompletes(f) ==
    /\ stored' = code
    /\ token' = code
    /\ fetches' = (fetches \ {f}) \cup {[by |-> "callback", as |-> code, st |-> "sent"]}
    /\ UNCHANGED <<route, effects, me, menus>>

ExchangeAnswered ==
    /\ \E f \in fetches :
         /\ f.by = "exchange"
         /\ \/ ToLogin(f)
            \/ code # None /\ LoginCompletes(f)
    /\ UNCHANGED <<code, processed, exchanges, loads>>

(* The API answers /me: for the user of the token sent, or not at all; 401 *)
(* when no token was sent, or when AuthService refuses the one that was.   *)
ServeMe ==
    /\ \E f \in fetches, st \in {"ok", "failed", "unauthorized"} :
         /\ f.by # "exchange" /\ f.st = "sent"
         /\ f.as = None => st # "ok"
         /\ fetches' = (fetches \ {f}) \cup {[f EXCEPT !.st = st]}
    /\ UNCHANGED <<route, stored, token, me, menus, code, processed, effects, exchanges, loads>>

(* httpClient's response interceptor.                                      *)
Interceptor(st) == stored' = IF st = "unauthorized" THEN None ELSE stored

MeArrives(f) ==
    /\ Interceptor(f.st)
    /\ IF f.st = "ok" THEN me' = f.as /\ menus' = f.as
                      ELSE me' = me /\ menus' = None

(* The answer to the callback's /me, then navigate("/"): the layout mounts *)
(* and asks for /me again.                                                 *)
CallbackMeAnswered ==
    /\ \E f \in fetches :
         /\ f.by = "callback" /\ f.st # "sent"
         /\ MeArrives(f)
         /\ fetches' = (fetches \ {f}) \cup {[by |-> "layout", as |-> stored', st |-> "sent"]}
    /\ route' = "app"
    /\ effects' = 0
    /\ UNCHANGED <<token, code, processed, exchanges, loads>>

(* The answer to the layout's /me; nothing cancels it when the layout goes.*)
LayoutMeAnswered ==
    /\ \E f \in fetches :
         /\ f.by = "layout" /\ f.st # "sent"
         /\ MeArrives(f)
         /\ fetches' = fetches \ {f}
    /\ UNCHANGED <<route, token, code, processed, effects, exchanges, loads>>

(* A call of one of the pages is refused.                                  *)
PageUnauthorized ==
    /\ route = "app" /\ stored # None
    /\ Interceptor("unauthorized")
    /\ UNCHANGED <<route, token, me, menus, code, processed, effects, exchanges, fetches, loads>>

handleLogout ==
    /\ route = "app"
    /\ stored' = None /\ token' = None /\ me' = None /\ menus' = None
    /\ route' = "login"
    /\ UNCHANGED <<code, processed, effects, exchanges, fetches, loads>>

(* The application's URL is opened or reloaded: the route asks for a token.*)
OpenApp ==
    /\ route \in {"app", "login", "keycloak"}
    /\ PageLoad
    /\ IF stored # None
       THEN route' = "app" /\ fetches' = {Fetch("layout")}
       ELSE route' = "login" /\ fetches' = {}
    /\ UNCHANGED <<code, effects, exchanges>>

(* The callback is reloaded: oidc-client knows its state no more once an   *)
(* exchange has begun, and the exchange fails before it is sent.           *)
ReloadCallback ==
    /\ route = "callback"
    /\ PageLoad
    /\ code' = IF processed THEN None ELSE code
    /\ effects' \in {1, 2}
    /\ fetches' = {}
    /\ UNCHANGED <<route, exchanges>>

Next ==
    \/ startKeycloakLogin \/ KeycloakReturns \/ callbackEffect \/ ExchangeAnswered
    \/ ServeMe \/ CallbackMeAnswered \/ LayoutMeAnswered
    \/ PageUnauthorized \/ handleLogout \/ OpenApp \/ ReloadCallback

Progress == callbackEffect \/ ExchangeAnswered \/ ServeMe \/ CallbackMeAnswered
Spec == Init /\ [][Next]_shellVars

-----------------------------------------------------------------------------
Who == Accounts \cup {None}
Fetches == [by : {"exchange", "callback", "layout"}, as : Who,
            st : {"sent", "ok", "failed", "unauthorized"}]

(* Every variable has a value of its kind.                                 *)
TypeOK ==
    /\ route \in {"login", "keycloak", "callback", "app"}
    /\ {stored, token, me, menus, code} \subseteq Who
    /\ processed \in BOOLEAN
    /\ effects \in 0..2 /\ exchanges \in Nat /\ loads \in Nat
    /\ fetches \subseteq Fetches

(* In the application the layout shows the user who signed in, and the     *)
(* calls go out in that user's name or, after a 401, in nobody's: an       *)
(* answer to a /me of an earlier session never lands in a later one.       *)
SessionIsOneUsers ==
    route = "app" =>
        /\ token # None
        /\ {me, menus, stored} \subseteq {token, None}

(* "exchanged only once" (README_FIX_401.md), whatever React does with the *)
(* effect and however often the callback is reloaded.                      *)
CodeExchangedOnce == exchanges <= 1
=============================================================================

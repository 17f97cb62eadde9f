---------------------------- MODULE FrontendProofs ----------------------------
(***************************************************************************)
(* Proofs about the frontend, for any users, page loads, rows and calls.   *)
(*                                                                         *)
(* The shell: a session begins with a page load, which leaves no call of   *)
(* an earlier one, and between the load that brings the callback and the   *)
(* application the tab has at most one call under way.                     *)
(*                                                                         *)
(* The pages: every handler of the ten is one of eight kinds of step       *)
(* (PageStep), which keep the drawer with its row, because one call at a   *)
(* time disables its buttons.  On the pages that load again a write ends   *)
(* with a load or a banner (FreshInv); on those that patch their list, a   *)
(* row is the API's but for the answers still to be applied (PatchInv); on *)
(* those that assign, a load carries what was assigned at some time        *)
(* (GrantedInv).  CountInv bounds the calls a page sends.                  *)
(***************************************************************************)
EXTENDS MCFrontend, FiniteSetTheorems, TLAPS

\* The calls that can be under way in each place.
CallsInv ==
    /\ \A f \in fetches : f.as = None => f.st # "ok"
    /\ route = "keycloak" => fetches = {}
    /\ route # "callback" => \A f \in fetches : f.by = "layout"
    /\ route = "callback" =>
         /\ \A f, g \in fetches : f = g
         /\ \A f \in fetches : f.by # "layout"
         /\ ~processed => fetches = {}

\* Whose the store, localStorage and the calls are.
OwnerInv ==
    /\ route = "callback" =>
         /\ me = None /\ menus = None
         /\ \A f \in fetches : f.by = "callback" =>
              token # None /\ stored = token /\ f.as = token
    /\ route = "app" =>
         /\ token # None
         /\ {me, menus, stored} \subseteq {token, None}
         /\ \A f \in fetches : f.as \in {token, None}

\* The code is not exchanged before the effect has run.
ExchangeInv ==
    /\ exchanges \in {0, 1}
    /\ route = "callback" /\ ~processed => exchanges = 0 \/ code = None

IInv ==
    /\ TypeOK
    /\ CallsInv
    /\ OwnerInv
    /\ ExchangeInv

-----------------------------------------------------------------------------

LEMMA InitInv == Init => IInv
  <1> SUFFICES ASSUME Init PROVE IInv
    OBVIOUS
  <1>1. TypeOK
    <2>1. processed \in BOOLEAN
      BY DEF Init
    <2> QED
      BY <2>1 DEF Init, TypeOK, Who
  <1>2. CallsInv /\ OwnerInv /\ ExchangeInv
    BY DEF Init, CallsInv, OwnerInv, ExchangeInv
  <1> QED
    BY <1>1, <1>2 DEF IInv

LEMMA FetchIsCall ==
    ASSUME TypeOK, NEW by \in {"exchange", "callback", "layout"}
    PROVE  /\ Fetch(by) \in Fetches
           /\ Fetch(by).by = by /\ Fetch(by).as = stored /\ Fetch(by).st = "sent"
  BY DEF TypeOK, Fetch, Fetches, Who

-----------------------------------------------------------------------------
(* Leaving the application, and page loads.                                *)

LEMMA LeaveInv ==
    ASSUME IInv, startKeycloakLogin \/ handleLogout
    PROVE  IInv'
  <1>1. TypeOK'
    BY DEF IInv, TypeOK, Who, startKeycloakLogin, handleLogout
  <1>2. CallsInv' /\ OwnerInv' /\ ExchangeInv'
    BY DEF IInv, CallsInv, OwnerInv, ExchangeInv, startKeycloakLogin, handleLogout
  <1> QED
    BY <1>1, <1>2 DEF IInv

LEMMA KeycloakReturnsInv ==
    ASSUME IInv, KeycloakReturns
    PROVE  IInv'
  <1>1. TypeOK'
    <2>1. processed' \in BOOLEAN
      BY DEF KeycloakReturns, PageLoad
    <2> QED
      BY <2>1 DEF IInv, TypeOK, Who, KeycloakReturns, PageLoad
  <1>2. fetches' = {} /\ route' = "callback"
    BY DEF IInv, CallsInv, KeycloakReturns
  <1>3. CallsInv' /\ OwnerInv' /\ ExchangeInv'
    BY <1>2 DEF CallsInv, OwnerInv, ExchangeInv, KeycloakReturns, PageLoad
  <1> QED
    BY <1>1, <1>3 DEF IInv

LEMMA OpenAppInv ==
    ASSUME IInv, OpenApp
    PROVE  IInv'
  <1>1. /\ Fetch("layout") \in Fetches /\ Fetch("layout").by = "layout"
        /\ Fetch("layout").as = stored /\ Fetch("layout").st = "sent"
    BY FetchIsCall DEF IInv
  <1>2. fetches' \subseteq {Fetch("layout")} /\ route' \in {"app", "login"}
    BY DEF OpenApp
  <1>3. TypeOK'
    <2>1. processed' \in BOOLEAN
      BY DEF OpenApp, PageLoad
    <2> QED
      BY <1>1, <1>2, <2>1 DEF IInv, TypeOK, OpenApp, PageLoad, Who
  <1>4. CallsInv'
    BY <1>1, <1>2 DEF CallsInv
  <1>5. OwnerInv'
    BY <1>1, <1>2 DEF OwnerInv, OpenApp, PageLoad
  <1>6. ExchangeInv'
    BY <1>2 DEF IInv, ExchangeInv, OpenApp
  <1> QED
    BY <1>3, <1>4, <1>5, <1>6 DEF IInv

LEMMA ReloadCallbackInv ==
    ASSUME IInv, ReloadCallback
    PROVE  IInv'
  <1>1. TypeOK'
    <2>1. processed' \in BOOLEAN
      BY DEF ReloadCallback, PageLoad
    <2> QED
      BY <2>1 DEF IInv, TypeOK, Who, ReloadCallback, PageLoad
  <1>2. CallsInv' /\ OwnerInv' /\ ExchangeInv'
    BY DEF IInv, CallsInv, OwnerInv, ExchangeInv, ReloadCallback, PageLoad
  <1> QED
    BY <1>1, <1>2 DEF IInv

-----------------------------------------------------------------------------
(* The callback.                                                           *)

LEMMA CallbackEffectInv ==
    ASSUME IInv, callbackEffect
    PROVE  IInv'
  <1>1. CASE processed
    <2>1. TypeOK'
      BY <1>1 DEF IInv, TypeOK, callbackEffect
    <2>2. CallsInv' /\ OwnerInv' /\ ExchangeInv'
      BY <1>1 DEF IInv, CallsInv, OwnerInv, ExchangeInv, callbackEffect
    <2> QED
      BY <2>1, <2>2 DEF IInv
  <1>2. CASE ~processed
    <2>1. /\ Fetch("exchange") \in Fetches /\ Fetch("exchange").by = "exchange"
          /\ Fetch("exchange").st = "sent"
      BY FetchIsCall DEF IInv
    <2>2. fetches' = {Fetch("exchange")} /\ route' = "callback" /\ processed' = TRUE
      BY <1>2 DEF IInv, CallsInv, callbackEffect
    <2>3. exchanges' \in {0, 1}
      BY <1>2 DEF IInv, ExchangeInv, callbackEffect
    <2>4. TypeOK'
      BY <2>1, <2>2, <2>3 DEF IInv, TypeOK, callbackEffect, Fetches, Who
    <2>5. CallsInv' /\ ExchangeInv'
      BY <2>1, <2>2, <2>3 DEF CallsInv, ExchangeInv
    <2>6. OwnerInv'
      BY <2>1, <2>2 DEF IInv, OwnerInv, callbackEffect
    <2> QED
      BY <2>4, <2>5, <2>6 DEF IInv
  <1> QED
    BY <1>1, <1>2

\* An exchange is only under way in the callback, alone.
LEMMA ExchangeIsAlone ==
    ASSUME IInv, NEW f \in fetches, f.by # "layout"
    PROVE  route = "callback" /\ fetches = {f} /\ processed
  BY DEF IInv, CallsInv, TypeOK

LEMMA ExchangeAnsweredInv ==
    ASSUME IInv, ExchangeAnswered
    PROVE  IInv'
  <1>1. PICK f \in fetches : f.by = "exchange" /\ (ToLogin(f) \/ (code # None /\ LoginCompletes(f)))
    BY DEF ExchangeAnswered
  <1>2. route = "callback" /\ fetches = {f} /\ processed
    BY <1>1, ExchangeIsAlone
  <1>3. ExchangeInv'
    BY <1>2 DEF IInv, ExchangeInv, ExchangeAnswered
  <1>4. CASE ToLogin(f)
    <2>1. TypeOK'
      BY <1>4 DEF IInv, TypeOK, ToLogin, ExchangeAnswered
    <2>2. fetches' = {} /\ route' = "login"
      BY <1>2, <1>4 DEF ToLogin
    <2>3. CallsInv' /\ OwnerInv'
      BY <2>2 DEF CallsInv, OwnerInv
    <2> QED
      BY <1>3, <2>1, <2>3 DEF IInv
  <1>5. CASE code # None /\ LoginCompletes(f)
    <2> DEFINE g == [by |-> "callback", as |-> code, st |-> "sent"]
    <2>1. g \in Fetches /\ g.by = "callback" /\ g.as = code /\ g.st = "sent"
      BY DEF IInv, TypeOK, Fetches, Who
    <2>2. fetches' = {g} /\ route' = "callback" /\ processed'
      BY <1>2, <1>5 DEF LoginCompletes, ExchangeAnswered
    <2> HIDE DEF g
    <2>3. TypeOK'
      BY <1>5, <2>1, <2>2 DEF IInv, TypeOK, LoginCompletes, ExchangeAnswered, Fetches, Who
    <2>4. CallsInv'
      BY <2>1, <2>2 DEF CallsInv
    <2>5. OwnerInv'
      BY <1>2, <1>5, <2>1, <2>2 DEF IInv, OwnerInv, LoginCompletes
    <2> QED
      BY <1>3, <2>3, <2>4, <2>5 DEF IInv
  <1> QED
    BY <1>1, <1>4, <1>5

LEMMA CallbackMeInv ==
    ASSUME IInv, CallbackMeAnswered
    PROVE  IInv'
  <1>1. PICK f \in fetches :
          /\ f.by = "callback" /\ f.st # "sent"
          /\ MeArrives(f)
          /\ fetches' = (fetches \ {f}) \cup {[by |-> "layout", as |-> stored', st |-> "sent"]}
    BY DEF CallbackMeAnswered
  <1>2. route = "callback" /\ fetches = {f} /\ processed
    BY <1>1, ExchangeIsAlone
  <1>3. token # None /\ stored = token /\ f.as = token /\ me = None /\ menus = None
    BY <1>1, <1>2 DEF IInv, OwnerInv
  <1>4. {me', menus', stored'} \subseteq {token, None} /\ token' = token
    BY <1>1, <1>3 DEF MeArrives, Interceptor, CallbackMeAnswered
  <1> DEFINE g == [by |-> "layout", as |-> stored', st |-> "sent"]
  <1>5. g \in Fetches /\ g.by = "layout" /\ g.as = stored' /\ g.st = "sent"
    BY <1>4 DEF IInv, TypeOK, Fetches, Who
  <1>6. fetches' = {g} /\ route' = "app"
    BY <1>1, <1>2 DEF CallbackMeAnswered
  <1> HIDE DEF g
  <1>7. TypeOK'
    BY <1>4, <1>5, <1>6 DEF IInv, TypeOK, CallbackMeAnswered, Fetches, Who
  <1>8. CallsInv'
    BY <1>5, <1>6 DEF CallsInv
  <1>9. OwnerInv'
    BY <1>3, <1>4, <1>5, <1>6 DEF OwnerInv
  <1>10. ExchangeInv'
    BY <1>6 DEF IInv, ExchangeInv, CallbackMeAnswered
  <1> QED
    BY <1>7, <1>8, <1>9, <1>10 DEF IInv

-----------------------------------------------------------------------------
(* Answers, in every place.                                                *)

LEMMA ServeMeInv ==
    ASSUME IInv, ServeMe
    PROVE  IInv'
  <1>1. PICK f \in fetches, st \in {"ok", "failed", "unauthorized"} :
          /\ f.by # "exchange" /\ f.st = "sent"
          /\ f.as = None => st # "ok"
          /\ fetches' = (fetches \ {f}) \cup {[f EXCEPT !.st = st]}
    BY DEF ServeMe
  <1> DEFINE g == [f EXCEPT !.st = st]
  <1>2. f \in Fetches
    BY DEF IInv, TypeOK, Fetches, Who
  <1>3. g \in Fetches /\ g.by = f.by /\ g.as = f.as /\ g.st = st
    BY <1>2 DEF Fetches
  <1>4. fetches' = (fetches \ {f}) \cup {g}
    BY <1>1
  <1> HIDE DEF g
  <1>5. TypeOK'
    BY <1>3, <1>4 DEF IInv, TypeOK, ServeMe, Fetches, Who
  <1>6. CallsInv'
    BY <1>1, <1>3, <1>4 DEF IInv, CallsInv, ServeMe
  <1>7. OwnerInv' /\ ExchangeInv'
    BY <1>3, <1>4 DEF IInv, OwnerInv, ExchangeInv, ServeMe
  <1> QED
    BY <1>5, <1>6, <1>7 DEF IInv

LEMMA LayoutMeInv ==
    ASSUME IInv, LayoutMeAnswered
    PROVE  IInv'
  <1>1. PICK f \in fetches :
          f.by = "layout" /\ f.st # "sent" /\ MeArrives(f) /\ fetches' = fetches \ {f}
    BY DEF LayoutMeAnswered
  <1>2. route # "callback" /\ route' = route
    BY <1>1 DEF IInv, CallsInv, LayoutMeAnswered
  <1>3. /\ stored' \in {stored, None} /\ me' \in {me, f.as} /\ menus' \in {f.as, None}
        /\ f.as \in Who
    BY <1>1 DEF MeArrives, Interceptor, IInv, TypeOK, Fetches
  <1>4. TypeOK'
    BY <1>1, <1>3 DEF IInv, TypeOK, LayoutMeAnswered, Who
  <1>5. CallsInv' /\ ExchangeInv'
    BY <1>1, <1>2 DEF IInv, CallsInv, ExchangeInv, LayoutMeAnswered
  <1>6. OwnerInv'
    BY <1>1, <1>2, <1>3 DEF IInv, OwnerInv, LayoutMeAnswered
  <1> QED
    BY <1>4, <1>5, <1>6 DEF IInv

LEMMA PageUnauthorizedInv ==
    ASSUME IInv, PageUnauthorized
    PROVE  IInv'
  <1>1. stored' = None
    BY DEF PageUnauthorized, Interceptor
  <1>2. TypeOK'
    BY <1>1 DEF IInv, TypeOK, Who, PageUnauthorized
  <1>3. CallsInv' /\ OwnerInv' /\ ExchangeInv'
    BY <1>1 DEF IInv, CallsInv, OwnerInv, ExchangeInv, PageUnauthorized
  <1> QED
    BY <1>2, <1>3 DEF IInv

-----------------------------------------------------------------------------

LEMMA NextInv == IInv /\ [Next]_shellVars => IInv'
  <1> SUFFICES ASSUME IInv, [Next]_shellVars PROVE IInv'
    OBVIOUS
  <1>1. CASE startKeycloakLogin \/ handleLogout
    BY <1>1, LeaveInv
  <1>2. CASE KeycloakReturns \/ OpenApp \/ ReloadCallback
    BY <1>2, KeycloakReturnsInv, OpenAppInv, ReloadCallbackInv
  <1>3. CASE callbackEffect \/ ExchangeAnswered \/ CallbackMeAnswered
    BY <1>3, CallbackEffectInv, ExchangeAnsweredInv, CallbackMeInv
  <1>4. CASE ServeMe \/ LayoutMeAnswered \/ PageUnauthorized
    BY <1>4, ServeMeInv, LayoutMeInv, PageUnauthorizedInv
  <1>5. CASE UNCHANGED shellVars
    <2>1. TypeOK'
      BY <1>5 DEF shellVars, IInv, TypeOK
    <2>2. CallsInv' /\ OwnerInv' /\ ExchangeInv'
      BY <1>5 DEF shellVars, IInv, CallsInv, OwnerInv, ExchangeInv
    <2> QED
      BY <2>1, <2>2 DEF IInv
  <1> QED
    BY <1>1, <1>2, <1>3, <1>4, <1>5 DEF Next

LEMMA Invariance == Spec => []IInv
  BY InitInv, NextInv, PTL DEF Spec

(* Every variable keeps its kind in every behaviour.                       *)
THEOREM TypeCorrect == Spec => []TypeOK
  <1>1. IInv => TypeOK
    BY DEF IInv
  <1> QED
    BY <1>1, Invariance, PTL

(* In the application the user shown and the token sent are always those   *)
(* of the sign-in, however late the answers to /me come.                   *)
THEOREM OneUsersSession == Spec => []SessionIsOneUsers
  <1>1. IInv => SessionIsOneUsers
    BY DEF IInv, OwnerInv, SessionIsOneUsers
  <1> QED
    BY <1>1, Invariance, PTL

(* However often React runs the effect and the callback is reloaded, a     *)
(* code is exchanged at most once.                                         *)
THEOREM ExchangedOnce == Spec => []CodeExchangedOnce
  <1>1. IInv => CodeExchangedOnce
    BY DEF IInv, ExchangeInv, CodeExchangedOnce
  <1> QED
    BY <1>1, Invariance, PTL
-----------------------------------------------------------------------------
(* The pages.  First what each of their steps does to the drawer and to    *)
(* the calls, then why no such step breaks the drawer, for any number of   *)
(* rows, calls and inputs.                                                 *)

\* What a form, a row and a call of the mounted page are.
Body == IF page \in Assigned THEN SUBSET Items ELSE [{"key", "info"} -> Filled \cup {Empty}]
AnyId == IF page \in Patched THEN Ids \cup Seeds ELSE Ids   \* of a row on this page
Row == [id : AnyId, body : Body]
Call == [n : Nat, op : {"list", "get", "create", "update", "delete", "default"},
         id : AnyId \cup {NoRow}, body : Body \cup {NoRow}, step : Nat,
         st : {"sent", "ok", "failed"}, list : SUBSET Row]

IsSave(c) == c.op \in {"create", "update"}
\* The calls that keep the drawer's buttons disabled.
Holds(c) == IsSave(c) \/ (c.op = "list" /\ c.step = 1)

\* A save has a body, and an id once there is one.
Sound(c) ==
    /\ IsSave(c) => c.body \in Body
    /\ c.op = "update" \/ (c.op = "create" /\ c.st = "ok") => c.id \in AnyId

PageTyped ==
    /\ rows \subseteq Row
    /\ saving \in BOOLEAN /\ drawerOpen \in BOOLEAN
    /\ editing \in Row \cup {NoRow}
    /\ form \in Body
    /\ sent \in Nat
    /\ db \in [Ids -> Body \cup {NoRow}]
    /\ calls \subseteq Call
    /\ \A c \in calls : Sound(c)

\* The buttons are held while one call holds them, and a save has a drawer.
SaveInv ==
    /\ saving <=> \E c \in calls : Holds(c)
    /\ \A c, d \in calls : Holds(c) /\ Holds(d) => c = d
    /\ \A c \in calls : IF IsSave(c) THEN drawerOpen ELSE Holds(c) => page \in Forms
    /\ page \in Assigned /\ drawerOpen => editing # NoRow

FilledInv == page \notin Assigned => FormIsOfItsRow

-----------------------------------------------------------------------------
(* The kinds of step.                                                      *)

Replaces(c, D) == \E d \in D : calls' = (calls \ {c}) \cup {d}
Idle == {d \in Call : ~Holds(d)}

\* The API serves a call.
Served ==
    /\ \E c \in calls :
         Replaces(c, {d \in Call : /\ d.op = c.op /\ d.step = c.step /\ d.body = c.body
                                   /\ d.op = "update" => d.id = c.id
                                   /\ Sound(d)})
    /\ db' \in [Ids -> Body \cup {NoRow}]
    /\ UNCHANGED <<rows, saving, drawerOpen, editing, form, filledFrom, sent>>

\* The user begins a call outside the drawer, or none.
Begun ==
    /\ calls' = calls \/ \E d \in Idle : calls' = calls \cup {d}
    /\ sent' \in Nat
    /\ UNCHANGED <<rows, saving, drawerOpen, editing, form, filledFrom, db>>

\* The user opens the drawer, for a row of the table or for a new one.
Opened ==
    /\ drawerOpen' = TRUE
    /\ \/ editing' = NoRow /\ filledFrom' = NoRow /\ page \notin Assigned
       \/ editing' \in rows /\ filledFrom' = editing'.id
    /\ form' \in Body
    /\ calls' = calls \/ \E d \in Idle : calls' = calls \cup {d}
    /\ sent' \in Nat
    /\ UNCHANGED <<rows, saving, db>>

\* The user closes it.
Closed ==
    /\ drawerOpen /\ ~saving /\ drawerOpen' = FALSE
    /\ editing' \in {editing, NoRow}
    /\ form' \in Body
    /\ UNCHANGED <<rows, saving, db, calls, sent>>

\* The user changes what is in it.
Typed ==
    /\ form' \in Body
    /\ UNCHANGED <<rows, saving, drawerOpen, editing, filledFrom, calls, sent, db>>

\* The user saves.
Saved ==
    /\ drawerOpen /\ ~saving /\ saving' = TRUE
    /\ \E d \in Call :
         /\ IsSave(d) /\ Sound(d)
         /\ IF d.op = "create" THEN editing = NoRow
            ELSE editing # NoRow /\ d.id = editing.id
         /\ calls' = calls \cup {d}
    /\ sent' \in Nat
    /\ UNCHANGED <<rows, drawerOpen, editing, form, filledFrom, db>>

\* A call other than a save is answered; a load may follow.
Ended ==
    /\ \E c \in calls :
         /\ ~IsSave(c)
         /\ \/ Holds(c) /\ calls' = calls \ {c} /\ saving' = FALSE
            \/ ~Holds(c) /\ (calls' = calls \ {c} \/ Replaces(c, Idle)) /\ saving' = saving
    /\ rows' \subseteq Row
    /\ form' \in Body
    /\ filledFrom' = filledFrom \/ page \in Assigned
    /\ sent' \in Nat
    /\ UNCHANGED <<drawerOpen, editing, db>>

\* A save is answered: it failed and the drawer stays, or it is tried in
\* another way, or the drawer closes and a load may follow.
SaveEnded ==
    /\ \E c \in calls :
         /\ IsSave(c)
         /\ \/ /\ calls' = calls \ {c} /\ saving' = FALSE
               /\ UNCHANGED <<drawerOpen, editing, form, filledFrom>>
            \/ /\ calls' = calls \ {c} /\ saving' = FALSE
               /\ drawerOpen' = FALSE /\ editing' = NoRow
            \/ /\ Replaces(c, {d \in Call : d.op = "list" /\ d.step = 1}) /\ saving' = saving
               /\ page \in Forms /\ drawerOpen' = FALSE /\ editing' = NoRow
            \/ /\ Replaces(c, {d \in Call : /\ d.op = c.op /\ d.id = c.id /\ Sound(d)})
               /\ UNCHANGED <<saving, drawerOpen, editing, form, filledFrom>>
    /\ rows' \subseteq Row
    /\ form' \in Body
    /\ sent' \in Nat
    /\ UNCHANGED db

PageStep == \/ Served \/ Begun \/ Opened \/ Closed \/ Typed \/ Saved \/ Ended \/ SaveEnded

-----------------------------------------------------------------------------
(* No step of these kinds breaks the drawer.                               *)

LEMMA RowIsNotNull == NoRow \notin Row
  BY NoRowAssumption DEF Row, Body, AnyId, Users!Bodies, Users!Inputs, UserRoles!Bodies

LEMMA StepTyped ==
    ASSUME PageTyped, PageStep, page' = page
    PROVE  PageTyped'
  <1> Body' = Body /\ Row' = Row /\ Call' = Call /\ \A c : Sound(c)' <=> Sound(c)
    BY DEF Body, AnyId, Row, Call, Sound
  <1>0. \A d \in Idle : d \in Call /\ Sound(d)
    BY DEF Idle, Holds, IsSave, Sound
  <1>9. \A d \in Call : d.op = "list" => Sound(d)
    BY DEF IsSave, Sound
  <1> USE DEF PageTyped, Replaces
  <1>1. CASE Served
    BY <1>1 DEF Served, Holds, Call
  <1>2. CASE Begun \/ Closed \/ Typed \/ Saved
    BY <1>0, <1>2 DEF Begun, Closed, Typed, Saved
  <1>3. CASE Opened
    BY <1>0, <1>3 DEF Opened
  <1>4. CASE Ended
    <2>1. calls' \subseteq Call /\ \A c \in calls' : Sound(c)
      BY <1>0, <1>4 DEF Ended
    <2> QED
      BY <1>4, <2>1 DEF Ended
  <1>5. CASE SaveEnded
    <2>1. calls' \subseteq Call
      BY <1>5 DEF SaveEnded
    <2>2. \A c \in calls' : Sound(c)
      BY <1>5, <1>9 DEF SaveEnded
    <2>3. saving' \in BOOLEAN /\ drawerOpen' \in BOOLEAN /\ editing' \in Row \cup {NoRow}
      BY <1>5 DEF SaveEnded
    <2> QED
      BY <1>5, <2>1, <2>2, <2>3 DEF SaveEnded
  <1> QED
    BY <1>1, <1>2, <1>3, <1>4, <1>5 DEF PageStep

LEMMA StepSaves ==
    ASSUME PageTyped, SaveInv, PageStep, page' = page
    PROVE  SaveInv'
  <1> USE DEF PageTyped, SaveInv, Replaces, IsSave, Holds
  <1>1. CASE Served
    BY <1>1 DEF Served
  <1>2. CASE Begun
    BY <1>2 DEF Begun, Idle
  <1>3. CASE Closed \/ Typed
    BY <1>3 DEF Closed, Typed
  <1>4. CASE Saved
    BY <1>4 DEF Saved
  <1>5. CASE Opened
    BY <1>5, RowIsNotNull DEF Opened, Idle
  <1>6. CASE Ended
    BY <1>6 DEF Ended, Idle
  <1>7. CASE SaveEnded
    BY <1>7 DEF SaveEnded
  <1> QED
    BY <1>1, <1>2, <1>3, <1>4, <1>5, <1>6, <1>7 DEF PageStep

LEMMA StepFilled ==
    ASSUME PageTyped, FilledInv, PageStep, page' = page
    PROVE  FilledInv'
  <1> USE DEF PageTyped, FilledInv, FormIsOfItsRow, Target
  <1>1. CASE Opened
    BY <1>1, RowIsNotNull DEF Opened
  <1>2. CASE SaveEnded
    BY <1>2 DEF SaveEnded
  <1>3. CASE Served \/ Begun \/ Closed \/ Typed \/ Saved \/ Ended
    BY <1>3 DEF Served, Begun, Closed, Typed, Saved, Ended
  <1> QED
    BY <1>1, <1>2, <1>3 DEF PageStep

\* A drawer is opened for whatever row, and saves keep the row they were for.
LEMMA StepContract ==
    ASSUME PageTyped, SaveInv, PageStep, page' = page
    PROVE  [Drawer!Next]_(Drawer!vars)
  <1> DEFINE For(c) == IF c.op = "create" THEN NoRow ELSE c.id
             saved == {IF c.op = "create" THEN NoRow ELSE c.id : c \in Saves}
  <1>0. /\ Saves' = Saves => saved' = saved
        /\ saved = {} <=> Saves = {}
        /\ \A c : Saves = {c} => saved = {For(c)}
        /\ \A c : Saves' = {c} => saved' = {For(c)}
        /\ Saves' = {} => saved' = {}
    OBVIOUS
  <1> HIDE DEF saved
  <1>01. /\ Saves = {c \in calls : IsSave(c)}
         /\ Saves' = {c \in calls' : IsSave(c)}
         /\ saving <=> \E c \in calls : Holds(c)
         /\ \A c, d \in calls : Holds(c) /\ Holds(d) => c = d
    BY DEF SaveInv, Saves, Under, IsSave
  <1>02. /\ drawerOpen' = drawerOpen /\ editing' = editing /\ saved' = saved
            => UNCHANGED Drawer!vars
         /\ drawerOpen /\ saved = {} /\ saved' = {Target} /\ UNCHANGED <<drawerOpen, editing>>
            => Drawer!Next
         /\ saved # {} /\ saved' = {} /\ UNCHANGED <<drawerOpen, editing>> => Drawer!Next
         /\ saved # {} /\ saved' = {} /\ drawerOpen' = FALSE => Drawer!Next
         /\ drawerOpen /\ saved = {} /\ drawerOpen' = FALSE /\ saved' = saved => Drawer!Next
         /\ \A t \in Ids \cup Seeds \cup {NoRow} :
              drawerOpen' = TRUE /\ Target' = t /\ saved' = saved => Drawer!Next
    <2> USE DEF Drawer!Next
    <2>1. ASSUME UNCHANGED <<drawerOpen, editing>>, saved' = saved
          PROVE  UNCHANGED Drawer!vars
      BY <2>1 DEF saved, Target, Drawer!vars
    <2>2. ASSUME drawerOpen, saved = {}, saved' = {Target}, UNCHANGED <<drawerOpen, editing>>
          PROVE  Drawer!Save
      BY <2>2 DEF saved, Target, Drawer!Save
    <2>3. ASSUME saved # {}, saved' = {}, UNCHANGED <<drawerOpen, editing>>
          PROVE  Drawer!SaveFails
      BY <2>3 DEF saved, Target, Drawer!SaveFails
    <2>4. ASSUME saved # {}, saved' = {}, drawerOpen' = FALSE
          PROVE  Drawer!SaveEnds
      BY <2>4 DEF saved, Target, Drawer!SaveEnds
    <2>5. ASSUME drawerOpen, saved = {}, drawerOpen' = FALSE, saved' = saved
          PROVE  Drawer!Close
      BY <2>5 DEF saved, Target, Drawer!Close
    <2>6. ASSUME NEW t \in Ids \cup Seeds \cup {NoRow},
                 drawerOpen' = TRUE, Target' = t, saved' = saved
          PROVE  Drawer!Open(t)
      BY <2>6 DEF saved, Target, Drawer!Open
    <2> QED
      BY <2>1, <2>2, <2>3, <2>4, <2>5, <2>6
  <1>1. CASE Served
    <2>1. PICK c \in calls, d \in Call :
             /\ calls' = (calls \ {c}) \cup {d}
             /\ d.op = c.op /\ (d.op = "update" => d.id = c.id)
      BY <1>1 DEF Served, Replaces
    <2>2. CASE IsSave(c)
      <3>1. Saves = {c} /\ Saves' = {d}
        BY <1>01, <2>1, <2>2 DEF IsSave, Holds
      <3>2. For(d) = For(c)
        BY <2>1, <2>2 DEF IsSave
      <3> QED
        BY <1>0, <1>1, <1>02, <3>1, <3>2 DEF Served
    <2>3. CASE ~IsSave(c)
      <3>1. Saves' = Saves
        BY <1>01, <2>1, <2>3 DEF IsSave
      <3> QED
        BY <1>0, <1>1, <1>02, <3>1 DEF Served
    <2> QED
      BY <2>2, <2>3
  <1>2. CASE Begun
    <2>1. Saves' = Saves
      BY <1>01, <1>2 DEF Begun, Idle, Holds
    <2> QED
      BY <1>0, <1>2, <1>02, <2>1 DEF Begun
  <1>3. CASE Typed
    <2>1. Saves' = Saves
      BY <1>01, <1>3 DEF Typed
    <2> QED
      BY <1>0, <1>3, <1>02, <2>1 DEF Typed
  <1>4. CASE Saved
    <2>1. PICK d \in Call : /\ IsSave(d) /\ calls' = calls \cup {d}
                            /\ IF d.op = "create" THEN editing = NoRow
                               ELSE editing # NoRow /\ d.id = editing.id
      BY <1>4 DEF Saved
    <2>2. Saves = {} /\ Saves' = {d}
      BY <1>01, <1>4, <2>1 DEF Saved, Holds
    <2>3. For(d) = Target
      BY <2>1 DEF Target
    <2> QED
      BY <1>0, <1>4, <1>02, <2>2, <2>3 DEF Saved
  <1>5. CASE Opened
    <2>1. Saves' = Saves
      BY <1>01, <1>5 DEF Opened, Idle, Holds
    <2>2. Target' \in Ids \cup Seeds \cup {NoRow}
      BY <1>5 DEF Opened, PageTyped, Row, AnyId, Target
    <2> QED
      BY <1>0, <1>5, <1>02, <2>1, <2>2 DEF Opened
  <1>6. CASE Closed
    <2>1. Saves = {} /\ Saves' = Saves
      BY <1>01, <1>6 DEF Closed, Holds
    <2> QED
      BY <1>0, <1>6, <1>02, <2>1 DEF Closed
  <1>7. CASE Ended
    <2>1. Saves' = Saves
      BY <1>01, <1>7 DEF Ended, Replaces, Idle, Holds
    <2> QED
      BY <1>0, <1>7, <1>02, <2>1 DEF Ended
  <1>8. CASE SaveEnded
    <2>1. PICK c \in calls :
            /\ IsSave(c)
            /\ \/ calls' = calls \ {c} /\ UNCHANGED <<drawerOpen, editing>>
               \/ calls' = calls \ {c} /\ drawerOpen' = FALSE
               \/ Replaces(c, {d \in Call : d.op = "list"}) /\ drawerOpen' = FALSE
               \/ /\ Replaces(c, {d \in Call : d.op = c.op /\ d.id = c.id})
                  /\ UNCHANGED <<drawerOpen, editing>>
      BY <1>8 DEF SaveEnded, Replaces
    <2>2. Saves = {c} /\ saved # {}
      BY <1>0, <1>01, <2>1 DEF Holds
    <2>3. CASE calls' = calls \ {c} \/ Replaces(c, {d \in Call : d.op = "list"})
      <3>1. Saves' = {}
        BY <1>01, <2>1, <2>2, <2>3 DEF Replaces, IsSave
      <3> QED
        BY <1>0, <1>02, <2>1, <2>2, <2>3, <3>1 DEF Replaces, IsSave
    <2>4. CASE /\ Replaces(c, {d \in Call : d.op = c.op /\ d.id = c.id})
               /\ UNCHANGED <<drawerOpen, editing>>
      <3>1. PICK d \in Call : d.op = c.op /\ d.id = c.id /\ calls' = (calls \ {c}) \cup {d}
        BY <2>4 DEF Replaces
      <3>2. Saves' = {d}
        BY <1>01, <2>1, <2>2, <3>1 DEF IsSave
      <3> QED
        BY <1>0, <1>02, <2>2, <2>4, <3>1, <3>2
    <2> QED
      BY <2>1, <2>3, <2>4
  <1> QED
    BY <1>1, <1>2, <1>3, <1>4, <1>5, <1>6, <1>7, <1>8 DEF PageStep

-----------------------------------------------------------------------------
(* The pages' own steps are of these kinds.                                *)

\* A call with this operation, id, body and step.
Is(d, op, id, body, step) ==
    d \in Call /\ d.op = op /\ d.id = id /\ d.body = body /\ d.step = step

Sent(d, op, id, body, step) == Is(d, op, id, body, step) /\ d.st = "sent"

LEMMA SentIsCall ==
    ASSUME PageTyped,
           NEW op \in {"list", "get", "create", "update", "delete", "default"},
           NEW id \in AnyId \cup {NoRow}, NEW body \in Body \cup {NoRow}, NEW step \in Nat
    PROVE  Sent([n |-> sent + 1, op |-> op, id |-> id, body |-> body, step |-> step,
                 st |-> "sent", list |-> {}], op, id, body, step)
  BY DEF PageTyped, Call, Is, Sent

LEMMA CommittedIsCall ==
    ASSUME NEW c \in Call, NEW st \in {"ok", "failed"}, NEW i \in AnyId
    PROVE  Is([c EXCEPT !.st = st, !.id = i], c.op, i, c.body, c.step)
  BY DEF Call, Is

LEMMA AnsweredIsCall ==
    ASSUME NEW c \in Call, NEW st \in {"sent", "ok", "failed"}
    PROVE  /\ Is([c EXCEPT !.st = st], c.op, c.id, c.body, c.step)
           /\ \A l \in SUBSET Row : Is([c EXCEPT !.st = st, !.list = l], c.op, c.id, c.body, c.step)
  BY DEF Call, Is

LEMMA RowParts == \A r \in Row : r.id \in AnyId /\ r.body \in Body
  BY DEF Row

LEMMA CallParts == \A c \in Call : c.id \in AnyId \cup {NoRow} /\ c.list \subseteq Row
  BY DEF Call

LEMMA ListIsRows == PageTyped => RowsOf(db) \in SUBSET Row
  BY DEF PageTyped, RowsOf, Row, AnyId

\* The API commits a write, answers a load, or does neither.
LEMMA CommitServes ==
    ASSUME PageTyped, NEW c \in calls, NEW st \in {"ok", "failed"}, NEW i \in AnyId,
           c.op = "update" => i = c.id,
           calls' = (calls \ {c}) \cup {[c EXCEPT !.st = st, !.id = i]},
           db' \in [Ids -> Body \cup {NoRow}],
           UNCHANGED <<rows, saving, drawerOpen, editing, form, filledFrom, sent>>
    PROVE  Served
  <1> DEFINE d == [c EXCEPT !.st = st, !.id = i]
  <1>1. Is(d, c.op, i, c.body, c.step) /\ Sound(c)
    BY CommittedIsCall DEF PageTyped
  <1>2. Sound(d)
    BY <1>1 DEF Sound, IsSave, Is
  <1> HIDE DEF d
  <1> QED
    BY <1>1, <1>2 DEF Served, Replaces, Is, d

LEMMA ListServes ==
    ASSUME PageTyped, NEW c \in calls, ~IsSave(c), NEW l \in SUBSET Row,
           calls' = (calls \ {c}) \cup {[c EXCEPT !.st = "ok", !.list = l]},
           UNCHANGED <<rows, saving, drawerOpen, editing, form, filledFrom, sent, db>>
    PROVE  Served
  <1> DEFINE d == [c EXCEPT !.st = "ok", !.list = l]
  <1>1. Is(d, c.op, c.id, c.body, c.step)
    BY AnsweredIsCall DEF PageTyped
  <1>2. Sound(d) /\ (d.op = "update" => d.id = c.id)
    BY <1>1 DEF Sound, IsSave, Is
  <1> HIDE DEF d
  <1> QED
    BY <1>1, <1>2 DEF Served, Replaces, Is, PageTyped, d

LEMMA RefuseServes ==
    ASSUME PageTyped, NEW c \in calls,
           calls' = (calls \ {c}) \cup {[c EXCEPT !.st = "failed"]},
           UNCHANGED <<rows, saving, drawerOpen, editing, form, filledFrom, sent, db>>
    PROVE  Served
  <1> DEFINE d == [c EXCEPT !.st = "failed"]
  <1>1. Is(d, c.op, c.id, c.body, c.step) /\ d.st = "failed" /\ Sound(c)
    BY AnsweredIsCall DEF PageTyped, Call
  <1>2. Sound(d)
    BY <1>1 DEF Sound, IsSave, Is
  <1> HIDE DEF d
  <1> QED
    BY <1>1, <1>2 DEF Served, Replaces, Is, PageTyped, d

LEMMA ServeSteps ==
    ASSUME PageTyped, NEW Routes, Serve(Routes)
    PROVE  Served
  <1>1. PICK c \in calls : ServeList(c) \/ ServeWrite(c, Routes) \/ Refuse(c)
    BY DEF Serve
  <1>2. UNCHANGED <<rows, saving, drawerOpen, editing, form, filledFrom, sent>>
    BY DEF Serve, pageVars, loadVars, drawerVars
  <1>3. CASE ServeList(c)
    BY <1>2, <1>3, ListIsRows, ListServes DEF ServeList, IsSave
  <1>4. CASE Refuse(c)
    BY <1>2, <1>4, RefuseServes DEF Refuse
  <1>5. CASE ServeWrite(c, Routes)
    <2>1. PICK st \in {"ok", "failed"}, i \in Ids, body \in Body \cup {NoRow} :
             Commit(c, i, body, st) /\ (c.op = "update" => i = c.id)
      BY <1>5 DEF ServeWrite, PageTyped, Sound, IsSave
    <2>2. db' \in [Ids -> Body \cup {NoRow}]
      BY <2>1 DEF Commit, PageTyped
    <2>3. i \in AnyId
      BY DEF AnyId
    <2> QED
      BY <1>2, <2>1, <2>2, <2>3, CommitServes DEF Commit
  <1> QED
    BY <1>1, <1>3, <1>4, <1>5

-----------------------------------------------------------------------------
(* The handlers the pages are made of, by the way a page follows a change. *)

Reload == INSTANCE ReloadPage
Patch == INSTANCE PatchPage
Assign == INSTANCE AssignPage

ReloadStep ==
    \/ Reload!Answers
    \/ \E Required : Reload!Submit(Required)
    \/ Reload!Refresh \/ Reload!OpenCreate
    \/ \E r \in rows : Reload!OpenEdit(r) \/ Reload!Delete(r)
    \/ \E Fields : Reload!Type(Fields)
    \/ \E resets : Reload!Close(resets)
    \/ \E Routes : Serve(Routes)

LEMMA ReloadSteps ==
    ASSUME PageTyped, page \in Forms, ReloadStep
    PROVE  PageStep
  <1> Body = [{"key", "info"} -> Filled \cup {Empty}] /\ page \notin Assigned
    BY DEF Body, Assigned, Forms
  <1>1. \A op \in {"list", "create", "update", "delete"}, id \in AnyId \cup {NoRow},
           body \in Body \cup {NoRow}, step \in {0, 1} :
             Sent(Reload!NewCall(op, id, body, step), op, id, body, step)
    BY SentIsCall DEF Reload!NewCall
  <1> USE DEF PageTyped, PageStep, Replaces, IsSave, Holds, Idle, Is, Sent,
      Reload!pageVars, Reload!loadVars, Reload!drawerVars, Reload!callVars,
      Reload!Send, Reload!Done, Reload!DoneThen, Reload!Answered,
      Reload!CanClose, Reload!CanSubmit, Reload!RowButton,
      Reload!LoadStarts, Reload!Inputs, Reload!initialForm, Reload!Reset
  <1>2. CASE Reload!LoadAnswered
    BY <1>2, CallParts DEF Ended, Reload!LoadAnswered
  <1>3. CASE Reload!DeleteAnswered
    BY <1>1, <1>3 DEF Ended, Reload!DeleteAnswered
  <1>4. CASE \E Required : Reload!Submit(Required)
    <2>1. PICK Required : Reload!Submit(Required)
      BY <1>4
    <2>2. CASE Reload!Invalid(Required)
      BY <2>1, <2>2 DEF Begun, Reload!Submit
    <2>3. CASE ~Reload!Invalid(Required)
      BY <1>1, <2>1, <2>3, RowParts DEF Saved, Sound, Reload!Submit, Reload!Save
    <2> QED
      BY <2>2, <2>3
  <1>5. CASE Reload!SubmitAnswered
    BY <1>1, <1>5 DEF SaveEnded, Reload!SubmitAnswered
  <1>6. CASE Reload!Refresh
    BY <1>1, <1>6 DEF Begun, Reload!Refresh
  <1>7. CASE Reload!OpenCreate
    BY <1>7 DEF Opened, Reload!OpenCreate
  <1>8. CASE \E r \in rows : Reload!OpenEdit(r)
    BY <1>8, RowParts DEF Opened, Reload!OpenEdit
  <1>9. CASE \E r \in rows : Reload!Delete(r)
    BY <1>1, <1>9, RowParts DEF Begun, Reload!Delete
  <1>10. CASE \E Fields : Reload!Type(Fields)
    BY <1>10 DEF Typed, Reload!Type
  <1>11. CASE \E resets : Reload!Close(resets)
    BY <1>11 DEF Closed, Reload!Close
  <1>12. CASE \E Routes : Serve(Routes)
    BY <1>12, ServeSteps
  <1> QED
    BY <1>2, <1>3, <1>4, <1>5, <1>6, <1>7, <1>8, <1>9, <1>10, <1>11, <1>12
    DEF ReloadStep, Reload!Answers

PatchStep ==
    \/ \E SeedsIfEmpty : Patch!LoadAnswered(SeedsIfEmpty)
    \/ Patch!SubmitAnswered \/ Patch!DeleteAnswered
    \/ \E Required : Patch!Submit(Required)
    \/ Patch!OpenCreate
    \/ \E r \in rows : Patch!OpenEdit(r) \/ Patch!Delete(r)
    \/ \E Fields : Patch!Type(Fields)
    \/ \E resets : Patch!Close(resets)
    \/ \E Routes : Serve(Routes)

LEMMA PatchSteps ==
    ASSUME PageTyped, SaveInv, page \in Patched, PatchStep
    PROVE  PageStep
  <1> Body = [{"key", "info"} -> Filled \cup {Empty}] /\ page \notin Assigned
    BY DEF Body, Assigned, Patched
  <1>0. \A c \in calls : ~IsSave(c) => ~Holds(c)
    BY DEF SaveInv, Patched, Forms
  <1>1. \A op \in {"create", "update", "delete"}, id \in AnyId \cup {NoRow},
           body \in Body \cup {NoRow} :
             Sent(Patch!NewCall(op, id, body, 0), op, id, body, 0)
    BY SentIsCall DEF Patch!NewCall
  <1> USE DEF PageTyped, PageStep, Replaces, IsSave, Holds, Idle, Is, Sent,
      Patch!pageVars, Patch!loadVars, Patch!drawerVars, Patch!callVars,
      Patch!Send, Patch!Done, Patch!Answered, Patch!CanClose,
      Patch!CanSubmit, Patch!RowButton, Patch!Inputs, Patch!initialForm, Patch!Reset,
      Patch!Fails
  <1>2. CASE \E SeedsIfEmpty : Patch!LoadAnswered(SeedsIfEmpty)
    <2>1. Patch!SeedRows \subseteq Row
      BY DEF Patch!SeedRows, Row, AnyId
    <2> QED
      BY <1>0, <1>2, <2>1, CallParts DEF Ended, Patch!LoadAnswered
  <1>3. CASE Patch!DeleteAnswered
    BY <1>3 DEF Ended, Patch!DeleteAnswered
  <1>4. CASE \E Required : Patch!Submit(Required)
    BY <1>1, <1>4, RowParts DEF Saved, Sound, Patch!Submit, Patch!Save
  <1>5. CASE Patch!SubmitAnswered
    <2>1. PICK c \in calls : Patch!Answered(c, {"create", "update"}) /\
             (rows' = rows \/ (c.st = "ok" /\ rows' \subseteq rows \cup {[id |-> c.id, body |-> c.body]}))
      BY <1>5 DEF Patch!SubmitAnswered
    <2>2. c.st = "ok" => [id |-> c.id, body |-> c.body] \in Row
      BY <2>1 DEF Sound, Row
    <2>3. rows' \subseteq Row
      BY <2>1, <2>2
    <2> QED
      BY <1>5, <2>3 DEF SaveEnded, Patch!SubmitAnswered
  <1>6. CASE Patch!OpenCreate
    BY <1>6 DEF Opened, Patch!OpenCreate
  <1>7. CASE \E r \in rows : Patch!OpenEdit(r)
    BY <1>7, RowParts DEF Opened, Patch!OpenEdit
  <1>8. CASE \E r \in rows : Patch!Delete(r)
    BY <1>1, <1>8, RowParts DEF Begun, Patch!Delete
  <1>9. CASE \E Fields : Patch!Type(Fields)
    BY <1>9 DEF Typed, Patch!Type
  <1>10. CASE \E resets : Patch!Close(resets)
    BY <1>10 DEF Closed, Patch!Close
  <1>11. CASE \E Routes : Serve(Routes)
    BY <1>11, ServeSteps
  <1> QED
    BY <1>2, <1>3, <1>4, <1>5, <1>6, <1>7, <1>8, <1>9, <1>10, <1>11 DEF PatchStep

AssignStep ==
    \/ \E Embedded : Assign!LoadAnswered(Embedded)
    \/ Assign!GetAnswered \/ Assign!SaveAnswered \/ Assign!Submit
    \/ Assign!Refresh \/ Assign!Toggle \/ Assign!Close
    \/ \E r \in rows : Assign!OpenEdit(r)
    \/ \E Routes : Assign!ServeAssign(Routes)

LEMMA AssignSteps ==
    ASSUME PageTyped, SaveInv, page \in Assigned, AssignStep
    PROVE  PageStep
  <1> Body = SUBSET Items
    BY DEF Body
  <1>0. \A c \in calls : ~IsSave(c) => ~Holds(c)
    BY DEF SaveInv, Assigned, Forms
  <1>1. \A op \in {"list", "get", "update"}, id \in AnyId \cup {NoRow},
           body \in Body \cup {NoRow}, step \in Nat :
             Sent(Assign!NewCall(op, id, body, step), op, id, body, step)
    BY SentIsCall DEF Assign!NewCall
  <1>2. \A i, body : body \in Body => Assign!Cached(i, body) \subseteq Row
    BY DEF Assign!Cached, Row, PageTyped
  <1> USE DEF PageTyped, PageStep, Replaces, IsSave, Holds, Idle, Is, Sent,
      Assign!pageVars, Assign!loadVars, Assign!drawerVars, Assign!callVars,
      Assign!Send, Assign!Done, Assign!DoneThen, Assign!Answered,
      Assign!CanClose, Assign!CanSubmit, Assign!RowButton,
      Assign!LoadStarts, Assign!Reset
  <1>3. CASE \E Embedded : Assign!LoadAnswered(Embedded)
    <2>1. \A l \in SUBSET Row : {[id |-> r.id, body |-> {}] : r \in l} \subseteq Row
      BY DEF Row
    <2> QED
      BY <1>0, <1>3, <2>1, CallParts DEF Ended, Assign!LoadAnswered
  <1>4. CASE Assign!GetAnswered
    <2>1. PICK c \in calls :
             /\ c.op = "get" /\ calls' = calls \ {c}
             /\ \/ UNCHANGED <<form, rows>>
                \/ \E r \in c.list : form' = r.body /\ rows' = Assign!Cached(c.id, r.body)
      BY <1>4 DEF Assign!GetAnswered
    <2>2. rows' \subseteq Row /\ form' \in Body
      BY <1>2, <2>1, CallParts, RowParts
    <2> QED
      BY <1>4, <2>1, <2>2 DEF Ended, Assign!GetAnswered
  <1>5. CASE Assign!SaveAnswered
    <2>1. PICK c \in calls : /\ Assign!Answered(c, {"update"})
                             /\ \/ /\ c.st = "failed" /\ c.step < 2
                                   /\ Assign!DoneThen(c, "update", c.id, c.body, c.step + 1)
                                   /\ UNCHANGED <<rows, saving, Assign!drawerVars>>
                                \/ /\ saving' = FALSE /\ Assign!Done(c)
                                   /\ UNCHANGED <<rows, Assign!drawerVars>>
                                \/ /\ rows' = Assign!Cached(c.id, c.body)
                                   /\ saving' = FALSE /\ Assign!Reset /\ Assign!Done(c)
      BY <1>5 DEF Assign!SaveAnswered
    <2>2. rows' \subseteq Row
      BY <1>2, <2>1 DEF Sound
    <2>3. form' \in Body
      BY <2>1
    <2>4. c.step + 1 \in Nat /\ c.id \in AnyId /\ c.body \in Body
      BY <2>1 DEF Sound, Call
    <2> QED
      BY <1>1, <2>1, <2>2, <2>3, <2>4 DEF SaveEnded, Sound
  <1>6. CASE Assign!Submit
    BY <1>1, <1>6, RowParts DEF SaveInv, Saved, Sound, Assign!Submit
  <1>7. CASE Assign!Refresh
    BY <1>1, <1>7 DEF Begun, Assign!Refresh
  <1>8. CASE Assign!Toggle
    BY <1>8 DEF Typed, Assign!Toggle
  <1>9. CASE Assign!Close
    BY <1>9 DEF Closed, Assign!Close
  <1>10. CASE \E r \in rows : Assign!OpenEdit(r)
    BY <1>1, <1>10, RowParts DEF Opened, Assign!OpenEdit
  <1>11. CASE \E Routes : Assign!ServeAssign(Routes)
    <2>0. PICK Routes : Assign!ServeAssign(Routes)
      BY <1>11
    <2>1. PICK c \in calls : \/ Assign!ServeList(c) \/ Assign!ServeGet(c)
                             \/ Assign!ServeSave(c, Routes) \/ Assign!Refuse(c)
      BY <2>0 DEF Assign!ServeAssign
    <2>2. UNCHANGED <<rows, saving, drawerOpen, editing, form, filledFrom, sent>>
      BY <2>0 DEF Assign!ServeAssign
    <2>3. Assign!RowsOf(db) \in SUBSET Row
      BY ListIsRows DEF RowsOf, Assign!RowsOf
    <2>4. CASE Assign!ServeList(c)
      BY <2>2, <2>3, <2>4, ListServes DEF Assign!ServeList
    <2>5. CASE Assign!ServeGet(c)
      <3>1. {r \in Assign!RowsOf(db) : r.id = c.id} \in SUBSET Row
        BY <2>3
      <3> QED
        BY <2>2, <2>5, <3>1, ListServes DEF Assign!ServeGet
    <2>6. CASE Assign!ServeSave(c, Routes)
      <3>1. PICK st \in {"ok", "failed"} : Assign!Commit(c, c.id, c.body, st)
        BY <2>6 DEF Assign!ServeSave
      <3>2. c.id \in AnyId /\ c.body \in Body
        BY <2>6 DEF Assign!ServeSave, Sound
      <3>3. db' \in [Ids -> Body \cup {NoRow}]
        BY <3>1, <3>2 DEF Assign!Commit
      <3> QED
        BY <2>2, <3>1, <3>2, <3>3, CommitServes DEF Assign!Commit
    <2>7. CASE Assign!Refuse(c)
      BY <2>2, <2>7, RefuseServes DEF Assign!Refuse
    <2> QED
      BY <2>1, <2>4, <2>5, <2>6, <2>7
  <1> QED
    BY <1>3, <1>4, <1>5, <1>6, <1>7, <1>8, <1>9, <1>10, <1>11 DEF AssignStep

-----------------------------------------------------------------------------
(* The pages, one by one.                                                  *)

LEMMA UsersSteps == Users!Next => ReloadStep
  <1> SUFFICES ASSUME Users!Next PROVE ReloadStep
    OBVIOUS
  <1> USE DEF Users!pageVars, Users!loadVars, Users!drawerVars, Users!callVars,
      Users!Send, Users!NewCall, Users!Done, Users!DoneThen, Users!Answered,
      Users!CanClose, Users!CanSubmit, Users!RowButton,
      Users!LoadStarts, Users!Inputs, Users!initialForm, Users!Reset, Reload!pageVars,
      Reload!loadVars, Reload!drawerVars, Reload!callVars, Reload!Send, Reload!NewCall,
      Reload!Done, Reload!DoneThen, Reload!Answered,
      Reload!CanClose, Reload!CanSubmit, Reload!RowButton, Reload!LoadStarts,
      Reload!Inputs, Reload!initialForm, Reload!Reset
  <1>1. Users!Answers => Reload!Answers
    BY DEF Users!Answers, Users!LoadAnswered, Users!SubmitAnswered,
        Users!DeleteAnswered, Reload!Answers, Reload!LoadAnswered,
        Reload!SubmitAnswered, Reload!DeleteAnswered
  <1>2. Users!Submit({"key", "info"}) => Reload!Submit({"key", "info"})
    BY DEF Users!Submit, Users!Invalid, Users!Save, Reload!Submit, Reload!Invalid,
        Reload!Save
  <1>3. Users!Toolbar => Reload!Refresh \/ Reload!OpenCreate
    BY DEF Users!Toolbar, Users!openCreateDrawer, Users!Refresh, Users!OpenCreate,
        Reload!Refresh, Reload!OpenCreate
  <1>4. Users!Table => \E r \in rows : Reload!OpenEdit(r) \/ Reload!Delete(r)
    BY DEF Users!Table, Users!openEditDrawer, Users!handleDelete, Users!OpenEdit,
        Users!Delete, Reload!OpenEdit, Reload!Delete
  <1>5. Users!Drawer => \/ Reload!Type(IF editing = NoRow THEN {"key", "info"} ELSE {"info"})
                         \/ Reload!Close(FALSE)
    BY DEF Users!Drawer, Users!closeDrawer, Users!Type, Users!Close, Reload!Type,
        Reload!Close
  <1>6. Users!Serve(Users!Routes) => Serve(Users!Routes)
    BY DEF Serve, ServeList, ServeWrite, Refuse, Commit, RowsOf, Users!Serve,
        Users!ServeList, Users!ServeWrite, Users!Refuse, Users!Commit, Users!RowsOf,
        pageVars, loadVars, drawerVars
  <1> QED
    BY <1>1, <1>2, <1>3, <1>4, <1>5, <1>6
    DEF ReloadStep, Reload!Answers, Users!Next, Users!Answers, Users!handleSubmit,
        Users!loadPageData

LEMMA RolesSteps == Roles!Next => ReloadStep
  <1> SUFFICES ASSUME Roles!Next PROVE ReloadStep
    OBVIOUS
  <1> USE DEF Roles!pageVars, Roles!loadVars, Roles!drawerVars, Roles!callVars,
      Roles!Send, Roles!NewCall, Roles!Done, Roles!DoneThen, Roles!Answered,
      Roles!CanClose, Roles!CanSubmit, Roles!RowButton,
      Roles!LoadStarts, Roles!Inputs, Roles!initialForm, Roles!Reset, Reload!pageVars,
      Reload!loadVars, Reload!drawerVars, Reload!callVars, Reload!Send, Reload!NewCall,
      Reload!Done, Reload!DoneThen, Reload!Answered,
      Reload!CanClose, Reload!CanSubmit, Reload!RowButton, Reload!LoadStarts,
      Reload!Inputs, Reload!initialForm, Reload!Reset
  <1>1. Roles!Answers => Reload!Answers
    BY DEF Roles!Answers, Roles!LoadAnswered, Roles!SubmitAnswered,
        Roles!DeleteAnswered, Reload!Answers, Reload!LoadAnswered,
        Reload!SubmitAnswered, Reload!DeleteAnswered
  <1>2. Roles!Submit({"key"}) => Reload!Submit({"key"})
    BY DEF Roles!Submit, Roles!Invalid, Roles!Save, Reload!Submit, Reload!Invalid,
        Reload!Save
  <1>3. Roles!Toolbar => Reload!Refresh \/ Reload!OpenCreate
    BY DEF Roles!Toolbar, Roles!openCreateDrawer, Roles!Refresh, Roles!OpenCreate,
        Reload!Refresh, Reload!OpenCreate
  <1>4. Roles!Table => \E r \in rows : Reload!OpenEdit(r) \/ Reload!Delete(r)
    BY DEF Roles!Table, Roles!openEditDrawer, Roles!handleDelete, Roles!OpenEdit,
        Roles!Delete, Reload!OpenEdit, Reload!Delete
  <1>5. Roles!Drawer => \/ Reload!Type(IF editing = NoRow THEN {"key", "info"} ELSE {"info"})
                         \/ Reload!Close(TRUE)
    BY DEF Roles!Drawer, Roles!closeDrawer, Roles!Type, Roles!Close, Reload!Type,
        Reload!Close
  <1>6. Roles!Serve(Roles!Routes) => Serve(Roles!Routes)
    BY DEF Serve, ServeList, ServeWrite, Refuse, Commit, RowsOf, Roles!Serve,
        Roles!ServeList, Roles!ServeWrite, Roles!Refuse, Roles!Commit, Roles!RowsOf,
        pageVars, loadVars, drawerVars
  <1> QED
    BY <1>1, <1>2, <1>3, <1>4, <1>5, <1>6
    DEF ReloadStep, Reload!Answers, Roles!Next, Roles!Answers, Roles!handleSubmit,
        Roles!loadPageData

LEMMA PermissionsSteps == Permissions!Next => ReloadStep
  <1> SUFFICES ASSUME Permissions!Next PROVE ReloadStep
    OBVIOUS
  <1> USE DEF Permissions!pageVars, Permissions!loadVars, Permissions!drawerVars,
      Permissions!callVars, Permissions!Send, Permissions!NewCall, Permissions!Done,
      Permissions!DoneThen, Permissions!Answered,
      Permissions!CanClose, Permissions!CanSubmit, Permissions!RowButton,
      Permissions!LoadStarts, Permissions!Inputs, Permissions!initialForm,
      Permissions!Reset, Reload!pageVars, Reload!loadVars, Reload!drawerVars,
      Reload!callVars, Reload!Send, Reload!NewCall, Reload!Done, Reload!DoneThen,
      Reload!Answered, Reload!CanClose, Reload!CanSubmit,
      Reload!RowButton, Reload!LoadStarts, Reload!Inputs, Reload!initialForm,
      Reload!Reset
  <1>1. Permissions!Answers => Reload!Answers
    BY DEF Permissions!Answers, Permissions!LoadAnswered, Permissions!SubmitAnswered,
        Permissions!DeleteAnswered, Reload!Answers, Reload!LoadAnswered,
        Reload!SubmitAnswered, Reload!DeleteAnswered
  <1>2. Permissions!Submit({"key", "info"}) => Reload!Submit({"key", "info"})
    BY DEF Permissions!Submit, Permissions!Invalid, Permissions!Save, Reload!Submit,
        Reload!Invalid, Reload!Save
  <1>3. Permissions!Toolbar => Reload!Refresh \/ Reload!OpenCreate
    BY DEF Permissions!Toolbar, Permissions!openCreateDrawer, Permissions!Refresh,
        Permissions!OpenCreate, Reload!Refresh, Reload!OpenCreate
  <1>4. Permissions!Table => \E r \in rows : Reload!OpenEdit(r) \/ Reload!Delete(r)
    BY DEF Permissions!Table, Permissions!openEditDrawer, Permissions!handleDelete,
        Permissions!OpenEdit, Permissions!Delete, Reload!OpenEdit, Reload!Delete
  <1>5. Permissions!Drawer => \/ Reload!Type(IF editing = NoRow THEN {"key", "info"} ELSE {"info"})
                               \/ Reload!Close(TRUE)
    BY DEF Permissions!Drawer, Permissions!closeDrawer, Permissions!Type,
        Permissions!Close, Reload!Type, Reload!Close
  <1>6. Permissions!Serve(Permissions!Routes) => Serve(Permissions!Routes)
    BY DEF Serve, ServeList, ServeWrite, Refuse, Commit, RowsOf, Permissions!Serve,
        Permissions!ServeList, Permissions!ServeWrite, Permissions!Refuse,
        Permissions!Commit, Permissions!RowsOf, pageVars, loadVars, drawerVars
  <1> QED
    BY <1>1, <1>2, <1>3, <1>4, <1>5, <1>6
    DEF ReloadStep, Reload!Answers, Permissions!Next, Permissions!Answers,
        Permissions!handleSubmit, Permissions!loadPermissions

LEMMA ChartOfAccountsSteps == ChartOfAccounts!Next => ReloadStep
  <1> SUFFICES ASSUME ChartOfAccounts!Next PROVE ReloadStep
    OBVIOUS
  <1> USE DEF ChartOfAccounts!pageVars, ChartOfAccounts!loadVars,
      ChartOfAccounts!drawerVars, ChartOfAccounts!callVars, ChartOfAccounts!Send,
      ChartOfAccounts!NewCall, ChartOfAccounts!Done, ChartOfAccounts!DoneThen,
      ChartOfAccounts!Answered, ChartOfAccounts!CanClose,
      ChartOfAccounts!CanSubmit, ChartOfAccounts!RowButton, ChartOfAccounts!LoadStarts,
      ChartOfAccounts!Inputs, ChartOfAccounts!initialForm, ChartOfAccounts!Reset,
      Reload!pageVars, Reload!loadVars, Reload!drawerVars, Reload!callVars, Reload!Send,
      Reload!NewCall, Reload!Done, Reload!DoneThen, Reload!Answered,
      Reload!CanClose, Reload!CanSubmit, Reload!RowButton,
      Reload!LoadStarts, Reload!Inputs, Reload!initialForm, Reload!Reset
  <1>1. ChartOfAccounts!Answers => Reload!Answers
    BY DEF ChartOfAccounts!Answers, ChartOfAccounts!LoadAnswered,
        ChartOfAccounts!SubmitAnswered, ChartOfAccounts!DeleteAnswered, Reload!Answers,
        Reload!LoadAnswered, Reload!SubmitAnswered, Reload!DeleteAnswered
  <1>2. ChartOfAccounts!Submit({"key", "info"}) => Reload!Submit({"key", "info"})
    BY DEF ChartOfAccounts!Submit, ChartOfAccounts!Invalid, ChartOfAccounts!Save,
        Reload!Submit, Reload!Invalid, Reload!Save
  <1>3. ChartOfAccounts!Toolbar => Reload!Refresh \/ Reload!OpenCreate
    BY DEF ChartOfAccounts!Toolbar, ChartOfAccounts!openCreateDrawer,
        ChartOfAccounts!Refresh, ChartOfAccounts!OpenCreate, Reload!Refresh,
        Reload!OpenCreate
  <1>4. ChartOfAccounts!Table => \E r \in rows : Reload!OpenEdit(r) \/ Reload!Delete(r)
    BY DEF ChartOfAccounts!Table, ChartOfAccounts!openEditDrawer,
        ChartOfAccounts!handleDelete, ChartOfAccounts!OpenEdit, ChartOfAccounts!Delete,
        Reload!OpenEdit, Reload!Delete
  <1>5. ChartOfAccounts!Drawer => \/ Reload!Type(IF editing = NoRow THEN {"key", "info"} ELSE {"info"})
                                   \/ Reload!Close(TRUE)
    BY DEF ChartOfAccounts!Drawer, ChartOfAccounts!closeDrawer, ChartOfAccounts!Type,
        ChartOfAccounts!Close, Reload!Type, Reload!Close
  <1>6. ChartOfAccounts!Serve(ChartOfAccounts!Routes) => Serve(ChartOfAccounts!Routes)
    BY DEF Serve, ServeList, ServeWrite, Refuse, Commit, RowsOf, ChartOfAccounts!Serve,
        ChartOfAccounts!ServeList, ChartOfAccounts!ServeWrite, ChartOfAccounts!Refuse,
        ChartOfAccounts!Commit, ChartOfAccounts!RowsOf, pageVars, loadVars, drawerVars
  <1> QED
    BY <1>1, <1>2, <1>3, <1>4, <1>5, <1>6
    DEF ReloadStep, Reload!Answers, ChartOfAccounts!Next, ChartOfAccounts!Answers,
        ChartOfAccounts!handleSubmit, ChartOfAccounts!loadAccounts

LEMMA OrganizationsSteps == Organizations!Next => PatchStep
  <1> SUFFICES ASSUME Organizations!Next PROVE PatchStep
    OBVIOUS
  <1> USE DEF Organizations!pageVars, Organizations!loadVars, Organizations!drawerVars,
      Organizations!callVars, Organizations!Send, Organizations!NewCall,
      Organizations!Done, Organizations!Answered,
      Organizations!CanClose, Organizations!CanSubmit, Organizations!RowButton,
      Organizations!Inputs, Organizations!initialForm, Organizations!Reset,
      Organizations!Fails, Patch!pageVars, Patch!loadVars, Patch!drawerVars,
      Patch!callVars, Patch!Send, Patch!NewCall, Patch!Done, Patch!Answered,
      Patch!CanClose, Patch!CanSubmit, Patch!RowButton,
      Patch!Inputs, Patch!initialForm, Patch!Reset, Patch!Fails
  <1>1. Organizations!loadOrganizations => Patch!LoadAnswered(FALSE)
    BY DEF Organizations!loadOrganizations, Organizations!LoadAnswered,
        Organizations!SeedRows, Patch!LoadAnswered, Patch!SeedRows
  <1>2. Organizations!SubmitAnswered => Patch!SubmitAnswered
    BY DEF Organizations!SubmitAnswered, Patch!SubmitAnswered
  <1>3. Organizations!DeleteAnswered => Patch!DeleteAnswered
    BY DEF Organizations!DeleteAnswered, Patch!DeleteAnswered
  <1>4. Organizations!Submit({"key"}) => Patch!Submit({"key"})
    BY DEF Organizations!Submit, Organizations!Invalid, Organizations!Save,
        Patch!Submit, Patch!Invalid, Patch!Save
  <1>5. Organizations!openCreateDrawer => Patch!OpenCreate
    BY DEF Organizations!openCreateDrawer, Organizations!OpenCreate, Patch!OpenCreate
  <1>6. Organizations!Table => \E r \in rows : Patch!OpenEdit(r) \/ Patch!Delete(r)
    BY DEF Organizations!Table, Organizations!openEditDrawer,
        Organizations!handleDelete, Organizations!OpenEdit, Organizations!Delete,
        Patch!OpenEdit, Patch!Delete
  <1>7. Organizations!Drawer => Patch!Type({"key", "info"}) \/ Patch!Close(TRUE)
    BY DEF Organizations!Drawer, Organizations!closeDrawer, Organizations!Type,
        Organizations!Close, Patch!Type, Patch!Close
  <1>8. Organizations!Serve(Organizations!Routes) => Serve(Organizations!Routes)
    BY DEF Serve, ServeList, ServeWrite, Refuse, Commit, RowsOf, Organizations!Serve,
        Organizations!ServeList, Organizations!ServeWrite, Organizations!Refuse,
        Organizations!Commit, Organizations!RowsOf, pageVars, loadVars, drawerVars
  <1> QED
    BY <1>1, <1>2, <1>3, <1>4, <1>5, <1>6, <1>7, <1>8
    DEF PatchStep, Organizations!Next, Organizations!handleSubmit

LEMMA OrganizationTypesSteps == OrganizationTypes!Next => PatchStep
  <1> SUFFICES ASSUME OrganizationTypes!Next PROVE PatchStep
    OBVIOUS
  <1> USE DEF OrganizationTypes!pageVars, OrganizationTypes!loadVars,
      OrganizationTypes!drawerVars, OrganizationTypes!callVars, OrganizationTypes!Send,
      OrganizationTypes!NewCall, OrganizationTypes!Done, OrganizationTypes!Answered,
      OrganizationTypes!CanClose,
      OrganizationTypes!CanSubmit, OrganizationTypes!RowButton,
      OrganizationTypes!Inputs, OrganizationTypes!initialForm, OrganizationTypes!Reset,
      OrganizationTypes!Fails, Patch!pageVars, Patch!loadVars, Patch!drawerVars,
      Patch!callVars, Patch!Send, Patch!NewCall, Patch!Done, Patch!Answered,
      Patch!CanClose, Patch!CanSubmit, Patch!RowButton,
      Patch!Inputs, Patch!initialForm, Patch!Reset, Patch!Fails
  <1>1. OrganizationTypes!loadRows => Patch!LoadAnswered(TRUE)
    BY DEF OrganizationTypes!loadRows, OrganizationTypes!LoadAnswered,
        OrganizationTypes!SeedRows, Patch!LoadAnswered, Patch!SeedRows
  <1>2. OrganizationTypes!SubmitAnswered => Patch!SubmitAnswered
    BY DEF OrganizationTypes!SubmitAnswered, Patch!SubmitAnswered
  <1>3. OrganizationTypes!DeleteAnswered => Patch!DeleteAnswered
    BY DEF OrganizationTypes!DeleteAnswered, Patch!DeleteAnswered
  <1>4. OrganizationTypes!Submit({"key", "info"}) => Patch!Submit({"key", "info"})
    BY DEF OrganizationTypes!Submit, OrganizationTypes!Invalid, OrganizationTypes!Save,
        Patch!Submit, Patch!Invalid, Patch!Save
  <1>5. OrganizationTypes!openCreateDrawer => Patch!OpenCreate
    BY DEF OrganizationTypes!openCreateDrawer, OrganizationTypes!OpenCreate,
        Patch!OpenCreate
  <1>6. OrganizationTypes!Table => \E r \in rows : Patch!OpenEdit(r) \/ Patch!Delete(r)
    BY DEF OrganizationTypes!Table, OrganizationTypes!openEditDrawer,
        OrganizationTypes!handleDelete, OrganizationTypes!OpenEdit,
        OrganizationTypes!Delete, Patch!OpenEdit, Patch!Delete
  <1>7. OrganizationTypes!Drawer => Patch!Type({"key", "info"}) \/ Patch!Close(TRUE)
    BY DEF OrganizationTypes!Drawer, OrganizationTypes!closeDrawer,
        OrganizationTypes!Type, OrganizationTypes!Close, Patch!Type, Patch!Close
  <1>8. OrganizationTypes!Serve(OrganizationTypes!Routes) => Serve(OrganizationTypes!Routes)
    BY DEF Serve, ServeList, ServeWrite, Refuse, Commit, RowsOf,
        OrganizationTypes!Serve, OrganizationTypes!ServeList,
        OrganizationTypes!ServeWrite, OrganizationTypes!Refuse,
        OrganizationTypes!Commit, OrganizationTypes!RowsOf, pageVars, loadVars,
        drawerVars
  <1> QED
    BY <1>1, <1>2, <1>3, <1>4, <1>5, <1>6, <1>7, <1>8
    DEF PatchStep, OrganizationTypes!Next, OrganizationTypes!handleSubmit

LEMMA MenuItemsSteps == MenuItems!Next => PatchStep
  <1> SUFFICES ASSUME MenuItems!Next PROVE PatchStep
    OBVIOUS
  <1> USE DEF MenuItems!pageVars, MenuItems!loadVars, MenuItems!drawerVars,
      MenuItems!callVars, MenuItems!Send, MenuItems!NewCall, MenuItems!Done,
      MenuItems!Answered, MenuItems!CanClose,
      MenuItems!CanSubmit, MenuItems!RowButton, MenuItems!Inputs, MenuItems!initialForm,
      MenuItems!Reset, MenuItems!Fails, Patch!pageVars, Patch!loadVars,
      Patch!drawerVars, Patch!callVars, Patch!Send, Patch!NewCall, Patch!Done,
      Patch!Answered, Patch!CanClose, Patch!CanSubmit,
      Patch!RowButton, Patch!Inputs, Patch!initialForm, Patch!Reset, Patch!Fails
  <1>1. MenuItems!loadPageData => Patch!LoadAnswered(TRUE)
    BY DEF MenuItems!loadPageData, MenuItems!LoadAnswered, MenuItems!SeedRows,
        Patch!LoadAnswered, Patch!SeedRows
  <1>2. MenuItems!SubmitAnswered => Patch!SubmitAnswered
    BY DEF MenuItems!SubmitAnswered, Patch!SubmitAnswered
  <1>3. MenuItems!DeleteAnswered => Patch!DeleteAnswered
    BY DEF MenuItems!DeleteAnswered, Patch!DeleteAnswered
  <1>4. MenuItems!Submit({"key", "info"}) => Patch!Submit({"key", "info"})
    BY DEF MenuItems!Submit, MenuItems!Invalid, MenuItems!Save, Patch!Submit,
        Patch!Invalid, Patch!Save
  <1>5. MenuItems!openCreateDrawer => Patch!OpenCreate
    BY DEF MenuItems!openCreateDrawer, MenuItems!OpenCreate, Patch!OpenCreate
  <1>6. MenuItems!Table => \E r \in rows : Patch!OpenEdit(r) \/ Patch!Delete(r)
    BY DEF MenuItems!Table, MenuItems!openEditDrawer, MenuItems!handleDelete,
        MenuItems!OpenEdit, MenuItems!Delete, Patch!OpenEdit, Patch!Delete
  <1>7. MenuItems!Drawer => Patch!Type({"key", "info"}) \/ Patch!Close(TRUE)
    BY DEF MenuItems!Drawer, MenuItems!closeDrawer, MenuItems!Type, MenuItems!Close,
        Patch!Type, Patch!Close
  <1>8. MenuItems!Serve(MenuItems!Routes) => Serve(MenuItems!Routes)
    BY DEF Serve, ServeList, ServeWrite, Refuse, Commit, RowsOf, MenuItems!Serve,
        MenuItems!ServeList, MenuItems!ServeWrite, MenuItems!Refuse, MenuItems!Commit,
        MenuItems!RowsOf, pageVars, loadVars, drawerVars
  <1> QED
    BY <1>1, <1>2, <1>3, <1>4, <1>5, <1>6, <1>7, <1>8
    DEF PatchStep, MenuItems!Next, MenuItems!handleSubmit

LEMMA RolePermissionsSteps == RolePermissions!Next => AssignStep
  <1> SUFFICES ASSUME RolePermissions!Next PROVE AssignStep
    OBVIOUS
  <1> USE DEF RolePermissions!pageVars, RolePermissions!loadVars,
      RolePermissions!drawerVars, RolePermissions!callVars, RolePermissions!Send,
      RolePermissions!NewCall, RolePermissions!Done, RolePermissions!DoneThen,
      RolePermissions!Answered, RolePermissions!CanClose,
      RolePermissions!CanSubmit, RolePermissions!RowButton, RolePermissions!LoadStarts,
      RolePermissions!Reset, RolePermissions!Cached, Assign!pageVars, Assign!loadVars,
      Assign!drawerVars, Assign!callVars, Assign!Send, Assign!NewCall, Assign!Done,
      Assign!DoneThen, Assign!Answered, Assign!CanClose,
      Assign!CanSubmit, Assign!RowButton, Assign!LoadStarts, Assign!Reset, Assign!Cached
  <1>1. RolePermissions!loadPageData => Assign!LoadAnswered(FALSE)
    BY DEF RolePermissions!loadPageData, RolePermissions!LoadAnswered,
        Assign!LoadAnswered
  <1>2. RolePermissions!loadRolePermissions => Assign!GetAnswered
    BY DEF RolePermissions!loadRolePermissions, RolePermissions!GetAnswered,
        Assign!GetAnswered
  <1>3. RolePermissions!handleSavePermissions => Assign!Submit \/ Assign!SaveAnswered
    BY DEF RolePermissions!handleSavePermissions, RolePermissions!Submit,
        RolePermissions!SaveAnswered, Assign!Submit, Assign!SaveAnswered
  <1>4. RolePermissions!Toolbar => Assign!Refresh
    BY DEF RolePermissions!Toolbar, RolePermissions!Refresh, Assign!Refresh
  <1>5. RolePermissions!Table => \E r \in rows : Assign!OpenEdit(r)
    BY DEF RolePermissions!Table, RolePermissions!openEditDrawer,
        RolePermissions!OpenEdit, Assign!OpenEdit
  <1>6. RolePermissions!Drawer => Assign!Toggle \/ Assign!Close
    BY DEF RolePermissions!Drawer, RolePermissions!closeDrawer,
        RolePermissions!togglePermission, RolePermissions!Toggle, RolePermissions!Close,
        Assign!Toggle, Assign!Close
  <1>7. RolePermissions!ServeAssign(RolePermissions!Routes) => Assign!ServeAssign(RolePermissions!Routes)
    BY DEF RolePermissions!ServeAssign, RolePermissions!ServeList,
        RolePermissions!ServeGet, RolePermissions!ServeSave, RolePermissions!Refuse,
        RolePermissions!Commit, RolePermissions!RowsOf, Assign!ServeAssign,
        Assign!ServeList, Assign!ServeGet, Assign!ServeSave, Assign!Refuse,
        Assign!Commit, Assign!RowsOf
  <1> QED
    BY <1>1, <1>2, <1>3, <1>4, <1>5, <1>6, <1>7
    DEF AssignStep, RolePermissions!Next

LEMMA UserRolesSteps == UserRoles!Next => AssignStep
  <1> SUFFICES ASSUME UserRoles!Next PROVE AssignStep
    OBVIOUS
  <1> USE DEF UserRoles!pageVars, UserRoles!loadVars, UserRoles!drawerVars,
      UserRoles!callVars, UserRoles!Send, UserRoles!NewCall, UserRoles!Done,
      UserRoles!DoneThen, UserRoles!Answered,
      UserRoles!CanClose, UserRoles!CanSubmit, UserRoles!RowButton,
      UserRoles!LoadStarts, UserRoles!Reset, UserRoles!Cached, Assign!pageVars,
      Assign!loadVars, Assign!drawerVars, Assign!callVars, Assign!Send, Assign!NewCall,
      Assign!Done, Assign!DoneThen, Assign!Answered,
      Assign!CanClose, Assign!CanSubmit, Assign!RowButton, Assign!LoadStarts,
      Assign!Reset, Assign!Cached
  <1>1. UserRoles!loadPageData => Assign!LoadAnswered(TRUE)
    BY DEF UserRoles!loadPageData, UserRoles!LoadAnswered, Assign!LoadAnswered
  <1>2. UserRoles!loadUserRoles => Assign!GetAnswered
    BY DEF UserRoles!loadUserRoles, UserRoles!GetAnswered, Assign!GetAnswered
  <1>3. UserRoles!handleSaveUserRoles => Assign!Submit \/ Assign!SaveAnswered
    BY DEF UserRoles!handleSaveUserRoles, UserRoles!Submit, UserRoles!SaveAnswered,
        Assign!Submit, Assign!SaveAnswered
  <1>4. UserRoles!Toolbar => Assign!Refresh
    BY DEF UserRoles!Toolbar, UserRoles!Refresh, Assign!Refresh
  <1>5. UserRoles!Table => \E r \in rows : Assign!OpenEdit(r)
    BY DEF UserRoles!Table, UserRoles!openEditDrawer, UserRoles!OpenEdit,
        Assign!OpenEdit
  <1>6. UserRoles!Drawer => Assign!Toggle \/ Assign!Close
    BY DEF UserRoles!Drawer, UserRoles!closeDrawer, UserRoles!toggleRole,
        UserRoles!Toggle, UserRoles!Close, Assign!Toggle, Assign!Close
  <1>7. UserRoles!ServeAssign(UserRoles!Routes) => Assign!ServeAssign(UserRoles!Routes)
    BY DEF UserRoles!ServeAssign, UserRoles!ServeList, UserRoles!ServeGet,
        UserRoles!ServeSave, UserRoles!Refuse, UserRoles!Commit, UserRoles!RowsOf,
        Assign!ServeAssign, Assign!ServeList, Assign!ServeGet, Assign!ServeSave,
        Assign!Refuse, Assign!Commit, Assign!RowsOf
  <1> QED
    BY <1>1, <1>2, <1>3, <1>4, <1>5, <1>6, <1>7
    DEF AssignStep, UserRoles!Next

\* Setting a default is this page's own, and so is what the API does then.
LEMMA PaymentAccountsKinds ==
    PaymentAccounts!Next =>
      \/ PatchStep
      \/ \E r \in rows : PaymentAccounts!handleSetDefault(r)
      \/ PaymentAccounts!SetDefaultAnswered \/ PaymentAccounts!ServeAccounts
  <1> USE DEF PaymentAccounts!pageVars, PaymentAccounts!loadVars,
      PaymentAccounts!drawerVars, PaymentAccounts!callVars, PaymentAccounts!Send,
      PaymentAccounts!Done, PaymentAccounts!Answered,
      PaymentAccounts!CanClose, PaymentAccounts!CanSubmit, PaymentAccounts!RowButton,
      PaymentAccounts!Inputs, PaymentAccounts!initialForm, PaymentAccounts!Reset,
      PaymentAccounts!Fails, Patch!pageVars, Patch!loadVars, Patch!drawerVars,
      Patch!callVars, Patch!Send, Patch!Done, Patch!Answered,
      Patch!CanClose, Patch!CanSubmit, Patch!RowButton, Patch!Inputs, Patch!initialForm,
      Patch!Reset, Patch!Fails
  <1>1. PaymentAccounts!loadPaymentAccounts => Patch!LoadAnswered(FALSE)
    BY DEF PaymentAccounts!loadPaymentAccounts, PaymentAccounts!LoadAnswered,
        PaymentAccounts!SeedRows, Patch!LoadAnswered, Patch!SeedRows
  <1>2. PaymentAccounts!SubmitAnswered => Patch!SubmitAnswered
    BY DEF PaymentAccounts!SubmitAnswered, Patch!SubmitAnswered
  <1>3. PaymentAccounts!DeleteAnswered => Patch!DeleteAnswered
    BY DEF PaymentAccounts!DeleteAnswered, Patch!DeleteAnswered
  <1>4. PaymentAccounts!Submit({"key"}) => Patch!Submit({"key"})
    BY DEF PaymentAccounts!Submit, PaymentAccounts!Invalid, PaymentAccounts!Save,
        PaymentAccounts!NewCall, Patch!Submit, Patch!Invalid, Patch!Save, Patch!NewCall
  <1>5. PaymentAccounts!openCreateDrawer => Patch!OpenCreate
    BY DEF PaymentAccounts!openCreateDrawer, PaymentAccounts!OpenCreate,
        Patch!OpenCreate
  <1>6. PaymentAccounts!Drawer => Patch!Type({"key", "info"}) \/ Patch!Close(TRUE)
    BY DEF PaymentAccounts!Drawer, PaymentAccounts!closeDrawer, PaymentAccounts!Type,
        PaymentAccounts!Close, Patch!Type, Patch!Close
  <1>7. PaymentAccounts!Table => \E r \in rows : \/ Patch!OpenEdit(r) \/ Patch!Delete(r)
                                           \/ PaymentAccounts!handleSetDefault(r)
    BY DEF PaymentAccounts!Table, PaymentAccounts!openEditDrawer,
        PaymentAccounts!handleDelete, PaymentAccounts!OpenEdit, PaymentAccounts!Delete,
        PaymentAccounts!NewCall, Patch!OpenEdit, Patch!Delete, Patch!NewCall
  <1> QED
    BY <1>1, <1>2, <1>3, <1>4, <1>5, <1>6, <1>7
    DEF PatchStep, PaymentAccounts!Next, PaymentAccounts!handleSubmit

LEMMA PaymentAccountsSteps ==
    ASSUME PageTyped, SaveInv, page = "payment-accounts", PaymentAccounts!Next
    PROVE  PageStep
  <1> Body = [{"key", "info"} -> Filled \cup {Empty}] /\ page \in Patched /\ page \notin Assigned
    BY DEF Body, Assigned, Patched
  <1> USE DEF PaymentAccounts!pageVars, PaymentAccounts!loadVars,
      PaymentAccounts!drawerVars, PaymentAccounts!callVars, PaymentAccounts!Send, PaymentAccounts!Done,
      PaymentAccounts!Answered, PaymentAccounts!RowButton, PaymentAccounts!Fails
  <1>1. CASE PatchStep
    BY <1>1, PatchSteps
  <1>2. CASE \E r \in rows : PaymentAccounts!handleSetDefault(r)
    <2>1. PICK r \in rows : PaymentAccounts!handleSetDefault(r)
      BY <1>2
    <2>2. Sent(PaymentAccounts!NewCall("default", r.id, NoRow, 0), "default", r.id, NoRow, 0)
      BY SentIsCall, RowParts DEF PaymentAccounts!NewCall, PageTyped
    <2> QED
      BY <2>1, <2>2 DEF PageStep, Begun, Idle, Holds, IsSave, Is, Sent, PageTyped,
          PaymentAccounts!handleSetDefault
  <1>3. CASE PaymentAccounts!SetDefaultAnswered
    <2>1. PaymentAccounts!Yes \in Filled
      BY FilledAssumption DEF PaymentAccounts!Yes
    <2>2. \A i : \A r \in rows :
             [r EXCEPT !.body["info"] = IF r.id = i THEN PaymentAccounts!Yes ELSE Empty] \in Row
      BY <2>1 DEF Row, PageTyped
    <2>3. PICK c \in calls :
             /\ c.op = "default" /\ calls' = calls \ {c}
             /\ \/ UNCHANGED rows
                \/ rows' = {[r EXCEPT !.body["info"] = IF r.id = c.id THEN PaymentAccounts!Yes
                                                                     ELSE Empty] : r \in rows}
      BY <1>3 DEF PaymentAccounts!SetDefaultAnswered
    <2>4. rows' \subseteq Row
      BY <2>2, <2>3 DEF PageTyped
    <2>5. UNCHANGED <<saving, drawerOpen, editing, form, filledFrom, sent, db>>
      BY <1>3 DEF PaymentAccounts!SetDefaultAnswered
    <2> QED
      BY <2>3, <2>4, <2>5 DEF PageStep, Ended, IsSave, Holds, PageTyped
  <1>4. CASE PaymentAccounts!ServeAccounts
    <2>1. PICK c \in calls : \/ PaymentAccounts!ServeList(c) \/ PaymentAccounts!ServeAccount(c)
                             \/ PaymentAccounts!Refuse(c)
      BY <1>4 DEF PaymentAccounts!ServeAccounts
    <2>2. UNCHANGED <<rows, saving, drawerOpen, editing, form, filledFrom, sent>>
      BY <1>4 DEF PaymentAccounts!ServeAccounts
    <2>3. CASE PaymentAccounts!ServeList(c)
      <3>1. PaymentAccounts!RowsOf(db) \in SUBSET Row
        BY ListIsRows DEF RowsOf, PaymentAccounts!RowsOf
      <3> QED
        <4>1. /\ ~IsSave(c) /\ UNCHANGED db
              /\ calls' = (calls \ {c}) \cup {[c EXCEPT !.st = "ok",
                                                      !.list = PaymentAccounts!RowsOf(db)]}
          BY <2>3 DEF IsSave, PaymentAccounts!ServeList
        <4>2. Served
          BY <2>2, <3>1, <4>1, ListServes, Zenon
        <4> QED
          BY <4>2 DEF PageStep
    <2>4. CASE PaymentAccounts!Refuse(c)
      BY <2>2, <2>4, RefuseServes DEF PageStep, PaymentAccounts!Refuse
    <2>5. CASE PaymentAccounts!ServeAccount(c)
      <3>1. PICK st \in {"ok", "failed"}, i \in Ids, body \in Body :
               PaymentAccounts!CommitAccount(c, i, body, st) /\ c.op # "update"
        BY <2>5, FilledAssumption DEF PaymentAccounts!Yes, PaymentAccounts!ServeAccount, PageTyped, Sound, IsSave
      <3>2. PaymentAccounts!Cleared(body["key"], i) \in [Ids -> Body \cup {NoRow}]
        BY DEF PaymentAccounts!Cleared, PageTyped
      <3>3. db' \in [Ids -> Body \cup {NoRow}]
        BY <3>1, <3>2 DEF PaymentAccounts!CommitAccount, PageTyped
      <3>4. i \in AnyId
        BY DEF AnyId
      <3> QED
        <4>1. calls' = (calls \ {c}) \cup {[c EXCEPT !.st = st, !.id = i]}
          BY <3>1 DEF PaymentAccounts!CommitAccount
        <4>2. Served
          BY <2>2, <3>1, <3>3, <3>4, <4>1, CommitServes, Zenon
        <4> QED
          BY <4>2 DEF PageStep
    <2> QED
      BY <2>1, <2>3, <2>4, <2>5
  <1> QED
    BY <1>1, <1>2, <1>3, <1>4, PaymentAccountsKinds

-----------------------------------------------------------------------------
(* What the other variables hold, and how many calls a page sends: beyond  *)
(* those the user begins, a write ends with one load and an assignment is  *)
(* tried in at most two more ways.                                         *)

RestTyped ==
    /\ loading \in BOOLEAN /\ error \in BOOLEAN /\ crossed \in BOOLEAN
    /\ filledFrom \in AnyId \cup {NoRow}
    /\ past \in [Ids -> SUBSET (Body \cup {NoRow})]
    /\ lastLoad \in 1..sent

IsWrite(c) == c.op \in {"create", "update", "delete"}

\* The handler of c may send at least k further calls, one after the other.
Owes(c, k) ==
    \/ page \in Forms /\ IsWrite(c) /\ k = 1
    \/ page \in Assigned /\ c.op = "update" /\ c.step + k <= 2
Owing(k) == {c \in calls : Owes(c, k)}

NumberedInv == \A c \in calls : c.n \in 1..sent /\ c.step \in 0..2

CountInv ==
    /\ IsFiniteSet(calls) /\ Cardinality(calls) <= sent
    /\ sent + Cardinality(Owing(1)) + Cardinality(Owing(2)) <= 1 + 3 * MaxCalls

\* A handler goes on from the answer of c with d.
Follows(c, d) ==
    \/ page \in Forms /\ IsWrite(c) /\ d.op = "list" /\ d.step \in {0, 1}
    \/ /\ page \in Assigned /\ c.op = "update" /\ d.op = "update"
       /\ c.step < 2 /\ d.step = c.step + 1

Same(c, d) == d.n = c.n /\ d.op = c.op /\ d.step = c.step

\* A call is begun, answered, followed by another, or served.
CallsStep ==
    \/ UNCHANGED <<calls, sent>>
    \/ \E d : /\ calls' = calls \cup {d} /\ d.n = sent + 1 /\ d.step = 0
              /\ sent < MaxCalls /\ sent' = sent + 1
    \/ \E c \in calls : calls' = calls \ {c} /\ UNCHANGED sent
    \/ \E c \in calls : \E d : /\ calls' = (calls \ {c}) \cup {d} /\ d.n = sent + 1
                               /\ Follows(c, d) /\ sent' = sent + 1
    \/ \E c \in calls : \E d : calls' = (calls \ {c}) \cup {d} /\ Same(c, d) /\ UNCHANGED sent

RestStep ==
    /\ loading' \in BOOLEAN /\ error' \in BOOLEAN /\ crossed' \in BOOLEAN
    /\ filledFrom' \in AnyId \cup {NoRow}
    /\ past' \in [Ids -> SUBSET (Body \cup {NoRow})]
    /\ lastLoad' = lastLoad \/ (lastLoad' = sent + 1 /\ sent' = sent + 1)
    /\ CallsStep

\* How a finite set grows when an element is added, removed or replaced.
LEMMA CountAdded ==
    ASSUME NEW S, IsFiniteSet(S), NEW d, NEW T \in SUBSET (S \cup {d})
    PROVE  /\ IsFiniteSet(T)
           /\ Cardinality(S) \in Nat /\ Cardinality(T) \in Nat
           /\ Cardinality(T) <= Cardinality(S) + 1
           /\ T \subseteq S => Cardinality(T) <= Cardinality(S)
  <1>1. IsFiniteSet(S \cup {d}) /\ Cardinality(S \cup {d}) <= Cardinality(S) + 1
    <2>1. Cardinality(S) \in Nat
      BY FS_CardinalityType
    <2> QED
      BY <2>1, FS_AddElement
  <1>2. IsFiniteSet(T) /\ Cardinality(T) <= Cardinality(S \cup {d})
    BY <1>1, FS_Subset
  <1>3. Cardinality(S) \in Nat /\ Cardinality(T) \in Nat /\ Cardinality(S \cup {d}) \in Nat
    BY <1>1, <1>2, FS_CardinalityType
  <1>4. T \subseteq S => Cardinality(T) <= Cardinality(S)
    BY FS_Subset
  <1> QED
    BY <1>1, <1>2, <1>3, <1>4

LEMMA CountReplaced ==
    ASSUME NEW S, IsFiniteSet(S), NEW c \in S, NEW d, NEW T \in SUBSET ((S \ {c}) \cup {d})
    PROVE  /\ IsFiniteSet(T)
           /\ Cardinality(S) \in Nat /\ Cardinality(T) \in Nat
           /\ Cardinality(T) <= Cardinality(S)
           /\ d \notin T => Cardinality(T) + 1 <= Cardinality(S)
  <1> DEFINE R == S \ {c}
  <1>1. IsFiniteSet(R) /\ Cardinality(R) = Cardinality(S) - 1
    BY FS_RemoveElement
  <1>2. T \in SUBSET (R \cup {d}) /\ (d \notin T => T \subseteq R)
    OBVIOUS
  <1> HIDE DEF R
  <1>3. /\ IsFiniteSet(T) /\ Cardinality(R) \in Nat /\ Cardinality(T) \in Nat
        /\ Cardinality(T) <= Cardinality(R) + 1
        /\ T \subseteq R => Cardinality(T) <= Cardinality(R)
    BY <1>1, <1>2, CountAdded
  <1>4. Cardinality(S) \in Nat
    BY FS_CardinalityType
  <1> QED
    BY <1>1, <1>2, <1>3, <1>4

LEMMA CallsKept ==
    ASSUME sent \in Nat, NumberedInv, CountInv, page' = page, CallsStep
    PROVE  /\ NumberedInv' /\ CountInv'
           /\ sent' \in {sent, sent + 1}
  <1> DEFINE bound == 1 + 3 * MaxCalls
  <1>0. MaxCalls \in Nat /\ bound \in Nat
    BY MaxCallsAssumption
  <1>1. /\ IsFiniteSet(calls) /\ Cardinality(calls) \in Nat
        /\ \A k \in {1, 2} : /\ IsFiniteSet(Owing(k)) /\ Cardinality(Owing(k)) \in Nat
                             /\ Cardinality(Owing(k)) <= Cardinality(calls)
    <2>1. \A k : Owing(k) \in SUBSET calls
      BY DEF Owing
    <2> QED
      BY <2>1, FS_Subset, FS_CardinalityType DEF CountInv
  <1>2. \A c, k : Owes(c, k)' <=> Owes(c, k)
    BY DEF Owes
  <1>3. \A k : Owing(k)' = {c \in calls' : Owes(c, k)}
    BY <1>2 DEF Owing
  <1>4. CASE UNCHANGED <<calls, sent>>
    BY <1>3, <1>4 DEF NumberedInv, CountInv, Owing
  <1>5. ASSUME NEW d, calls' = calls \cup {d}, d.n = sent + 1, d.step = 0,
               sent < MaxCalls, sent' = sent + 1
        PROVE  NumberedInv' /\ CountInv'
    <2>1. NumberedInv'
      BY <1>5 DEF NumberedInv
    <2>2. IsFiniteSet(calls') /\ Cardinality(calls') <= Cardinality(calls) + 1
      BY <1>1, <1>5, CountAdded
    <2>3. ASSUME NEW k \in {1, 2}
          PROVE  /\ Cardinality(Owing(k)') \in Nat
                 /\ Cardinality(Owing(k)') <= Cardinality(Owing(k)) + 1
      <3>1. Owing(k)' \in SUBSET (Owing(k) \cup {d})
        BY <1>3, <1>5 DEF Owing
      <3> QED
        BY <1>1, <3>1, CountAdded
    <2>4. Cardinality(Owing(1)') <= sent + 1 /\ Cardinality(Owing(2)') <= sent + 1
      BY <1>1, <2>3 DEF CountInv
    <2>5. sent + 1 <= MaxCalls
      BY <1>0, <1>5
    <2>6. \A a, b \in Nat : a <= sent + 1 /\ b <= sent + 1 =>
             (sent + 1) + a + b <= 1 + 3 * MaxCalls
      BY <1>0, <2>5
    <2>7. sent' + Cardinality(Owing(1)') + Cardinality(Owing(2)') <= 1 + 3 * MaxCalls
      BY <1>5, <2>3, <2>4, <2>6
    <2>8. Cardinality(calls') <= sent'
      BY <1>1, <1>5, <2>2, FS_CardinalityType DEF CountInv
    <2> QED
      BY <2>1, <2>2, <2>7, <2>8 DEF CountInv
  <1>6. ASSUME NEW c \in calls, calls' = calls \ {c}, UNCHANGED sent
        PROVE  NumberedInv' /\ CountInv'
    <2>1. NumberedInv'
      BY <1>6 DEF NumberedInv
    <2>2. IsFiniteSet(calls') /\ Cardinality(calls') <= Cardinality(calls)
      BY <1>1, <1>6, FS_Subset
    <2>3. ASSUME NEW k \in {1, 2}
          PROVE  Cardinality(Owing(k)') \in Nat /\ Cardinality(Owing(k)') <= Cardinality(Owing(k))
      <3>1. Owing(k)' \in SUBSET Owing(k)
        BY <1>3, <1>6 DEF Owing
      <3> QED
        BY <1>1, <3>1, FS_Subset, FS_CardinalityType
    <2> QED
      BY <1>0, <1>1, <1>6, <2>1, <2>2, <2>3, FS_CardinalityType DEF CountInv
  <1>7. ASSUME NEW c \in calls, NEW d, calls' = (calls \ {c}) \cup {d}, UNCHANGED sent,
               d.n = c.n, d.op = c.op, d.step = c.step
        PROVE  NumberedInv' /\ CountInv'
    <2>1. NumberedInv'
      BY <1>7 DEF NumberedInv
    <2>2. /\ IsFiniteSet(calls') /\ Cardinality(calls') \in Nat
          /\ Cardinality(calls') <= Cardinality(calls)
      BY <1>1, <1>7, CountReplaced
    <2>3. ASSUME NEW k \in {1, 2}
          PROVE  Cardinality(Owing(k)') \in Nat /\ Cardinality(Owing(k)') <= Cardinality(Owing(k))
      <3>1. Owes(d, k) <=> Owes(c, k)
        BY <1>7 DEF Owes, IsWrite
      <3>2. CASE Owes(c, k)
        <4>1. c \in Owing(k) /\ Owing(k)' \in SUBSET ((Owing(k) \ {c}) \cup {d})
          BY <1>3, <1>7, <3>2 DEF Owing
        <4> QED
          BY <1>1, <4>1, CountReplaced
      <3>3. CASE ~Owes(c, k)
        <4>1. Owing(k)' \in SUBSET Owing(k)
          BY <1>3, <1>7, <3>1, <3>3 DEF Owing
        <4> QED
          BY <1>1, <4>1, FS_Subset, FS_CardinalityType
      <3> QED
        BY <3>2, <3>3
    <2> QED
      BY <1>0, <1>1, <1>7, <2>1, <2>2, <2>3 DEF CountInv
  <1>8. ASSUME NEW c \in calls, NEW d, calls' = (calls \ {c}) \cup {d}, d.n = sent + 1,
               Follows(c, d), sent' = sent + 1
        PROVE  NumberedInv' /\ CountInv'
    <2>1. NumberedInv'
      BY <1>8 DEF NumberedInv, Follows
    <2>2. /\ IsFiniteSet(calls') /\ Cardinality(calls') \in Nat
          /\ Cardinality(calls') <= Cardinality(calls)
      BY <1>1, <1>8, CountReplaced
    <2>3. ASSUME NEW k \in {1, 2}
          PROVE  /\ Cardinality(Owing(k)') \in Nat
                 /\ Cardinality(Owing(k)') <= Cardinality(Owing(k))
                 /\ Owes(c, k) /\ ~Owes(d, k) =>
                      Cardinality(Owing(k)') + 1 <= Cardinality(Owing(k))
      <3>1. Owes(d, k) => Owes(c, k)
        BY <1>8 DEF Owes, Follows, IsWrite, NumberedInv, Forms, Assigned
      <3>2. CASE Owes(c, k)
        <4>1. /\ c \in Owing(k) /\ Owing(k)' \in SUBSET ((Owing(k) \ {c}) \cup {d})
              /\ ~Owes(d, k) => d \notin Owing(k)'
          BY <1>3, <1>8, <3>2 DEF Owing
        <4> QED
          BY <1>1, <4>1, CountReplaced
      <3>3. CASE ~Owes(c, k)
        <4>1. Owing(k)' \in SUBSET Owing(k)
          BY <1>3, <1>8, <3>1, <3>3 DEF Owing
        <4> QED
          BY <1>1, <3>3, <4>1, FS_Subset, FS_CardinalityType
      <3> QED
        BY <3>2, <3>3
    <2>4. \E k \in {1, 2} : Owes(c, k) /\ ~Owes(d, k)
      <3>1. CASE page \in Forms
        BY <1>8, <3>1 DEF Owes, Follows, IsWrite, Forms, Assigned
      <3>2. CASE page \in Assigned
        <4>1. c.step \in 0..2
          BY DEF NumberedInv
        <4>2. CASE c.step = 0
          BY <1>8, <3>2, <4>2 DEF Owes, Follows, Forms, Assigned
        <4>3. CASE c.step = 1
          BY <1>8, <3>2, <4>3 DEF Owes, Follows, Forms, Assigned
        <4> QED
          BY <1>8, <3>2, <4>1, <4>2, <4>3 DEF Follows, Forms, Assigned
      <3> QED
        BY <1>8, <3>1, <3>2 DEF Follows
    <2> QED
      BY <1>0, <1>1, <1>8, <2>1, <2>2, <2>3, <2>4 DEF CountInv
  <1>9. sent' \in {sent, sent + 1}
    BY DEF CallsStep
  <1> QED
    BY <1>4, <1>5, <1>6, <1>7, <1>8, <1>9 DEF CallsStep, Same

LEMMA RestKept ==
    ASSUME PageTyped, RestTyped, NumberedInv, CountInv, page' = page, RestStep
    PROVE  RestTyped' /\ NumberedInv' /\ CountInv'
  <1>1. NumberedInv' /\ CountInv' /\ sent' \in {sent, sent + 1}
    BY CallsKept DEF PageTyped, RestStep
  <1>2. Body' = Body /\ AnyId' = AnyId
    BY DEF Body, AnyId
  <1>3. lastLoad' \in 1..sent'
    BY <1>1 DEF RestTyped, RestStep, PageTyped
  <1> QED
    BY <1>1, <1>2, <1>3 DEF RestTyped, RestStep

\* A call served is the same call.
LEMMA ServedIsSame ==
    ASSUME PageTyped, NEW c \in calls, UNCHANGED sent,
           \/ \E st, i : calls' = (calls \ {c}) \cup {[c EXCEPT !.st = st, !.id = i]}
           \/ \E st, l : calls' = (calls \ {c}) \cup {[c EXCEPT !.st = st, !.list = l]}
           \/ \E st : calls' = (calls \ {c}) \cup {[c EXCEPT !.st = st]}
    PROVE  CallsStep
  <1>1. c \in Call
    BY DEF PageTyped
  <1>2. /\ \A st, i : Same(c, [c EXCEPT !.st = st, !.id = i])
        /\ \A st, l : Same(c, [c EXCEPT !.st = st, !.list = l])
        /\ \A st : Same(c, [c EXCEPT !.st = st])
    BY <1>1 DEF Same, Call
  <1> QED
    BY <1>2, Zenon DEF CallsStep

LEMMA ServedRest ==
    ASSUME RestTyped, CallsStep, UNCHANGED <<loading, error, crossed, filledFrom, lastLoad>>,
           \/ UNCHANGED past
           \/ \E i \in Ids, body \in Body \cup {NoRow} : past' = [past EXCEPT ![i] = @ \cup {body}]
    PROVE  RestStep
  <1>1. past' \in [Ids -> SUBSET (Body \cup {NoRow})]
    BY DEF RestTyped
  <1> QED
    BY <1>1, Zenon DEF RestTyped, RestStep

LEMMA ServeRest ==
    ASSUME PageTyped, RestTyped, NEW Routes, Serve(Routes)
    PROVE  RestStep
  <1>1. PICK c \in calls : ServeList(c) \/ ServeWrite(c, Routes) \/ Refuse(c)
    BY DEF Serve
  <1>2. UNCHANGED <<loading, error, crossed, filledFrom, lastLoad, sent>>
    BY DEF Serve, pageVars, loadVars, drawerVars
  <1>3. CASE ServeList(c)
    BY <1>2, <1>3, ServedIsSame, ServedRest DEF ServeList
  <1>4. CASE ServeWrite(c, Routes)
    <2>1. PICK st \in {"ok", "failed"}, i \in Ids, body \in Body \cup {NoRow} : Commit(c, i, body, st)
      BY <1>4 DEF ServeWrite, PageTyped, Sound, IsSave
    <2>2. CallsStep
      BY <1>2, <2>1, ServedIsSame DEF Commit
    <2> QED
      BY <1>2, <2>1, <2>2, ServedRest DEF Commit
  <1>5. CASE Refuse(c)
    BY <1>2, <1>5, ServedIsSame, ServedRest DEF Refuse
  <1> QED
    BY <1>1, <1>3, <1>4, <1>5

LEMMA ReloadRest ==
    ASSUME PageTyped, RestTyped, page \in Forms, ReloadStep
    PROVE  RestStep
  <1>1. \A op, id, body, step :
          /\ Reload!NewCall(op, id, body, step).n = sent + 1
          /\ Reload!NewCall(op, id, body, step).step = step
          /\ Reload!NewCall(op, id, body, step).op = op
    BY DEF Reload!NewCall
  <1> USE DEF Reload!pageVars, Reload!loadVars, Reload!drawerVars, Reload!callVars,
      Reload!Send, Reload!Done, Reload!DoneThen, Reload!Answered, Reload!LoadStarts,
      Reload!Reset, Reload!RowButton, RestTyped, RestStep
  <1>2. CASE Reload!LoadAnswered
    <2>1. CallsStep
      BY <1>2 DEF Reload!LoadAnswered, CallsStep
    <2> QED
      BY <1>2, <2>1, Zenon DEF Reload!LoadAnswered
  <1>3. CASE Reload!DeleteAnswered
    <2>1. CallsStep
      BY <1>1, <1>3 DEF Reload!DeleteAnswered, CallsStep, Follows, IsWrite
    <2> QED
      BY <1>3, <2>1 DEF Reload!DeleteAnswered
  <1>4. CASE Reload!SubmitAnswered
    <2>1. CallsStep
      BY <1>1, <1>4 DEF Reload!SubmitAnswered, CallsStep, Follows, IsWrite
    <2> QED
      BY <1>4, <2>1 DEF Reload!SubmitAnswered
  <1>5. CASE \E Required : Reload!Submit(Required)
    <2>1. CallsStep
      BY <1>1, <1>5 DEF Reload!Submit, Reload!Save, CallsStep
    <2> QED
      BY <1>5, <2>1 DEF Reload!Submit, Reload!Save
  <1>6. CASE Reload!Refresh \/ \E r \in rows : Reload!Delete(r)
    <2>1. CallsStep
      BY <1>1, <1>6 DEF Reload!Refresh, Reload!Delete, CallsStep
    <2> QED
      BY <1>6, <2>1 DEF Reload!Refresh, Reload!Delete
  <1>7. CASE \/ Reload!OpenCreate \/ \E r \in rows : Reload!OpenEdit(r)
             \/ \E Fields : Reload!Type(Fields) \/ \E resets : Reload!Close(resets)
    <2>1. \A r \in rows : r.id \in AnyId
      BY RowParts DEF PageTyped
    <2>2. CallsStep
      BY <1>7 DEF Reload!OpenCreate, Reload!OpenEdit, Reload!Type, Reload!Close, CallsStep
    <2> QED
      BY <1>7, <2>1, <2>2 DEF Reload!OpenCreate, Reload!OpenEdit, Reload!Type, Reload!Close
  <1>8. CASE \E Routes : Serve(Routes)
    BY <1>8, ServeRest
  <1> QED
    BY <1>2, <1>3, <1>4, <1>5, <1>6, <1>7, <1>8 DEF ReloadStep, Reload!Answers

LEMMA PatchRest ==
    ASSUME PageTyped, RestTyped, PatchStep
    PROVE  RestStep
  <1>1. \A op, id, body : /\ Patch!NewCall(op, id, body, 0).n = sent + 1
                          /\ Patch!NewCall(op, id, body, 0).step = 0
    BY DEF Patch!NewCall
  <1> USE DEF Patch!pageVars, Patch!loadVars, Patch!drawerVars, Patch!callVars,
      Patch!Send, Patch!Done, Patch!Answered, Patch!Reset, Patch!RowButton, Patch!Fails,
      RestTyped, RestStep
  <1>2. CASE \E SeedsIfEmpty : Patch!LoadAnswered(SeedsIfEmpty)
    <2>1. CallsStep
      BY <1>2 DEF Patch!LoadAnswered, CallsStep
    <2> QED
      BY <1>2, <2>1, Zenon DEF Patch!LoadAnswered
  <1>3. CASE Patch!SubmitAnswered \/ Patch!DeleteAnswered
    <2>1. CallsStep
      BY <1>3 DEF Patch!SubmitAnswered, Patch!DeleteAnswered, CallsStep
    <2> QED
      BY <1>3, <2>1 DEF Patch!SubmitAnswered, Patch!DeleteAnswered
  <1>4. CASE (\E Required : Patch!Submit(Required)) \/ \E r \in rows : Patch!Delete(r)
    <2>1. CallsStep
      BY <1>1, <1>4 DEF Patch!Submit, Patch!Save, Patch!Delete, CallsStep
    <2> QED
      BY <1>4, <2>1 DEF Patch!Submit, Patch!Save, Patch!Delete
  <1>5. CASE \/ Patch!OpenCreate \/ \E r \in rows : Patch!OpenEdit(r)
             \/ \E Fields : Patch!Type(Fields) \/ \E resets : Patch!Close(resets)
    <2>1. \A r \in rows : r.id \in AnyId
      BY RowParts DEF PageTyped
    <2>2. CallsStep
      BY <1>5 DEF Patch!OpenCreate, Patch!OpenEdit, Patch!Type, Patch!Close, CallsStep
    <2> QED
      BY <1>5, <2>1, <2>2 DEF Patch!OpenCreate, Patch!OpenEdit, Patch!Type, Patch!Close
  <1>6. CASE \E Routes : Serve(Routes)
    BY <1>6, ServeRest
  <1> QED
    BY <1>2, <1>3, <1>4, <1>5, <1>6 DEF PatchStep

LEMMA AccountsRest ==
    ASSUME PageTyped, RestTyped, page = "payment-accounts", PaymentAccounts!Next
    PROVE  RestStep
  <1> USE DEF PaymentAccounts!pageVars, PaymentAccounts!loadVars, PaymentAccounts!drawerVars,
      RestTyped
  <1>1. CASE PatchStep
    BY <1>1, PatchRest
  <1>2. CASE \E r \in rows : PaymentAccounts!handleSetDefault(r)
    <2>1. PICK r \in rows : PaymentAccounts!handleSetDefault(r)
      BY <1>2
    <2>2. PICK d : d = PaymentAccounts!NewCall("default", r.id, NoRow, 0)
      OBVIOUS
    <2>3. d.n = sent + 1 /\ d.step = 0
      BY <2>2 DEF PaymentAccounts!NewCall
    <2>4. /\ calls' = calls \cup {d} /\ sent < MaxCalls /\ sent' = sent + 1
          /\ UNCHANGED <<loading, error, crossed, filledFrom, lastLoad, past>>
      BY <2>1, <2>2 DEF PaymentAccounts!handleSetDefault, PaymentAccounts!Send
    <2>5. CallsStep
      BY <2>3, <2>4 DEF CallsStep
    <2> QED
      BY <2>4, <2>5, ServedRest
  <1>3. CASE PaymentAccounts!SetDefaultAnswered
    <2>1. CallsStep
      BY <1>3 DEF PaymentAccounts!SetDefaultAnswered, PaymentAccounts!Done,
          PaymentAccounts!Answered, CallsStep
    <2> QED
      BY <1>3, <2>1 DEF PaymentAccounts!SetDefaultAnswered, PaymentAccounts!Done,
          PaymentAccounts!Fails, RestStep
  <1>4. CASE PaymentAccounts!ServeAccounts
    <2>1. PICK c \in calls : \/ PaymentAccounts!ServeList(c) \/ PaymentAccounts!ServeAccount(c)
                             \/ PaymentAccounts!Refuse(c)
      BY <1>4 DEF PaymentAccounts!ServeAccounts
    <2>2. UNCHANGED <<loading, error, crossed, filledFrom, lastLoad, sent>>
      BY <1>4 DEF PaymentAccounts!ServeAccounts
    <2>3. CASE PaymentAccounts!ServeList(c)
      BY <2>2, <2>3, ServedIsSame, ServedRest DEF PaymentAccounts!ServeList
    <2>4. CASE PaymentAccounts!Refuse(c)
      BY <2>2, <2>4, ServedIsSame, ServedRest DEF PaymentAccounts!Refuse
    <2>5. CASE PaymentAccounts!ServeAccount(c)
      <3>1. PICK st \in {"ok", "failed"}, i \in Ids, body \in Body :
               PaymentAccounts!CommitAccount(c, i, body, st)
        <4>1. Body = [{"key", "info"} -> Filled \cup {Empty}] /\ PaymentAccounts!Yes \in Filled
          BY FilledAssumption DEF Body, Assigned, PaymentAccounts!Yes
        <4> QED
          BY <2>5, <4>1 DEF PaymentAccounts!ServeAccount, PageTyped, Sound, IsSave
      <3>2. CallsStep
        BY <2>2, <3>1, ServedIsSame DEF PaymentAccounts!CommitAccount
      <3> QED
        BY <2>2, <3>1, <3>2, ServedRest DEF PaymentAccounts!CommitAccount
    <2> QED
      BY <2>1, <2>3, <2>4, <2>5
  <1> QED
    BY <1>1, <1>2, <1>3, <1>4, PaymentAccountsKinds

LEMMA AssignRest ==
    ASSUME PageTyped, RestTyped, page \in Assigned, AssignStep
    PROVE  RestStep
  <1>1. \A op, id, body, step :
          /\ Assign!NewCall(op, id, body, step).n = sent + 1
          /\ Assign!NewCall(op, id, body, step).step = step
          /\ Assign!NewCall(op, id, body, step).op = op
    BY DEF Assign!NewCall
  <1> USE DEF Assign!pageVars, Assign!loadVars, Assign!drawerVars, Assign!callVars,
      Assign!Send, Assign!Done, Assign!DoneThen, Assign!Answered, Assign!LoadStarts,
      Assign!Reset, Assign!RowButton, RestTyped, RestStep
  <1>2. CASE \E Embedded : Assign!LoadAnswered(Embedded)
    <2>1. CallsStep
      BY <1>2 DEF Assign!LoadAnswered, CallsStep
    <2> QED
      BY <1>2, <2>1, Zenon DEF Assign!LoadAnswered
  <1>3. CASE Assign!GetAnswered
    <2>1. CallsStep
      BY <1>3 DEF Assign!GetAnswered, CallsStep
    <2>2. filledFrom' \in AnyId \cup {NoRow}
      BY <1>3, CallParts DEF Assign!GetAnswered, PageTyped
    <2> QED
      BY <1>3, <2>1, <2>2 DEF Assign!GetAnswered
  <1>4. CASE Assign!SaveAnswered
    <2>1. CallsStep
      BY <1>1, <1>4 DEF Assign!SaveAnswered, CallsStep, Follows
    <2> QED
      BY <1>4, <2>1 DEF Assign!SaveAnswered
  <1>5. CASE Assign!Submit \/ Assign!Refresh
    <2>1. CallsStep
      BY <1>1, <1>5 DEF Assign!Submit, Assign!Refresh, CallsStep
    <2> QED
      BY <1>5, <2>1 DEF Assign!Submit, Assign!Refresh
  <1>6. CASE Assign!Toggle \/ Assign!Close
    <2>1. CallsStep
      BY <1>6 DEF Assign!Toggle, Assign!Close, CallsStep
    <2> QED
      BY <1>6, <2>1 DEF Assign!Toggle, Assign!Close
  <1>7. CASE \E r \in rows : Assign!OpenEdit(r)
    <2>1. CallsStep
      BY <1>1, <1>7 DEF Assign!OpenEdit, CallsStep
    <2>2. \A r \in rows : r.id \in AnyId
      BY RowParts DEF PageTyped
    <2> QED
      BY <1>7, <2>1, <2>2 DEF Assign!OpenEdit
  <1>8. CASE \E Routes : Assign!ServeAssign(Routes)
    <2>0. PICK Routes : Assign!ServeAssign(Routes)
      BY <1>8
    <2>1. PICK c \in calls : \/ Assign!ServeList(c) \/ Assign!ServeGet(c)
                             \/ Assign!ServeSave(c, Routes) \/ Assign!Refuse(c)
      BY <2>0 DEF Assign!ServeAssign
    <2>2. UNCHANGED <<loading, error, crossed, filledFrom, lastLoad, sent>>
      BY <2>0 DEF Assign!ServeAssign
    <2>3. CASE Assign!ServeList(c) \/ Assign!ServeGet(c) \/ Assign!Refuse(c)
      <3>1. CallsStep
        BY <2>2, <2>3, ServedIsSame DEF Assign!ServeList, Assign!ServeGet, Assign!Refuse
      <3> QED
        BY <2>2, <2>3, <3>1, ServedRest DEF Assign!ServeList, Assign!ServeGet, Assign!Refuse
    <2>4. CASE Assign!ServeSave(c, Routes)
      <3>1. PICK st \in {"ok", "failed"} : Assign!Commit(c, c.id, c.body, st)
        BY <2>4 DEF Assign!ServeSave
      <3>2. c.id \in Ids /\ c.body \in Body
        BY <2>4 DEF Assign!ServeSave, Sound, PageTyped, IsSave, AnyId, Assigned, Patched
      <3>3. CallsStep
        BY <2>2, <3>1, ServedIsSame DEF Assign!Commit
      <3> QED
        BY <2>2, <3>1, <3>2, <3>3, ServedRest DEF Assign!Commit
    <2> QED
      BY <2>1, <2>3, <2>4
  <1> QED
    BY <1>2, <1>3, <1>4, <1>5, <1>6, <1>7, <1>8 DEF AssignStep

-----------------------------------------------------------------------------
(* What the pages that assign show as assigned.                            *)

\* It was in the API's table at some time.
WasThere(r) == r.id \in Ids /\ r.body \in past[r.id]

\* Rows, loads and saves carry what was in the table for their own row.
GrantedInv ==
    /\ past \in [Ids -> SUBSET (SUBSET Items \cup {NoRow})]
    /\ \A i \in Ids : db[i] # NoRow => db[i] \in past[i]
    /\ \A r \in rows : r.id \in Ids /\ (r.body = {} \/ WasThere(r))
    /\ editing # NoRow => editing.id \in Ids
    /\ \A c \in calls :
         /\ \A r \in c.list : WasThere(r) /\ (c.op = "get" => r.id = c.id)
         /\ c.op = "update" => c.id \in Ids /\ (c.st = "ok" => c.body \in past[c.id])

\* The API's table and its history stay; the calls are fewer, or new.
LEMMA GrantedKeeps ==
    ASSUME GrantedInv, UNCHANGED <<db, past>>,
           \A r \in rows' : r.id \in Ids /\ (r.body = {} \/ WasThere(r)),
           editing' # NoRow => editing'.id \in Ids,
           \A c \in calls' : \/ c \in calls
                             \/ c.list = {} /\ c.st = "sent" /\ (c.op = "update" => c.id \in Ids)
    PROVE  GrantedInv'
  BY DEF GrantedInv, WasThere

LEMMA GrantedServes ==
    ASSUME PageTyped, GrantedInv, page \in Assigned, NEW Routes, Assign!ServeAssign(Routes)
    PROVE  GrantedInv'
  <1>1. PICK c \in calls : \/ Assign!ServeList(c) \/ Assign!ServeGet(c)
                           \/ Assign!ServeSave(c, Routes) \/ Assign!Refuse(c)
    BY DEF Assign!ServeAssign
  <1>2. UNCHANGED <<rows, editing>>
    BY DEF Assign!ServeAssign, Assign!pageVars, Assign!loadVars, Assign!drawerVars
  <1>3. c \in Call
    BY DEF PageTyped
  <1>4. \A r \in Assign!RowsOf(db) : WasThere(r)
    BY DEF Assign!RowsOf, GrantedInv, WasThere
  <1>5. Assign!RowsOf(db) \in SUBSET Row
    BY ListIsRows DEF RowsOf, Assign!RowsOf
  <1>6. ASSUME NEW l \in SUBSET Assign!RowsOf(db), ~IsSave(c),
               c.op = "get" => \A r \in l : r.id = c.id,
               calls' = (calls \ {c}) \cup {[c EXCEPT !.st = "ok", !.list = l]},
               UNCHANGED <<db, past>>
        PROVE  GrantedInv'
    <2> DEFINE d == [c EXCEPT !.st = "ok", !.list = l]
    <2>1. d.op = c.op /\ d.id = c.id /\ d.list = l
      BY <1>3 DEF Call
    <2>2. \A r \in d.list : WasThere(r) /\ (d.op = "get" => r.id = d.id)
      BY <1>4, <1>6, <2>1
    <2>3. d.op # "update"
      BY <1>6, <2>1 DEF IsSave
    <2>4. calls' = (calls \ {c}) \cup {d}
      BY <1>6
    <2> HIDE DEF d
    <2> QED
      BY <1>2, <1>6, <2>2, <2>3, <2>4 DEF GrantedInv, WasThere
  <1>7. CASE Assign!ServeList(c)
    BY <1>6, <1>7 DEF Assign!ServeList, IsSave
  <1>8. CASE Assign!ServeGet(c)
    <2>1. {r \in Assign!RowsOf(db) : r.id = c.id} \in SUBSET Assign!RowsOf(db)
      OBVIOUS
    <2> QED
      BY <1>6, <1>8, <2>1 DEF Assign!ServeGet, IsSave
  <1>9. CASE Assign!ServeSave(c, Routes)
    <2>1. PICK st \in {"ok", "failed"} : Assign!Commit(c, c.id, c.body, st)
      BY <1>9 DEF Assign!ServeSave
    <2>2. c.id \in Ids /\ c.body \in SUBSET Items /\ c.op = "update"
      BY <1>9 DEF Assign!ServeSave, GrantedInv, PageTyped, Sound, IsSave, Body
    <2> DEFINE d == [c EXCEPT !.st = st, !.id = c.id]
    <2>3. d.op = c.op /\ d.id = c.id /\ d.list = c.list /\ d.body = c.body
      BY <1>3 DEF Call
    <2>4. calls' = (calls \ {c}) \cup {d}
      BY <2>1 DEF Assign!Commit
    <2> HIDE DEF d
    <2>5. past' = [past EXCEPT ![c.id] = @ \cup {c.body}] /\ db' = [db EXCEPT ![c.id] = c.body]
      BY <2>1 DEF Assign!Commit
    <2>6. \A i \in Ids : past[i] \subseteq past'[i] /\ past'[c.id] = past[c.id] \cup {c.body}
      BY <2>2, <2>5 DEF GrantedInv
    <2>7. past' \in [Ids -> SUBSET (SUBSET Items \cup {NoRow})]
      BY <2>2, <2>5 DEF GrantedInv
    <2>8. \A i \in Ids : db'[i] # NoRow => db'[i] \in past'[i]
      BY <2>2, <2>5, <2>6 DEF GrantedInv, PageTyped
    <2>9. \A r : WasThere(r) => WasThere(r)'
      BY <2>6 DEF WasThere
    <2>10. \A r \in rows' : r.id \in Ids /\ (r.body = {} \/ WasThere(r)')
      BY <1>2, <2>9 DEF GrantedInv
    <2>11. \A e \in calls' :
              /\ \A r \in e.list : WasThere(r)' /\ (e.op = "get" => r.id = e.id)
              /\ e.op = "update" => e.id \in Ids /\ (e.st = "ok" => e.body \in past'[e.id])
      BY <2>2, <2>3, <2>4, <2>6, <2>9 DEF GrantedInv
    <2> QED
      BY <1>2, <2>7, <2>8, <2>10, <2>11 DEF GrantedInv
  <1>10. CASE Assign!Refuse(c)
    <2> DEFINE d == [c EXCEPT !.st = "failed"]
    <2>1. d.op = c.op /\ d.id = c.id /\ d.list = c.list /\ d.st = "failed"
      BY <1>3 DEF Call
    <2>2. calls' = (calls \ {c}) \cup {d} /\ UNCHANGED <<db, past>>
      BY <1>10 DEF Assign!Refuse
    <2> HIDE DEF d
    <2> QED
      BY <1>2, <2>1, <2>2 DEF GrantedInv, WasThere
  <1> QED
    BY <1>1, <1>7, <1>8, <1>9, <1>10

LEMMA GrantedStep ==
    ASSUME PageTyped, SaveInv, GrantedInv, page \in Assigned, AssignStep
    PROVE  GrantedInv'
  <1>1. \A op, id, body, step :
          /\ Assign!NewCall(op, id, body, step).list = {}
          /\ Assign!NewCall(op, id, body, step).st = "sent"
          /\ Assign!NewCall(op, id, body, step).op = op
          /\ Assign!NewCall(op, id, body, step).id = id
    BY DEF Assign!NewCall
  <1> USE DEF Assign!loadVars, Assign!drawerVars, Assign!callVars, Assign!Send, Assign!Done,
      Assign!DoneThen, Assign!Answered, Assign!CanSubmit, Assign!RowButton,
      Assign!LoadStarts, Assign!Reset
  <1>2. CASE \E Embedded : Assign!LoadAnswered(Embedded)
    <2>1. PICK c \in calls :
             /\ rows' \subseteq c.list \cup {[id |-> r.id, body |-> {}] : r \in c.list}
             /\ calls' = calls \ {c}
      BY <1>2 DEF Assign!LoadAnswered
    <2>2. \A r \in rows' : r.id \in Ids /\ (r.body = {} \/ WasThere(r))
      BY <2>1 DEF GrantedInv, WasThere
    <2>3. UNCHANGED <<db, past, editing>>
      BY <1>2 DEF Assign!LoadAnswered
    <2> QED
      BY <2>1, <2>2, <2>3, GrantedKeeps DEF GrantedInv
  <1>3. CASE Assign!GetAnswered
    <2>1. PICK c \in calls :
             /\ c.op = "get" /\ calls' = calls \ {c}
             /\ rows' = rows \/ \E r \in c.list : rows' = Assign!Cached(c.id, r.body)
      BY <1>3 DEF Assign!GetAnswered
    <2>2. \A r \in rows' : r.id \in Ids /\ (r.body = {} \/ WasThere(r))
      BY <2>1 DEF GrantedInv, WasThere, Assign!Cached
    <2>3. UNCHANGED <<db, past, editing>>
      BY <1>3 DEF Assign!GetAnswered
    <2> QED
      BY <2>1, <2>2, <2>3, GrantedKeeps DEF GrantedInv
  <1>4. CASE Assign!SaveAnswered
    <2>1. PICK c \in calls :
             /\ c.op = "update"
             /\ \/ rows' = rows
                \/ c.st = "ok" /\ rows' = Assign!Cached(c.id, c.body)
             /\ \/ calls' = calls \ {c}
                \/ calls' = (calls \ {c})
                            \cup {Assign!NewCall("update", c.id, c.body, c.step + 1)}
             /\ editing' \in {editing, NoRow}
      BY <1>4 DEF Assign!SaveAnswered
    <2>2. \A r \in rows' : r.id \in Ids /\ (r.body = {} \/ WasThere(r))
      BY <2>1 DEF GrantedInv, WasThere, Assign!Cached
    <2>3. UNCHANGED <<db, past>>
      BY <1>4 DEF Assign!SaveAnswered
    <2>4. \A d \in calls' : \/ d \in calls
                            \/ d.list = {} /\ d.st = "sent" /\ (d.op = "update" => d.id \in Ids)
      BY <1>1, <2>1 DEF GrantedInv
    <2> QED
      BY <2>1, <2>2, <2>3, <2>4, GrantedKeeps DEF GrantedInv
  <1>5. CASE Assign!Submit
    <2>1. editing # NoRow /\ UNCHANGED <<db, past, rows, editing>>
      BY <1>5 DEF SaveInv, Assign!Submit
    <2>2. calls' = calls \cup {Assign!NewCall("update", editing.id, form, 0)}
      BY <1>5 DEF Assign!Submit
    <2> QED
      BY <1>1, <2>1, <2>2, GrantedKeeps DEF GrantedInv
  <1>6. CASE Assign!Refresh
    BY <1>1, <1>6, GrantedKeeps DEF GrantedInv, Assign!Refresh
  <1>7. CASE Assign!Toggle \/ Assign!Close
    BY <1>7, GrantedKeeps DEF GrantedInv, Assign!Toggle, Assign!Close
  <1>8. CASE \E r \in rows : Assign!OpenEdit(r)
    BY <1>1, <1>8, GrantedKeeps DEF GrantedInv, Assign!OpenEdit
  <1>9. CASE \E Routes : Assign!ServeAssign(Routes)
    BY <1>9, GrantedServes
  <1> QED
    BY <1>2, <1>3, <1>4, <1>5, <1>6, <1>7, <1>8, <1>9 DEF AssignStep

-----------------------------------------------------------------------------
(* What the pages that load again show.                                    *)

LoadedBy(c) == c.op = "list" /\ c.n = lastLoad

\* Once no write is under way, the load sent last brings the table as it is,
\* or a banner is up: a write ends with a load or with a banner.
FreshInv ==
    ~error /\ (\A c \in calls : ~IsWrite(c)) =>
        /\ ~crossed /\ (\A c \in calls : ~LoadedBy(c)) => rows = RowsOf(db)
        /\ \A c \in calls : LoadedBy(c) /\ c.st = "ok" => c.list = RowsOf(db)

\* A load has begun.
LEMMA FreshStarts ==
    ASSUME NEW d \in calls', d.op = "list", d.n = lastLoad', d.st = "sent", lastLoad' = sent + 1,
           \A c \in calls' : c = d \/ (c \in calls /\ c.n <= sent), sent \in Nat
    PROVE  FreshInv'
  BY DEF FreshInv, LoadedBy

LEMMA FreshServes ==
    ASSUME PageTyped, FreshInv, NEW Routes, Serve(Routes)
    PROVE  FreshInv'
  <1>1. PICK c \in calls : ServeList(c) \/ ServeWrite(c, Routes) \/ Refuse(c)
    BY DEF Serve
  <1>2. UNCHANGED <<rows, error, crossed, lastLoad>>
    BY DEF Serve, pageVars, loadVars
  <1>3. c \in Call
    BY DEF PageTyped
  <1>4. CASE ServeList(c)
    <2> DEFINE d == [c EXCEPT !.st = "ok", !.list = RowsOf(db)]
    <2>1. d.op = c.op /\ d.n = c.n /\ d.list = RowsOf(db)
      BY <1>3 DEF Call
    <2>2. calls' = (calls \ {c}) \cup {d} /\ c.op = "list" /\ UNCHANGED db
      BY <1>4 DEF ServeList
    <2>3. RowsOf(db)' = RowsOf(db)
      BY <2>2 DEF RowsOf
    <2> HIDE DEF d
    <2> QED
      BY <1>2, <2>1, <2>2, <2>3 DEF FreshInv, IsWrite, LoadedBy
  <1>5. CASE Refuse(c)
    <2> DEFINE d == [c EXCEPT !.st = "failed"]
    <2>1. d.op = c.op /\ d.n = c.n /\ d.st = "failed"
      BY <1>3 DEF Call
    <2>2. calls' = (calls \ {c}) \cup {d} /\ UNCHANGED db
      BY <1>5 DEF Refuse
    <2>3. RowsOf(db)' = RowsOf(db)
      BY <2>2 DEF RowsOf
    <2> HIDE DEF d
    <2> QED
      BY <1>2, <2>1, <2>2, <2>3 DEF FreshInv, IsWrite, LoadedBy
  <1>6. CASE ServeWrite(c, Routes)
    <2>1. PICK st \in {"ok", "failed"}, i \in Ids, body \in {c.body, NoRow} :
             Commit(c, i, body, st) /\ IsWrite(c)
      BY <1>6 DEF ServeWrite, IsWrite
    <2>2. [c EXCEPT !.st = st, !.id = i].op = c.op
      BY <1>3 DEF Call
    <2>3. \E d \in calls' : IsWrite(d)
      BY <2>1, <2>2 DEF Commit, IsWrite
    <2> QED
      BY <2>3 DEF FreshInv
  <1> QED
    BY <1>1, <1>4, <1>5, <1>6

LEMMA FreshStep ==
    ASSUME PageTyped, NumberedInv, FreshInv, page \in Forms, ReloadStep
    PROVE  FreshInv'
  <1>1. \A op, id, body, step :
          /\ Reload!NewCall(op, id, body, step).n = sent + 1
          /\ Reload!NewCall(op, id, body, step).st = "sent"
          /\ Reload!NewCall(op, id, body, step).op = op
    BY DEF Reload!NewCall
  <1> USE DEF Reload!pageVars, Reload!loadVars, Reload!drawerVars, Reload!callVars,
      Reload!Send, Reload!Done, Reload!DoneThen, Reload!Answered
  <1>2. CASE Reload!LoadAnswered
    <2>1. PICK c \in calls :
             /\ c.op = "list" /\ c.st \in {"ok", "failed"} /\ calls' = calls \ {c}
             /\ rows' = IF c.st = "ok" THEN c.list ELSE {}
             /\ error' = (error \/ c.st = "failed")
             /\ crossed' = (c.n # lastLoad)
             /\ UNCHANGED <<db, lastLoad>>
      BY <1>2 DEF Reload!LoadAnswered, PageTyped, Call
    <2>2. RowsOf(db)' = RowsOf(db)
      BY <2>1 DEF RowsOf
    <2> QED
      BY <2>1, <2>2 DEF FreshInv, IsWrite, LoadedBy
  <1>3. CASE Reload!DeleteAnswered \/ Reload!SubmitAnswered
    <2>1. \/ error' = TRUE
          \/ \E c \in calls, step \in {0, 1} :
               /\ calls' = (calls \ {c}) \cup {Reload!NewCall("list", NoRow, NoRow, step)}
               /\ lastLoad' = sent + 1
      BY <1>3 DEF Reload!DeleteAnswered, Reload!SubmitAnswered, Reload!LoadStarts
    <2>2. CASE error' = TRUE
      BY <2>2 DEF FreshInv
    <2>3. ASSUME NEW c \in calls, NEW step,
                 calls' = (calls \ {c}) \cup {Reload!NewCall("list", NoRow, NoRow, step)},
                 lastLoad' = sent + 1
          PROVE  FreshInv'
      BY <1>1, <2>3, FreshStarts DEF NumberedInv, PageTyped
    <2> QED
      BY <2>1, <2>2, <2>3
  <1>4. CASE Reload!Refresh
    BY <1>1, <1>4, FreshStarts DEF Reload!Refresh, Reload!LoadStarts, NumberedInv, PageTyped
  <1>5. CASE \E Required : Reload!Submit(Required)
    <2>1. error' = TRUE \/ \E d \in calls' : IsWrite(d)
      BY <1>1, <1>5 DEF Reload!Submit, Reload!Save, IsWrite
    <2> QED
      BY <2>1 DEF FreshInv
  <1>6. CASE \E r \in rows : Reload!Delete(r)
    <2>1. \E d \in calls' : IsWrite(d)
      BY <1>1, <1>6 DEF Reload!Delete, IsWrite
    <2> QED
      BY <2>1 DEF FreshInv
  <1>7. CASE \/ Reload!OpenCreate \/ \E r \in rows : Reload!OpenEdit(r)
             \/ \E Fields : Reload!Type(Fields) \/ \E resets : Reload!Close(resets)
    <2>1. UNCHANGED <<rows, error, crossed, lastLoad, calls, db>>
      BY <1>7 DEF Reload!OpenCreate, Reload!OpenEdit, Reload!Type, Reload!Close
    <2> QED
      BY <2>1 DEF FreshInv, LoadedBy, RowsOf
  <1>8. CASE \E Routes : Serve(Routes)
    BY <1>8, FreshServes
  <1> QED
    BY <1>2, <1>3, <1>4, <1>5, <1>6, <1>7, <1>8 DEF ReloadStep, Reload!Answers

-----------------------------------------------------------------------------
(* What the pages that patch their list show.                              *)

\* What is compared of a row: of a payment account not the default mark.
Seen(body) == IF page = "payment-accounts" THEN body["key"] ELSE body
ShownOf(rs, i) == {Seen(r.body) : r \in {q \in rs : q.id = i}}
HeldOf(table, i) == IF table[i] = NoRow THEN {} ELSE {Seen(table[i])}

\* The API has given the id out, if it is one of the API's.
Known(i) == i \in Ids => past[i] # {}

\* Rows, loads and calls are of ids that were given out, so a create has an
\* id of its own.
KnownInv ==
    /\ past \in [Ids -> SUBSET (Body \cup {NoRow})]
    /\ \A i \in Ids : db[i] # NoRow => past[i] # {}
    /\ \A r \in rows : Known(r.id)
    /\ editing # NoRow => Known(editing.id)
    /\ \A c \in calls :
         /\ c.op \in {"update", "delete"} => Known(c.id)
         /\ c.op = "create" /\ c.st = "ok" => Known(c.id)
         /\ \A r \in c.list : Known(r.id)

\* The page loads once; a load that no call has joined brings what there is.
OneLoadInv ==
    /\ lastLoad \in Nat /\ lastLoad <= sent
    /\ \A c \in calls : c.op = "list" /\ sent = lastLoad =>
         calls = {c} /\ (c.st = "ok" => c.list = RowsOf(db))

\* The row of i in the table is the API's, but for the writes that succeeded
\* and whose answers are still to be applied.
Applied(c, i, op) == c.op = op /\ c.st = "ok" /\ c.id = i
Agrees(i) ==
    /\ \A c \in calls : Applied(c, i, "create") =>
         /\ HeldOf(db, i) = {Seen(c.body)} /\ ShownOf(rows, i) = {}
         /\ \A d \in calls : d.op = "delete" => d.id # i
    /\ \A c \in calls : Applied(c, i, "delete") => HeldOf(db, i) = {}
    /\ \A c \in calls : Applied(c, i, "update") =>
         \/ \E d \in calls : Applied(d, i, "delete")
         \/ HeldOf(db, i) = IF ShownOf(rows, i) = {} THEN {} ELSE {Seen(c.body)}
    /\ \/ \E c \in calls : \E op \in {"create", "update", "delete"} : Applied(c, i, op)
       \/ ShownOf(rows, i) = HeldOf(db, i)

\* Nothing has failed, and the load is over.
Smooth ==
    /\ ~crossed /\ ~error
    /\ \A c \in calls : c.op # "list" /\ c.st # "failed"

PatchInv == KnownInv /\ OneLoadInv /\ (Smooth => \A i \in Ids : Agrees(i))

LEMMA BodyIsNotNull == NoRow \notin Body
  BY NoRowAssumption DEF Body, Users!Bodies, Users!Inputs, UserRoles!Bodies

LEMMA ShownElement ==
    ASSUME NEW rs, NEW i, NEW v
    PROVE  v \in ShownOf(rs, i) <=> \E r \in rs : r.id = i /\ v = Seen(r.body)
  BY DEF ShownOf

\* A table's rows show what it holds.
LEMMA RowsShowTable ==
    ASSUME NEW i \in Ids
    PROVE  ShownOf(RowsOf(db), i) = HeldOf(db, i)
  <1> DEFINE row(j) == [id |-> j, body |-> db[j]]
  <1>1. /\ \A r \in RowsOf(db) : r.id = i => db[i] # NoRow /\ r.body = db[i]
        /\ db[i] # NoRow => row(i) \in RowsOf(db) /\ row(i).id = i /\ row(i).body = db[i]
    BY DEF RowsOf
  <1> QED
    BY <1>1, ShownElement DEF HeldOf

\* What is compared of rows and tables does not change under a page.
LEMMA SamePage ==
    ASSUME page' = page
    PROVE  /\ \A i \in Ids : HeldOf(db, i)' = HeldOf(db', i)
           /\ \A i \in Ids : ShownOf(rows, i)' = ShownOf(rows', i)
           /\ \A body : Seen(body)' = Seen(body)
  BY DEF HeldOf, ShownOf, Seen

\* One row patched, added, removed: what is shown of it, and of the others.
RowPatch(rs, k, body) == {IF r.id = k THEN [id |-> k, body |-> body] ELSE r : r \in rs}
RowPlus(rs, k, body) == rs \cup {[id |-> k, body |-> body]}
RowMinus(rs, k) == {r \in rs : r.id # k}

LEMMA RowPatched ==
    ASSUME NEW rs, NEW k, NEW body, NEW i
    PROVE  ShownOf(RowPatch(rs, k, body), i) =
             IF i = k /\ ShownOf(rs, k) # {} THEN {Seen(body)} ELSE ShownOf(rs, i)
  <1> DEFINE row == [id |-> k, body |-> body]
             ps == {IF r.id = k THEN row ELSE r : r \in rs}
  <1>1. row.id = k /\ row.body = body
    OBVIOUS
  <1>2. \A v : v \in ShownOf(ps, i) <=>
               \E r \in rs : IF r.id = k THEN i = k /\ v = Seen(body)
                            ELSE r.id = i /\ v = Seen(r.body)
    <2> TAKE v
    <2>1. v \in ShownOf(ps, i) <=> \E q \in ps : q.id = i /\ v = Seen(q.body)
      BY ShownElement
    <2>2. (\E q \in ps : q.id = i /\ v = Seen(q.body)) <=>
            \E r \in rs : LET q == IF r.id = k THEN row ELSE r IN q.id = i /\ v = Seen(q.body)
      OBVIOUS
    <2> HIDE DEF ps, row
    <2> QED
      BY <1>1, <2>1, <2>2
  <1> HIDE DEF row, ps
  <1>3. ShownOf(ps, i) = IF i = k /\ ShownOf(rs, k) # {} THEN {Seen(body)} ELSE ShownOf(rs, i)
    <2>0. \A v : v \in ShownOf(rs, i) <=> \E r \in rs : r.id = i /\ v = Seen(r.body)
      BY ShownElement
    <2>1. CASE i # k
      <3>1. \A v : v \in ShownOf(ps, i) <=> v \in ShownOf(rs, i)
        BY <1>2, <2>0, <2>1
      <3> QED
        BY <2>1, <3>1
    <2>2. CASE i = k
      <3>1. ShownOf(rs, i) # {} <=> \E r \in rs : r.id = i
        BY <2>0
      <3>2. \A v : v \in ShownOf(ps, i) <=> ShownOf(rs, i) # {} /\ v = Seen(body)
        BY <1>2, <2>0, <2>2, <3>1
      <3> QED
        BY <2>2, <3>2
    <2> QED
      BY <2>1, <2>2
  <1> QED
    BY <1>3 DEF ps, row, RowPatch

LEMMA RowAdded ==
    ASSUME NEW rs, NEW k, NEW body, NEW i
    PROVE  ShownOf(RowPlus(rs, k, body), i) =
             IF i = k THEN ShownOf(rs, k) \cup {Seen(body)} ELSE ShownOf(rs, i)
  <1> DEFINE row == [id |-> k, body |-> body]
  <1>1. row.id = k /\ row.body = body
    OBVIOUS
  <1>2. \A v : v \in ShownOf(rs \cup {row}, i) <=>
               v \in ShownOf(rs, i) \/ (i = k /\ v = Seen(body))
    <2> TAKE v
    <2>1. /\ v \in ShownOf(rs, i) <=> \E q \in rs : q.id = i /\ v = Seen(q.body)
          /\ v \in ShownOf(rs \cup {row}, i) <=>
               \E q \in rs \cup {row} : q.id = i /\ v = Seen(q.body)
      BY ShownElement
    <2> HIDE DEF row
    <2> QED
      BY <1>1, <2>1
  <1> QED
    BY <1>2 DEF RowPlus

LEMMA RowRemoved ==
    ASSUME NEW rs, NEW k, NEW i
    PROVE  ShownOf(RowMinus(rs, k), i) = IF i = k THEN {} ELSE ShownOf(rs, i)
  BY DEF ShownOf, RowMinus

\* The drawer opens, changes and closes.
LEMMA PatchIdles ==
    ASSUME PatchInv, page' = page,
           UNCHANGED <<rows, error, crossed, lastLoad, calls, sent, db, past>>,
           editing' \in rows \cup {NoRow, editing}
    PROVE  PatchInv'
  <1>1. KnownInv'
    BY DEF PatchInv, KnownInv, Known, Body
  <1>2. OneLoadInv'
    BY DEF PatchInv, OneLoadInv, RowsOf
  <1>3. ASSUME Smooth', NEW i \in Ids PROVE Agrees(i)'
    BY <1>3, SamePage DEF PatchInv, Smooth, Agrees
  <1> QED
    BY <1>1, <1>2, <1>3 DEF PatchInv

\* The user begins a call.
LEMMA PatchSends ==
    ASSUME PageTyped, PatchInv, page' = page,
           UNCHANGED <<rows, error, crossed, lastLoad, editing, db, past>>,
           NEW d, calls' = calls \cup {d}, sent' = sent + 1,
           d.op # "list" /\ d.st = "sent" /\ d.list = {},
           d.op = "update" => Known(d.id),
           d.op = "delete" => \E r \in rows : d.id = r.id
    PROVE  PatchInv'
  <1>1. KnownInv'
    BY DEF PatchInv, KnownInv, Known, Body
  <1>2. OneLoadInv'
    BY DEF PatchInv, OneLoadInv, PageTyped
  <1>3. ASSUME Smooth', NEW i \in Ids PROVE Agrees(i)'
    <2>1. Agrees(i)
      BY <1>3 DEF PatchInv, Smooth
    <2>2. d.op = "delete" /\ d.id = i => ShownOf(rows, i) # {}
      BY DEF ShownOf
    <2> QED
      BY <2>1, <2>2, SamePage DEF Agrees, Applied
  <1> QED
    BY <1>1, <1>2, <1>3 DEF PatchInv

\* A call is answered: what is left to show for the others.
LEMMA PatchAnswers ==
    ASSUME PatchInv, page' = page, NEW c \in calls, calls' = calls \ {c},
           UNCHANGED <<lastLoad, sent, db, past>>,
           \A r \in rows' : Known(r.id), editing' \in {NoRow, editing},
           Smooth' => \A i \in Ids : Agrees(i)'
    PROVE  PatchInv'
  <1>1. KnownInv'
    BY DEF PatchInv, KnownInv, Known, Body
  <1>2. OneLoadInv'
    BY DEF PatchInv, OneLoadInv, RowsOf
  <1> QED
    BY <1>1, <1>2 DEF PatchInv

LEMMA PatchLoads ==
    ASSUME PageTyped, PatchInv, page' = page, NEW SeedsIfEmpty, Patch!LoadAnswered(SeedsIfEmpty)
    PROVE  PatchInv'
  <1>1. PICK c \in calls :
           /\ c.op = "list" /\ calls' = calls \ {c}
           /\ rows' = IF c.st = "failed" \/ (SeedsIfEmpty /\ c.list = {})
                      THEN Patch!SeedRows ELSE c.list
           /\ crossed' = (crossed \/ c.st = "failed" \/ sent > lastLoad)
           /\ c.st \in {"ok", "failed"}
           /\ UNCHANGED <<lastLoad, sent, db, past, editing>>
    BY DEF Patch!LoadAnswered, Patch!Answered, Patch!Done, Patch!drawerVars, PageTyped, Call
  <1>2. \A r \in Patch!SeedRows : r.id \notin Ids
    BY SeedsAssumption DEF Patch!SeedRows
  <1>3. \A r \in rows' : Known(r.id)
    BY <1>1, <1>2 DEF PatchInv, KnownInv, Known
  <1>4. ASSUME Smooth', NEW i \in Ids PROVE Agrees(i)'
    <2>0. c.st # "failed" /\ ~(sent > lastLoad)
      BY <1>1, <1>4 DEF Smooth
    <2>1. c.st = "ok" /\ sent = lastLoad
      BY <1>1, <2>0 DEF PatchInv, OneLoadInv, PageTyped
    <2>2. calls' = {} /\ c.list = RowsOf(db)
      BY <1>1, <2>1 DEF PatchInv, OneLoadInv
    <2>3. ShownOf(c.list, i) = HeldOf(db, i)
      BY <2>2, RowsShowTable
    <2>4. ShownOf(Patch!SeedRows, i) = {} /\ ShownOf({}, i) = {}
      BY <1>2 DEF ShownOf
    <2>5. ShownOf(rows', i) = HeldOf(db, i)
      BY <1>1, <2>1, <2>3, <2>4
    <2> QED
      BY <1>1, <2>2, <2>5, SamePage DEF Agrees
  <1> QED
    BY <1>1, <1>3, <1>4, PatchAnswers

LEMMA PatchSaves ==
    ASSUME PageTyped, SaveInv, PatchInv, page' = page, Patch!SubmitAnswered
    PROVE  PatchInv'
  <1>1. PICK c \in calls :
           /\ IsSave(c) /\ calls' = calls \ {c}
           /\ UNCHANGED <<lastLoad, crossed, sent, db, past>>
           /\ editing' \in {NoRow, editing}
           /\ IF c.st = "ok"
              THEN /\ rows' = IF c.op = "create" THEN rows \cup {[id |-> c.id, body |-> c.body]}
                              ELSE {IF r.id = c.id THEN [id |-> c.id, body |-> c.body] ELSE r :
                                      r \in rows}
                   /\ UNCHANGED error
              ELSE error' = TRUE /\ UNCHANGED rows
    BY DEF Patch!SubmitAnswered, Patch!Answered, Patch!Done, Patch!Reset, Patch!Fails,
        Patch!drawerVars, IsSave
  <1>2. \A r \in rows' : Known(r.id)
    BY <1>1 DEF PatchInv, KnownInv, IsSave
  <1>3. ASSUME Smooth', NEW i \in Ids PROVE Agrees(i)'
    <2>1. c.st = "ok" /\ Agrees(i)
      BY <1>1, <1>3 DEF PatchInv, Smooth, IsSave
    <2>2. \A d \in calls' : ~IsSave(d)
      BY <1>1 DEF SaveInv, Holds
    <2>3. ShownOf(rows', i) =
            IF i # c.id THEN ShownOf(rows, i)
            ELSE IF c.op = "create" THEN ShownOf(rows, i) \cup {Seen(c.body)}
            ELSE IF ShownOf(rows, i) = {} THEN {} ELSE {Seen(c.body)}
      <3>1. rows' = IF c.op = "create" THEN RowPlus(rows, c.id, c.body)
                                       ELSE RowPatch(rows, c.id, c.body)
        BY <1>1, <2>1 DEF RowPlus, RowPatch
      <3>2. CASE c.op = "create"
        <4>1. rows' = RowPlus(rows, c.id, c.body)
          BY <3>1, <3>2
        <4>2. ShownOf(rows', i) = IF i = c.id THEN ShownOf(rows, c.id) \cup {Seen(c.body)}
                                              ELSE ShownOf(rows, i)
          BY <4>1, RowAdded
        <4> QED
          BY <3>2, <4>2
      <3>3. CASE c.op # "create"
        <4>1. rows' = RowPatch(rows, c.id, c.body)
          BY <3>1, <3>3
        <4> QED
          BY <3>3, <4>1, RowPatched
      <3> QED
        BY <3>2, <3>3
    <2>4. CASE i # c.id
      BY <1>1, <2>1, <2>3, <2>4, SamePage DEF Agrees, Applied
    <2>5. CASE i = c.id /\ c.op = "create"
      BY <1>1, <2>1, <2>2, <2>3, <2>5, SamePage DEF Agrees, Applied, IsSave
    <2>6. CASE i = c.id /\ c.op = "update"
      BY <1>1, <2>1, <2>2, <2>3, <2>6, SamePage DEF Agrees, Applied, IsSave
    <2> QED
      BY <1>1, <2>4, <2>5, <2>6 DEF IsSave
  <1> QED
    BY <1>1, <1>2, <1>3, PatchAnswers

LEMMA PatchDeletes ==
    ASSUME PatchInv, page' = page, Patch!DeleteAnswered
    PROVE  PatchInv'
  <1>1. PICK c \in calls :
           /\ c.op = "delete" /\ calls' = calls \ {c}
           /\ UNCHANGED <<lastLoad, crossed, sent, db, past, editing>>
           /\ IF c.st = "ok" THEN rows' = {r \in rows : r.id # c.id} /\ UNCHANGED error
                             ELSE error' = TRUE /\ UNCHANGED rows
    BY DEF Patch!DeleteAnswered, Patch!Answered, Patch!Done, Patch!Fails, Patch!drawerVars
  <1>2. \A r \in rows' : Known(r.id)
    BY <1>1 DEF PatchInv, KnownInv
  <1>3. ASSUME Smooth', NEW i \in Ids PROVE Agrees(i)'
    <2>1. c.st = "ok" /\ Agrees(i)
      BY <1>1, <1>3 DEF PatchInv, Smooth
    <2>2. ShownOf(rows', i) = IF i = c.id THEN {} ELSE ShownOf(rows, i)
      <3>1. rows' = RowMinus(rows, c.id)
        BY <1>1, <2>1 DEF RowMinus
      <3> QED
        BY <3>1, RowRemoved
    <2>3. CASE i # c.id
      BY <1>1, <2>1, <2>2, <2>3, SamePage DEF Agrees, Applied
    <2>4. CASE i = c.id
      BY <1>1, <2>1, <2>2, <2>4, SamePage DEF Agrees, Applied
    <2> QED
      BY <2>3, <2>4
  <1> QED
    BY <1>1, <1>2, <1>3, PatchAnswers

\* The API answers a load, or refuses a call.
LEMMA PatchServes ==
    ASSUME PageTyped, PatchInv, page' = page, NEW c \in calls,
           ServeList(c) \/ Refuse(c),
           UNCHANGED <<rows, error, crossed, lastLoad, editing, sent>>
    PROVE  PatchInv'
  <1>1. PICK d \in {[c EXCEPT !.st = "ok", !.list = RowsOf(db)], [c EXCEPT !.st = "failed"]} :
           /\ calls' = (calls \ {c}) \cup {d} /\ UNCHANGED <<db, past>>
           /\ \/ d.op = "list" /\ d.st = "ok" /\ d.list = RowsOf(db)
              \/ d.st = "failed" /\ d.list = c.list
           /\ d.op = c.op /\ d.id = c.id
    <2>1. c \in Call
      BY DEF PageTyped
    <2> QED
      BY <2>1 DEF ServeList, Refuse, Call
  <1>2. \A r \in RowsOf(db) : Known(r.id)
    BY DEF PatchInv, KnownInv, Known, RowsOf
  <1>3. KnownInv'
    BY <1>1, <1>2 DEF PatchInv, KnownInv, Known, Body
  <1>4. OneLoadInv'
    BY <1>1 DEF PatchInv, OneLoadInv, RowsOf
  <1>5. ~Smooth'
    BY <1>1 DEF Smooth
  <1> QED
    BY <1>3, <1>4, <1>5 DEF PatchInv

\* The API commits a write.  A create gets an id no row and no call has.
LEMMA PatchCommits ==
    ASSUME PageTyped, SaveInv, PatchInv, page' = page,
           UNCHANGED <<rows, error, crossed, lastLoad, editing, sent>>,
           NEW c \in calls, c.op # "list", c.st = "sent",
           NEW i \in Ids, NEW st \in {"ok", "failed"}, NEW body \in Body \cup {NoRow},
           calls' = (calls \ {c}) \cup {[c EXCEPT !.st = st, !.id = i]},
           past' = [past EXCEPT ![i] = @ \cup {body}],
           \A j \in Ids : j # i =>
              HeldOf(db', j) = HeldOf(db, j) /\ (db'[j] # NoRow => db[j] # NoRow),
           IF c.op = "create" THEN past[i] = {} ELSE c.id = i,
           c.op = "update" => db[i] # NoRow,
           HeldOf(db', i) = IF IsSave(c) THEN {Seen(c.body)}
                            ELSE IF c.op = "delete" THEN {} ELSE HeldOf(db, i)
    PROVE  PatchInv'
  <1> DEFINE d == [c EXCEPT !.st = st, !.id = i]
  <1>1. /\ d.op = c.op /\ d.id = i /\ d.st = st /\ d.list = c.list /\ d.body = c.body
        /\ calls' = (calls \ {c}) \cup {d}
    BY DEF PageTyped, Call
  <1> HIDE DEF d
  <1>2. /\ past' \in [Ids -> SUBSET (Body \cup {NoRow})]
        /\ past'[i] # {} /\ \A j \in Ids : past[j] # {} => past'[j] # {}
    BY DEF PatchInv, KnownInv
  <1>3. \A k : Known(k) => Known(k)'
    BY <1>2 DEF Known
  <1>4. \A j \in Ids : db'[j] # NoRow => past'[j] # {}
    BY <1>2 DEF PatchInv, KnownInv
  <1>5. Known(i)'
    BY <1>2 DEF Known
  <1>6. KnownInv'
    <2>1. \A r \in rows' : Known(r.id)'
      BY <1>3 DEF PatchInv, KnownInv
    <2>2. editing' # NoRow => Known(editing.id)'
      BY <1>3 DEF PatchInv, KnownInv, Known
    <2>3. \A e \in calls' : /\ e.op \in {"update", "delete"} => Known(e.id)'
                            /\ e.op = "create" /\ e.st = "ok" => Known(e.id)'
                            /\ \A r \in e.list : Known(r.id)'
      BY <1>1, <1>3, <1>5 DEF PatchInv, KnownInv
    <2> QED
      BY <1>2, <1>4, <2>1, <2>2, <2>3 DEF KnownInv, Body
  <1>7. OneLoadInv'
    BY <1>1 DEF PatchInv, OneLoadInv
  <1>8. ASSUME Smooth', NEW j \in Ids PROVE Agrees(j)'
    <2>1. Smooth /\ st = "ok" /\ Agrees(j) /\ Agrees(i)
      BY <1>1, <1>8 DEF PatchInv, Smooth
    <2>2. CASE j # i
      BY <1>1, <2>1, <2>2, SamePage DEF Agrees, Applied
    <2>3. CASE j = i /\ c.op = "create"
      <3>1. ShownOf(rows, i) = {} /\ \A e \in calls : e.op \in {"update", "delete"} => e.id # i
        BY <2>3 DEF PatchInv, KnownInv, Known, ShownOf
      <3>2. \A e \in calls : IsSave(e) => e = c
        BY <2>3 DEF SaveInv, Holds, IsSave
      <3> QED
        BY <1>1, <2>1, <2>3, <3>1, <3>2, SamePage DEF Agrees, Applied, IsSave
    <2>4. CASE j = i /\ c.op = "update"
      <3>1. \A e \in calls : IsSave(e) => e = c
        BY <2>4 DEF SaveInv, Holds, IsSave
      <3>2. HeldOf(db, i) # {} /\ c.id = i
        BY <2>4 DEF HeldOf
      <3>3. \A e \in calls : ~Applied(e, i, "delete")
        BY <2>1, <3>2 DEF Agrees
      <3>4. ShownOf(rows, i) # {}
        BY <2>1, <2>4, <3>1, <3>2, <3>3 DEF Agrees, Applied, IsSave
      <3> QED
        BY <1>1, <2>1, <2>4, <3>1, <3>3, <3>4, SamePage DEF Agrees, Applied, IsSave
    <2>5. CASE j = i /\ c.op = "delete"
      BY <1>1, <2>1, <2>5, SamePage DEF Agrees, Applied, IsSave
    <2>6. CASE j = i /\ c.op \notin {"create", "update", "delete"}
      BY <1>1, <2>1, <2>6, SamePage DEF Agrees, Applied, IsSave
    <2> QED
      BY <2>2, <2>3, <2>4, <2>5, <2>6
  <1> QED
    BY <1>6, <1>7, <1>8 DEF PatchInv

LEMMA PatchInvStep ==
    ASSUME PageTyped, SaveInv, PatchInv, page' = page, page \in Patched, PatchStep
    PROVE  PatchInv'
  <1>1. \A op, id, body :
          /\ Patch!NewCall(op, id, body, 0).op = op
          /\ Patch!NewCall(op, id, body, 0).st = "sent"
          /\ Patch!NewCall(op, id, body, 0).id = id
          /\ Patch!NewCall(op, id, body, 0).list = {}
    BY DEF Patch!NewCall
  <1> USE DEF Patch!pageVars, Patch!loadVars, Patch!drawerVars, Patch!callVars, Patch!Send,
      Patch!RowButton, Patch!Reset
  <1>2. CASE \E SeedsIfEmpty : Patch!LoadAnswered(SeedsIfEmpty)
    BY <1>2, PatchLoads
  <1>3. CASE Patch!SubmitAnswered
    BY <1>3, PatchSaves
  <1>4. CASE Patch!DeleteAnswered
    BY <1>4, PatchDeletes
  <1>5. CASE \E Required : Patch!Submit(Required)
    <2>1. \/ editing # NoRow /\ calls' = calls \cup {Patch!NewCall("update", editing.id, form, 0)}
          \/ calls' = calls \cup {Patch!NewCall("create", NoRow, form, 0)}
      BY <1>5 DEF Patch!Submit, Patch!Save
    <2>2. /\ sent' = sent + 1
          /\ UNCHANGED <<rows, error, crossed, lastLoad, editing, db, past>>
      BY <1>5 DEF Patch!Submit, Patch!Save
    <2>3. editing # NoRow => Known(editing.id)
      BY DEF PatchInv, KnownInv
    <2> QED
      BY <1>1, <2>1, <2>2, <2>3, PatchSends
  <1>6. CASE \E r \in rows : Patch!Delete(r)
    BY <1>1, <1>6, PatchSends DEF Patch!Delete
  <1>7. CASE \/ Patch!OpenCreate \/ \E r \in rows : Patch!OpenEdit(r)
             \/ \E Fields : Patch!Type(Fields) \/ \E resets : Patch!Close(resets)
    BY <1>7, PatchIdles DEF Patch!OpenCreate, Patch!OpenEdit, Patch!Type, Patch!Close
  <1>8. CASE \E Routes : Serve(Routes)
    <2>0. PICK Routes : Serve(Routes)
      BY <1>8
    <2>1. PICK c \in calls : c.st = "sent" /\ (ServeList(c) \/ ServeWrite(c, Routes) \/ Refuse(c))
      BY <2>0 DEF Serve
    <2>2. UNCHANGED <<rows, error, crossed, lastLoad, editing, sent>>
      BY <2>0 DEF Serve, pageVars, loadVars, drawerVars
    <2>3. CASE ServeList(c) \/ Refuse(c)
      BY <2>2, <2>3, PatchServes
    <2>4. CASE ServeWrite(c, Routes)
      <3>1. PICK st \in {"ok", "failed"}, i \in Ids, body \in Body \cup {NoRow} :
               /\ Commit(c, i, body, st)
               /\ \/ c.op = "create" /\ past[i] = {} /\ body = c.body
                  \/ c.op = "update" /\ c.id = i /\ db[i] # NoRow /\ body = c.body
                  \/ c.op = "delete" /\ c.id = i /\ body = NoRow
        BY <2>4 DEF ServeWrite, PageTyped, Sound, IsSave
      <3>2. c.op # "delete" => body # NoRow
        BY <3>1, BodyIsNotNull DEF PageTyped, Sound, IsSave
      <3>3. /\ \A j \in Ids : j # i => db'[j] = db[j]
            /\ db'[i] = body
        BY <3>1 DEF Commit, PageTyped
      <3>4. /\ \A j \in Ids : j # i => HeldOf(db', j) = HeldOf(db, j)
            /\ HeldOf(db', i) = IF body = NoRow THEN {} ELSE {Seen(body)}
        BY <3>3 DEF HeldOf
      <3>5. c.op # "list"
        BY <3>1
      <3> QED
        <4>1. /\ calls' = (calls \ {c}) \cup {[c EXCEPT !.st = st, !.id = i]}
              /\ past' = [past EXCEPT ![i] = @ \cup {body}]
          BY <3>1 DEF Commit
        <4>2. \A j \in Ids : j # i =>
                HeldOf(db', j) = HeldOf(db, j) /\ (db'[j] # NoRow => db[j] # NoRow)
          BY <3>3, <3>4
        <4>3. /\ IF c.op = "create" THEN past[i] = {} ELSE c.id = i
              /\ c.op = "update" => db[i] # NoRow
          BY <3>1
        <4>4. HeldOf(db', i) = IF IsSave(c) THEN {Seen(c.body)}
                               ELSE IF c.op = "delete" THEN {} ELSE HeldOf(db, i)
          BY <3>1, <3>2, <3>4 DEF IsSave
        <4> QED
          BY <2>1, <2>2, <3>5, <4>1, <4>2, <4>3, <4>4, PatchCommits, ZenonT(60)
    <2> QED
      BY <2>1, <2>3, <2>4
  <1> QED
    BY <1>2, <1>3, <1>4, <1>5, <1>6, <1>7, <1>8 DEF PatchStep

\* An account set as default keeps its organization, which is what is compared.
LEMMA MarksAreNotCompared ==
    ASSUME PageTyped, page = "payment-accounts", NEW k, NEW i,
           rows' = {[r EXCEPT !.body["info"] = IF r.id = k THEN PaymentAccounts!Yes ELSE Empty] :
                      r \in rows}
    PROVE  /\ ShownOf(rows', i) = ShownOf(rows, i)
           /\ \A q \in rows' : \E r \in rows : q.id = r.id
  <1> DEFINE marked(r) == [r EXCEPT !.body["info"] = IF r.id = k THEN PaymentAccounts!Yes ELSE Empty]
  <1>1. \A r \in rows : marked(r).id = r.id /\ Seen(marked(r).body) = Seen(r.body)
    BY DEF Seen, PageTyped, Row, Body, Assigned
  <1>2. /\ \A q \in rows' : \E r \in rows : q = marked(r)
        /\ \A r \in rows : marked(r) \in rows'
    OBVIOUS
  <1> HIDE DEF marked
  <1>3. \A v : v \in ShownOf(rows', i) <=> v \in ShownOf(rows, i)
    <2> TAKE v
    <2>1. /\ v \in ShownOf(rows', i) <=> \E r \in rows' : r.id = i /\ v = Seen(r.body)
          /\ v \in ShownOf(rows, i) <=> \E r \in rows : r.id = i /\ v = Seen(r.body)
      BY ShownElement
    <2>2. ASSUME NEW q \in rows', q.id = i, v = Seen(q.body)
          PROVE  \E r \in rows : r.id = i /\ v = Seen(r.body)
      BY <1>1, <1>2, <2>2
    <2>3. ASSUME NEW r \in rows, r.id = i, v = Seen(r.body)
          PROVE  \E q \in rows' : q.id = i /\ v = Seen(q.body)
      BY <1>1, <1>2, <2>3
    <2> QED
      BY <2>1, <2>2, <2>3
  <1>4. ShownOf(rows', i) = ShownOf(rows, i)
    BY <1>3 DEF ShownOf
  <1>5. \A q \in rows' : \E r \in rows : q.id = r.id
    BY <1>1, <1>2
  <1> QED
    BY <1>4, <1>5

\* The API commits an account: the others may lose their mark.
LEMMA AccountCommits ==
    ASSUME PageTyped, page = "payment-accounts", NEW c, NEW i \in Ids, NEW body \in Body, NEW st,
           PaymentAccounts!CommitAccount(c, i, body, st)
    PROVE  /\ HeldOf(db', i) = {Seen(body)}
           /\ \A j \in Ids : j # i =>
                HeldOf(db', j) = HeldOf(db, j) /\ (db'[j] # NoRow => db[j] # NoRow)
  <1> USE DEF PageTyped
  <1>1. /\ db'[i] = body
        /\ \A j \in Ids : j # i =>
             db'[j] \in {db[j], IF db[j] = NoRow THEN NoRow ELSE [db[j] EXCEPT !["info"] = Empty]}
    BY DEF PaymentAccounts!CommitAccount, PaymentAccounts!Cleared
  <1>2. HeldOf(db', i) = {Seen(body)}
    BY <1>1, BodyIsNotNull DEF HeldOf
  <1>3. ASSUME NEW j \in Ids, j # i
        PROVE  HeldOf(db', j) = HeldOf(db, j) /\ (db'[j] # NoRow => db[j] # NoRow)
    <2>1. CASE db[j] = NoRow
      BY <1>1, <1>3, <2>1 DEF HeldOf
    <2>2. CASE db[j] # NoRow
      <3>1. db[j] \in Body /\ Body = [{"key", "info"} -> Filled \cup {Empty}]
        BY <2>2 DEF Body, Assigned
      <3>2. db'[j] \in Body /\ db'[j]["key"] = db[j]["key"]
        BY <1>1, <1>3, <2>2, <3>1
      <3> QED
        BY <2>2, <3>2, BodyIsNotNull DEF HeldOf, Seen
    <2> QED
      BY <2>1, <2>2
  <1> QED
    BY <1>2, <1>3

LEMMA PatchInvAccounts ==
    ASSUME PageTyped, SaveInv, PatchInv, page' = page, page = "payment-accounts",
           PaymentAccounts!Next
    PROVE  PatchInv'
  <1> USE DEF PaymentAccounts!pageVars, PaymentAccounts!loadVars, PaymentAccounts!drawerVars
  <1>1. CASE PatchStep
    BY <1>1, PatchInvStep DEF Patched
  <1>2. CASE \E r \in rows : PaymentAccounts!handleSetDefault(r)
    <2>1. PICK r \in rows : PaymentAccounts!handleSetDefault(r)
      BY <1>2
    <2>2. PICK d : d = PaymentAccounts!NewCall("default", r.id, NoRow, 0)
      OBVIOUS
    <2>3. d.op = "default" /\ d.st = "sent" /\ d.list = {}
      BY <2>2 DEF PaymentAccounts!NewCall
    <2>4. /\ calls' = calls \cup {d} /\ sent' = sent + 1
          /\ UNCHANGED <<rows, error, crossed, lastLoad, editing, db, past>>
      BY <2>1, <2>2 DEF PaymentAccounts!handleSetDefault, PaymentAccounts!Send
    <2> QED
      BY <2>3, <2>4, PatchSends
  <1>3. CASE PaymentAccounts!SetDefaultAnswered
    <2>1. PICK c \in calls :
             /\ c.op = "default" /\ calls' = calls \ {c}
             /\ UNCHANGED <<lastLoad, crossed, sent, db, past, editing>>
             /\ IF c.st = "ok"
                THEN /\ rows' = {[r EXCEPT !.body["info"] = IF r.id = c.id THEN PaymentAccounts!Yes
                                                                         ELSE Empty] : r \in rows}
                     /\ UNCHANGED error
                ELSE error' = TRUE /\ UNCHANGED rows
      BY <1>3 DEF PaymentAccounts!SetDefaultAnswered, PaymentAccounts!Answered,
          PaymentAccounts!Done, PaymentAccounts!Fails
    <2>2. \A i : /\ c.st = "ok" => ShownOf(rows', i) = ShownOf(rows, i)
                 /\ \A q \in rows' : \E r \in rows : q.id = r.id
      BY <2>1, MarksAreNotCompared
    <2>3. \A r \in rows' : Known(r.id)
      BY <2>2 DEF PatchInv, KnownInv
    <2>4. ASSUME Smooth', NEW i \in Ids PROVE Agrees(i)'
      <3>1. c.st = "ok" /\ Agrees(i)
        BY <2>1, <2>4 DEF PatchInv, Smooth
      <3> QED
        BY <2>1, <2>2, <3>1, SamePage DEF Agrees, Applied
    <2> QED
      BY <2>1, <2>3, <2>4, PatchAnswers
  <1>4. CASE PaymentAccounts!ServeAccounts
    <2>1. PICK c \in calls :
             /\ c.st = "sent"
             /\ \/ PaymentAccounts!ServeList(c) \/ PaymentAccounts!ServeAccount(c)
                \/ PaymentAccounts!Refuse(c)
      BY <1>4 DEF PaymentAccounts!ServeAccounts
    <2>2. UNCHANGED <<rows, error, crossed, lastLoad, editing, sent>>
      BY <1>4 DEF PaymentAccounts!ServeAccounts
    <2>3. CASE PaymentAccounts!ServeList(c) \/ PaymentAccounts!Refuse(c)
      <3>0. PaymentAccounts!RowsOf(db) = RowsOf(db)
        BY DEF PaymentAccounts!RowsOf, RowsOf
      <3>1. ServeList(c) \/ Refuse(c)
        BY <2>3, <3>0 DEF PaymentAccounts!ServeList, PaymentAccounts!Refuse, ServeList, Refuse
      <3> QED
        BY <2>2, <3>1, PatchServes
    <2>4. CASE PaymentAccounts!ServeAccount(c)
      <3>1. PICK st \in {"ok", "failed"}, i \in Ids, body \in Body :
               /\ PaymentAccounts!CommitAccount(c, i, body, st)
               /\ \/ c.op = "create" /\ past[i] = {} /\ body = c.body
                  \/ /\ c.op = "default" /\ c.id = i /\ db[i] # NoRow
                     /\ body = [db[i] EXCEPT !["info"] = PaymentAccounts!Yes]
        <4>1. c \in Call /\ Sound(c) /\ PaymentAccounts!Yes \in Filled
          BY FilledAssumption DEF PageTyped, PaymentAccounts!Yes
        <4>2. Body = [{"key", "info"} -> Filled \cup {Empty}]
          BY DEF Body, Assigned
        <4> QED
          BY <2>4, <4>1, <4>2 DEF PaymentAccounts!ServeAccount, PageTyped, Sound, IsSave
      <3>2. /\ calls' = (calls \ {c}) \cup {[c EXCEPT !.st = st, !.id = i]}
            /\ past' = [past EXCEPT ![i] = @ \cup {body}]
        BY <3>1 DEF PaymentAccounts!CommitAccount
      <3>3. /\ HeldOf(db', i) = {Seen(body)}
            /\ \A j \in Ids : j # i =>
                 HeldOf(db', j) = HeldOf(db, j) /\ (db'[j] # NoRow => db[j] # NoRow)
        BY <3>1, AccountCommits
      <3>4. c.op = "default" => HeldOf(db', i) = HeldOf(db, i)
        <4>1. Body = [{"key", "info"} -> Filled \cup {Empty}]
          BY DEF Body, Assigned
        <4>2. c.op = "default" => body["key"] = db[i]["key"] /\ db[i] # NoRow
          BY <3>1, <4>1 DEF PageTyped
        <4> QED
          BY <3>3, <4>2 DEF HeldOf, Seen
      <3>5. HeldOf(db', i) = IF IsSave(c) THEN {Seen(c.body)}
                             ELSE IF c.op = "delete" THEN {} ELSE HeldOf(db, i)
        BY <3>1, <3>3, <3>4 DEF IsSave
      <3>6. /\ IF c.op = "create" THEN past[i] = {} ELSE c.id = i
            /\ c.op = "update" => db[i] # NoRow
            /\ c.op # "list" /\ body \in Body \cup {NoRow}
        BY <3>1
      <3> QED
        BY <2>1, <2>2, <3>2, <3>3, <3>5, <3>6, PatchCommits, ZenonT(60)
    <2> QED
      BY <2>1, <2>3, <2>4
  <1> QED
    BY <1>1, <1>2, <1>3, <1>4, PaymentAccountsKinds

-----------------------------------------------------------------------------
(* The theorems about the pages.                                           *)

LEMMA PagesSteps ==
    ASSUME PageTyped, SaveInv, Pages
    PROVE  /\ PageStep
           /\ page \in Forms => ReloadStep
           /\ page \in Patched => PatchStep \/ (page = "payment-accounts" /\ PaymentAccounts!Next)
           /\ page \in Assigned => AssignStep
  <1>1. page \in Forms => ReloadStep
    BY UsersSteps, RolesSteps, PermissionsSteps, ChartOfAccountsSteps
    DEF Pages, Forms
  <1>2. page \in Patched /\ page # "payment-accounts" => PatchStep
    BY OrganizationsSteps, OrganizationTypesSteps, MenuItemsSteps DEF Pages, Patched
  <1>3. page \in Assigned => AssignStep
    BY RolePermissionsSteps, UserRolesSteps DEF Pages, Assigned
  <1>4. page = "payment-accounts" => PageStep /\ PaymentAccounts!Next
    BY PaymentAccountsSteps DEF Pages
  <1>5. page \in Forms \cup Patched \cup Assigned
    BY DEF Pages, Forms, Patched, Assigned
  <1> QED
    BY <1>1, <1>2, <1>3, <1>4, <1>5, ReloadSteps, PatchSteps, AssignSteps

FrontInv ==
    /\ page \in Forms \cup Patched \cup Assigned \cup {"shell"}
    /\ IInv
    /\ page = "shell" => calls = {} /\ ~drawerOpen /\ ~saving
    /\ page # "shell" => /\ PageTyped /\ RestTyped /\ NumberedInv /\ CountInv
                         /\ SaveInv /\ FilledInv
    /\ page \in Forms => FreshInv
    /\ page \in Patched => PatchInv
    /\ page \in Assigned => GrantedInv

\* A page is mounted with its drawer closed and one load under way.
LEMMA MountedInv ==
    ASSUME page # "shell", NEW tables, Mounted(tables), form \in Body,
           \A t \in tables : t \in [Ids -> Body \cup {NoRow}]
    PROVE  /\ PageTyped /\ RestTyped /\ NumberedInv /\ CountInv
           /\ SaveInv /\ FilledInv /\ FreshInv /\ PatchInv
  <1>1. [n |-> 1, op |-> "list", id |-> NoRow, body |-> NoRow, step |-> 0,
         st |-> "sent", list |-> {}] \in Call
    BY DEF Call
  <1>2. calls \subseteq Call /\ \A c \in calls : Sound(c)
    BY <1>1 DEF Mounted, Sound, IsSave
  <1>3. db \in [Ids -> Body \cup {NoRow}]
    BY DEF Mounted
  <1>4. PageTyped
    BY <1>2, <1>3 DEF PageTyped, Mounted
  <1>5. SaveInv /\ FilledInv
    BY DEF SaveInv, FilledInv, FormIsOfItsRow, Mounted, IsSave, Holds
  <1>6. NumberedInv /\ FreshInv
    BY DEF NumberedInv, FreshInv, LoadedBy, IsWrite, Mounted
  <1>8. RestTyped
    <2>1. /\ past = [i \in Ids |-> {db[i]} \ {NoRow}]
          /\ past \in [Ids -> SUBSET (Body \cup {NoRow})]
      BY <1>3 DEF Mounted
    <2>2. lastLoad \in 1..sent
      BY DEF Mounted
    <2> QED
      BY <2>1, <2>2 DEF RestTyped, Mounted
  <1>9. CountInv
    <2>1. IsFiniteSet(calls) /\ Cardinality(calls) = 1
      BY FS_Singleton DEF Mounted
    <2>2. Owing(1) = {} /\ Owing(2) = {} /\ Cardinality({}) = 0
      BY FS_EmptySet DEF Owing, Owes, IsWrite, Mounted
    <2>3. sent = 1 /\ MaxCalls \in Nat
      BY MaxCallsAssumption DEF Mounted
    <2>4. Cardinality(Owing(1)) = 0 /\ Cardinality(Owing(2)) = 0
      BY <2>2
    <2> QED
      BY <2>1, <2>3, <2>4 DEF CountInv
  <1>7. PatchInv
    <2>1. /\ past = [i \in Ids |-> {db[i]} \ {NoRow}]
          /\ past \in [Ids -> SUBSET (Body \cup {NoRow})]
      BY <1>3 DEF Mounted
    <2>2. KnownInv /\ OneLoadInv
      BY <1>3, <2>1 DEF KnownInv, OneLoadInv, Known, Mounted
    <2>3. ~Smooth
      BY DEF Smooth, Mounted
    <2> QED
      BY <2>2, <2>3 DEF PatchInv
  <1> QED
    BY <1>4, <1>5, <1>6, <1>7, <1>8, <1>9

LEMMA FrontInitInv == FrontInit => FrontInv /\ Drawer!Init
  <1> SUFFICES ASSUME FrontInit PROVE FrontInv /\ Drawer!Init
    OBVIOUS
  <1>0. IInv
    BY InitInv DEF FrontInit
  <1>1. ~drawerOpen /\ ~saving /\ Drawer!Init
    <2>1. ~drawerOpen /\ ~saving /\ \A c \in calls : c.op = "list"
      BY DEF FrontInit, NoPage, Users!Init, Users!FormInit, Users!Mounted, UserRoles!Init,
          UserRoles!AssignInit, UserRoles!Mounted
    <2>2. Saves = {}
      BY <2>1 DEF Saves, Under
    <2> QED
      BY <2>1, <2>2 DEF Drawer!Init
  <1>2. CASE page \in Forms \cup Patched
    <2>1. Body = Users!Bodies /\ page # "shell"
      BY <1>2 DEF Body, Users!Bodies, Users!Inputs, Forms, Patched, Assigned
    <2>2. page \notin Assigned
      BY <1>2 DEF Forms, Patched, Assigned
    <2>3. Mounted([Ids -> Users!Bodies \cup {NoRow}]) /\ form = Users!initialForm
      BY <2>1, <2>2 DEF FrontInit, Users!Init, Users!FormInit, Users!Mounted, Mounted
    <2>4. form \in Body
      BY <2>1, <2>3 DEF Users!initialForm, Users!Bodies
    <2> QED
      BY <1>1, <1>0, <1>2, <2>1, <2>2, <2>3, <2>4, MountedInv DEF FrontInv
  <1>3. CASE page \in Assigned
    <2>1. Body = UserRoles!Bodies /\ page # "shell"
      BY <1>3 DEF Body, UserRoles!Bodies, Assigned
    <2>2. page \notin Forms \cup Patched
      BY <1>3 DEF Forms, Patched, Assigned
    <2>3. Mounted([Ids -> UserRoles!Bodies \cup {NoRow}]) /\ form = {}
      BY <2>1, <2>2 DEF FrontInit, UserRoles!Init, UserRoles!AssignInit, UserRoles!Mounted,
          Mounted
    <2>4. form \in Body
      BY <2>1, <2>3 DEF UserRoles!Bodies
    <2>5. GrantedInv
      BY <2>3 DEF GrantedInv, WasThere, Mounted, UserRoles!Bodies
    <2> QED
      BY <1>1, <1>0, <1>3, <2>1, <2>2, <2>3, <2>4, <2>5, MountedInv DEF FrontInv
  <1>4. CASE page = "shell" /\ NoPage
    BY <1>1, <1>0, <1>4 DEF FrontInv, NoPage, Forms, Patched, Assigned
  <1> QED
    BY <1>2, <1>3, <1>4 DEF FrontInit

LEMMA FrontNextInv ==
    ASSUME FrontInv, [FrontNext]_allVars
    PROVE  FrontInv' /\ [Drawer!Next]_(Drawer!vars)
  <1>5. IInv'
    BY NextInv DEF FrontInv, FrontNext, allVars, shellVars
  <1>1. CASE page # "shell" /\ Pages /\ UNCHANGED page
    <2>1. /\ PageTyped /\ RestTyped /\ NumberedInv /\ CountInv /\ SaveInv /\ FilledInv /\ PageStep
          /\ page \in Forms => ReloadStep
          /\ page \in Patched => PatchStep \/ (page = "payment-accounts" /\ PaymentAccounts!Next)
          /\ page \in Assigned => AssignStep
      BY <1>1, PagesSteps DEF FrontInv
    <2>2. PageTyped' /\ SaveInv' /\ FilledInv' /\ [Drawer!Next]_(Drawer!vars)
      BY <1>1, <2>1, StepTyped, StepSaves, StepFilled, StepContract
    <2>6. RestTyped' /\ NumberedInv' /\ CountInv'
      <3>1. RestStep
        BY <1>1, <2>1, ReloadRest, PatchRest, AccountsRest, AssignRest DEF FrontInv
      <3> QED
        BY <1>1, <2>1, <3>1, RestKept
    <2>3. page \in Forms => FreshInv'
      BY <2>1, FreshStep DEF FrontInv
    <2>4. page \in Assigned => GrantedInv'
      BY <2>1, GrantedStep DEF FrontInv
    <2>5. page \in Patched => PatchInv'
      BY <1>1, <2>1, PatchInvStep, PatchInvAccounts DEF FrontInv
    <2> QED
      BY <1>1, <1>5, <2>2, <2>3, <2>4, <2>5, <2>6 DEF FrontInv
  <1>2. CASE UNCHANGED <<page, vars>>
    <2>1. UNCHANGED <<rows, saving, drawerOpen, editing, form, filledFrom, calls, sent, db,
                      error, crossed, lastLoad, past, loading>>
      BY <1>2 DEF vars, pageVars, loadVars, drawerVars, callVars
    <2>2. page \in Patched => PatchInv'
      BY <1>2, <2>1, PatchIdles DEF FrontInv, Patched
    <2>5. page # "shell" => RestTyped' /\ NumberedInv' /\ CountInv'
      <3>1. page # "shell" => RestStep
        BY <2>1 DEF FrontInv, RestTyped, RestStep, CallsStep
      <3> QED
        BY <1>2, <3>1, RestKept DEF FrontInv
    <2>3. FrontInv'
      BY <1>2, <1>5, <2>1, <2>2, <2>5 DEF FrontInv, PageTyped, SaveInv, FilledInv, FormIsOfItsRow, Target,
          Row, Body, AnyId, Call, Sound, IsSave, Holds, FreshInv, LoadedBy, RowsOf, GrantedInv, WasThere
    <2>4. UNCHANGED Drawer!vars
      BY <2>1 DEF Drawer!vars, Saves, Under, Target
    <2> QED
      BY <2>3, <2>4
  <1>3. Pages => page # "shell"
    BY DEF Pages
  <1> QED
    BY <1>1, <1>2, <1>3 DEF FrontNext, allVars

LEMMA FrontInvariance == FrontSpec => []FrontInv
  BY FrontInitInv, FrontNextInv, PTL DEF FrontSpec

(* Every variable of the shell and of the page keeps its kind, and a page  *)
(* sends at most three calls for each the user began and one when it is    *)
(* mounted (the list functions and handlers of the ten pages).             *)
THEOREM FrontTypes == FrontSpec => []AllTypesOK
  <1> DEFINE bound == 1 + 3 * MaxCalls
  <1>1. ASSUME FrontInv, page # "shell"
        PROVE  /\ rows \subseteq Row
               /\ <<loading, saving, drawerOpen, error, crossed>> \in [1..5 -> BOOLEAN]
               /\ editing \in Row \cup {NoRow}
               /\ filledFrom \in AnyId \cup {NoRow}
               /\ form \in Body
               /\ sent \in 1..bound /\ lastLoad \in 1..sent
               /\ db \in [Ids -> Body \cup {NoRow}]
               /\ past \in [Ids -> SUBSET (Body \cup {NoRow})]
               /\ \A c \in calls :
                    /\ c.n \in 1..sent /\ c.step \in 0..3
                    /\ c.op \in {"list", "get", "create", "update", "delete", "default"}
                    /\ c.st \in {"sent", "ok", "failed"}
                    /\ c.id \in AnyId \cup {NoRow} /\ c.body \in Body \cup {NoRow}
                    /\ c.list \subseteq Row
    <2>1. PageTyped /\ RestTyped /\ NumberedInv /\ CountInv
      BY <1>1 DEF FrontInv
    <2>2. sent \in 1..bound
      <3>1. Owing(1) \in SUBSET calls /\ Owing(2) \in SUBSET calls /\ IsFiniteSet(calls)
        BY <2>1 DEF Owing, CountInv
      <3>2. Cardinality(Owing(1)) \in Nat /\ Cardinality(Owing(2)) \in Nat
        BY <3>1, FS_Subset, FS_CardinalityType
      <3> QED
        BY <2>1, <3>2, MaxCallsAssumption DEF CountInv, PageTyped, RestTyped
    <2>3. <<loading, saving, drawerOpen, error, crossed>> \in [1..5 -> BOOLEAN]
      BY <2>1 DEF PageTyped, RestTyped
    <2>4. \A c \in calls :
            /\ c.n \in 1..sent /\ c.step \in 0..3
            /\ c.op \in {"list", "get", "create", "update", "delete", "default"}
            /\ c.st \in {"sent", "ok", "failed"}
            /\ c.id \in AnyId \cup {NoRow} /\ c.body \in Body \cup {NoRow}
            /\ c.list \subseteq Row
      BY <2>1 DEF PageTyped, Call, NumberedInv
    <2> QED
      BY <2>1, <2>2, <2>3, <2>4 DEF PageTyped, RestTyped
  <1>2. ASSUME FrontInv, page \in Forms PROVE AllTypesOK
    <2>1. page # "shell" /\ AnyId = Ids /\ Body = Users!Bodies
      BY <1>2 DEF Forms, Patched, Assigned, AnyId, Body, Users!Bodies, Users!Inputs
    <2>2. Row = [id : Ids, body : Users!Bodies]
      BY <2>1 DEF Row
    <2>3. Users!TypeOK
      BY <1>1, <1>2, <2>1, <2>2 DEF Users!TypeOK, Users!PageTypeOK
    <2> QED
      BY <1>2, <2>3 DEF AllTypesOK, Forms, Patched, Assigned
  <1>3. ASSUME FrontInv, page \in Patched PROVE AllTypesOK
    <2>1. page # "shell" /\ AnyId = MenuItems!AllIds /\ Body = MenuItems!Bodies /\ page \notin Forms
      BY <1>3 DEF Forms, Patched, Assigned, AnyId, Body, MenuItems!AllIds, MenuItems!Bodies,
          MenuItems!Inputs
    <2>2. Row = [id : MenuItems!AllIds, body : MenuItems!Bodies]
      BY <2>1 DEF Row
    <2>3. MenuItems!TypeOK
      BY <1>1, <1>3, <2>1, <2>2 DEF MenuItems!TypeOK, MenuItems!PageTypeOK
    <2> QED
      BY <1>3, <2>3 DEF AllTypesOK, Forms, Patched, Assigned
  <1>4. FrontInv /\ page \in Assigned => AllTypesOK
    <2>1. page \in Assigned => /\ page # "shell" /\ AnyId = Ids
                              /\ Body = UserRoles!Bodies /\ page \notin Forms \cup Patched
      BY DEF Forms, Patched, Assigned, AnyId, Body, UserRoles!Bodies
    <2> QED
      BY <1>1, <2>1 DEF AllTypesOK, UserRoles!TypeOK, UserRoles!PageTypeOK, Row
  <1>5. FrontInv /\ page = "shell" => AllTypesOK
    BY DEF FrontInv, IInv, AllTypesOK, Forms, Patched, Assigned
  <1>6. FrontInv => AllTypesOK
    BY <1>2, <1>3, <1>4, <1>5 DEF FrontInv
  <1> QED
    BY <1>6, FrontInvariance, PTL

(* In the tab as a whole, too, the session is one user's and a code is     *)
(* exchanged once.                                                         *)
THEOREM FrontSession == FrontSpec => [](SessionIsOneUsers /\ CodeExchangedOnce)
  <1>1. FrontInv => SessionIsOneUsers /\ CodeExchangedOnce
    BY DEF FrontInv, IInv, OwnerInv, ExchangeInv, SessionIsOneUsers, CodeExchangedOnce
  <1> QED
    BY <1>1, FrontInvariance, PTL

(* On every page, whatever is clicked or reached by keyboard and however   *)
(* answers come, at most one save is under way, with a drawer open, and    *)
(* the buttons are disabled for it or its load alone (CrudDrawerForm.jsx,  *)
(* the pages' handleSubmit).                                               *)
THEOREM SavesTakeTurns == FrontSpec => []OneSaveAtATime
  <1>1. FrontInv => OneSaveAtATime
    <2> SUFFICES ASSUME FrontInv PROVE OneSaveAtATime
      OBVIOUS
    <2>1. \A c, d \in Saves : c = d
      BY DEF FrontInv, SaveInv, Saves, Under, Holds, IsSave
    <2>2. Saves = {} \/ \E c : Saves = {c}
      BY <2>1
    <2>3. Cardinality(Saves) <= 1
      <3>1. CASE Saves = {}
        BY <3>1, FS_EmptySet
      <3>2. CASE \E c : Saves = {c}
        <4>1. Cardinality(Saves) = 1
          BY <3>2, FS_Singleton
        <4> QED
          BY <4>1
      <3> QED
        BY <2>2, <3>1, <3>2
    <2>4. Saves # {} => drawerOpen /\ saving
      BY DEF FrontInv, SaveInv, Saves, Under, Holds, IsSave
    <2>5. saving => Saves # {} \/ \E c \in calls : c.op = "list" /\ c.step = 1
      BY DEF FrontInv, SaveInv, Saves, Under, Holds, IsSave
    <2> QED
      BY <2>3, <2>4, <2>5 DEF OneSaveAtATime
  <1> QED
    BY <1>1, FrontInvariance, PTL

(* On the pages with a form, what the open drawer holds was filled from    *)
(* the row in its title (openCreateDrawer, openEditDrawer).                *)
THEOREM FormsAreOfTheirRows == FrontSpec => []FormOfItsRow
  <1>1. FrontInv => FormOfItsRow
    BY DEF FrontInv, FilledInv, FormOfItsRow, Forms, Patched, Assigned
  <1> QED
    BY <1>1, FrontInvariance, PTL

(* When nothing is under way and no banner is up, the list on a page that  *)
(* loads again is the API's table, unless its last two loads crossed:      *)
(* answers out of order, lost answers and failures are all under a banner  *)
(* (loadPageData and the handlers that call it).                           *)
THEOREM ListsAreFresh == FrontSpec => []FreshOrExplained
  <1>1. FrontInv => FreshOrExplained
    BY DEF FrontInv, FreshInv, FreshOrExplained, Users!FreshOrExplained, Users!Quiet,
        Users!RowsOf, RowsOf
  <1> QED
    BY <1>1, FrontInvariance, PTL

(* When nothing is under way, no change has failed and none overlapped the *)
(* first load, the rows a page has patched one answer at a time are the    *)
(* API's table, in whatever order the answers came; of payment accounts    *)
(* the default mark may differ (handleSubmit, handleDelete and             *)
(* handleSetDefault of the pages that patch their list).                   *)
THEOREM ListsTrackServer == FrontSpec => []ListTracksServer
  <1> DEFINE Rests == calls = {} /\ ~crossed /\ ~error
             Mine == {r \in rows : r.id \in Ids}
             Marked(rs) == {[id |-> r.id, org |-> r.body["key"]] : r \in rs}
  <1>1. ASSUME FrontInv, page \in Patched, Rests, NEW i \in Ids, NEW v
        PROVE  (\E r \in rows : r.id = i /\ v = Seen(r.body)) <=>
                 (\E r \in RowsOf(db) : r.id = i /\ v = Seen(r.body))
    <2>1. ShownOf(rows, i) = ShownOf(RowsOf(db), i)
      BY <1>1, RowsShowTable DEF FrontInv, PatchInv, Smooth, Agrees
    <2>2. /\ v \in ShownOf(rows, i) <=> \E r \in rows : r.id = i /\ v = Seen(r.body)
          /\ v \in ShownOf(RowsOf(db), i) <=>
               \E r \in RowsOf(db) : r.id = i /\ v = Seen(r.body)
      BY ShownElement
    <2> QED
      BY <2>1, <2>2
  <1>2. ASSUME FrontInv, page \in Patched
        PROVE  RowsOf(db) \subseteq Row /\ rows \subseteq Row /\ \A r \in RowsOf(db) : r.id \in Ids
    BY <1>2, ListIsRows DEF FrontInv, Patched, PageTyped, RowsOf
  <1>3. ASSUME FrontInv, page \in Patched, page # "payment-accounts", Rests
        PROVE  Mine = RowsOf(db)
    <2>1. \A body : Seen(body) = body
      BY <1>3 DEF Seen
    <2>2. \A r, q \in Row : r.id = q.id /\ r.body = q.body => r = q
      BY DEF Row
    <2>3. \A r \in Mine : r \in RowsOf(db)
      BY <1>1, <1>2, <1>3, <2>1, <2>2
    <2>4. \A r \in RowsOf(db) : r \in Mine
      BY <1>1, <1>2, <1>3, <2>1, <2>2
    <2> QED
      BY <2>3, <2>4
  <1>4. ASSUME FrontInv, page = "payment-accounts", Rests
        PROVE  Marked(Mine) = Marked(RowsOf(db))
    <2>1. page \in Patched /\ \A body : Seen(body) = body["key"]
      BY <1>4 DEF Seen, Patched
    <2>2. ASSUME NEW r \in Mine
          PROVE  \E q \in RowsOf(db) : r.id = q.id /\ r.body["key"] = q.body["key"]
      <3>1. \E q \in RowsOf(db) : q.id = r.id /\ Seen(r.body) = Seen(q.body)
        BY <1>1, <1>4, <2>1
      <3> QED
        BY <2>1, <3>1
    <2>3. ASSUME NEW q \in RowsOf(db)
          PROVE  \E r \in Mine : r.id = q.id /\ r.body["key"] = q.body["key"]
      <3>1. \E r \in rows : r.id = q.id /\ Seen(q.body) = Seen(r.body)
        BY <1>1, <1>2, <1>4, <2>1
      <3> QED
        BY <1>2, <1>4, <2>1, <3>1
    <2> QED
      BY <2>2, <2>3
  <1>5. FrontInv => ListTracksServer
    BY <1>3, <1>4 DEF ListTracksServer, PaymentAccounts!AccountsTrackServer,
        PaymentAccounts!Quiet, PaymentAccounts!Shown, PaymentAccounts!Unmarked,
        PaymentAccounts!RowsOf, MenuItems!ListTracksServer, MenuItems!Quiet, MenuItems!Shown,
        MenuItems!RowsOf, RowsOf
  <1> QED
    BY <1>5, FrontInvariance, PTL

(* What a page that assigns shows in its table as assigned to a row was    *)
(* assigned to that row at some time (loadRolePermissions, loadUserRoles). *)
THEOREM ShownAssignmentsWereMade == FrontSpec => []ShownWasGranted
  <1>1. FrontInv => ShownWasGranted
    BY DEF FrontInv, GrantedInv, WasThere, ShownWasGranted, UserRoles!ShownWasGranted
  <1> QED
    BY <1>1, FrontInvariance, PTL

(* The drawers of all ten pages implement DrawerContract: opened for any   *)
(* row at any time, each save for the row it was clicked for, the drawer   *)
(* neither closed by the user nor saved again until the save is answered.  *)
THEOREM DrawersKeepContract == FrontSpec => KeepsDrawerContract
  BY FrontInitInv, FrontNextInv, FrontInvariance, PTL
  DEF FrontSpec, KeepsDrawerContract, Drawer!Spec
=============================================================================

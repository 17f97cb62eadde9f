# User management: a TLA+ model, its model checks and its proofs

The repository is a user-management platform: a .NET 8 API in front of
PostgreSQL (`account_db`) and Keycloak, a small authentication service that the
APISIX gateway asks before every call, and a React frontend. This directory
holds TLA+ modules of its stateful parts, TLC configurations that check them on
small instances, and TLAPS proofs for every value of the constants.

## The system

| Component | State it keeps | Operations | Hard behaviour |
|---|---|---|---|
| `UserService.CreateUserAsync` | `saga_log`, `user_ref`, Keycloak accounts | create, replay of an idempotency key | two stores without a common transaction, retries, compensation, cancelled requests, crashes |
| `UserService.UpdateUserAsync`, `DeactivateUserAsync` | the same | update, deactivate | two stores written in two orders, stale reads, half-done updates |
| `UserService.SetUserRolesAsync` over `KeycloakAdminClient.SetUserRealmRolesAsync` | `user_role`, realm role mappings | assign, remove | replacement of a set by read, delete and add in separate calls, on both sides |
| `AuthService.Api` with `RedisSessionStore` | `um:session:*`, `um:token:*` in Redis | verify, logout | two keys written and deleted in separate calls, expiry, refreshed tokens |
| `RoleService`, `PermissionService`, `RolePermissionMenuServices` | roles, permissions, menus and their joins | create, update, void, replace a set | check-then-act on names, replaced sets, voided rows still referred to |
| `OrganizationServices`, `ChartOfAccountService`, `OrganizationTypeService` | organizations, payment accounts, the account tree | create, update, void, set default | one default per organization, cycles in the tree, use against void |
| `MeService`, `CurrentUserAccessor` | none | the current user's roles, permissions and menus | reads several tables one after the other |
| Frontend session (`LoginPage`, `CallbackPage`, `AppLayout`, `sessionSlice`, `httpClient`) | `localStorage`, the Redux store | sign in, callback, `/me`, sign out, reload | an effect run twice, a code that works once, `/me` answered after the session it was asked in, 401 at any moment |
| Frontend pages (ten, under `modules/access/pages`, with `CrudDrawerForm`) | component state: list, drawer, form, flags | load, open, type, save, delete, assign | answers out of order or lost, lists patched by hand, a drawer opened for another row, also while its save is under way |
| APISIX | configuration | forward-auth to the verify endpoint | none of its own |

How they meet: the gateway forwards a request's `Authorization` and session id
to `AuthService`; on 200 the call reaches `UserManagement.Api`, whose
controllers call one service method each. A service method uses one EF Core
`DbContext` (one transaction per `SaveChangesAsync`) and, for users, awaits HTTP
calls to Keycloak in between. Nothing in the process is shared between two
requests: they meet in PostgreSQL, in Keycloak and in Redis, between any two
awaited calls. Every awaited call of the user service takes the request's
`CancellationToken`.

What makes each correct: a committed saga stands for a whole user, a failed one
leaves a visible trace, a compensation is honest, a key takes effect once; the
two stores agree when nothing says otherwise; no role comes from nowhere; an
answer of the verification carries the claims of the caller's own, unexpired
login; no two live rows share a name or code; a replaced set is one that was
asked for; one payment account is the default; a page saves one thing at a
time, for the row it was clicked for, its table is what the API holds or an error is
shown, and the tab belongs to one user. `PROJECT.json` lists the hazards at
their lines, with the properties that cover them; the two without a property
say why.

## The modules

| Module | Models | How it corresponds |
|---|---|---|
| `SagaLog` | what the operations of `UserService` share | states of a saga row, and the outcomes of one awaited call |
| `UserCreate` | `CreateUserAsync`, the replay, `RetryAsync`, the compensation | one action per awaited call |
| `AccountContract` | what creating users promises about the realm | abstract; `UserCreate` implements it (`KeepsContract`) |
| `UserUpdate` | `UpdateUserAsync`, `DeactivateUserAsync` | one action per awaited call; one user |
| `UserRoles` | `SetUserRolesAsync` as the controller's assign and remove call it | one action per awaited call, the Keycloak ones included; one user |
| `AuthSession` | `AuthVerificationService`, `RedisSessionStore`, `IntrospectAsync` | one action per Redis call; a clock |
| `Entities` | the rows and requests the services over PostgreSQL alone share | record sets, and the assumption on `None` |
| `Catalogue` | `RoleService`, `PermissionService`, `OrganizationTypeService` | one action per statement; `table` says which of the three |
| `Replacement` | `SetPermissionsAsync` of a role, `UpdateRolesAsync` of a menu item, the voiding of either side, permissions switched off and on, what `GetPermissionsByRoleAsync` and `MeService` show of it | one action per statement; one owner |
| `Ledger` | `ChartOfAccountService`, `PaymentAccountService` | one action per statement |
| `MCBackend` | the three, side by side | `service` says which one is looked at |
| `CrudPage` | what the ten pages share: state, calls, the drawer, the API's table | handlers are built from its operators |
| `FormPage`, `ReloadPage`, `PatchPage`, `AssignPage` | the drawer with a form; the two ways a list follows a change; the drawer with a selection | `FormPage` extends `CrudPage`; `ReloadPage` and `PatchPage` extend `FormPage`; `AssignPage` extends `CrudPage` |
| `UsersPage`, `RolesPage`, `PermissionsPage`, `ChartOfAccountsPage` | the pages of that name | over `ReloadPage`; one definition per handler, named as in the source |
| `OrganizationsPage`, `OrganizationTypesPage`, `MenuItemsPage`, `PaymentAccountsPage` | the pages of that name | over `PatchPage` |
| `RolePermissionsPage`, `UserRolesPage` | the pages of that name | over `AssignPage` |
| `DrawerContract` | what every page promises of its drawer | abstract; each page implements it (`KeepsDrawerContract`) |
| `AppShell` | sign-in, callback, session slice, interceptors, `/me` | one action per handler and per answer |
| `MCFrontend` | the ten pages and the shell | `page` is the route that is mounted |
| other `MC...` | | symmetry sets and constant functions for TLC |
| `...Proofs` (`UserCreate`, `UserUpdate`, `UserRoles`, `AuthSession`, `Catalogue`, `Ledger`, `Backend`, `Frontend`) | | theorems |

A request is a process. `pc[r]` names the awaited call the request makes next,
so everything between two awaited calls is one atomic step, and two requests
interleave at the awaits only, as they do in the program. A call has three
outcomes (`SagaLog!Outcomes`): done and answered, done with the answer lost, or
not done. A cancelled request's calls throw before anything is sent. Which
faults may happen in a run is the constant `Faults`:

| Fault | Stands for |
|---|---|
| `kcRefused`, `dbRefused`, `redisRefused` | the call fails and changes nothing |
| `kcReplyLost`, `dbReplyLost`, `redisReplyLost` | the call takes effect and the caller sees an exception |
| `noLocation` | a 201 of Keycloak without a `Location` header |
| `badRow` | PostgreSQL rejects the row itself (a value too long, say) |
| `disconnect` | the HTTP client goes away and the request's token is cancelled |
| `crash` | the process stops with every request in it |
| `jwksDown` | the realm's signing keys cannot be fetched |

Correspondence of state, where it is not a table or a local variable by name:

- `saga` is a function from idempotency keys because `saga_log` has a unique
  index on the key; `KeyFree` is that index. A request's local id is the request
  itself, since `Guid.NewGuid()` never repeats.
- `UserCreate!entry` is EF's state of the tracked `UserRef`. It is what makes
  the second save of a failed create insert the row again.
- `UserCreate!maker` and `UserUpdate!put`, `overlapped`, `UserRoles!granted` are
  history variables; no guard of an operation reads them but Keycloak's own
  username check (`UsernameTaken`), which uses `maker` to know a live account's
  username.
- `UserUpdate` keeps the email for all fields that are copied as they come, and
  the active flag, which both operations write. `Changes` is EF's update of the
  columns that differ from what was read, so a stale update does not overwrite a
  column it does not mean to change.
- `UserRoles!LoadRows` is the query `RemoveRange` runs when it enumerates the
  rows; it is synchronous and the one call that takes no token. `RowsAccepted`
  is EF's check that each deleted row was there and the primary key of
  `user_role`.
- `AuthSession!dies` is the moment Redis drops a key; `Tick` advances the clock
  and drops what is due. The time to live is computed when `SaveAsync` begins,
  and the second key gets the same one later. A session id minted for a request
  without one is the request. The frontend sends a token with the session id of
  the same login (`oidc.js`, `httpClient.js`), and `Forms` says so.

- `Catalogue!rows`, `Ledger!chart` and `pay` are the tables; a row is `None`
  until it is inserted and stays, voided, for good (the services delete nothing
  but joins). The services work at PostgreSQL's default READ COMMITTED: a
  statement sees what is committed, and a save is one transaction.
  `Catalogue!Indexed` is the unique index of `role.name_cache` and
  `permission.code`, which voided rows keep occupying: the check of the service
  (`Taken`) leaves them out, so a create under the name of a voided role passes
  the check and ends in a 500. `Ledger`'s index covers live accounts only, and
  `organization_type` has no index. The schema is the one `DbContext` maps.
- An update writes only what it was given and what differs from what it loaded
  (`Changes`, `Written`), as EF's change tracking does.
- `Replacement!Conflicts` and `MissesKept` are EF's count of the rows a save
  deleted, inserted or updated; whether a kept row is updated depends on
  `SyncedAt` and is left open.
- `Replacement!inactive` is the `Active` column of the permissions: one that is
  switched off is refused by `SetPermissionsAsync` and shown by no query, like a
  voided one, though its joins stay and show again when it is switched on
  (`SetActive`). Of roles no query here looks at `Active`. An update of a
  permission that saves after its void is left out.
- `Ledger!Request.list` is what the `DbContext` of a request tracks as marked.
  `SetDefaultAsync` reads its account first (`LoadAccount`), and the query for
  all (`LoadAll`) does not overwrite that, so `since` is the time of the first
  read. `rivals` are the accounts chosen since one was chosen that no other
  request crossed.
- `beside`, `asked`, `last`, `alone`, `since`, `saves`, `rivals`, `before`,
  `there` and `by` are history variables or fields.
- `CrudPage!calls` are the axios calls under way. The user's handler sends a
  call, the API serves it (or refuses it, or commits it and its answer is lost)
  and the handler resumes on the answer, in three steps; answers come in any
  order. `rows`, `loading`, `saving`, `drawerOpen`, `editing`, `form` are the
  page's `useState`. A form keeps two inputs: `key`, which a save requires, and
  `info`, all the others together. `notice` and the confirmations are left out:
  they decide nothing but whether a step is taken.
- The overlay of `CrudDrawerForm` stops a pointer only: nothing keeps the focus
  in the drawer or disables the page behind it, so with the keyboard rows are
  opened, deleted and loaded again while a drawer is open, also during a save
  (`RowButton`, `OpenCreate`, `Refresh`). The drawer's close buttons, Escape and
  submit wait for a save (`CanClose`, `CanSubmit`), its inputs do not (`Type`).
- `Routes` says which of a page's calls the API has an endpoint for: deleting a
  user, changing an organization, a payment account or a menu item, and every
  way `UserRolesPage` tries to save, are answered by 404 or 405.
- `effects` of `AppShell` is how often React may still run the effect of
  `CallbackPage`; `processed` is its ref. A full page load (`PageLoad`) empties
  the store and drops the calls under way.

## What each run checks

| Run | Instance | Shows |
|---|---|---|
| `UserCreate` | 2 requests, 2 keys, 2 usernames, 3 ids of which one is no Guid, all faults | type correctness, the safety of the saga, the allowed edges of a saga row, and that `AccountContract` is implemented |
| `UserCreateHealthy` | 3 requests, 2 keys, 2 usernames, only `kcRefused`, fairness | the stores pair up once nobody works; no saga stays `RUNNING`; every request ends |
| `UserCreateDangling` | 1 request, `dbRefused` | violation: a compensated create leaves its `user_ref` row |
| `UserCreateLeak` | 1 request, `badRow` | violation: a rejected row leaves the account live |
| `UserUpdate` | 2 requests of either kind, 2 keys, 2 emails, all faults that apply, fairness | Keycloak first, once per key, agreement of the stores, no stale reactivation, every request ends |
| `UserDeactivated` | 1 request, no fault | violation: a deactivated user stays enabled in Keycloak |
| `UserRoles` | 2 requests, 2 keys, 3 roles (known to Keycloak, not known, voided) | agreement of the stores, no role from nowhere |
| `UserRolesAssign` | 1 request, no fault | violation: assigning a role takes the others away |
| `AuthSession` | 3 requests, 3 tokens of 2 logins, 1 unit of skew, time up to 3 | answers are the caller's own and fresh, a valid token is never denied |
| `Backend` | the three services by turns: 2 ids, 2 codes, 3 requests (2 in `Ledger`), 2 items, 2 payment accounts | names and codes stay unique or a crossing request explains it, a refused request leaves nothing, a replacement shows what was asked for, less what is voided or switched off, one default, a voided account had no use |
| `Frontend` | each page and the shell by turns: 2 ids, 2 items, 1 seed row, 1 text, 4 calls the user begins, 2 users, 3 page loads, fairness | drawers, forms, lists and the session, the refinement of `DrawerContract`, and that everything comes to rest |
| `StaleSelection` | the same | violation: a late answer puts one role's permissions into another's drawer |

Why the bounds are enough. The requests of the user service meet through one
row of a table or one account at a time, and each hazard listed needs two of
them; two requests on one key or on two give every way two can meet, and the
faults need one request only. `UserCreateHealthy` has three so that a request
can meet a username and a key taken by different others. `AuthSession` has
three because a verify that finds a token key, the save that wrote it and a
logout are three requests. Its tokens expire at 1, 2 and 1, so a session can
outlive its token within the skew and beyond; `MaxTime` 3 passes `exp + Skew`
of two of them, and the third, which would only repeat what they show, ends
within its skew. `redisRefused` is off in that run, and `dbRefused` in
`UserRoles`: a refused read ends a request like a lost one, a refused write like
a crash just before it. `RetryAsync`'s bound
of three attempts is the code's. In `Backend` a row exists and another is
created beside it; a third request can void or rename between two others. A
payment account and a chart account meet in pairs, and two requests are every
pair of the operations. In `Frontend` a page starts with one row (the pages that
assign with two, of different items) and one id to give out; four calls are,
for instance, opening a row, opening another, saving, and loading again. One
text beside the empty one suffices since contents are only compared. Three page
loads are a sign-in, a reload of the callback, and one of the application. The
bounds are: the constants above, `MaxAttempts` (the code's), `MaxTime`,
`MaxCalls` and `MaxLoads`.

Symmetry is used only in runs without liveness properties. Deadlock is checked
in the runs of the user service and of `AuthSession`: the states in which all
requests were answered or lost have the stuttering step `AllDone`, so a request
stuck in the middle would be reported. In `Backend`, `Frontend` and
`StaleSelection` it is not: they stop when the requests, or the calls and page
loads of the bound, are used up, and a user may stop at any time. That
nothing is stuck in the middle is `ComesToRest` in `Frontend`; in `Backend`
every step of a request that is not done may also be `Fail`.

Fairness is weak, per request, on the steps of a request that has begun
(`WF_vars(Handle(r))`). The code justifies it: retries are counted, the HTTP and
database clients have timeouts, and no handler waits on another request. That a
client sends its request at all is not assumed.

In `Frontend`, fairness is weak on three actions: the API or the gateway
answers calls (`Serves`; an answer may be a failure), the page's handlers
resume on answers (`Answers`: the browser's event loop), and the shell's
callback goes on (`Progress`). No fairness is assumed of the user. Each
call is answered once and the calls are bounded, so weak fairness of the whole
serves each of them.

### What the violations say

1. `UserService.cs:88`. The catch of `CreateUserAsync` saves the aborted saga
   with the `DbContext` that still tracks the `UserRef` of the failed insert.
   If the first save failed for a passing reason, the second one inserts the
   row; the account is then deleted and the row points at nothing
   (`UserCreateDangling`).
2. If PostgreSQL rejects the row itself, the second save fails like the first,
   the exception leaves the catch, and the account is never deleted
   (`UserCreateLeak`).
3. `DeactivateUserAsync` never calls Keycloak (`UserDeactivated`), while the
   service is described as a write-through.
4. `UsersController.Assign` replaces the user's roles by the one assigned
   (`UserRolesAssign`), while the API names it "assign role".
5. `RolePermissionsPage.jsx:294`. `loadRolePermissions` sets the selection of
   whatever drawer is open when its answer comes. Edit one role, close, edit
   another, and the late answer for the first puts its permissions under the
   second one's title, to be saved there (`StaleSelection`). `UserRolesPage`
   has the same line.

## What is proved

Every theorem holds for any sets of requests, keys, ids, roles and tokens and
for any set of faults, from the assumptions named in the modules:
`FaultsAssumption`, `NullAssumption` and `NullEntryAssumption` (`Null` is no
other value), `GuidIdsAssumption`, `RolesAssumption` (subsets),
`TokensAssumption`, `TimesAssumption` (types), and `SidsAssumption` (a minted
session id is no login's). Those of the later modules follow below.

`UserCreateProofs` proves type correctness, `CommittedIsWhole`,
`CompensatedIsGone`, `OneAccountPerKey`, `CreatedStays`, `OrphanIsVisible`, the
action property `SagaLifecycle`, and the refinement `KeepsContract`. None of
these is inductive. The strengthening says what the reader of the code would:
a request past the claim owns its key's row for good, and only it writes that
row or opens accounts (`KeysOwned`); an account opened by an attempt whose
reply was lost is still live when the attempt is repeated, so Keycloak refuses
the username and no second account is opened; and an account is deleted only
after its saga was saved as `ABORTED`, by the only request that could have
committed it.

`StoresAgree` is promised only of the healthy run, so its theorem,
`StoresStayTogether`, has the conditions of that run as its hypothesis
(`OnlyRefusals`: no fault but a refusal of Keycloak, and every id parses), for
any requests, keys and ids. The strengthening `PairsInv` says that a live account
awaits the commit of the request that opened it or has its row, and that the
catch is reached only by a request without an account, so it has nothing to
compensate. Each other fault, and an id that does not parse, can split the
stores: that is what the other runs of `UserCreate` are about.

`AuthSessionProofs` proves type correctness, `AnswerIsOwnLogin`,
`DeniedIsExpired` and the action property `AnswerIsFresh`. The strengthening is
that every session id belongs to one login (a login's own, or the login of the
token of the request it was minted for), that every cached session and token
key stays with the login its id or token belongs to, and that what a request
has read and not yet used does so too, although Redis may have changed since.

`UserUpdateProofs` proves type correctness, `CommittedWasPut`,
`KeyTakesEffectOnce`, `SettledSerialAgrees` and the action property
`StaleUpdateKeepsDeactivation`. The row of a key names for good the one request
that may reach Keycloak under it, and stays `RUNNING` until that request commits;
as long as requests come one at a time, the one at work has read the row as it
is, and Keycloak holds its body when it commits.

`UserRolesProofs` proves type correctness, `OnlyGrantedRoles` and
`SettledSerialAgrees`. What a request wants was held when it read the rows or is
what it assigns; as long as requests come one at a time, each call finds what the
last one left, so the additions meet an empty set and the saved rows are the
wanted ones.

`CatalogueProofs` proves type correctness, `LiveCodesUnique` and
`RefusedLeavesNothing`. Where there is a unique index it alone keeps the codes
apart; where there is none, a request has seen its code free, so a row that has
it by then was written by a request that was under way beside it. A request has
no row before its save, and one that has saved is refused only when its row is
no longer live.

`LedgerProofs` proves type correctness, `LiveCodesUnique`, `DefaultIsSingle` and
`VoidedWasUnused`. A payment account never changes its chart account and is
never removed, so those a delete found cannot come to use what it voids; marks
change only with a counted save, so what a request tracks as marked is what is
marked as long as none was counted since its first read; the index decides when
two codes meet. A payment account created while the delete is under way can use
the voided account: `VoidedWasUnused` excludes just these. Two defaults chosen
side by side can both stay, or leave none: of those `DefaultIsSingle` says only
that no account has a mark but the rivals.

`BackendProofs` is about `MCBackend`, where one service at a time is at work, and
about the very properties the run `Backend` checks: type correctness,
`LiveCodesUnique`, `RefusedLeavesNothing`, `DefaultIsSingle` and
`VoidedWasUnused` follow from the two modules above, taken over by `INSTANCE`, and
`ShownIsAsAsked`, for any permissions voided or switched off and on, is proved
there: the joined rows change only with a save, so what
a request loaded is still there as long as no other saved in between, and its own
save then leaves what it was asked for. Replacements side by side may leave a
mixture of what they were asked for, and the theorem says nothing worse can
happen.

`FrontendProofs` is about `AppShell` and about `MCFrontend`, that is, the ten
pages in the tab. Of the shell, alone and in the tab as a whole (`FrontSession`),
it proves type correctness, `SessionIsOneUsers` and `CodeExchangedOnce`: a session
begins with a page load, which leaves no call of an earlier one, and between the
load that brings the callback and the application the tab has at most one call
under way.

Of the pages it proves every invariant the run `Frontend` checks (`AllTypesOK`,
`OneSaveAtATime`, `FormOfItsRow`, `FreshOrExplained`, `ListTracksServer`,
`ShownWasGranted`) and the refinement `KeepsDrawerContract`, for any ids, inputs
and number of calls. Every handler of every page is shown to be one of eight
kinds of step (`PageStep`: a call is served, begun or answered; the drawer is
opened, typed in, saved from or closed; a save is answered). The invariant these
keep is that the drawer's buttons are disabled exactly while one save, or the
load that it awaits, is under way, and that a drawer is open during a save. It
need not be the drawer the save was sent from: another row can be opened over
it, and the save's success closes that one. `DrawerContract` therefore keeps
the row of a save (`saved`) apart from the row of the drawer (`target`).
`FreshInv`
adds, for the pages that load again, that once no write is under way the load
sent last brings the table as it is or a banner is up; `GrantedInv`, for the
pages that assign, that what a call carries was in the table.

`ListTracksServer` is the subtle one, because a patched list is never loaded
again and answers come in any order. `PatchInv` carries it: a row of the table is
the API's, but for writes that were answered with success and whose answers are
still to be applied (`Agrees`). Such an update is what the API holds, because one
save is under way at a time, unless the row was deleted beside it; then the
delete's answer removes the row, before the update's or after it. For a create it needs
that rows, loads and calls only name ids the API has given out (`KnownInv`), so
the new row has an id of its own; and for the first load that no call has joined
it (`OneLoadInv`), or else `crossed` is set and the property is silent.
`AllTypesOK` bounds the calls a page sends, which takes a count over all calls
under way (`CountInv`): those sent, and what the handlers of those under way may
still send (one load after a write, two more ways to assign), are at most one and
three for each the user began.

The assumptions of these are `NoneAssumption` (`Entities`: `None` is no id,
code, request or record) and `LedgerAssumption` (`MCBackend`: nor a request or row
of the ledger), and in `MCFrontend` `NoRowAssumption` (`NoRow`, the code's null, is
no row and no form), `SeedsAssumption` (the rows a page starts with have numbers
for ids, the API gives out Guids), `FilledAssumption` (there is something to type)
and `MaxCallsAssumption` (the bound is a number).

Only model-checked: the liveness properties (`SagaSettles`,
`EveryRequestEnds`, `ComesToRest`), which the prover does not do, and the
violations, which are counterexamples. Every invariant and action property of a
passing run is the property of a theorem. No module declares a RECURSIVE
operator, so nothing is lost to the prover on that side.

## What is not modelled

- `CreateOrganizationAsync`, which checks nothing and inserts one row, and
  `MenuService.CreateAsync`, which writes a new item with its roles in one save;
  no other request can meet either. `MenuService`'s update and delete and the
  organization's have no route.
- `MeService` between its queries: `Replacement` says what one query shows.
- Cycles among the parents of chart accounts: the code excludes only an account
  that is its own parent, two updates make a cycle of two, and nothing in the
  repository promises otherwise.
- Search, filters, texts and the lists that fill the drawers' options: they
  choose what is displayed. GETs sent together are one call.
- Several tabs on one `localStorage`; a page left while its calls are under way
  (React ignores what they set). After a 401 the store keeps its token, so a tab
  shows the application and its calls go out without one; `SessionIsOneUsers`
  allows that.
- React StrictMode's double run is modelled for `CallbackPage` only; elsewhere
  it repeats a load.
- The default marks of `PaymentAccountsPage`: the page clears the mark of every
  other row, the API only those of the organization, and a create as default
  clears none on the page. `ListTracksServer` compares the rows without marks.
- `AuthFacade`: kept for tests of the API, no endpoint reaches it.
- `CreateRealmRoleAsync`, `DeleteRealmRoleAsync`, `SetRoleCompositesAsync`: no
  caller. `SetUserRealmRolesAsync` also deletes the realm's default role mapping
  of a user; the model has only roles of the local table.
- The cache of signing keys in `KeycloakAuthClient`: the client is transient,
  so it lives for one request. Fetching the keys is one outcome of `Validate`.
- Controllers, the error envelope, logging, the gateway's configuration:
  stateless. The decisions of `UsersController` are in the modules of the
  service it calls.
- Superseded copies of the frontend (`components/ui/CrudPage*.jsx`,
  `frontend/src/pages`, `app/layouts`, `AuthProvider`, `src/src/*.jsx`), which
  nothing in use imports; bundles, Postman exports, SQL dumps. The SQL that
  docker compose loads lacks `chart_of_account`, `permission.key` and
  `organization_type.voided`; `EnsureCreated` adds nothing to a database that
  has tables, so those services are modelled over the schema of `DbContext`.

Two more disagreements between documents and code were met and are not runs:
`README.md:60` speaks of introspection at Keycloak on a cache miss, where the
code validates the token locally (`README_FIX_401.md` says so), and
`backend-notes/README_BACKEND_RBAC.md:29-30` of `user_role` being managed
locally only, where the code maps roles in Keycloak too.

## Plan

Done: the user service (`SagaLog`, `UserCreate` with `AccountContract`,
`UserUpdate`, `UserRoles`), `AuthSession`, the services over PostgreSQL alone
(`Catalogue`, `Replacement`, `Ledger`), the frontend (the ten pages, `AppShell`,
`DrawerContract`), and the proofs listed above.

Left:

1. Composition of `UserUpdate` and `UserRoles` with `UserCreate` over one user's
   life, with the idempotency keys shared by all operations.
2. `MeService` as a reader whose queries interleave with `Replacement`.

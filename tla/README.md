# Formal model of axum-gate

TLA+ modules for axum-gate, an authentication and authorization library for
axum: what its services, gates and handlers do, TLC runs that check them on
small instances, and TLAPS proofs of the properties that matter most for every
instance. Paths below are relative to the repository; `PROJECT.json` maps every
definition to the lines that it models.

## 1. The system

axum-gate is a library: its state is in the repositories of the application, in
tokens, and in browsers' cookies. Every public operation is an `async` call on a
multi-threaded runtime, so that other calls run between two of its awaits and
its caller may drop it there. There are no sessions on the server.

| Component | State | Operations | Talks to |
|---|---|---|---|
| Account services (`accounts/account_insert.rs`, `account_delete.rs`) | none of their own | insert an account with its secret; delete both, with a compensating action | both repositories, one after the other, no transaction |
| Account and secret repositories (`repositories/{memory,sea_orm,surrealdb}`) | accounts by id; password hashes by account id | store, update, delete, query; store, update, delete, verify | a `RwLock<HashMap>`, SQL, SurrealDB |
| Login service (`authn/login.rs`) | none | authenticate: look up the account, verify the secret, encode a token | both repositories, codec |
| Route handlers (`route_handlers/`) | none | login, logout | login service; the browser's cookies |
| JWT codec (`codecs/jwt`) | the key, configured or drawn at random | encode, decode, validate (signature, expiry with leeway, issuer) | — |
| Gates (`gate/cookie`, `gate/bearer`) | a policy | one decision per request, strict or optional; static tokens | codec, authorization service |
| Authorization (`authz/`) | none | build a policy; the four ways to meet one | — |
| Permissions (`permissions/`) | a set of 64-bit ids | grant, revoke, intersect; collision check over a list of names | SHA-256 |
| OAuth2 gate (`gate/oauth2`) | two short-lived cookies per browser | login redirect, callback | browser, provider, account repository, codec |
| Permission mapping repositories | mappings id <-> name, unique in both | store, remove, query, in bulk too | the three backends |
| Group repositories | groups by id | store, delete, update, query | the three backends |
| CSV columns (`comma_separated_value.rs`) | none | a list of roles or groups to one column and back | SQL rows |
| Cookie template, hashing, credentials | none | build and remove a cookie; Argon2 | — |
| Audit and metrics (`audit.rs`) | counters of gate decisions, a global set once | install into a registry; count | gates |
| Errors (`errors/`, each module's `errors.rs`) | none | a severity, whether to retry, suggested actions | whoever calls a service |
| Example applications (`examples/`) | accounts, claims made at start or per login | routes behind layers of gates, login, logout, changing an account | all of the above |

### What is hard about it

- *Two repositories, no transaction.* An account and its secret are written by
  two awaits. A failure, a dropped future or another call between them leaves one
  without the other; the compensation of a delete is itself a write that races.
- *Check, then act.* Several operations of the backends are two accesses:
  `store_secret` and `store_group` in memory, delete and update in SeaORM,
  `with_account_repository`, the bulk operations of the mapping repositories.
- *Copies.* An application changes an account by writing back a whole copy that it
  read earlier; a gate decides from the copy of the account in a token, which
  nothing revokes.
- *Browsers.* Tabs share cookies; answers arrive in any order, late, or never; a
  callback URL can be opened twice, or elsewhere.
- *Errors that ask for a retry.* A service that failed half way leaves its half
  behind, its error says that the caller may call again, and the second call meets
  what the first one left.
- *Layers.* `Router::layer` wraps every route added before it, so that the gates in
  front of a route depend on the order of the builder's calls; claims made once with
  the router age with it.
- *Names.* Permissions are compared as 64 bits of a hash of a normalized name.
- *Deployment.* Several instances, restarts, a key that is random unless
  configured, issuers that share a key.

The hazards, each at its line and with the properties that cover it, are in
`PROJECT.json` under "hazards".

### What makes each component correct

- Account services: an account at rest has its secret and a secret its account,
  unless some call was told of a failure; a deleted account stays deleted; a
  password or role change that returned Ok is what later logins see.
- Sessions: an outdated state of an account is served for a bounded time only;
  a logout lasts until the next login; configured keys keep sessions alive across
  instances and restarts.
- Authorization: a policy admits exactly those that its requirements mean.
- OAuth2: a session is for the browser that began the login and for the user who
  signed in in it, once; tabs neither break nor confuse each other's logins beyond
  what sharing two cookies makes unavoidable.
- Mapping repositories: ids and names stay in one-to-one
  correspondence, and results tell which call made a change.
- Group repositories: each call answers as if it had run alone; what was deleted
  stays gone, what was acknowledged is read.
- Errors: whoever does what an error advises ends, damages nothing more by repeating,
  and learns of the damage done.
- Example applications: every route is open to those the example says it is for; the
  counters tell what the gates did.

## 2. Modules

| Module | What it is |
|---|---|
| `AccountServices` | Insert, delete, role change, password change and login as interleaved calls over both repositories, for the three backends |
| `AccessPolicy` | Policies, hierarchy and authorization service, as operators; used by the next two |
| `Authorization` | Names, hashed ids, collision check, building a policy and changing an account |
| `Sessions` | Login and logout handlers, codec, gates, browsers, clock, restarts |
| `LoginHandshake` | What an OAuth2 login promises: the abstract specification |
| `OAuth2Flow` | Login and callback handlers, browsers, provider, repository; implements `LoginHandshake` |
| `PermissionRegistry` | Store, removal and query of permission mappings, single and in bulk, statement by statement, for the three backends |
| `ErrorAdvice` | The errors and what `UserFriendlyError` says of each, as operators |
| `ServiceClients` | Clients that call the account services and the login, fail half way, and retry when told so |
| `GroupContract` | What the trait `GroupRepository` promises: the abstract specification |
| `GroupStore` | The group repositories of the three backends, statement by statement; implements `GroupContract` |
| `ExampleApps` | The example applications' accounts, routes, layers and claims, and what they say of their routes |
| `GatedApps` | Those applications at work: browser, requests through the layers, clock, restarts, counters |
| `MC*` | Values of the constants for TLC, symmetry, one constraint |
| `*_proofs` | Theorems and proofs about the module of that name |

### AccountServices

`accounts` and `secrets` are the two stores, functions from keys to an entry or
none. A call `c` is a row of `pc`, `op`, `acc`, `sec`, `pw`, `who`, `res`; `pc[c]`
is the await that it is about to make, and one action is the access behind that
await together with everything up to the next. `Cancel` drops the future of
any call that waits. What the backends differ in is four operators:
`SelectsFirst` (SeaORM selects, then writes by primary key, in two statements),
`Upserts` (the in-memory update inserts what is missing), `LooksFirst` (the
in-memory `store_secret` checks under the read lock and inserts under the write
lock) and `CanFail`. `Row` is what an SQL row keeps of an account, `Loads` whether
it can be read back. An in-memory account repository made by `From<Vec<Account>>`
is keyed by user id, everything else by account id (`InitialKey`). `before[c]`
remembers which calls had returned when `c` started: "a login that starts after the
delete returned Ok" is said with it.

Assumed: `Account::new` draws a fresh UUID (the id of the call that made the
account). A hash verifies its own password only. A statement of a database is
atomic, and a failing one has not taken effect.

### Sessions

`account` is the repository, `key` the key of each instance, `jar` each browser's
cookie. A call is a record whose fields depend on where it stands: a login that has
made its claims (`query`), one that has read the account (`verify`), an answer with
a cookie, a logout, or a request. A request keeps what it carries for as long as it
likes, so that it also stands for a client that kept a copy of a token. `Serve`,
`ServeOptional`, `ServeUnknown`, `ServeStatic` and `Refuse` are the outcomes of
the three services' `call()`; a gate keeps no state, so that its decision *is* the
action taken. `Restart` takes the configured key again or draws a new one.

The claims come first: the application passes `RegisteredClaims`, with their
expiry, to `route_handlers::login`, before the account is read. `BoundedStaleness`
depends on this order; the mutant `ClaimsAtEnd` makes the claims afterwards and
breaks it. (The OAuth2 gate does compute the expiry afterwards, see section 7.)

Assumed: the claims' expiry is the time of the request plus one `Lifetime`; no
signature is made without the key; the clocks of the instances agree.

### Authorization

`hash` is any function from normalized names to ids, so that collisions are
possible. `policy` and `account` are what the code stores; `asked` and `held` are
what the calls meant. `ExactIfValidated` relates the two. `RequireScope`,
`RequireGroup`, `RequirePermissions` are both `require_...` (from `StartOver`, the
denying policy) and `or_require_...`; `Login` is `require_login()`.

### OAuth2Flow and LoginHandshake

A login is identified with the random state it drew. A callback goes through
`exchange`, `map`, `query`, `store`, `respond`, its awaits; the cookies it came with
are read on arrival and never again, while the cookies it sets or removes are
applied when its answer is delivered. The order of the checks before the first
await is `Verdict`. Cookie names are values of `setup.names`, computed by
operators for the builder's methods, because three cookies may end up with one
name. The provider (external) exchanges a code once and, if it checks PKCE, for
the verifier of its own login only; its answer may be lost after it has.

`OAuth2Flow` implements `LoginHandshake` with the mapping `granted <- Granted`:
the sessions issued, each with the login whose state it carried, the browser
the callback came from and the user its account names. A grant of the abstract
specification needs the browser that *started* the login, the user who signed in
*in it*, and no earlier grant for it.

### PermissionRegistry

`table` is the registry, a set of rows; a row names the call that inserted it,
which stands for its primary key. A call goes from access to access (`pc`); `list`
and `target` are its arguments, `sel` the rows that a first statement selected,
`told` its answer. The single and the bulk operations differ only in the accesses
that they make: `Store` / `Put` / `Fetch`, `StoreAll` / `InsertAll`, `Remove` /
`Drop`, `Query` (listing is a query for every id). `isolated` says whether a
transaction of the database is serializable: the code begins one with the
database's default level, so that both are possible. An error comes before the
statement has worked (`Abandon`, which is a dropped future as well) or after
(`Return`: the answer is lost); a database that reports a conflict as an error
instead of doing nothing is the first. `Hash` may collide, and a list may hold a
mapping whose parts do not fit, as a deserialized one may.

### ErrorAdvice and ServiceClients

`ErrorAdvice` gives each error of the crate (`Errors`) its severity, `retryable`, and
the suggested actions as a set of hints; one operator per category, since each enum
has an implementation of `UserFriendlyError` of its own, and `AdviceOn` dispatches as
`errors/mod.rs` does. `Filed` is the `From` of foreign errors.

`ServiceClients` lets clients follow it. `phase[c]` is the service that client `c`
calls (sign-up, login, sign-off), `pc[c]` the access it is about to make, `id[c]` the
account it knows, `err[c]` the last error; `Heed` calls the same service again when
`is_retryable()` says so and stops otherwise. `faults` counts what goes wrong: a
statement that fails, one whose answer is lost (`AnswerLost`), hashing, a caller that
hangs up (`HangUp`). What needs no fault is a sign-up with roles that do not parse in a
row, as those of an empty list do not: SeaORM inserts the row and then fails to read
it back, each time (`ConversionFails`); `readable` are the clients whose roles do, and
`Unread` the rows left by the others. `unique` says whether the database has an index
on user ids, which the crate's documentation leaves to the application. An account is changed by
its own client only, and a call of a repository is one step; the races are the
subject of `AccountServices`.

### GroupStore and GroupContract

`table` is a set of rows, `pc[c]` the access that call `c` makes next, `sel[c]` the
rows a first statement selected. `Row.by`, the call that inserted a row, stands with
the group's id for its primary key: a row that was deleted and stored again is
another one for a `DELETE` by key. `mysql` differs from `seaorm` in that the words by
which `store_group` recognises a unique violation do not occur in its message.
`Unserializable` payloads are those `serde_json` fails on: SeaORM stores an empty
text for them, which it cannot read back (`Readable`). A call may fail or be dropped
before any access (`Abandon`), and a database's answer may be lost (`Return`).

`GroupContract` is a linearizable repository: one step for each call, all or nothing
on an error. `GroupStore` implements it with `groups <- GroupsOf(table)`, except for
the operations in `Lenient`, which act on what they saw in an earlier access
(`noted`): the in-memory store and SeaORM's delete. So the exceptions are stated, and
bounded: a store may replace a group only by what it was asked to store, a delete may
answer only what it had selected.

### ExampleApps and GatedApps

`ExampleApps` is the set-up of six examples: `AccountsOf`, `RoutesOf` with the layers
of each route outermost first, as `Router::layer` stacks them, and what its handler
takes from the request's extensions; `ClaimsAtStart` says whose `RegisteredClaims` are
made once with the router. `Says` is what comments and README files of the examples
say of a route, `Departs` where the code does not do what they say; a route is open
(`OpenTo`) to whom it is said to be without departing. `GatedApps` runs them: `req[t]` is the request of tab `t` on its way
through the layers (`MeetOptional`, `MeetStrict`, `Handle`), with the policies of
`AccessPolicy`; `Verdict` orders the checks of a gate as its `call()` does.
`installed` and `count` are the global `METRICS` and its counters; `handled` and
`refusals` say what really happened. A token remembers its login and the start of the
router that it was made by, a request when it was sent: `ServedExactly` says with them
that an account is known to a handler exactly while its session lasts (`Ends`), and
that departures are what the code does, not what it may do. `Restart` builds the router again and keeps the
key, which the examples configure.

Assumed: the browser keeps its cookie (it lives longer than the token); the leeway
belongs to `Life`; a password is right. `ChangeAccount`, the query and the update of
`POST /account`, is one step, since its race is the subject of `AccountServices`.

## 3. Runs

`tlc -workers 2 -config X.cfg M`, with X and M as listed in `PROJECT.json`.

| Run | Instance | Shows |
|---|---|---|
| `accounts_existing` | 3 calls, 1 existing account, 2 passwords, 3 sets of roles (one unparsable, one with a permission), 3 backends | Which failures separate account and secret; no login after a delete; password and role changes last |
| `accounts_inserted` | 3 calls on empty stores, inserts included | Which writes leave an orphan secret; an inserted account can log in |
| `oauth_flow` | 2 logins, 2 callbacks, 2 browsers, 2 users; with and without a repository, PKCE checked or not, a gate without sessions | The handlers implement the handshake; verifier, tabs, replays, session cookie |
| `authorization` | 3 spellings of 2 names, a hash with and one without a collision, 2 roles, 1 group, 2 listed names, 2 requirements | With a validated list of all names in use a gate admits exactly those meant |
| `sessions` | 1 user, 1 browser, 2 calls, 2 instances, 3 keys, 5 gates, 3 deployments, times 0 to 3 | How long an old state is served; logout lasts; configured keys work everywhere |
| `registry` | 3 calls, 2 names of one id and one of another, 4 lists (one with an invalid mapping, one with a collision), a removal or query by name or of all ids, 3 backends, SQL at two isolation levels | Ids and names stay one to one; answers of stores, removals and queries agree |
| `clients` | 2 clients with one user id, each with roles that can be read back or not, 2 faults, 5 ids, 2 rows that cannot be read, 3 backends with and without a unique index | What retries leave behind, who may give up, that nobody who heeds the advice calls for ever, but for who signs up with roles that SeaORM cannot read back |
| `groups` | 3 calls about one group (a second is stored only), 3 payloads of which one does not serialize, empty or seeded, 4 backends | Each call answers as if alone; deletes and acknowledged writes last |
| `apps` | 6 applications, a session of 2 in times 0 to 3, one change of an account, 2 answers counted, 2 tabs where requests meet in the counters | Through all layers, every route knows exactly the accounts it is open to while their sessions last; where that is not what the examples say; the counters add up |
| `delete_err`, `sql_delete_race`, `oauth_documented` | the smallest that shows it | one disagreement each between code and documentation, section 7 |

Why the bounds suffice: the properties relate two calls and what a third does in
between or afterwards (a change or delete, a racing one, a login), so three calls of
one account contain every such interleaving; calls on different accounts touch
disjoint entries, except through one user id, which `InsertedCanLogin` mentions.
Two logins and two callbacks contain the replay, the swap and the overwrite between
tabs or browsers; a third tab repeats one of the roles. For `registry`, the
properties relate a store, a removal and a query, and the three calls range over all
of them. For `sessions`, `Lifetime = Leeway = 1`, so that a change at time 0 is settled first at time 3 =
`MaxNow`. Its `OverlapEarly` is a constraint on the state space: two calls are
under way at once at the times 0 and 1 only. Calls meet only in the browser's cookie,
where time plays no part, so that the interleavings at later times would repeat
those. The proofs hold for all values and without the constraint.
For `clients`, two faults are a failure and the failure of its repetition, and five
ids let both clients sign up again after each; two clients meet in the user id only.
A client whose roles cannot be read back stores row after row, so that these are
bounded by themselves (`MaxUnread`); the second is the first repetition, and the others
have ids enough besides.
For `groups`, each property relates a write, a read and one call that comes between.
For `apps`, a route has at most two layers; the bound of the clock passes one expiry
counted from the start, one from a login, and one restart in between; two answers
suffice for a counter and its history to part. The two tabs of the prometheus example
are symmetric. The passing runs have between 80 000 and 2 100 000 distinct states.

`CHECK_DEADLOCK FALSE` everywhere: every call runs once, or the clock is bounded, so
that a behaviour really ends. Symmetry is over sets of model values that nothing
orders (calls, keys, logins, callbacks, browsers, users, tabs); no run with symmetry
checks liveness.

Fairness is assumed in `ServiceClients` only, where liveness is checked: weak
fairness of `Access` and of `Heed` for each client. The runtime polls every task that
can go on and a database answers or fails, so that an access that a call is at is
eventually made; and the clients in question are those that do repeat a call when
they may. Whether and when a client goes on to its next service, hangs up or meets a
fault is left open. `NobodyLoops` excepts clients that a row with their user id
stands in the way of (`Blocked`), and those who sign up with roles that SeaORM cannot
read back (`Unreadable`): section 7 says why. The number of faults is
bounded, as it must be: with a database that always fails a retry never ends.

## 4. Mutants

Every property of a passing run has a mutant: a definition changed as a plausible
mistake in that code would change it, under which TLC finds the property violated.
They stand before the definition that they replace, as `Mutant of ...`: the
compensation is skipped, the cookie is kept, the verifier is not overwritten, the
collision check compares strings, and so on. No other definition uses them.

## 5. Properties and proofs

All theorems are for arbitrary constants under the named assumptions
(`ConstantsAssumption`, `SetupAssumption`, `HierarchyAssumption`,
`NamesAssumption`, `SessionsAssumption`, `RegistryAssumption`, `GroupAssumption`,
`ClientsAssumption`, `AppsAssumption`). They are checked with
`tlapm <Module>_proofs.tla`. Two theorems of `OAuth2Flow` have one more hypothesis,
`DistinctNames`: the state, PKCE and session cookie have three names. The builder
does not see to it, but the default names and those of `with_cookie_names` differ;
`oauth_documented` shows what happens when they do not.

| Property | Checked by | Proved as |
|---|---|---|
| `AccountServices!TypeOK` | `accounts_existing` | `TypeCorrect` |
| `NoLoginAfterDelete` | `accounts_existing` | `DeletionIsFinal` |
| `PairedUnlessReported`, `AtomicDeletionRemovesSecret`, `PasswordChangeSticks`, `RoleChangeSticks` | `accounts_existing` | `AccountsArePaired`, `DeletionTakesSecret`, `PasswordChangesStick`, `RoleChangesStick` |
| `NoOrphanSecret`, `InsertedCanLogin` | `accounts_inserted` | `SecretsAreOwned`, `InsertedLogsIn` |
| `OAuth2Flow!TypeOK`, `VerifierMatchesCode`, `AnsweredLoginIsOver`, `HandshakeSpec` | `oauth_flow` | `TypeCorrect`, `VerifierCorrect`, `AnsweredIsOver`, `Implements` |
| `UndisturbedLoginPasses`, `SessionSurvives` | `oauth_flow` | `UndisturbedPasses`, `NobodyIsLoggedOut` (with `DistinctNames`) |
| `StableAccountIfUnique` | `oauth_flow` | `OneAccountForAUser` |
| `Authorization!TypeOK`, `ExactIfValidated` | `authorization` | `TypeCorrect`, `ValidatedIsExact` |
| — | — | `EarlyDenialIsSound`, `LoginIsAnyRole` (lemmas about policies) |
| `Sessions!TypeOK`, `LogoutSticks`, `BoundedStaleness`, `SessionsContinue` | `sessions` | `TypeCorrect`, `LogoutCorrect`, `StalenessIsBounded`, `SessionsSurvive` |
| `PermissionRegistry!TypeOK`, `OneToOne`, `RemovedIsGone` | `registry` | `TypeCorrect`, `RegistryIsOneToOne`, `RemovalIsFinal` |
| `LockedIsBalanced`, `RemovedOnce`, `StoredIsFound` | `registry` | `AnswersBalance`, `RemovalsAreDistinct`, `WhatIsStoredIsFound` |
| `GroupStore!TypeOK`, `DeletedStaysGone`, `AckedWriteSticks`, `KeepsContract` | `groups` | `TypeCorrect`, `DeletionIsFinal`, `WritesStick`, `Implements` |
| `ServiceClients!TypeOK`, `DamageCostsFaults`, `DamageIsReported`, `GivesUpOnlyWhenStuck` | `clients` | `TypeCorrect`, `RetriesPileUpNothing`, `DamageIsTold`, `RefusalsAreFinal` |
| `AdviceIsCoherent` | `clients` | `AdviceHolds` |
| `NobodyLoops` | `clients` | model-checked only (liveness) |
| `GatedApps!TypeOK`, `ServedExactly`, `CountsAddUp` | `apps` | `TypeCorrect`, `RoutesServeExactly`, `CountersTell` |

The arguments:

- **AccountServices.** `IInv == TypeOK /\ Control /\ Keyed /\ Fresh /\ Gone /\
  Returned /\ LoginsLive`. `NoLoginAfterDelete` is about finished logins and says
  nothing of one that is half way, so `LoginsLive` states it for every login that
  has read its account. That needs `Gone` (a deleted account is stored under no
  key), which a later store could undo: an insert writes a fresh id (`Fresh`), an
  SQL or SurrealDB update needs the entry, and an in-memory update that creates
  one is the exception that the property names. `Keyed` says that an entry under
  a user id has no twin under its own id, without which a delete could leave one.
  `SInv` adds where the secret of an account is meanwhile. `Paired`: an account
  without its secret has a call that has the secret in its hand, or one that reported
  the failure; `Holds`, `Alone` and `Selected`: what is in a hand is not in the store
  too, two calls are near one secret only if both are SeaORM deletes, and such a delete
  removes the row that it selected or none; `Spent`: after an atomic delete nobody is
  about to store the secret again. Each step is put into one of the kinds
  of `Course` (a call begins, rests, advances, takes the secret out, stores it, ...), and
  each conjunct is shown for each kind. `NoOrphanSecret` comes from `Orphan` and holds in the middle of
  calls too. `PInv` adds what an answer promises: after a password or role change
  returned Ok, every stored copy, every secret, and every copy that a login which
  started later holds, has that value or the value of a call that had not returned when
  the change began (`KeptPassword`, `KeptRoles`). An insert is among these: if it
  stands before `put_secret` while a password change and a delete go by, it stores its
  own old password afterwards, a case that the proof brought up and the run, which has
  three calls, is too small to show.
- **OAuth2Flow.** `FInv` follows a login from cookie to session: the state cookie
  of a browser is of a login that it started and its verifier of the same one
  (`CookiesOwn`, the heart of it: it holds under any names because the two are set
  together, and a cookie that has been overwritten compares unequal); hence a callback that passed the checks is
  of its browser, of an approved login, with its verifier (`PassedOwn`); the
  provider redeems once, so that one callback holds a login's token (`OneHolder`);
  the mapper reads the user from it (`RightUser`). `Implements` maps `Issue` steps to
  a grant and everything else to a start, an answer or a stutter. `StoredOnce` says
  that an account stands at the id of the callback that stored it, and, with a unique
  index, one for a user; `CleanCookies` that the cookies of a login nothing has touched
  are in the browser that began it, for which their names must differ.
- **Authorization.** The policy is what was asked, requirement by requirement
  (`PolicyIsAsked`); the account's ids are those of the names it holds, provided
  that the names in use do not collide (`IdsAreHeld` — with a collision a revoke
  takes the other name's id too); a valid list has no collision
  (`ValidIsDistinct`).
- **Sessions.** Every token, in a jar, an answer or a request, and every login that
  has read its account, satisfies `Runs`: it has the current state of its account,
  or it expires at most a lifetime after the last change. It is made true when a
  login reads the account, since its expiry was fixed earlier, and a change of the
  account keeps it, since no expiry is more than a lifetime ahead. `Signed` says
  the same of keys. `LogoutSticks` needs to know of a logout under way without a
  cookie that the jar is empty until a login's answer overtakes it.
- **PermissionRegistry.** `RemovedIsGone` is about queries that have returned.
  `Cleared` says of the table what it says of them: after a removal returned, a
  row that it covers was inserted by a call that had not returned when it began
  (`Later`). Between its two statements a removal has the row among those it
  selected, or the row is later (`Selected`). Every step keeps this, because a call
  that inserts is not among those that had returned (`Ordered`), and a row has a
  mapping that its call was given to store (`Owned`). `OneToOne` needs `Checked`:
  what is about to be inserted was validated. `CInv` counts. A list may hold a mapping
  twice, and calls are any number, so that what is counted are the entries of lists
  whose turn has come (`Spent`): the removals told a mapping, and one more if it is
  registered, are no more than those and a seed (`PaidFor`); in memory, where a store
  is told whether it added, they are equal (`LockedIsBalanced`). Finitely many calls
  have begun, or there would be nothing to count. For `StoredIsFound` a mapping told
  stored, or passed in a SurrealDB list (`HalfStored`), is registered unless it was
  disturbed (`Kept`); SeaORM's bulk store skips what was there when it selected, so
  that `Seen` says of the rows that came since that a call beside it stored them; of
  the entries of an id in its list the first is inserted (`FirstIsNew`).
- **GroupStore.** Both properties are about queries that have returned, so `IInv`
  says of the table what they say of the answers. `Gone`: after a delete returned Ok,
  a row of its group means that a store ran since the delete began; between the two
  statements of SeaORM's delete, `Selected` keeps that the row is still the selected
  one, or was inserted since. `Sticks`: after an acknowledged write that nothing may
  undo, the table holds what was written; the danger is a store of the memory
  repository that looked before the write and inserts after it, and `LatePut` says
  of one that began after the write had returned that it found nothing, so that the
  write has been undone; one that began earlier is among the `Undoers`. Both
  need that a group has one row (the databases insert where there is none, the memory
  store replaces). `Implements` has one step of the contract for each last
  access of a call, a `Look` for each first one of a lenient operation, and a stutter
  otherwise.
- **ServiceClients.** `Effect` says what any step of a client may do to the rest: other
  clients are left alone (`Aside`), only the secret of its own account is touched
  (`OwnSecret`), and if its account, or the one it adds, is not in order afterwards,
  a fault was spent or its row cannot be read back, and the account is reported or its
  caller hung up (`Harm`). Each
  action has a lemma that it has this effect; since an account has one owner and one
  id (`OneOwner`, `Drawn`), a step damages at most one account (`NewDamage`), so that
  the number of damaged ones in rows that can be read grows by one at most, and only
  with `faults`. `RetriesPileUpNothing` counts no others, since of the rows that cannot
  be read retries do pile up one per call; `DamageIsTold` is about both. `Told`
  follows an error from where it is raised to the client that stops.
  `AdviceIsCoherent` speaks of all errors, which is a lemma for each category, and of
  those that clients hold: `MayRetry` says that these, if a database's, may be retried.
- **GatedApps.** First the tables: for each example, whom the layers of each route let
  through (`ConsumerPasses`, ...), from which every route lets through whom it is open to
  and nobody else (`Exact`), whatever accounts there are; for the consumer node and the
  prometheus example this needs that accounts have roles of the crate, as the types of
  its API say (`AppsAssumption`). Then the requests: `Progress` says of one on its way
  that every strict gate it has passed admits its account, that whoever is known by now
  had a valid token when it was sent, and that an optional gate which recognized nobody
  saw no valid token; since time only goes on, it still is none when the handler
  answers. `Genuine` is what all tokens share, that they expire when the session ends
  among it. For
  `CountsAddUp`, the prometheus example has one layer to a route (`FirstLayer`), and
  finitely many requests are under way.

Left to TLC: `NobodyLoops`, since liveness and `ENABLED` are out of the provers'
reach. What a fold or a recursive function computes for every input would need
induction theorems whose parameter is an operator, which they cannot instantiate; the
one induction that the proofs need, a least element of a set of numbers, goes through
`NatLessThanWellFounded` and `WFMin`. The modules have no `RECURSIVE` operator.

## 6. What is abstracted or left out

- Argon2 and SHA-256: a hash is a record of its password; ids are any function of
  names. Timing (the dummy verification of unknown users) is not modelled.
- JWT: signatures are unforgeable. `nbf` is not validated by default and is left
  out; options other than the default `Validation` belong to the application.
- Cookies: names and presence; not the attributes, of which only Max-Age matters
  over time (`Expire`, `Forget`).
- OAuth2: endpoint URLs and scopes; `with_account_inserter`, whose closure belongs
  to the application.
- Errors: their wording, the texts for developers and support codes.
- Audit and metrics: spans, log lines, the latency histogram and the labels of the
  counters; installing into a second registry (section 7 has what was seen there).
- Examples `permission-registry`, `permission-validation`, `rate-limiting` and
  `surrealdb`: scripts that run the operations of `Authorization` and
  `PermissionRegistry` once and print, or one of the modelled set-ups with another
  backend or a limiter from a library.
- Lookups by account id: reads that no service makes.
- Permission names: normalized ones only; trimming and case are left to
  `Authorization`. A SurrealDB `UPSERT` that returns no record (`Ok(None)`).
- Not yet modelled: the CSV conversion (only whether a column loads); see the plan.

## 7. Where code and documentation disagree

Each is a run whose property is what the documentation says; `PROJECT.json`
quotes it.

1. `delete_err`: the compensation of a delete is reached only when the account was
   already gone; an error of `delete_account` leaves an account without a secret.
2. `sql_delete_race`: two SeaORM deletes both obtain the secret; the loser restores
   the secret of a deleted account.
3. `oauth_documented`: `configure_state_cookie_template` and its sibling start from
   the recommended template and drop the configured names; the documented chain
   gives three cookies one name, and no login completes.

Observed while modelling, without a run of their own.

- *Accounts.* The in-memory `update_account` inserts a missing account
  (`accounts/account_repository.rs:65` promises `Ok(None)`; the model has it as the
  result `upserted`). The in-memory `store_secret` overwrites a secret that came
  between its check and its insert, in spite of `memory/secret.rs:127`. An SQL row has
  no column for permissions (`Row`), which `account_insert.rs:17` lets an application
  pass. With a unique index on user ids a taken one is a `Database` error that may be
  retried, so that a client that does calls for ever (`Blocked`); without one a login
  finds either row. SeaORM's `store_account` inserts an account and then reads it back
  (`sea_orm/account.rs:97`): with roles that do not parse, as none do of an empty list
  (`comma_separated_value.rs:67`), each call stores a row and answers a `Database` error
  that may be retried, so that a client that does leaves row after row, for ever and with
  nothing failing, unless an index on user ids stops the rows (`ConversionFails`; the
  exceptions `Unread` of `DamageCostsFaults` and `Unreadable` of `NobodyLoops`). Such a
  row makes a login with its user id fail, too.
- *Retries.* `user_message` invites to try again where `is_retryable` is false:
  `AccountsError::Delete`, the errors of the secret repository, not-found and
  constraint errors, `Migration` and `Backup`, hashing, `MissingAuthorizationCode`,
  and a login with `auth_state_inconsistency` (`AdviceIsCoherent` asks only that none
  of these says "never" while it may be retried). After a `delete_account` whose
  answer was lost, the repeated delete says for ever that the secret was not found.
  Two causes of `AccountsError::Delete` share one support code.
- *Groups.* An unserialisable payload is stored by SeaORM as an empty text
  (`unwrap_or_default`), and from then on every query of all groups fails. MySQL's
  message of a unique violation is not recognised, so that `store_group` answers an
  error where the trait promises `Ok(false)`. Two overlapping in-memory stores may
  both be told that they added the group. SeaORM's delete may answer a group other
  than the one it removes.
- *Mappings.* SeaORM's and SurrealDB's `store_mapping` answer `Ok(Some)` for a mapping
  that was there, where `mapping_repository.rs:104` promises `Ok(None)`; a SeaORM bulk
  store tells a mapping as stored that collides with another one in its list; below
  the serializable level two SeaORM removals may both be told one mapping, in spite
  of their transaction (`RemovedOnce` leaves them out).
- *Gates and tokens.* `require_login()` refuses a valid token whose account has no
  role at all (`LoginIsAnyRole`); `gate/cookie/mod.rs:316` states the role order the
  other way round from `authz/access_hierarchy.rs`; expired tokens pass for another
  60 seconds by default (the leeway of `jsonwebtoken`); a logout does not revoke the
  token, as `SECURITY.md` says.
- *OAuth2.* The gate computes the expiry of its token after it has awaited the
  repository, so that the bound of `BoundedStaleness` does not carry over to it as it
  stands; `with_account_repository` is idempotent (`mod.rs:393`) only with a unique
  index on user ids, which `StableAccountIfUnique` has as its condition.
- *Metrics.* `install_prometheus_metrics_with_registry` does not register in a second
  registry, though it says that it may be called again: `METRICS` is set already and
  it answers Ok. Two installs into two registries that race leave one of them with
  counters that never move, and one that fails half way leaves its first counters
  registered, so that the next install into that registry fails.
- *Examples.* The home page of the prometheus example takes
  `Option<Extension<Account>>` while its optional gate installs `Option<Account>`
  (`main.rs:157`), so that it never shows a login; its `/dashboard`, "accessible by
  authenticated users" (`main.rs:126`), asks for an admin; its first two accounts are
  made before the metrics are installed. `/debug` of `simple-usage` shows the account
  that is logged in, but stands behind no gate. In the consumer node the gate of
  `/reporter` is layered over `/secret-admin-group` as well, so that a plain member of
  the group admin is refused there, where the README says 'group "admin"'
  (`distributed/README.md:78`). `Departs` lists these four, and `ServedExactly` asserts
  them: a route that did what is said of it would violate it. The auth node and the
  examples `sea-orm`, `surrealdb` and `custom-roles` make their claims once, with the
  router: a session ends a week after the start, however late its login was, and from
  then on every login succeeds with an expired token (`Ends`). The roles
  of `custom-roles` do not deserialize in the consumer node it says to reuse. The
  cookie of `rate-limiting` is no JWT, so that its gates always answer 401.
  `oauth2-github` takes every user whose name it cannot fetch for one "github-user".

## 8. Plan

Done, in this order: `AccountServices`, `OAuth2Flow` over `LoginHandshake`,
`AccessPolicy` and `Authorization`, `Sessions`, `PermissionRegistry`; then
`ErrorAdvice` and `ServiceClients` (faults, retries, liveness), `GroupStore` over
`GroupContract`, `ExampleApps` and `GatedApps`; their runs and the proofs above.

Next, in this order:

1. `MappingRegistry` (abstract: atomic store, remove and query of a one-to-one
   mapping), which `PermissionRegistry` refines where its operations are atomic.
2. `CsvColumn`: lists to columns and back as operators, against the identity, over
   bounded lists with separators, empty names and the empty list.
3. `Sessions`: `nbf` and a configured leeway; a clock in the OAuth2 session.
4. Proofs: every safety property of a passing run is a theorem; next, the refinement
   of `PermissionRegistry`, and the safety half of `NobodyLoops`: what a client may
   still spend bounds how often it calls.

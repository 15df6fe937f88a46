# WeaveAuth in TLA+

TLA+ specifications of WeaveAuth: modules that model its parts, TLC configurations
that check them on small instances, and theorems about them that TLAPS proves for
every instance.  Source paths are relative to the repository root and drop the
`src/` that `PROJECT.json` puts in front of them; lines are those of the commit the
specifications were written from.  `PROJECT.json` has, definition by definition, the
lines each one stands for (`map`), the hazards each property is for (`hazards`), and
for every property a change to the code it would catch (`mutants`).

    tlc -workers 2 -config MCBffRefresh.cfg MCBff     # one run
    tlapm BffProofs.tla                               # one module's proofs

## 1. The system

WeaveAuth puts browser sessions in front of Ory Kratos (identities, passwords,
passkeys) and Ory Hydra (OAuth tokens).  Three services hold its own logic: **bff**,
**login** and **hooks**; **common** and **common/macros** are shared, and **launcher**
starts the three in one container.

Who calls whom:

- the browser calls bff (proxied requests, `/login`, `/callback`, `/logout`) and login
  (Kratos' pages and API behind a proxy);
- bff calls Hydra (exchange, refresh, revoke, keys); Hydra calls bff
  (`/backchannel-logout`), login (consent and logout challenges, through the browser)
  and hooks (the token hook);
- Kratos calls hooks (web hooks after registration, verification, recovery, password
  change); hooks calls Kratos, Hydra, bff (`/internal/revoke`) and the application's
  own webhooks.

Four facts about the way the code runs shape every module:

1. A handler is an async function, and a request whose client goes away has its future
   dropped at whatever await it is in (`bff/src/server/refresh_lock.rs:13-15`).  Only
   spawned tasks go on: the revocations of `end_sessions` and the sweeps.
2. Every HTTP call to Hydra or Kratos can fail, time out, or take effect and lose its
   answer; the caller cannot tell the last two apart.
3. bff's and login's state is in memory.  A restart ends every session and forgets
   every counter: there is nothing to recover, so no crash is modelled apart from that.
4. Between two awaits a handler runs without anybody else touching the data it has
   locked: that is one step of a module.

### Parts, state, operations, what can go wrong

| part | state | operations | what makes it hard | what makes it correct |
|---|---|---|---|---|
| bff session store (`bff/src/storage/in_memory.rs`, `model/session.rs`) | sessions by id; each user's ids | save with a cap, get, update, take, revoke by selector, sweep | an index kept in step by hand, a cap, an update that comes late | index and sessions agree; the cap; what is gone stays gone; the oldest go first |
| bff refresh locks (`server/refresh_lock.rs`) | session id to a shared async mutex | acquire, drop of the guard, prune | an entry is forgotten by counting its Arcs while others clone it; cancelled waiters | one holder per session; nobody waits for ever; no entry stays for ever |
| bff sessions and tokens (`server/api/proxy.rs`, `callback.rs`, `logout.rs`, `server/mod.rs`) | (the store's); the rotating refresh token of each | resolve and refresh, complete a login, end one or many sessions | requests race, logouts race with refreshes, Hydra takes a second use of a token for theft | the stored token is the one Hydra accepts; no working token is forgotten; an ended session stays ended |
| bff back-channel logout (`server/api/backchannel_logout.rs`, `hydra/logout_token.rs`) | used `jti`s | verify, record, end sessions | replays, forgeries, two clock readings, a caller that leaves in between | only Hydra ends sessions; a token works once; a forgery uses nothing up |
| bff signing keys (`hydra/jwks.rs`) | cached keys, last attempt | keys for a token | a mutex held across a fetch, a throttle, an outage, key rotation | a removed key stops verifying; fetches are spaced; outages are ridden out |
| bff login start and callback checks (`login.rs`, `callback.rs`, `login_cookie.rs`, `cookie.rs`) | the login cookie in the browser | start, check state, nonce and verifier | two tabs, a stale callback | a callback completes only the login its browser began |
| bff request filters (`proxy.rs`, `origin_check.rs`, `rate_limit.rs`, `router.rs`) | - | clean path, allowed path, trusted origin, cache headers | boundary cases | nothing outside the allowed routes is forwarded; an answer with a session is not cached |
| login throttle (`login/src/throttle.rs`, `proxy.rs`) | attempts per identifier | admit, settle, evict, sweep | attempts overlap; the entry may be another when one settles | guesses are counted and delayed; nobody is locked out; memory is bounded |
| login proxy, pages, challenges (`login/src`) | - | forward to Kratos; accept Hydra's consent and logout | one of two steps fails after the other | a challenge is accepted only for the session's user; a logout ends both sessions |
| hooks revocation (`server/api/revocation.rs`, `clients/kratos.rs`) | - (the account's) | purge credentials, end sessions in three systems | the account lives on between the calls, each call can fail, Kratos retries | nothing from before is left when it says Ok; it always answers in time |
| hooks registration, verification, token hook | - | look up, collect, forward, delete a refused identity; add claims | budgets, retries after a half-done registration | the application and Kratos agree on who is registered; a refusal fails closed |
| common (`common/src`) | the rate limiter's (a library) | client address, configuration, extractors | counting proxies from the right | one client, one bucket |
| settings (`*/src/config.rs`), translations (`login/src/i18n.rs`) | - | defaults, then the file, then variables; the checks of `load` | three services read one environment; a setting is checked in one form and used in another | they all serve only with settings that fit together |
| login pages (`login/src/pages.rs`, `render.rs`, `templates/pages`) | - | find the flow, put its nodes into forms, pick the language | forms are cut by templates and code together | no field is left out of the form that posts it; no redirect goes in circles |
| launcher | child processes | start, watch, stop | services exit in any order | it stops all and exits non-zero |

Settings and translations are here for what the rest of the system takes for granted of
them: with which of them the services serve at all.  Macros, wording and layout are listed
in `PROJECT.json` as not modelled.

## 2. The modules

```
 RefreshMutex  <-- implements --  RefreshLocks      SessionRegistry <-- implements -- SessionStore
      ^                                                   \______ SessionModel ______/
      |  (TakesTurns)                                               |          |
      +------------------------------ Bff --------------------------+   BackchannelLogout

 JwksCache     LoginThrottle     Revocation     SignIn

 Hooks = Registration + TokenHook          Deployment = Launcher + Requests + Pages
         \___ Account ___/                              |          |          |
                                                    Settings  ClientLimits  Locales
                                                        |     LoginProxy
                                                     Locales  Edge
```

`Bff` is where the parts meet: it uses the promises of two others (the turn of
`RefreshMutex`, the session set of `SessionModel`) instead of their detail, and each
promise is shown to be kept by the module that has the detail.

**SessionModel**, **SessionRegistry**, **SessionStore**.  `SessionModel` has what a
session is: `ends_at`, the selectors and `matches`, and which sessions the cap may
evict.  `SessionStore` is `InMemorySessionStorage` line by line: the `HashMap`s are the
functions `by_id` and `by_user`, the private helpers `insert`, `remove`, `unindex`,
`remove_all` are operators on the pair, and each method is one action, because each
holds the store's mutex throughout.  `save_session` is given a `created_at` of now or
one tick ago, because the callback reads the clock before it has the mutex.  What an
operation hands back to its caller (so that tokens can be revoked) is the variable
`handed`.  `SessionRegistry` is the storage trait's promise: a set of sessions, no
index; which of two equally old sessions the cap drops is left open there and decided
by the stable sort in the store.

**RefreshMutex**, **RefreshLocks**.  A task is a request.  `CloneEntry` is the critical
section of `acquire`, `Poll` the first poll of `lock_owned`, `Wake` the poll after the
semaphore passed the permit on, `DropGuard` is `RefreshGuard::drop`, `Prune` is `prune`.
`Cancel` and `DropHandle` drop a future that has no guard yet, in two steps: the queue
is left first, the Arc is dropped after, without the map's mutex.  An Arc's strong count
is the number of tasks whose `handle` is the lock, plus the map.  `RefreshMutex` says
one thing: a turn is taken when nobody else has it.

**Bff**.  A request is `idle`, `waiting` for its session's turn, `refreshing` (its call
is on the way), `answered` (Hydra acted, the answer is on the way back), `revoking`
(what it was given is of no use any more), or answered for good; it then may come
again.  Each of `Resolve`, `TakeTurn`, `RefreshReaches`, `Store`, `StoreGone`, `Refused`,
`RevokeNew` is the stretch of `resolve_bearer_token` or `refresh_session` between two
awaits.  A login names its session id and its chain of refresh tokens, numbered from 1;
`chain` is Hydra's side, and token reuse ends the chain.  Revocations under way are in
`revokes`: those of a request can be cancelled with it, those of a task cannot.  Four
history variables (`lost`, `left`, `reused`, `strays`) record what the properties speak
of.  Both faults can be switched off (`Faults`).

**BackchannelLogout**.  A delivery is verified, recorded and carried out in three
actions, since the handler awaits between them; `Leave` drops it.  The signature, the
issuer and the audience are one set, `Genuine`; the claims that `check_claims` looks at
are all there, each present, absent or wrong.

**JwksCache**.  `keys_for` up to its fetch is `AnswerFromCache` or `BeginFetch`; the
mutex is `holder`.  `HydraResponds` fixes what the answer says before it arrives, so the
keys can be out of date when they are stored.  `Cancel` drops the guard with the future.

**LoginThrottle**.  `admit` is three actions by its outcome, `settle` one per outcome;
`NeverSettled` is a client that went away.  `own`, `guesses`, `strays` and `last` are
history: whether an attempt's entry is still the one it was counted in, and what the
entry should count.  What `proxy.rs` reads off Kratos' answer is a free choice.

**Revocation**.  `revoke` is a sequence of calls, each an action with an outcome: done,
failed, or done with its answer lost.  Loops are a variable `todo`.  Meanwhile
`AddCredential`, `SignIn` and `Deactivate` are the account's own life, and `Start` after
a failure is Kratos' retry.  The two time budgets are `KratosGivesUp` and `RestTimesOut`.

**Account**, **Registration**, **TokenHook**, **Hooks**.  `Account` is Kratos' identity as
the hooks read it, and what happens to it besides them.  `Registration` is
`after_registration`: `Call` is Kratos' call of the hook, `Lookup`, `Profile`, `Recorded`,
`NotRecorded`, `Replied` the awaits of `collect_and_forward`, `OutOfBudget` the timeout
around it, `Delete` the clean-up.  A handler Kratos stopped waiting for is dropped where it
is (`KratosLeaves`), and a call it had under way lands later or never (`astray`,
`Arrives`).  `mishaps` is history: which ends nobody could hear of.  `TokenHook` is one
refresh: the identity read on every mint, the login-claims handler asked while the account
moves on, Hydra's retries after anything but a 403, and what bff makes of the answer.
`Hooks` puts both over one account.

**SignIn**.  A tab is at an address, or at a page a user acts on; the state of a login is
where the code keeps it: in the shared login cookie, in the address (`code`, `login`), in
Hydra (`grant`, `sso`, `chain`), Kratos and bff.  `StartLogin`, `StartAgain`, `Page`,
`Consent`, `Callback`, `ExchangeCode`, `Verify`, `Started`, `Logout`, `LogoutRequest`,
`end_kratos_session`, `AcceptLogout`, `LoggedOut` are the handlers, cut at their awaits;
`Authorize`, `KratosStarts` and `HydraLogout` are the redirects of the others.  `OpenLink`
opens in one tab what another was sent to, in another browser too; `EditCookie` puts a
login cookie somebody made up.  A login nobody refers to any more is used again, so
nothing has to be bounded.

**LoginProxy**, **ClientLimits**, **Edge**, **Requests**.  `ClientLimits` is the client's
address (`client_ip`) and the bucket it is counted in, against a network in which one may
be anywhere behind the trusted proxies and may write anything to the left of them.
`LoginProxy` reads a body twice, as login does and, independently, as Kratos does: which
identifier's password is checked, and what the throttle is told of the answer.  `Edge` is
bff's side: `require_trusted_origin`, `is_clean_path` on segments that are decoded 0 to 3
times, the headers passed on and handed back, the internal key.  `Requests` is the order in
which a request meets them.

**Settings**, **Locales**, **Pages**, **Launcher**, **Deployment**.  `bff_load`,
`login_load` and `hooks_load` are the three `load`s, check by check, over settings put
together as `user_settings` and `extract` do.  `Sound` is what the other modules assume of
them, written from the uses (the cookies bff sets, the ports it binds, `TimeoutAssumption`
of `Registration`).  `Locales` loads language files and finds texts; `Pages` puts a flow's
nodes into forms and renders its addresses, each with its scheme and host, under the schemes
this host and Kratos have in the settings.  What Kratos takes and sends is not read off the
templates: the methods are those `ory/kratos/kratos.yml:30-47` enables (`Methods`; codes sign
nobody in, `ory/README.md:62`), what a method's post consists of is the tests'
(`Submission`, of `form_values` in `system-tests/src/support/flows.rs:25` and
`ory/checks/browser.py:113`; who takes the visible fields of `default`, `TakesDefault`, is in
`docs/flows/login.md:86` and `registration.md:52`), and `KratosSends` adds the two steps of a
registration (`ory/README.md:66`) and where the tests' flows have scripts and traits
(`login/tests/common/mod.rs:230-238`, `pages.rs:484`, `1092-1102`).
`Launcher` is `main` and `stop`, with the services as processes, and `Deployment` adds the
requests and pages of those that serve.

What differs from the code on purpose: ids, tokens, keys and claims are model values;
time is a small number of ticks with the same comparisons; HTTP statuses and wording are
left out; and what a test could check with one call (a status, a header) is not a
property here.

## 3. The runs

| run | question | instance |
|---|---|---|
| `locks` | does the map of counted locks keep one holder per session, whatever is cancelled, and does every waiter get its turn? | 3 tasks, 2 sessions, 3 locks |
| `store` | do the two maps stay in step, and is the store the registry it promises to be? | 3 sessions, 2 users, cap 2 |
| `bff_refresh` | can requests that race, cancelled clients, lost answers and logouts make bff present a spent token, forget a live one, or leave a request unanswered? | 3 requests, 1 login, 3 tokens, 3 instants |
| `bff_logins` | and with two logins of one user, logging in over a session and a full cap? | 1 request, 2 logins, cap 1 |
| `backchannel` | can a replay, a forgery or a malformed token end a session or use a token up; does a genuine one end all it names? | 3 deliveries, 5 tokens, 3 sessions |
| `jwks` | does a removed key stop verifying, are fetches spaced, is an outage ridden out, is everybody answered? | 2 callers, 2 keys, 5 instants |
| `throttle` | are overlapping guesses counted and delayed, without a lockout, in bounded memory? | 2 submissions, 3 identifiers, room for 2 |
| `revocation` | is nothing left from before when the hook says Ok, and does it always get to the end? | 3 credentials, 3 sessions, 1 retry |
| `hooks` | do the application and Kratos agree on who registered, whatever is cut off or lost, and does a refresh follow the account and nothing else? | 1 identity, 2 addresses, 2 edits, 2 attempts, 2 profile APIs |
| `signin` | can a callback end in a session that is not its browser's, a logout leave half of it, a redirect go round in circles? | 2 tabs in 1 or 2 browsers, 2 logins |
| `deployment` | which settings are served with, does one service down take all down, and what do limits, filters, the proxy and the pages do with each request? | 144 deployments, 3 hosts behind 2 proxies, bodies of up to 2 fields, flows of every page |
| `revocation_deactivated` | see section 6 | |

Why the bounds are enough.

- *locks*: two waiters behind a holder is the least that has an order, a cancelled
  waiter in the middle and a permit passed on to one that leaves; two sessions show that
  locks are not mixed up; three lock objects let a forgotten entry be replaced while
  both others are in use.  Nothing grows, so the run is the whole behaviour of that
  many tasks.
- *store*: a user over the cap of two needs three sessions; the second user shows that
  operations on one leave the other's index alone.  Ids are used once, as UUIDs are.
- *bff*: a third request is the one that finds what the second left after the first
  lost its answer.  Three tokens are a first refresh, a second and a spent one.  Three
  instants pass the access token's end twice and the session's once.  A cap of one
  makes every second login evict.  What holds of one session holds of more: sessions
  meet only in the store, which `store` checks, and the proofs take any number.
- *backchannel*: three deliveries of one token are a first, a replay, and one more
  after the `jti` was forgotten; the clock runs past the tokens' time.
- *jwks*: five instants are what `RemovedKeyStopsVerifying` (of `CacheInv`) allows and one
  more.
- *throttle*: the free attempts, the short delay and the long one are each reached and
  passed; with room for two, a third identifier makes room.
- *revocation*: one credential of the kinds that are deleted in different ways, one of
  them added during the hook; a request's time is two ticks, so Kratos' half can run
  out anywhere and the others' share (rounded to nothing) at any call.  Pages of two
  with three sessions need a second round.

- *hooks*: a request's time is six ticks and its calls' two and three, so the work, the
  delete and the answer can each run out; the second attempt is Kratos' retry.  Two edits
  deactivate and reactivate, or change an address and verify it.  `need` is a required
  profile API, `nice` one that may fail; `aud` is a reserved claim.
- *signin*: the second tab is the one with a stale callback, the second browser somebody
  else's.  `hops` counts the redirects a browser follows by itself; ten are more than any
  finite chain of theirs, and a circle goes past them.
- *deployment*: a prod and a dev deployment that work, each with every deviation of
  `MCDeployment` (or two that meet).  Requests are followed in the working prod one
  (`MCWatched`); a service goes down between two requests, requests come while the launcher
  looks at the first service, pages are asked for with no limits spent: these do not meet in
  the code.  Pages are rendered in every deployment that serves, so with this host and Kratos
  each on http and on https; addresses are of this host, Kratos' and a third, with `https`,
  `http` or no scheme, and as a path, an image in itself or a script.  Two fields are what a
  repeated or contradicted key needs; three layers of encoding are one more than bff undoes.

`CHECK_DEADLOCK FALSE` is in every configuration but `MCRefreshLocks.cfg`: the clock, the
ids and the retries are bounded, so the system does come to a stop there.  The lock map
never does.

## 4. Fairness

- `RefreshLocks`: the executor polls a task that was woken; a holder is done when Hydra
  answers or its 10 second timeout (`hydra/mod.rs`) ends the call; an Arc of a dropped
  future is dropped; the sweep calls `prune` again and again (`server/mod.rs`).  Weak
  fairness of each is enough, since the semaphore's queue is first come, first served.
- `Bff`: weak fairness of a request's own steps and of revocations, for the same
  timeout; strong fairness of `TakeTurn`, which stands for that queue and is
  `WaiterGetsItsTurn` of `RefreshLocks`.  No client has to come or stay, no time has
  to pass, Hydra need not answer well.
- `PromptSpec` (see section 6) adds that the clock does not move while a request
  could take its turn, so that the counterexample is not one of a handler that was
  asleep for no reason.
- `BackchannelLogout`: a handler that is not dropped goes on.  Nothing has to be
  delivered.
- `JwksCache`: a fetch ends, by the HTTP client's timeout at the latest (weak fairness of
  its failure), and the tokio mutex is first come, first served (strong fairness of the
  step that takes it).
- `Deployment`: the launcher's loop goes on (`WF(Launching)`): it sleeps and polls, and
  `kill` and `wait` return.  No service has to start, serve or end.
- `LoginThrottle`, `Revocation`, `Hooks` and `SignIn` are checked for safety only.  That the hook answers in
  time is `RestIsAlwaysTried`, a safety property of its clock.

## 5. The proofs

Every invariant, action property and refinement that a passing run checks is also a
theorem.  The proofs are in modules of their own: `SharedStateProofs` (the lock map and the
session store), `BffProofs`, `BackchannelProofs`, `JwksProofs`, `ThrottleProofs`,
`HooksProofs` (registration, the token hook and the revocation), `SignInProofs` and
`DeploymentProofs` (launcher, settings, requests and pages).

| theorem | what it says |
|---|---|
| `LockInvariance`, `MutualExclusionHolds` | the lock map's invariant; one holder per session |
| `ImplementsMutexHolds` | `RefreshLocks` implements `RefreshMutex` |
| `StoreInvariance` | the two maps of the session store are in step and no user has more sessions than the cap |
| `ImplementsRegistryHolds` | `SessionStore` implements `SessionRegistry`: what is gone stays gone, the cap takes only the oldest, and each caller is handed just what was removed |
| `TokenInvariance`, `SpentOnlyAfterLossHolds`, `StoredTokenIsCurrentHolds` | bff presents a spent token only after an answer was lost; what it stores is what Hydra accepts |
| `LiveTokensAccountedForHolds` | every working refresh token is stored, in a handler's hands, being revoked, or knowingly given up |
| `EndedStaysEndedHolds`, `ServedFromTheStoreHolds` | no step brings an ended session back; who waited is served only with a session that is there |
| `TakesTurnsHolds` | bff's requests take turns as `RefreshMutex` says |
| `ReplayInvariance`, `AcceptedOnceHolds` | only Hydra's tokens end sessions and only what they name, a forgery uses none up; a token is accepted once in its time |
| `CacheInvariance`, `FetchesAreSpacedHolds`, `OutageToleratedHolds` | a removed key is handed out for a bounded time, a published one never called unknown; fetches are spaced; a short outage fails only who names a key the cache lacks |
| `CountInvariance`, `GuessesAreDelayedHolds`, `RoomIsMadeFairlyHolds` | guesses and attempts under way stay counted, nobody is locked out; each guess waits out the delay of those before; the map stays bounded and pushes out who is delayed last |
| `PurgeInvariance`, `RestIsAlwaysTriedHolds` | Ok means that nothing from before is left, nor a credential of an ended session; the other calls are made and the hook answers in time |
| `RegistrationInvariance`, `NeverTellsOfTheGoneHolds` | Kratos and the application agree on who is registered, but for what no one could hear of; the application is not told of an identity the hook has deleted |
| `TokensFollowTheAccountHolds`, `OutagesKeepTheSessionHolds` | a refreshed token says what was so of the account at some moment since the refresh began; a session is ended by a refusal only, not by an outage |
| `NoneOutlivesTheLauncherHolds`, `ServingIsSoundHolds` | the launcher leaves no service behind; the three serve only with settings that fit together |
| `KeyedOnWhoSentHolds` | each client's attempts come out of its own bucket, whatever it writes into forwarded headers |
| `EdgeInvHolds` | bff acts for trusted pages only, forwards nothing outside its routes, leaves shared caches no answer the upstream did not release, and does internal work for the key's holder only |
| `ProxyInvHolds` | the identifier Kratos checks a password for is the one the throttle counts, and what the throttle is told is what came of it |
| `PagesInvHolds` | pages are in the visitor's words; one form posts all that a method takes; posts and scripts are this host's or Kratos', and a page on https links to no address in the clear, Kratos' own included |
| `SessionOfItsOwnLoginHolds` | a browser's session comes of a login it began and its user signed in to, whatever its tabs are sent through |
| `RedirectsEndHolds`, `LogoutEndsBothSessionsHolds` | redirects end on a page; Hydra's session ends only after Kratos' has, or where Kratos failed |

They hold for any sets of tasks, requests, tabs, browsers, logins, users, locks, tokens, keys,
identifiers, credentials, deployments, hosts, bodies, flows and headers, any lifetimes and any
of the faults.  Assumed of the constants:

- that the values standing for "none" are not members of the sets, and that times and bounds
  are natural numbers, at least one where the code has a length of time, a page or a cap;
- `ClaimsAssumption`: Hydra gives each logout token a `jti` of its own, and `iat` is a
  number (`check_claims` parses it);
- `JwksAssumption`: the two lengths of time of `jwks.rs` are positive; how they and the timeout
  compare does not matter;
- `ThrottleAssumption`: the delays grow and `FORGET_AFTER` is longer than both, as the
  constants of `throttle.rs` are; finitely many submissions;
- `RevocationAssumption`: the kinds of credentials are those the hook knows, an account's
  sessions are finitely many, the request's timeout is not zero;
- `EmailsAssumption`: there are addresses, and "no address" is none of them;
- `TimeoutAssumption`: a request's time has room for two calls, which is what `load` of hooks
  requires (`Sound` of `Settings`, proved of those that serve); `BoundAssumption`: the
  attempts Kratos makes have a bound; `ApisAssumption`: no profile API has the name of one of
  the two marks that stand beside the APIs' names;
- `TtlAssumption`: a refresh token lives for some time, and the clock has an end;
- `LimitsAssumption`: a bucket has room for a request, the trusted proxies are proxies, and a
  client is at no proxy's address;
- `RequestsAssumption`: a body is a list of fields, a segment has a number of layers of
  encoding, and a forged header is a list of entries, of any length;
- `PagesAssumption`: flows are such as Kratos sends (a CSRF token, inputs of the enabled methods
  and of `default`, registrations in two steps, as section 2 tells), and the headers read for
  the language are lists of tags with weights;
- `DeploymentsAssumption`: what is in a setting has the setting's type (serde refuses the
  rest): a cookie name is text, a network has a prefix length.

*The lock map.*  Mutual exclusion is not inductive: that two requests never hold locks
for one session follows from their holding the map's lock.  `HandlesAreTheMaps` says so
for everyone with an Arc, also while it only waits, because that is who a forgetful
`Drop` or `prune` would cut off; `LocksApart` is needed when an entry is made;
`PermitNotLost` and `QueueIsWaiters` when a permit is passed on to the head of the queue.
`LockInv` is their conjunction.  The proof takes the map part first (`MapInvStep`), which
does not need the rest, then the permits (`PermitStep`).  The refinement
(`StepSimulation`) uses both to see that a `Poll` or a permit's passing on is a turn
nobody else has.

*The session store.*  What `StoreInv` says is inductive once it is known that the sessions
are finitely many and that every id in use was issued, so that a login's is new (`StoreKept`).  The
helpers `insert`, `remove` and `unindex` each keep the maps in step when called on maps that
are (`InsertKeepsInStep`, `RemoveKeepsInStep`).  `remove_all` folds `remove` over a set: that
this fold can be unfolded at all is `RemoveAllExists`, and what it leaves is
`RemoveAllKeepsInStep`, both by induction on the size of the set.  Before a save a user is
within the cap, so after it one session at most is over: `OneOldest` says that the stable sort
then gives the first pushed of the oldest, `NoneOldest` that it gives none otherwise.  With
this a step of the store is the registry's step of the same name (`StepIsTheRegistrys`).

*The tokens.*  `SpentOnlyAfterLoss` rests on what a request holds in its hands:
`HeldTokenIsCurrent` (its token, or the answer it was given, is the chain's, unless an
answer of that chain was lost), which in turn needs `OneTurn` (no other request of the
session can rotate it), `StoredTokenIsCurrent` (what it read was right),
`RequestsHaveSessions` and `LoginsStartClean` (a chain nobody has a session for is
untouched).  A step that hands out no token and gives nobody a turn preserves all of it
for one reason (`QuietStep`); the others (`TurnStep`, `ReachStep`, `StoreStep`, `GoneStep`,
`StrayStep`, `ExchangeStep`, `SaveStep`) each have their own lemma, and `OtherChainsStep`
covers the chains a step is not about.  `LiveTokensAccountedFor` is inductive relative
to it (`LiveStep`).

*The logout tokens.*  That a session's end goes back to a token of Hydra's needs
`UnderWayIsChecked` (a handler that records or ends anything checked its token) and
`RecordedIsAccepted`.  That a token is accepted once in its time is no invariant of the jti
store alone: `AcceptedIsRemembered` says that an accepted token's `jti` is there until
`replay_until` of its claims, or that this is past, and `insert_if_absent` and the sweep are
the steps that could break it.  `ReplayInv` has all of them.

*The signing keys.*  How long a removed key is handed out is the sum of three ages, and each
has its conjunct: an answer under way has nothing removed before its fetch began
(`BodyIsRecent`), the cache nothing removed a fetch's timeout before it was stored, and old
keys stand in only if they were young enough when the fetch began (`CachedIsRecent`);
`FetchIsNoted` ties the fetch to its time.  `OutageTolerated` needs that a caller who fetches
looked into the cache before and missed (`FetchersKnow`).

*The throttle.*  `GuessesAreCounted` is inductive only with `UntrackedCountsNothing` (what an
eviction or a sweep forgets takes its guesses and its attempts with it) and bounds on finite
sets of attempts (`OneMoreUnderWay`, `OneLessUnderWay`).  `NeverLockedOut` and the delay of
each guess need `LastIsNoted`.  `RoomIsMadeFairly` needs that the map is finite and within its
bound (`Bounded`) and that a full map has a batch to push out (`BatchIsSome`).

*The revocation.*  `Doomed` is what the purge under way is to remove: the first time all that
was there when the hook began, the second all that an ended session added.  `PurgeGetsOn`
says for each step which part of it is gone and which is still on the list `todo`;
`SessionsAreEnded` says that from the second purge on only sessions of after can add
credentials, so that a credential added behind a step's back is none of `Doomed`.
A failure is noted for good (`NothingReturns`), and the hook then does not answer Ok.
`RestIsAlwaysTried` follows from `BudgetsKept`, which bounds the clock by the half that
Kratos' part may use and by the share of the rest.

*The registration.*  `RegistrationInv` is inductive as it stands, but each of its parts needs
the others: that the application hears of all or nothing (`CompleteIsTold`) needs the profile
to have been collected, that an identity is gone only after its hook failed
(`DeletedByFailure`) needs to know which calls may still land, and `MishapsAreNoted` ties both
to the history of what nobody could hear of.  A step either goes on with the work
(`WorkGoesOn`) or ends it in the one way a failure can (`FailureKeeps`), within the request's
time by `BudgetLeavesTheDelete`.

*The token hook.*  A refresh answers from two readings of an account that moves on.
`RefreshKnowsHolds` says that what it has read was so at a moment since it began; a verdict
out of such readings is just (`VerdictIsJust`), and stays so when the account changes again
(`JustifiedStays`).

*The launcher and the settings.*  `LauncherInv` says which services can be there, from how far
the launcher is in its list, starting or stopping.  `ServingInv` says that a service that
serves passed its own `load` and shares no port; `SoundIfLoaded` then is about the three
`load`s alone, and takes `ProdIsEveryones`: where bff runs under prod, so does login, which
reads the same variable and no file, and runs under prod when nothing is set.

*Requests.*  The address a client is counted by comes of a walk over the forwarded entries
from the right.  `WalkExists` and `WalkGoesOn` unfold it; `WhatIsReported` says which entries
the proxies themselves wrote, and `TheSender` that they are trusted all the way to the sender, so
that the walk comes to it and stops, before anything forged.  `KeyedOnWhoSent` then says of the
buckets what `CountedForItsSender` says of one request.  `EdgeInv` and `ProxyInv` are about the one
request under way: `ProxyHolds` adds that what is under way to Kratos passed login's reading
of its body, and has the throttle's key of it; `KratosReadsTheSame` is why a repeated or
contradicted field cannot make the two read different identifiers, and `TheOwnCookieFirst`
and `CleanPaths` are what bff's side rests on.

*Pages.*  That a message is there for a visitor needs that login does not start with a default
language that lacks one (`LoadedIsComplete`) and that the negotiation picks a loaded one
(`NegotiatedIsLoaded`), for any list of weights.  That no field is stranded compares two things
written apart: the groups of the templates, and the methods Kratos has enabled with what each
takes.  `OneFormForAMethod` finds, page by page, a form for each method that is offered, which
has `default` where the method takes it; `PostedFromOneForm` is then that nothing of the method's
is filtered out of it, and `PasskeysHaveTheirScript` that the script is chosen too.  The first
step of a registration and its second are what lets the passkey's form do without `default`.

*Signing in.*  What ties a session to the browser that began its login is never in one place:
it is handed from the login cookie (`OwnCookies`) to the addresses a tab is sent through
(`OwnAddresses`: by the challenge up to the consent, from the callback on by the cookie it was
compared with) and kept at Hydra (`GrantsAreOwn`: who gave the consent began the login).
`SignInInv` has these.  A new login takes a name that no cookie and no address has (`Unknown`),
so that nothing of an old one passes for it; a callback opened from anywhere carries nothing of
its browser's own, and gains it only by `MayRedeem`.

`RedirectsEnd` is no invariant of the count alone: `HopsCounted` bounds it by the place a tab
has come to, since each redirect leads to a place further on the way (`Furthest`); the one that
sends back to the beginning is of a page opened without a login, where the count is still zero.  `LogoutEndsBothSessions` needs
`KratosEnded`: a tab about to accept Hydra's logout is of a browser whose session at Kratos has ended, unless
Kratos failed or the user signed in again (`back`).

*Induction.*  The library's induction theorems take an operator as a parameter, which the
provers here cannot instantiate.  Where a proof is by induction over a number or over the size
of a set it goes by the least counterexample instead (`Least`, `EveryNatural`, from the
well-foundedness of `<`), and of a recursively defined function (a fold) it is proved first
that there is one, a value at a time (`RetainExists`, `RemoveAllExists`, `WalkExists`).  The
definitions of the store and of the walk are written with such functions, and no module a
theorem is about has a `RECURSIVE` operator.

Only model-checked: the liveness properties `WaiterGetsItsTurn`, `OrphansAreForgotten`,
`RequestsAreAnswered`, `EndedTokensDie`, `LogoutTakesEffect`, `CallsAreAnswered` and
`OneDownAllDown`, because liveness under fairness is outside what the prover does.  The finding
of section 6 is a counterexample, so there is nothing to prove.

Some properties name the conjunction a run checks: `StoreInv` is `IndexInStep` and
`CapHolds`; `RegistrationInv` is the type invariant of its module and the named parts defined
before it; `ReplayInv`, `CacheInv`, `CountInv` and `PurgeInv` are that too, with the parts that
make them inductive.

## 6. Where the code and its documents disagree

The run `revocation_deactivated`, which TLC finds violated, is listed under `findings`: an
admin's deactivation between the read and the write of the password is undone by the write
(`kratos.rs:157`), against `kratos.rs:153-154`.

Three more are stated in the modules and left out of the configurations; to see the
counterexample, add the property to the configuration named:

- `NoRefreshPastTheEnd` of `Bff` (`MCBffRefresh.cfg`, as `PROPERTY`, with `SPECIFICATION
  PromptSpec` and `Faults = {}` or not): a session's end is checked before the wait for the
  turn and not after it (`proxy.rs:327`, `344`), so a request that waited past the end still
  refreshes the session.  "A session also ends 30 days after its login"
  (`docs/flows/tokens.md:128`).
- `GuessStaysCounted` of `LoginThrottle` (`MCLoginThrottle.cfg`): an attempt that settles
  after its entry was replaced takes an attempt off the new one (`throttle.rs:142`).  "the
  attempt stays counted" (`throttle.rs:52`).  `GuessesAreCounted` says how far it goes.
- `EveryoneElseIsOut` of `Revocation` (`MCRevocation.cfg` with `Requests <- RecoveryOnly`):
  a session signed in between the end of the sessions and the second purge, with a credential
  added before, is left (`revocation.rs:133`), against `after_recovery.rs:11-13`.
  `NoCredentialOfAnEndedSession` says what does hold.

Others came up while reading, and are in the models as the code has them:

- A logout token verified in the last moment of its time is recorded after it, when its
  `jti` is no longer protected (`in_memory.rs:162`); `docs/flows/logout.md:78` has every
  replay refused, `AcceptedOnceInItsTime` says what the code does.
- `README.md:224` says of `WA_DEFAULT_REDIRECT_URI` "Empty counts as unset".  login does so;
  bff refuses to start with it (`bff/src/config.rs:315`).  `MCDeployment` has the case: that
  deployment never serves.
- bff and hooks read one YAML file, and both call their port `port`: with `port` set there
  they ask for the same one, and the container never serves.  A `WA_BFF_PORT` besides it
  helps (`File("port", ...)` in `MCDeployment`).
- `logout.rs:80` says that a browser without a session "still goes to Hydra, which ends its
  own login session"; login refuses that logout, which no application is behind
  (`challenges.rs:40-46`, `LogoutRequest` of `SignIn`).
- A link of Kratos' to its own address is shown as it was sent, not as a path of this host:
  `render_anchor` asks `is_web_url` (`render.rs:632`), not `local` as forms and scripts do.  So
  with Kratos on http and this host on https it is text without a link, and with both on http
  it leads past the proxy.  `StaysWithThisHost` says what the code does keep.
- `enable_legacy_one_step: true` (`ory/README.md:66`) would put the traits beside the passkey's
  button: its form has the groups `passkey` and `webauthn` alone (`registration.html:11`) and
  would post without them.  Kratos is not configured so, and `KratosSends` says it is not.

## 7. What is not modelled

- A call to Kratos or bff that takes effect after `Revocation` gave up waiting for it (in
  `Bff`, refresh calls that do are `strays`, in `Registration` they are `astray`).
- Cryptography, HTML (the layout of a page, escaping, logos), the signature of webhooks, and
  the libraries (axum, reqwest, tower_governor), except for what the code here relies on.
- The lists of headers login's proxy passes on and its streaming of bodies (`upstream.rs`);
  the settings page's redirect of a visitor who is not signed in; a subject of the token hook
  that is no UUID; the comparison of hooks' API key (`auth.rs`) and its health command
  (`cli.rs`): each is one call that a test covers.
- The browser's own check of `required` inputs, which can keep a button from posting (the one
  that goes back or sends a code again shares a form with required fields).
- `common`'s extractors, error bodies and macros: generated code and conversions without
  state.
- The tests' own harness (`system-tests/src/support`, `testing/`) and the modules of unit
  tests: they start containers, ask and compare, and are no part of the running system.
- Hydra's answer to a code whose consent was revoked meanwhile, which decides whether a
  callback under way during `/internal/revoke` still saves a session
  (`callback.rs:277`).

## 8. Plan

The properties the runs check are proved, except for liveness.  What would say more:

- statements about several components at once, first `Revocation` composed with `Bff`, which
  waits for what Hydra promises about a code whose consent was revoked (section 7), then
  `LoginThrottle` under the requests of `Requests`;
- the refinement of `Bff`'s sessions by `SessionStore` as a theorem: `Bff` uses the registry's
  promise through `SessionModel`, and the two are tied together by that module only.

What else is left to model is in section 7.

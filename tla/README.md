# Verification of toyotaview

TLA+ specifications of the program in `src/` (a Go web application that reads a
Toyota 4Runner through the Smartcar API), TLC configurations that model-check
them, and theorems about them that TLAPS proves. `PROJECT.json` lists every
component, run, property, hazard and theorem, and, for every definition that
models code, the lines it stands for.

## 1. The system

A browser talks to an HTTP server (`internal/web`). Pages are protected by
accounts and sessions (`internal/auth` over `internal/storage`, SQLite or
Postgres). The dashboard and vehicle pages show what an in-memory cache
(`internal/store`) holds; a POST makes the refresh service (`internal/app`) fetch
vehicles from the Smartcar API through a client (`internal/smartcar`) and write
the cache. Every HTTP request runs in a goroutine of its own, so everything below
that keeps state is shared between overlapping requests.

    browser -> web handlers -> auth -> storage (users, sessions tables)
                    |
                    +-> app.Service -> smartcar.Client -> IAM and Vehicle API
                    |        |
                    |        +-> obs gauge
                    +--------+-> store.MemoryStore
    main.run -> config.Load -> logging, obs, storage.Open, Ping, Migrate
             -> everything above -> Shutdown -> the deferred closes

| component | state | operations | what is hard about it | what makes it correct | module |
|---|---|---|---|---|---|
| vehicle cache, `store/memory.go` | a map of snapshots and the last error, under one RWMutex | Save, SaveMany, List, Get, SetLastError, LastError | callers combine several calls, each its own critical section | a batch lands whole; no entry of another refresh is lost | `VehicleCache` |
| refresh service, `app/app.go` | nothing but the locals of each call; writes the cache and the gauge | RefreshAll, RefreshVehicle | overlapping refreshes, failing and cancelled calls in the middle of a batch, error cleared and set apart, gauge set from an old list | each refresh changes the cache at one instant; what it leaves is coherent; failures are told from partial results | `RefreshService`, abstractly `AtomicRefresh` |
| Smartcar client, `smartcar/client.go`, `token.go` | the access token under `tokenMu` | ListConnections, GetVehicle, GetSignal | a mutex held over network calls, retries and sleeps; expiry; cancellation; paging | no lock is kept, no token requested needlessly, none that has run out is sent first, every call returns | `SmartcarClient`, abstractly `TokenSource` |
| accounts and sessions, `auth/auth.go`, `storage/storage.go` | the users and sessions tables | Signup, Login, AuthenticateToken, Logout | several statements without a transaction, each of which may fail or lose its reply; purge of others' sessions; restarts, WipeOnStart | one signup wins; signing out is final; a session in force stays; a token lives once | `AuthSessions`, abstractly `SessionLife` |
| web pages, `web/handlers.go`, `viewmodels.go` | none of its own between requests | Dashboard, VehicleDetail, RefreshAll, RefreshVehicle | the cache is read several times with refreshes in between; redirect followed later | a refreshed vehicle is shown, a failed POST shows its own error | `VehiclePages` |
| Postgres migrations, `storage/postgres.go`, start of `main.go` | the schema, `schema_migrations`, an advisory lock | Open, Ping, Migrate | several instances and releases at once; a stop at any statement, or after a commit | each migration takes effect once and in order; who serves has its schema | `Migrations`, abstractly `AtomicMigration` |
| metrics and tracing, `obs` | counters, a gauge | SetCachedVehicles, records | - | the gauge never runs ahead of the cache | the gauge, in `RefreshService` |
| session cookie, `web/middleware.go`, `web/handlers.go` | the cookie in each browser | RequireLogin, sign-in, signup, sign-out, their pages | answers overtake each other; a failing database looks like a missing session and clears the cookie; two handlers that redirect to each other | redirects end; a sign-in is not undone by an answer that belongs to an earlier time | `BrowserSessions` |
| development backend, `devsmartcar` | what `New` computes | the API, from canned scenarios | failures given to codes in two passes over any list | each failure is shown once; what is listed is found | `DevBackend` |
| configuration, `config/config.go` | none after start | Load, Validate, RedactedJSON | some forty options from a default, a variable and a flag; rules repeated in the constructors | what Load accepts can be started; a database is wiped only as told | `Config` |
| process life cycle, `main.go` | what is open, the server, its deferred closes | run | early returns at every step; signals at any time; shutdown timeout against running handlers | whatever was opened is closed; a graceful end loses no request; there is an end | `Lifecycle`; several instances at once in `Migrations` |
| logging | an open file | New, Close | - | closed last | `Lifecycle` |
| templates, scripts | none | - | - | - | not modelled |

`hazards` in `PROJECT.json` lists what is hard to test, line by line, with the
properties that would catch it going wrong; a hazard without one says why.

## 2. Modules

Each component has a module that EXTENDS nothing but standard modules (or the
module it composes), an MC module that gives its constants values, one or more
`.cfg` files, and, where there are theorems, a module of proofs `<Module>Proofs`.

    VehicleCache <- RefreshService <- VehiclePages <- MCVehiclePages
                    RefreshService <- MCRefreshService
                    RefreshService <- RefreshServiceProofs <- VehiclePagesProofs
                    RefreshService -- refines --> AtomicRefresh
    SmartcarClient <- MCSmartcarClient, SmartcarClientProofs
    SmartcarClient -- refines --> TokenSource
    AuthSessions   <- MCAuthSessions, AuthSessionsProofs
    AuthSessions   -- refines --> SessionLife
    SessionLife    <- BrowserSessions <- BrowserSessionsProofs
    Config <- Lifecycle <- MCLifecycle, LifecycleProofs
    Migrations     <- MCMigrations, MigrationsProofs
    Migrations     -- refines --> AtomicMigration
    DevBackend     <- MCDevBackend, DevBackendProofs

`A <- B` is "B EXTENDS A". The refinements are INSTANCE ... WITH a mapping, at the end
of the refining module, so that the runs and the proofs speak of the same formula.
BrowserSessions needs no MC module: its constants are sets of model values.

Definitions whose comment starts with "(slip: ...)" are not part of a model: each
is a plausible mistake in the definition that follows it. `mutants` in
`PROJECT.json` says which property finds which one.

### VehicleCache and RefreshService

A *request* is one call of `RefreshAll` or `RefreshVehicle`. `pc` says where it
is, `work` holds its local variables, `result` the error it returned. One step is
one thing another goroutine can observe, or one wait for the network: a call of
the API, a critical section of the cache, a store to the gauge, a look at the
clock. The rest of the code runs on without a step.

| code | actions |
|---|---|
| entry of RefreshAll/RefreshVehicle, the allowlist check | BeginListing, BeginAllowed, RejectNotAllowed |
| ListConnections and `filterConnections` | ListFails, ListSelectsNone, ListSelects |
| `refreshVehicleSnapshot` | GetVehicleFails, GetVehicleReplies, GetSignal (once per configured code), TakeSnapshot |
| Save / SaveMany | SaveSnapshots |
| SetLastError(nil), List, SetCachedVehicles, SetLastError(err), return | ClearError, CountCached, SetGauge, ReportFailure |
| the browser leaves, which cancels the context | Cancel |

A snapshot keeps what the properties tell apart: its Err and Partial flags, the
state of each signal, its time stamp (the clock counts stamps). Errors are told
apart by cause. A reply of ListConnections is a count of connections per vehicle,
so a vehicle may be listed twice. Without an allowlist the vehicles are refreshed
in any order, which is the API's; with one, sorted. A reply of GetSignal is an
HTTP status, or 0 for an error that is no API error. The stored snapshot is taken
to carry the ID that was asked for (app.go:207 takes the reply's).

`AtomicRefresh` is what readers of the cache are promised: a refresh puts a snapshot of
every vehicle it has selected (`asked`) in at one instant, or none, and returns an error
only if all it put in are failures. So a vehicle that fails in the middle of a batch, or
a context cancelled there, drops nobody. At the end of RefreshService `PhaseOf`,
`AskedBy` (what the batch holds and what is still pending) and `InstalledBy` map it there;
`RefreshIsAtomic` says that every behaviour of the one is one of the other.

`Coherent` says when a snapshot is in step with itself: it is called partial if and only
if a signal did not arrive. A code configured twice is the one exception in the code, since
the count of failures keeps a reply that a later one has overwritten (`AskedAgain`).

### SmartcarClient

A *caller* is a goroutine that makes one call after the other. `GetToken` is the
critical section at the top of `accessToken`; if the cached token is not valid the
caller keeps `tokenMu` and goes through `do` with the token request
(`sending = "token"`), afterwards through `do` with its own
(`sending = "call"`). `do` sends (SleepToRetry, Fail, TokenGranted, CallReplied,
NextPage) and sleeps between attempts (Wake, WakeCancelled). Times are the time
left of the token and of each sleep; Tick runs all of them down. Failures are
statuses and transport errors; those the code retries are in ShouldRetry.
A token reply may carry an empty token or any lifetime, as the code checks
neither. `captured` is the time left of the token that `doAuthorized` has read before
the retry loop and sends with every attempt of the call; a next page reads it anew.
URLs are lists of path segments; a reference is absolute, rooted, relative or malformed, and
a next link may be any of them. `ResolveReference` is external (net/url). The type
invariant is named ClientTypeOK, since the bound on the attempts, which transport errors
and statuses share, is part of it.

`TokenSource` is what the callers are promised of `accessToken`: one token for all, got
or renewed in one step and renewed only when it is of no more use, and a call that keeps
the one it was given, running down like every copy, until it is over. There is no
mutex in it, no retry and no request that fails. A caller is `calling` there while it is
in `do` with its own request; `captured` is what it holds.

### AuthSessions

A *request* is one HTTP request; each step is one SQL statement, atomic in the
database, which may fail with no effect (FormFails, Rejected, DeleteSessionFails)
or after its effect (CreateUserReplyLost, CreateSessionReplyLost, DeleteSessionReplyLost). The
time a statement is given is taken to be the time it is executed at. A token stands for
its hash, and is never generated twice. A browser brings only tokens it was given
in a cookie (`Delivered`); a request with no or an unknown cookie changes nothing.
Restart ends the requests in flight and, where WipeOnStart is given, empties the tables
as `NewSQLite` does by removing the file; `wipes` counts that, so that a property can
tell a wipe from a loss.

`SessionLife` is what holders of a token are promised: it is fresh, then opens pages
(live), then never again (dead). `LifeOf` maps a token of AuthSessions there, by its
row, the clock and whether a request is about to insert it; `TokenLivesOnce` is the
refinement.

### BrowserSessions

One browser with several tabs and one cookie jar, over SessionLife. `Send` takes the
cookie from the jar into the request (`carried`), one of the Serve actions answers it
with a page or a redirect and a Set-Cookie or none (`reply`), and `Deliver` applies
that to the jar at a later time: in between other tabs send, are answered and deliver.
ServeAnonymous and ServeRejected are `RequireLogin`, ServeEntry the two form pages,
ServeSignIn and ServeSignInFails the two forms, ServeLogout and ServePage the handlers
behind RequireLogin. A statement that fails is a choice of its own in each; the DELETE of a
sign-out may fail after its effect, too, and the cookie is cleared in any case, which is
what `SignedOutHere` is about. What a
browser does with a cookie is external; it is taken to accept the program's (a Secure
cookie needs https or a loopback address) and to drop it only after it has expired.

### VehiclePages

EXTENDS RefreshService: a request is the POST of a browser, and the handler takes
over when the service has returned. `Redirect` is the 303 the browser follows in a
later request; a failed RefreshAll answers with the dashboard and status 502; a
failed RefreshVehicle with the failed snapshot, or what the cache has. A dashboard
reads List (ReadList) and LastError (ReadLastError) under two locks. `Open` is a
later GET, repeatedly. The page of a cached vehicle shows that snapshot's own Err
(`SnapshotError`: GetVehicle failed, or some signals did). An error page counts as a page
without a vehicle.

### Migrations

*Instances* are processes over one database, each of a release that knows the
first `Known[i]` migrations. `Start` and `Pinged` are `run` up to
`shouldMigrateStorage`; `Lock`, `SkipApplied`, `NotApplied`, `ApplyMigration`,
`RecordMigration`, `AllChecked`, `Commit` are the statements of `Migrate`. What
a transaction has done (`txApplied`, `txRecorded`) is apart from what is committed
(`applied`, `recorded`). `Stop` is any failed statement, a timeout or the end of
the process: the transaction is rolled back and the advisory lock released.
`CommitReplyLost` is a commit the process does not hear of. Transactions read what
is committed at the time of each statement (READ COMMITTED, the default, which
`BeginTx(ctx, nil)` asks for). `AtomicMigration` is what `run` is promised of it: the
migrations a release knows take effect together, those that have not yet, and who is
to migrate serves only then. It has no lock, no transaction and no table of
migrations; `applied` means the same in both, and an instance is `serving` there when
its `pc` says so. SQLite's schema is one idempotent script and is not
modelled.

### Config

Pure operators: `ConfigOf` is what `Load` makes of an environment and arguments (default,
variable, flag, normalisation), `EnvParses`, `FlagsParse` and `Validate` say which it
accepts, and LogAccepts, ObserverAccepts, StorageAccepts, AuthAccepts and
SmartcarAPIAccepts what the constructors check again. A text is told by what the
code tells of it: empty, blank, malformed (does not parse), bad (parses, is not
allowed), good, and for a ratio the number that is none. A blank variable is an
empty text, where the option is a text, and the default where it is parsed; a flag is
not trimmed.

### Lifecycle

`run`, from `config.Load` to the exit. `at` is where it is, `open` what its deferred
calls have still to close. Up to the select each constructor, Ping and Migrate is a
step that goes on, refuses the configuration (`Construct`) or fails; `ReturnFromRun` is
each `return`, after which the deferred calls follow, the last first. A signal
before NotifyContext, or after `stop`, is `Kill`: the listener is started
before, so requests may be running. net/http is external: Connect is a connection that is
accepted or kept alive, Accept the first byte of a request on it, which may come after the
listener was closed, and Drop its end before that, by the other side, a timeout or Shutdown,
which closes kept connections at once and new ones after some seconds. SelectSignal closes
the listener, ShutdownComplete waits until no connection is left, ShutdownTimesOut is
`shutdownCtx` running out first. A handler is a number of SQL statements (Statement),
which fail once the store is closed (StatementFails); the end of the process cuts it
off. The second receive of the select, from a channel closed without an error, cannot
happen before Shutdown and is left out. `database` tells whether the file was removed
by WipeOnStart.

### DevBackend

`New` is taken an iteration of a loop at a time, `at` being the loop and `i` the place in
it: uniqueSignalCodes (UniqueSignalCode), the three calls of assignPreferredOutcome
(AssignPreferred, NoPreferred), the fallbacks (SkipAssigned, PassFallback,
AssignFallback). Nothing else runs until it has returned (`at = "ready"`), so the steps
add no behaviour; they are there because an invariant of the loops can be proved, and
what a fold over a list computes cannot. It starts with every scenario and every list
of codes up to `MaxCodes`. A reply of ListConnections, GetVehicle or GetSignal is told by its kind
(success, empty, the three failures, not found, backend failure, cancelled).
`EveryFailureShown` states directly what those two
passes are for and serves as their reference.

## 3. Runs

All passing runs finish within three minutes. `CHECK_DEADLOCK FALSE` is set where the
model may stop for good: requests of the service and of sign-in are made once each
and have all returned, or the bound on starts is used up.
Symmetry is used in runs without liveness properties only.

| run | instance | shows |
|---|---|---|
| refresh_race | 2 requests, 3 vehicles, 2 of them on the allowlist, 1 of 2 codes configured, twice, connections: none, all, one twice | CacheCoherent, GaugeNeverAhead, BannerAtRest, OnlyAllowedCached, and RefreshIsAtomic, the refinement of AtomicRefresh |
| refresh_success_kept | 2 requests, 1 vehicle | a violation, see section 6 |
| client_token | 2 callers, 2 retries, tokens that outlive the margin or do not, 1 next page | LockHeldWhileRequesting, NoNeedlessTokenRequest, StaleTokenOnlyRetried, EveryCallReturns, and SharedTokenSource, the refinement of TokenSource |
| client_urls | the default base URL of config.go:24 | a violation, see section 6 |
| auth | 4 requests, 1 username, 2 passwords, 2 tokens, 1 restart that keeps the tables or wipes them | OneSignupWins, LiveSessionStays, SignedOutStaysOut, AccountsKept, and TokenLivesOnce, the refinement of SessionLife |
| browser | 2 tabs, 3 tokens | EveryNavigationEnds, KeptUnlessOvertaken, SignedOutHere |
| pages | 2 browsers, 2 vehicles, no allowlist | RefreshedIsShown, OwnErrorShown, ShownCoherent |
| pages_live | the same with an allowlist of one of them | EveryBrowserAnswered |
| migrations | 4 instances (2 new, 1 old, 1 that does not migrate), 2 migrations, 2 starts each | AppliedOnce, NeverConflicting, ServesMigrated, EveryStartEnds, and MigratesAtomically, the refinement of AtomicMigration |
| lifecycle | every option in every text, from the environment, a flag or both, over 3 complete environments, with --print-config, --help or neither; 3 connections, each with a request of up to 2 statements or without | GracefulLosesNothing, AcceptedStarts, ClosedOnExit, WipedOnlyAsTold, EventuallyExits |
| accepted_ratio | the same | a violation, see section 6 |
| dev_backend | every list of up to 4 of 6 codes, 4 scenarios, 2 built-in vehicles and another | EveryFailureShown |

### Bounds, and why they are enough

- Two overlapping requests, callers or browsers: every hazard of the cache, the
  banner, the gauge and `tokenMu` is one request coming between two steps of
  another. Two vehicles are needed for a batch to be torn, and a third for an allowlist
  to drop; a single vehicle looked up without an allowlist is a case of pages. One code shows ok and failed signals; a second one,
  not configured, shows that nothing else appears; a code configured twice shows
  an overwritten reply.
- `Replies = {0, 200}`: a status matters only as ok or not ok to every property;
  the mapping of statuses to states (MapSignalState) keeps the code's table.
- Four sign-in requests let a signup, a sign-out, a second use of the cookie and a
  further sign-in with its purge overlap; `MaxTime = 2` with `TTL = 1` lets a session
  be new, be at the boundary and be expired; `MaxRestarts = 1` a restart between any
  two statements; two tokens let one session be purged while another is made.
- Two tabs: one answer overtaking another. Three tokens: a session, the one that
  replaces it, and a third to sign in with after it.
- `MaxRetries = 2` exercises first, middle and last attempt; lifetimes 1 and 3
  around `Margin = 1` give tokens that are never valid, become invalid, and stay valid
  over a call; a sleep of 2 outlives the margin and so lets a captured token run
  out under its call; `MaxPages = 1` a listing with and without a next page. The code has
  no bound on pages: EveryCallReturns holds for listings that end.
- Two migrations and two releases give a gap to be left and an older release to
  come late; two starts an aborted one followed by a complete one.
- `MCGiven` varies one option at a time, in both places, over environments that are
  otherwise complete, since `Validate` looks at options one by one but for the
  driver, the development mode and the certificate pair; those switches are also
  combined with every other option.
- Three requests of up to two statements can be done, not begun on an open connection, in
  the middle and not begun at all when
  the store is closed. Four codes out of six (both preferred codes of one outcome,
  the first of the others, two that nobody prefers) leave each preference met or
  not, with and without a code to fall back to, and a success besides the three
  failures.

The theorems below need none of these bounds. Each module's type invariant is checked in one
run of it, but for DevBackend, where it is a conjunct of the invariant that is proved.

### Fairness

- RefreshService: weak fairness of each request's own steps. Nothing in the service
  waits but API calls, and those return (EveryCallReturns of SmartcarClient, which
  in turn rests on HTTP timeouts). No fairness on Begin or Cancel.
- SmartcarClient: time passes; an HTTP request is answered or times out
  (`cfg.Timeout` of the client, transport.go); a fired timer is noticed; and
  strong fairness of taking `tokenMu`, because Go's sync.Mutex hands the lock to a
  waiter that starves. Calls and cancellations are not fair.
- AuthSessions: every statement returns, with an answer or an error. BrowserSessions builds
  on it; the properties of AuthSessions itself are safety.
- VehiclePages: as RefreshService, and a handler that has what it needs goes on.
  No fairness on the browser's later GETs.
- Migrations: the database answers each statement; strong fairness of the advisory
  lock, which Postgres grants in the order of arrival; a start that waits longer ends by
  `storageCtx`, which is a Stop. Starts and stops themselves are not fair.
- BrowserSessions: a tab sends what it is told to, the server answers (AuthSessions,
  RefreshService), the answer arrives. No fairness on navigation, lost connections or
  the end of sessions: only that makes EveryNavigationEnds a statement about
  redirects.
- Lifecycle: weak fairness of `run` alone, whose waits all have timeouts. Nothing is
  assumed of handlers, signals or the listener.

## 4. Proofs

All for arbitrary sets of requests, vehicles, callers, users, tabs, instances, and
arbitrary bounds; the assumptions are the ASSUMEs of each module (types of the
constants; `NotCached`, `NoUser`, `NoSession`, `NoCaller`, `NoInstance`, `NoCookie` are none of the
things they stand apart from; TTL is positive), which TLC evaluates in the runs.

- RefreshServiceProofs. *TypeCorrect*: types are not inductive alone, since
  `pending[v] - 1` must not fall below zero; the strengthening says that
  the vehicle whose signals are read is still pending. *GaugeSafe*: a
  request that has counted the cache (`listed`) counted no more than it holds now,
  because the cache never loses a key; then the gauge, set from it later, cannot run ahead. *BannerSafe*: while
  a request is on its way past its own ClearError it will itself leave a banner;
  otherwise the banner is one of a request that has returned.
  *AllowlistSafe*: what a request has still to fetch, has
  fetched or has stored is allowed. *CoherentSafe*: the snapshot a request is
  reading keeps its counts and its states in step at each code, the same code twice
  included (Reading: a failure counted so far still shows, or its code comes again
  before the place the loop has reached), and everything stored was such a snapshot.
  *PartialSafe*: a batch counted
  as failed as often as it is long contains failures only. *RefreshAtomic*, the
  refinement: the initial states map to initial states of AtomicRefresh and each
  action to its Start, Select, Fail, Install, Clear or Succeed or to a stutter; the invariants
  needed are that what a request has fetched and what it has still to fetch are together what
  it has selected, that a request comes to its save with at least one snapshot and
  with nothing pending, and has returned nothing before.
- VehiclePagesProofs, on top of it. The batch a request has stored stays in the cache
  (no other refresh removes a key), and a page is made only after the service has
  returned: *ShownSafe*. A request that has returned is left alone by all others, so
  the error a failed POST renders is still its own: *OwnErrorSafe*. Each answer of a
  handler either goes on without a page (GoesOn) or gives one (Rendered). Every step of the
  handlers is a step of the service or none of its business, so what is proved of the
  service holds under the pages: *PagesRefreshAtomic*, and that what a page shows is
  coherent, *ShownIsCoherent*, and allowed, *ShownIsAllowed*: it is rendered from the cache
  or from the snapshot its own request has stored.
- SmartcarClientProofs. The invariant joins the lock and the token: whoever requests
  a token holds `tokenMu`, so nobody else writes the cache, and time only makes a
  token less valid. From it *TypeCorrect* (with the bound on attempts), *LockSafe*,
  *NoStampede*. *StaleSafe*: a call captures a token that
  is valid and goes to its first attempt with no time in between. *TokenShared*, the
  refinement of TokenSource: a caller that is not in a call of its own holds no token
  (HeldInv), so a return is the end of a call or shows nothing, and the grant of a token,
  which its owner alone can get, is the renewal for all.
- AuthSessionsProofs. Accounts are never removed without their sessions, and a
  request past FindUser or CreateUser has its account (*SessionsSafe*). A token about to be
  inserted is in nobody's cookie, so no insert revives a token that was signed out
  (*SignOutFinal*). A signup that is past its INSERT is the only one for its username
  (*SignupSafe*). *AccountsSafe* and *LiveSessionsSafe* are proved step by step.
  *TokensLiveOnce* is the refinement of SessionLife: no two requests are about to
  insert one token, and a row is there only for a token that was issued.
- BrowserSessionsProofs. *CookieKept*: a request without a cookie is never answered with
  a clearing of it, and one that was rejected without a failed statement carried a
  token that is dead for good, by SessionLife. *SignOutSticks*: a cookie is in one
  answer at most and in the jar only after it (OnItsWayOnce), since each sign-in gets
  a fresh token; the answer to a sign-out clears the jar whatever became of the
  DELETE (LogoutClears), so its token is then neither in the jar nor on its way, and
  nothing sends it again.
- MigrationsProofs. The advisory lock is held exactly by the instance inside its
  transaction; that instance has recorded what it has applied, none of it committed,
  and everything before the migration in hand is recorded. The commit then adds each
  effect once, and leaves no gap: *AppliedOnceSafe*, *NoConflict*, *ServedSafe*.
  *MigrationAtomic*, the refinement of AtomicMigration: a commit brings in just what was
  missing of the release's migrations (CommitCompletes), heard of or not, and only
  instances told to migrate get there; every other step shows in neither the schema nor
  the service, but for a start that need not migrate and for stops.
- LifecycleProofs. The store is open until Shutdown has ended and no connection is accepted
  after the select, so a nil result finds no handler running and no connection on which a
  request could begin; before there is a result nothing can be lost: *GracefulSafe*. What is open
  follows from where `run` is: *ClosedSafe*. The configuration at hand
  between Load and the listener is one that Validate accepted, which implies each
  constructor's own check, and is `ConfigOf` of what was given: *StartsSafe*, *WipedSafe*. *OnlyNaNPasses*: the
  run that refutes AcceptedRatioInRange has found the only text that does.
- DevBackendProofs. While the list is read, the unique codes are those of the part read.
  Outcomes are failures of such codes, one code each at most; the last loop leaves
  behind it only codes that have an outcome and fallbacks that some code has, and ends
  with one of the two for all. So either every code has an outcome, or all three
  failures are taken, and since outcomes are one to one their number is the smaller of
  three and the number of codes (AsManyAsCodes): *FailuresShown*, for lists
  of any length.

Only model-checked: everything that needs fairness (EveryBrowserAnswered,
EveryCallReturns, EveryNavigationEnds, EveryStartEnds, EventuallyExits), which is
beyond the prover.

## 5. What is not modelled

- Decoding of API replies, formatting, HTML, headers, the same-origin check, log
  lines, spans and counters: they change no state the properties are about.
- Hashing and generation of tokens and passwords: a token stands for its hash, a
  password for its hash.
- Foreign keys and ON DELETE CASCADE: no code deletes a user.
- Templates and scripts: markup and packaging.
- The driver's connection pool: with the path `:memory:` each of its connections has a
  database of its own (sqlite.go:33). The models take the store to be one.
- An API that answers GetVehicle with another vehicle's ID (app.go:207), or revokes a
  token before its time (client.go:340): both are decided outside the repository.

## 6. Where code and documentation disagree

- `refresh_success_kept`: README.md:14 of the repository promises to keep "the
  latest successful snapshots in memory". A refresh whose GetVehicle fails replaces
  the vehicle's successful snapshot by the failure (app.go:171 and 101), and of two
  overlapping refreshes the later to save wins, even if its snapshot is older.
- `client_urls`: config.go:24 gives the base URL a path, `/v3`.
  `resolveVehicleURL` (client.go:568) resolves references that start with a slash,
  which replaces that path: requests go to the root of the host.
- `accepted_ratio`: config.go:697 says that the sample ratio must be between 0 and 1. The
  text `NaN` parses, and both comparisons of config.go:696 are false of it: the process
  starts with it, and `--print-config` fails, for JSON has no such number. No other text
  passes (theorem OnlyNaNPasses).

Without a run of their own: README.md:105 says "Flags override environment variables",
but a variable that does not parse makes Load fail before the flags are looked at,
also with the flag given (`LoadFails`), and before `--help`.

## 7. Plan

Order of the work: (1) the refresh path, the core of the program: VehicleCache,
RefreshService, AtomicRefresh, then the pages that read it; (2) the client it waits
for; (3) accounts and sessions, and the browser that uses them; (4) configuration,
migrations, serving and shutdown; (5) the development backend; (6) proofs of every
safety property the runs check, and of every refinement. These are done.
What could follow: a connection pool under AuthSessions, for `:memory:` and for the
PRAGMAs that hold for one connection only.

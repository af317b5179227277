# AuthAPI in TLA+

AuthAPI is a multi-tenant authentication service in Go. Its code is simple to read one request at a time; what is
hard about it happens between requests. Several replicas serve requests concurrently and meet only in Postgres (at
READ COMMITTED), in Redis (Lua scripts) and in RabbitMQ (through an outbox table and publisher confirms). These
modules model that: what requests, workers and goroutines do to shared state, statement by statement, with failures
and crashes between the statements.

`PROJECT.json` lists components, runs, the source lines each definition stands for, hazards, findings and theorems.
Paths below are relative to `src/`.

## 1. The system

| Part | Code | Shared state | Operations |
|---|---|---|---|
| Refresh tokens and sessions | `internal/auth/service.go` (Login, Refresh, rotateHelper, Logout, RevokeAll), `internal/auth/refresh` | `refresh_tokens` rows and their locks | login, rotation, reuse detection, logout, bulk revocation |
| Passwords and reset | `service.go` (Login, ChangePassword, RequestResetPassword, ResetPassword), `internal/users` | `users.password_hash`, `password_reset_tokens`, sessions | compare, change, request a link, reset |
| Signup and verification | `service.go` (SignupService, VerifyEmail, ResendVerification), `internal/auth/mail` | `users`, `email_verification_tokens` | signup, verify, resend |
| Login rate limiting | `internal/auth/ratelimiter`, `internal/auth/luascripts`, `middleware.go`, Login | Redis hashes per address, account and pair | check, record a failure, expiry |
| Signup and reset throttling | same packages | Redis hashes that are never written | check only |
| Outbox | `internal/outbox` | `outbox_events` rows as leases | record, claim, publish, mark, retry |
| RabbitMQ publisher | `internal/broker/rabbitmq.go` | pending map, two mutexes, result channels | Publish, confirmation loop, Close |
| HTTP layer | `handlers.go`, `middleware.go`, `errors.go`, `internal/config/router.go` | the request context | middleware chain, decoding, status mapping |
| Access tokens | `internal/auth/jwt.go`, JWTMiddleware, the service methods that sign | none: a signed token is not stored | sign, accept until it expires |
| Process | `cmd/server/main.go`, `internal/db` | what is open, who is running | start, retry, signal, drain, close |
| Configuration | `internal/config` | the environment, key files | load, fall back, refuse |
| Tenants, hashing, logging, metrics, API docs, SQLite | see `PROJECT.json` | none that changes here | lookups and conversions |

How they interact: a handler of the HTTP layer calls one method of the service. The service writes rows of the
first three parts and, in the same transaction, rows of the outbox. A worker in every replica claims outbox rows and
hands them to the publisher. The rate limiter sits in front of three routes, and Login reports failures to it. A
password reset ends sessions, from a second connection in the middle of its own transaction.

The behaviours that are hard to test, and so the reason for these modules:

- several requests present one refresh token, or a rotation overlaps a reuse detection, a logout or a reset;
- statements of one operation that are not in one transaction: VerifyEmail, ResendVerification, the read before
  ChangePassword's and Logout's transaction, and ResetPassword's revocation;
- a lease that runs out under a worker that is slow rather than dead, and the late statement of that worker;
- a confirmation that races its timeout, a lost connection, or Close;
- a check in Redis that is stale when the failure is recorded;
- an access token signed after the session it is for has ended;
- a shutdown under requests that are still running, a worker that is publishing and a broker that does not answer;
- multi-row UPDATEs that wait for each other.

What correct means: a refresh token is exchanged at most once and a session has one live token; an event marked
published was accepted by the broker, and nothing but a fault makes it go out twice; Publish answers every caller,
once, with the fate of its own message; a block lasts as long as it should and no longer; a reset ends the sessions
of the old password; one signup wins and its account can always be activated; every request is answered and
observed, by a process that has what it needs for it; an access token does not outlive its session for long; a signal
ends the process unless the broker holds it up.

## 2. Modules

**RefreshTokens** (`Sessions`, `MCRefreshTokens`, `RefreshTokensProofs`). An action is one SQL statement, a commit
or a rollback. `lock[t]` is the row lock FOR UPDATE and UPDATE take; `req[r]` is a request with its transaction
(rows inserted and rows to be revoked become visible at `Commit`). FindbyHash waits for the row and re-reads it;
RevokeAllForFamily and RevokeAllForUser take a snapshot and then visit the rows one by one (`ScanRow`), skipping the
ones that were revoked meanwhile, as READ COMMITTED does. The order of the visit is left open. `Rollback` is an
error, a cancelled request, a crash or the choice of Postgres' deadlock detector. RevokeAll is modelled as the
service method; see section 8 for its route. SignupService inserts a first token the way Login does.
`Sessions` is the promise: a session has at most one valid token and is opened, exchanged and closed in single
steps. `ImplementsSessions` is the refinement (valid tokens are the committed, unrevoked rows).

**Outbox** (`Delivery`, `MCOutbox`, `OutboxProofs`). A row's status, lease and retry timer; a worker's batch, the
retry count it was given, and the statement it is about to make. Time is time left: `Tick` takes one off every timer.
MarkPublished and MarkFailed update by id whoever holds the claim by now, as in the code. `Restart` is a crash,
`Abandon` a shutdown in the middle of a batch, `MarkError` a failing statement. Publish is abstracted to its three
outcomes: accepted and confirmed, refused, or accepted but reported as an error. ClaimBatch is one statement and one
step: that SKIP LOCKED keeps two of them apart is assumed of Postgres. `Publishing` is where that comes
from. It lets the broker take a message after the error has been returned, where Outbox puts the acceptance at the
return. No invariant tells the two apart: only a confirmed publish leads to MarkPublished, and the event counts as one
with a fault from the error on. `ImplementsDelivery` is read the same way: it is about when the outbox hands an event
over, and a message that was on its way when its Publish failed counts as handed over then. `Delivery` is the promise
to those who record events: an event goes out again only if it is late (held past the end of a claim), or if its
acceptance went unrecorded and it is not settled. One settled in time is done with: it does not become late, is not
reopened and not sent again. `ImplementsDelivery` is the refinement (settled events are those in status published,
late ones those of an overrun claim).

**Broker** (`Publishing`, `BrokerProofs`). Publish calls, the confirmation loop and Close as goroutines over one AMQP
channel, with publishMu, the pending map and result channels of capacity one. `pending` is changed in single steps
because pendingMu guards it; failAllPending holds it while it sends. The worker makes one call at a time; the module
allows several, as the comments of the code promise. The broker may answer in any order (`Answer`), and the library
hands confirmations on in order (`Resequence`). `Send` is the socket write, under publishMu and without a deadline, and
`CloseChannel` waits for the broker's answer: both may wait for ever while the connection is up. Close stops the
confirmation loop first (`CloseDone`, `CloseWait`). The 100-place buffer of the confirms channel is not bounded in the
model.

**Credentials** (`CredentialsProofs`). One account: its password, reset links, sessions and the requests on them. It
shows the overlap of ResetPassword with everything else: it locks the users row, then revokes sessions on another
connection, then commits. The lock an INSERT into refresh_tokens takes on the users row for its foreign key (KEY
SHARE) is compatible with the lock of an UPDATE of the password (NO KEY UPDATE), so a rotation does not wait for a
reset.

**Accounts** (`AccountsProofs`). One address: SignupService is a transaction whose INSERT waits on the unique index;
VerifyEmail and ResendVerification are separate statements. A failure may come between any two. The mailed link is a
page `/verify-email` below APP_BASE_URL (`smtp.go:26`), while the route is `/auth/verify-email` and wants the tenant in
a header. The page is not in this repository: opening a link (`FindLink`) is taken to reach VerifyEmail with its token
and tenant.

**LoginThrottle** (`LoginThrottleProofs`). The two Lua scripts are atomic; between the check of a request and its
record any others may run. The check asks about the account that `peekEmail` reads from the whole body; the handler
decodes the first JSON value, so the two may differ, and the check then asks about no account (`NoEmail`). The record
is always made for the account of the login. The keys do not name the tenant, as in the code. Redis may fail: the
check then lets the request through and the record makes Login fail.

**AccessTokens** (`AccessTokensProofs`). It uses the promise of RefreshTokens: its `session` and `valid` are those of
`Sessions`, whose steps it takes (`S!Open`, `S!Exchange`, `S!Close`). It adds the access token that each of them comes
with. Login signs before it commits; SignupService and Refresh commit first, so the session may end before the
signature (`Close` between `Refresh` and `Sign`). Such sessions are in `late`. Of the access tokens of a session only
the one that expires last is kept. The expiry of refresh tokens is left out: it ends no session the service knows of,
it only stops exchanges, which a session here may also simply never make.

**Gateway**. A request's way through the router: middleware in the order of InitRouter, tenant, rate limit and JWT
middleware of its group, decoding, the handler's status, and the way back, on which a panic unwinds to the recoverer.
A handler is a record of what tells it apart from the others. CORS preflights, unknown routes and methods, and the
write timeout of the server are outside.

**Config**. The functions of `internal/config` as operators on an environment: which variables are set, which parse,
which key files are there. LoadDBconfigs falls back to SQLite where PostgresConfLoader fails, as in the code.

**Lifecycle**. main's steps, each of which may end the process, the worker, and the signal at any moment. `LoadConfig`
tries every environment of Config. `CloseBroker` is the return of the deferred mqBroker.Close, whose inside is in
Broker.

**Server** (`ServerProofs`). One replica: Gateway and an instance of Lifecycle whose `inFlight` is the number of
Gateway's requests. A request arrives only while the listener is open (`Accept`), its goroutine runs on while Shutdown
waits (`Serving`), and it is cut off when the process ends (`Ending`, remembered in `cut`).

## 3. Runs

| Run | Instance | What it shows |
|---|---|---|
| `refresh` | empty table, 3 tokens, 2 requests, 1 user, 2 tenants, 1 expiry | `OneLivePerFamily`, `ExchangedOnce`, `Lineage`: rotation is exclusive and keeps user, tenant and family. `LogoutEndsSession`: after a logout the family lives on only through a successor of the very token. `EndedStaysEnded`: a session without a live token never gets one again. `ImplementsSessions`. |
| `refresh_three` | a session refreshed once, 3 requests, 1 expiry | `CleanReuseEndsSession`: reuse detection that was not overtaken kills the family for good. `DeadlockNeedsTwoBulkRevocations`: requests wait for each other in a ring only if two RevokeAllForUser are among them. |
| `refresh_reuse` | the same, 2 requests | finding: `ReuseEndsSession` fails |
| `outbox` | 2 workers, 2 events, batches of 2 | `PublishedWasDelivered`, `ExclusiveUntilOverrun`, `OnceWithoutFault`, `PublishedIsFinal`; `ImplementsDelivery`, which also says that the excuse comes before the second delivery and that an event published in time is left alone for good |
| `outbox_live` | 2 workers, 1 event, maxRetries 1 | `EventuallyPublished`: an event is published or fails more than maxRetries times |
| `broker` | 2 calls | `OneResultEach` (no send on a result channel ever blocks), `NobodyStranded`, `ImplementsPublishing`. `EveryPublishReturns`, `CloseReturns`: unless a write or a close waits for ever on an open connection, Publish and Close return |
| `throttle` | 2 requests, 1 address, 2 accounts, limits 2 and 3 | `BlockLasts`, `FailuresSpaced`, `LockoutEnds`. `FewSneakPast`: how many passwords are compared in a block by requests that were checked against its key, which for an address are all that Redis answered |
| `credentials` | 2 requests, 2 sessions, 2 links, 3 passwords | `SurvivorsOverlapped`: a session of an old password survives a reset only if what created it overlapped the reset. `SpentMeansReset`, `EveryRequestEnds`. |
| `credentials_once` | 2 requests, 1 link | finding: `ResetTokenOnce` fails |
| `accounts` | 2 requests, 3 links, 2 failures | `OneSignup`, `WorkingLinkRemains`, `EventuallyActive` |
| `server` | any environment, 2 connection attempts, 1 request at a time, 1 tenant | `DependenciesOutliveRequests`, `CutOffOnlyAfterGrace`: what holds between requests and the process. `AnsweredAndObserved`, `SuccessIsReal` (a 2xx means that the service returned no error): of each request. `SignalEnds`: only a call of the broker can keep main from ending. |
| `access` | 3 refresh tokens, 2 requests, a lifetime of 2 ticks | `AccessOutlivesBriefly`: an access token outlives its session by less than its lifetime, except one that was signed late. `AccessEnds`: that one is refused in the end, too. |

The type invariants are theorems and not repeated in the runs. Every property has a mutant in `PROJECT.json`: a
plausible slip in a mapped definition that breaks it.

Deadlock is checked except where the system stops by itself: `broker` (every call and Close happen once) and
`server` (the process ends).

### Bounds

- Tokens, links and events are identifiers; three suffice for a token, its successor and a third that appears while a
  request works on the other two. Identifiers that nothing refers to are used again in Credentials and Accounts.
- Two requests give every pairwise race. `refresh_three` has three because a reuse detection, the rotation it races
  and a third request meet in one family; `RotatedOnce` is a state two requests reach, so that three can start from it.
- `MaxExpired`: how many tokens expire. `MaxPassword = 3`: two replacements of the password, by any two requests.
  `MaxFaults = 2`: one failure in each of two requests, or two in sequence.
- `RetryCap`: retry_count is counted to where the backoff has reached its cap, which the assumption `CapIsExact`
  checks; beyond it the count influences nothing. `outbox` has the backoff at its cap from the start, `outbox_live`
  one doubling and counts to one past its `MaxRetries`.
- LoginThrottle keeps the relations between the constants of the scripts (soft limit below hard limit, short block no
  longer than the long one, long block equal to the expiry of the key) and not the numbers. Failures are
  counted to one past the hard limit.
- `server` has one request at a time: requests share only tenants and Redis, which change at any moment anyway, and
  main looks only at whether there are any. `MaxTries = 2` for the five attempts of OpenPostgres: one that is followed
  by another, and the last. The theorems have no such bound.
- `AccessTTL = 2`: an access token can be new, older, and expired. `since` counts to it and no further.
- `MaxSeq = 3` sequence numbers for two calls: more than they can use.

### Fairness

- Outbox: time passes; a claim that is possible again and again is made (the worker polls); publishing over a working
  connection and recording the outcome succeed if tried for ever. Nothing is assumed of a worker whose connection is
  lost, and `EventuallyPublished` is about executions in which some worker stays connected.
- Broker: goroutines run, timers fire and mutexes are handed over. Nothing is assumed of RabbitMQ or the network: on an
  open connection a write or a close may never come back. On a dead one both fail.
- LoginThrottle: time passes.
- Credentials: a request runs on, and row locks go to waiters in turn (strong fairness, since a lock is free and taken
  in alternation). An INSERT that finds no identifier left in the bounded set fails.
- Accounts: requests run on, and the person keeps asking for links and opening those that arrive (strong
  fairness: both are possible only at times). Overlapping resends may delete each other's links for ever,
  so `EventuallyActive` asks that they stop overlapping.
- Server: main runs and the ten seconds pass. Neither a request nor the worker need ever end, and NewRabbitMQ and
  mqBroker.Close need not return (`InBroker`).
- AccessTokens: time passes. A request need never end: one that hangs signs nothing.

## 4. Proofs

TLAPS checks these for every set of tokens, users, tenants, requests, events and workers and for all durations. The
assumptions on constants are those of the modules: `TenantOf` maps users to tenants, `None` is no other value, events
are numbers (their order is that of created_at), durations are naturals, the retry cap is exact, and there are finitely
many requests at a time. LoginThrottle assumes of its constants what the scripts and the limiter have: positive
limits and times, the soft limit below the hard one, a long block that lasts exactly as long as its key, and no user
with the empty email.

**RefreshTokensProofs**: `TypeCorrect`, `OneLiveToken`, `SingleExchange`, `LineageHolds`, `LogoutEnds`,
`CleanReuseEnds`, `EndedForGood`, `DeadlockOnlyBetweenBulk` and `Refinement`. None of the properties is inductive by
itself: that a rotation may revoke its token and insert a successor is known only from what happened at FindbyHash.
The invariant `IInv` adds that knowledge. `TableInv` says what committed rows look like (a family is named by its
first token). `InsertedByOne` says that two requests never insert one identifier. For each request, `InsertInv`,
`WriteInv`, `PresentedInv`, `RotateInv` and `PendingRowInv` say which rows its transaction may touch. The heart is
`RotateInv`: a request that has passed the branch on revoked_at holds the lock of the token it presents, and the token
is unrevoked. Since every revocation needs that lock, it stays so until the commit. `FrameStep` and `OthersStep` show
that one request's step leaves the other requests' part alone; `CommitLogin`, `CommitRotation` and `CommitRevocations`
are the steps that change the table. For the refinement, `CommitIsOpen`, `CommitIsExchange` and `CommitIsClose` map a
commit to a step of Sessions, and every other step is a stutter. `EndedForGood` follows from `IInv`, too: the token a
rotation replaces is still live when it commits, and a login starts a family of its own.

**OutboxProofs**: `TypeCorrect`, `NoFalsePublished`, `ClaimsExclusive`, `ExactlyOnce`, `FinalPublished` and
`Refinement`. `IInv` adds `MarkInv` (a worker about to mark an event published has delivered it), `ClaimInv` (until a
claim is overrun, the row is processing and its lock runs out together with the claim) and `AcceptedInv` (where an
accepted event is). With `ClaimInv` no other worker can find the row claimable, which gives exclusion, and from it
follow the absence of duplicates and the finality of published. For `Refinement` (of Delivery), `HeldInv` adds that
what a worker holds has been recorded. `HeldNotDone` is the key: an event in a batch is late or not settled. So a
second acceptance has its excuse, a MarkFailed over published comes from a late worker, and only unsettled events
become late. Each kind of step has a lemma that says which step of Delivery it is.

**BrokerProofs**: `TypeCorrect`, `OneResult`, `Attending`, `Clean` and `Implements`, the refinement of Publishing.
`Mutex`, `Numbered` and `SentOnce` say that the number a call has read under publishMu is the one its message gets, so
an entry of pending, a message and a confirmation with one number belong to one call. `Entries` and `InHand` say that
the call of an entry has no result yet, which leaves room in its channel, and `Attended` that a call about to wait is
in pending as long as an answer can come. A number is given back only on a dead channel, where no message follows.

**LoginThrottleProofs**: `TypeCorrect`, `Lasting`, `Sneaking` and `Spacing`. `Kept` says that a block is what
was promised and ends no later than its key, at the hard limit together with it. `Spaced` says that the rest of a block
and the age of the last failure make up the block the failure earned. `Few` counts the requests past their check: in
a block of a key, those that asked about the key and have compared a password or still will are fewer than all,
because the request whose failure began the block is not among them.

**AccountsProofs**: `TypeCorrect`, `SignedUpOnce` and `LinkRemains`. The unique index gives the first (`Inserting`: one
transaction at a time has inserted the address). For the second, `Hopeful` says that, as long as no statement
has failed, an account that is not verified has a link in the mailbox that is neither used nor deleted, or a request
that will make one or will verify the account.

**CredentialsProofs**: `TypeCorrect`, `Survivors` and `Spent`. `RowHeld` makes resets exclusive from
their UPDATE of the users row on. `Overlapping` says that every other request then overlaps the reset, so that what it
commits is suspect, and `Visited` that everything else that is live is among the rows RevokeAllForUser has visited or
will visit.

**ServerProofs**: `TypeCorrect`, `Dependencies`, `Grace`, `Observed` and `SuccessReal`. `Booted` says what main has
opened by the step it is at, `Busy` at which steps there can be requests. `Observed` and `SuccessReal` rest on `Ways`,
which holds of each request by itself. On the way back (`OnStack`), the middleware left so far is a suffix of the
order of InitRouter, a panic has ended once the recoverer is left, and what logging and metrics recorded is the status
they saw. `Answered` says that a status is missing there only if the service returned nil or a panic is under way.
`TypeCorrect` adds the types of what main has (`Flags`, `Places`).

**AccessTokensProofs**: `TypeCorrect` and `OutlivesBriefly`. `Signed` says that a session which ended without
being late has no request that will still sign, and `Aged` that what is left of its signed tokens, also of those in
responses on their way, and the time since its end make up no more than one lifetime.

For `LogoutEnds` and `CleanReuseEnds`, RefreshTokensProofs has a second invariant, `JInv`, proved on top of `IInv`.
`DeadEnds` says that the family of a token revoked without a successor is dead. `EndInv` follows a bulk revocation: the
live token of the family is among the rows to visit or already written, or else the one it has replaced is still to be
met, revoked.

For `DeadlockOnlyBetweenBulk` there is a third, `KInv`. `LockInv` says which rows a request can have locked at which
step, and `ScanInv` that a bulk revocation has at most one row of each family among those it visits. In a ring every
request both holds a lock and waits for one, which leaves the bulk revocations. A reuse detection is waited for only
because of the revoked token it was presented with (`WaitsForReuse`). `LastComer` replaces an induction over the ring:
in every set of reuse detections under way there is one that has none of these tokens among the rows it has still to
visit, namely the one whose snapshot is the latest, since the tokens were revoked by then. So reuse detections
alone make no ring, and a single RevokeAllForUser does not close one (`WaitsForBulk`).

Only model-checked: the liveness properties (`EventuallyPublished`, `EveryPublishReturns`, `CloseReturns`,
`LockoutEnds`, `EveryRequestEnds`, `EventuallyActive`, `SignalEnds`, `AccessEnds`), because fairness and ENABLED are
out of the prover's reach. Every other property of a passing run is also a theorem.

## 5. Findings

- **A family can outlive its reuse detection** (`refresh_reuse`, `service.go:721`). A rotation of the live token that
  commits after RevokeAllForFamily's UPDATE has taken its snapshot leaves a live successor, although the call reports
  reuse. The README and a test say the entire family is revoked. `CleanReuseEndsSession` says when it is.
- **A reset token can be used twice** (`credentials_once`, `service.go:1040`). FindValidResetTokenTx reads the row
  without a lock and MarkResetTokenUsedTx does not test used_at, so two resets that read it before either commits both
  replace the password. The README calls it a one-time token.

## 6. Not modelled

- Signup and reset throttling: the checks read keys that nothing writes (section 8).
- SQLite repositories: the process does not start with that driver.
- Password hashing, digests, RS256: library code; a secret stands for its digest, and a signature is right or not.
- Configuration that has a default and so cannot stop a start (LoadBrokerConfig, LoadCors, parseEnvList,
  setupSQLiteConfig).
- The generated API documentation, and operations that no route or caller reaches: Register, LockoutUser, FetchPending, the
  recorders of the two unused limiters.
- Body texts, CORS, the 1 MiB limit, request ids, swagger, /metrics; the wording of logs.
- RabbitMQ's routing: messages are published as mandatory, but no NotifyReturn listener is registered, so an
  unroutable message is returned, dropped and still confirmed. Outbox counts it as accepted.
- Clock skew between the application, which computes some timestamps, and Postgres, which compares them; the rounding
  of Redis times to seconds.
- `locked_by`: all replicas write the same worker id, and no statement reads it.

## 7. Plan

Done, in this order: RefreshTokens with Sessions and proofs, Outbox with proofs, Broker with Publishing,
LoginThrottle, Credentials, Accounts, Gateway, Lifecycle; then Config and the composition Server, AccessTokens over
Sessions, and proofs for every component.

Next, by value:

1. Outbox over Publishing by INSTANCE instead of by its outcomes, and Server with the worker of Outbox, so that a
   shutdown meets a batch.
2. A second event in the liveness of Outbox, with an abstraction small enough for the temporal check.
3. The sessions of Credentials as an instance of Sessions.

## 8. Observations from reading the code

These are places where code and documentation differ. They follow from the lines named, the models have the code's
behaviour, and no run has one of them as its finding.

- `service.go:549-567`: the event of a suspicious login is inserted in a transaction that is never committed, and the
  deferred Rollback removes it. `README.md:187` says it is queued. (LoginThrottle, `RollbackNotification`.)
- `middleware.go:233`: CheckSignup and CheckPasswordResetRequest are called, RecordSignupAttempt and
  RecordPasswordResetRequest are not, so neither limit ever applies. See `README.md:188-189`.
- `handlers.go:756`: revoke-all is in the group without TenantMiddleware, so RevokeAll finds no tenant in the context
  and the answer is 500. See `README.md:168`. (Gateway, `Results`.)
- `service.go:855`: ChangePassword verifies the current password before its transaction begins, so it can replace a
  password other than the one it verified, also one a reset has set meanwhile. See `README.md:164`. (Credentials,
  `VerifyCurrent`.)
- `refresh_repository_psql.go:273`: the revoked_at that RevokePreviousResetTokens sets is not read, so an older link
  still works after a newer one was requested. (Credentials, `Acceptable`.)
- `processor.go:103`: maxRetries only writes a log line, and the worker goes on retrying; `README.md:208` says up to 8
  retries. (Outbox, `MarkFailed`; `EventuallyPublished` claims nothing past maxRetries.)
- `middleware.go:217`: peekEmail parses the whole body and loginHandler its first JSON value, so the check may not ask
  about the account of the login. `README.md:187` says blocked requests get 429. (LoginThrottle, `peekEmail`.)
- `service.go:1011`: RequestResetPassword returns nil when its commit fails, and the client is told of success.
- `smtp.go:26`: the link in a verification mail is not the path of the route that verifies. (Accounts, `FindLink`.)
- `outbox_repository.go:255`: the MarkFailed of a worker whose claim was overrun takes the row from the worker that has
  claimed it since, and can undo published. (Outbox, `MarkFailed`; `PublishedIsFinal` is about events never overrun.)
- `errors.go:34`: a duplicate signup is answered 401; the annotation at `handlers.go:183` says 409.
- `handlers.go:380`: refresh, logout and resend-verification accept unknown fields; `README.md:175` says handlers
  reject them.
- `handlers.go:528`: a successful password change or reset request writes no status and is counted under 0.
- `internal/outbox/outbox.go:16`: with the SQLite driver main panics (Lifecycle, `NewRepos`). `README.md:18`, `:127`
  and `:212` and the warning at `main.go:133` describe a service that runs on it, also as the fallback for an
  incomplete Postgres configuration (`internal/config/load.go:335`).
- `main.go:118`: the RabbitMQ connection is dialled once. After it is lost this replica publishes nothing until it is
  restarted, and /auth/health does not notice.

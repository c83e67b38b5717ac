# A TLA+ development for RaftWeave

RaftWeave is a control plane written in Go (`src/internal`, `src/cmd`) with an
Angular dashboard. This directory models the parts of it that keep state under
concurrency and failure: TLA+ modules translated from the code, TLC
configurations that check small instances, and TLAPS proofs that hold for every
instance. `PROJECT.json` maps every definition to the lines it models and lists
the runs, the faulty variants that each property rejects, the hazards and the
theorems.

## The system and its parts

| Part | Code (under `src/internal`) | State | Module |
|---|---|---|---|
| Refresh token store | `auth/adapter/redis/refresh_token_store.go` | a Redis key per token, a set per user, TTLs | `RefreshTokens`, abstractly `SessionRegistry` |
| Session handlers, access tokens, roles | `auth/handler/rpc`, `auth/handler/http/oauth_handler.go`, `auth/adapter/jwt`, `middleware/auth.go`, memberships of `user_repository.go` | what clients keep, memberships | `Sessions` |
| Login by e-mail code | `auth/adapter/otp/generator.go`, `auth/handler/rpc/auth_handler.go` | challenges | `EmailOTP` |
| OAuth login | `auth/adapter/oauth`, `auth/handler/http`, `auth/adapter/postgres/user_repository.go` | state tokens, table `users` | `OAuthLogin` |
| Google's signing keys | `auth/adapter/oauth/google/provider.go` | key cache behind an RWMutex | `GoogleKeys` |
| Rate limiter | `middleware/ratelimit.go` | a sorted set per key | `RateLimiter` |
| Build use case, worker, Kaniko launcher | `build/usecase/build.go`, `build/worker/worker.go`, `build/adapter/kaniko`, `build/adapter/postgres` | queue task, rows of `builds`, Kubernetes jobs | `BuildPipeline` |
| Language detector, Dockerfile generator | `build/adapter/detector`, `build/adapter/dockerfile` | none (pure) | `Detection`, used by `BuildPipeline` |
| Log broadcaster in memory | `build/adapter/logstream/broadcaster.go` | a slice of subscribers, their channels | `LogBroadcaster` |
| Ingestion | `ingestion/usecase`, `ingestion/handler`, `ingestion/adapter`, `ingestion/domain` | tables `workloads` and `credentials`, queues | `Ingestion` |

How they interact. Every login, by code or through a provider, ends in `Issue` of
the token store and an access token; `Sessions` composes the handlers with
`RefreshTokens` for that. `OAuthLogin` is what happens before: which row of `users`
a login ends in, for all three ways to log in. The Google callback validates its
ID token with the keys of `GoogleKeys`. Ingestion saves a workload and enqueues a
provision job, and turns a push webhook into a build job. The build worker takes
a build job, runs Execute, detects the language, generates a Dockerfile, writes
the row of the build, starts a Kubernetes job and publishes log lines through the
broadcaster. The producer and the consumer of build jobs do not meet at present:
ingestion enqueues `build:image` in queue `default`
(`ingestion/adapter/queue/tasks.go`, `config.go`) and the worker polls
`builds:high`, `builds:default` and `builds:low` for `build:execute`
(`build/worker/worker.go:53`). For that reason `Ingestion` and `BuildPipeline` are
not composed.

The behaviours that are hard to get right: Redis calls of several goroutines
between a GET and the transaction that relies on it; key expiry between two
calls; lookups that fail and count as "not found"; a compensating delete that uses
a cancelled context; attempts of a queue that are cut short and repeated; a slice
walked through without the lock that guards it; counters read before they are
incremented; roles and keys that are stale when they are used.

## Modules

Every module has the same shape: constants with a named assumption, variables,
`TypeOK`, `Init`, one action for every call the code makes to Redis, Postgres,
Kubernetes, a provider or the queue, `Next`, `Spec`, and the properties. A request
is a record with a program counter that names the call it makes next, so that
requests interleave between any two calls and never inside one. Operators whose
comment begins with "Faulty variant" are plausible mistakes; no specification
uses them, and each shows that some property would notice. The `MC` modules give
the instances: constants that are records or functions, and symmetry sets.

### RefreshTokens and SessionRegistry

`data`, `life` and `index` are Redis: the payload of each token, the remaining
TTL of its key and the set `rftw:rt:user:<id>` with its own TTL. A token stands for
its hash; tokens are numbered in the order of their `created_at` stamps. `req[c]`
is the call goroutine `c` serves. `Issue`, `IssueExec` and the `Enforce...`
actions are `Issue` with its tail `enforceMaxSessions`; `Rotate`/`RotateExec`,
`Revoke`/`RevokeExec` and `RevokeAll`, `RevokeAllSMembers`, `RevokeAllExec` are
the other calls; `Verify` only changes state when the fingerprint differs. A
`TxPipeline` is one atomic step. `SAdd`, `SRem`, `Expire`, `Age` are the Redis
commands with their effect on TTLs (SADD keeps a TTL, SREM of the last member
deletes the key). `CallFails`, `ReplyLost` and the `Enforce...Fails` actions are
Redis errors: an error either did not reach Redis or lost its reply, and
enforcement drops its errors as the code does. `stored`, `evicted` and
the field `targets` are history.

`SessionRegistry` is what callers may rely on: tokens of a user are opened,
exchanged for new ones of the same user, and ended for good. The refinement maps
`valid[u]` to the live tokens of `u` and `dead` to the written tokens that are gone.

Abstraction: payload bytes, hashing and randomness (tokens are fresh); the
session ID, which no step reads. Assumption: one clock orders the `created_at`
stamps, also between servers.

### Sessions

Extends `RefreshTokens` with its callers. `h[c]` is the handler of goroutine `c`,
`jar[b]` what client `b` keeps (cookies after a login through a provider, tokens
in its own hands after a login by e-mail), `role` the membership. A handler calls
the store by the store's own actions (`IssueFor`, `RotateWith`, `RevokeToken`,
`RevokeAllOf`) and goes on when they return: `issueTokenResponse`,
`issueTokensAndRedirect`, `RefreshToken` (with `RotateReturns`, `GetByID`, `Sign`),
`Logout`, `LogoutAll`, `HTTPLogout`. Fingerprints are the client and the address
as each handler computes it; cookie paths are matched by the browser. Access
tokens carry the role read when they were issued and expire; `SessionsTick` is
a few minutes, `Expires` a day, in which the keys of the store age. `aged` and
`unlisted` (tokens that were alive when they lost their entry in their owner's index)
are history.

### EmailOTP

One e-mail address. `made`, `stored`, `attempts`, `used`, `expired` are the
challenges. `Issue`, `DeleteByEmail`, `Create` are RequestOTP; `Verify` is
`GetByID` with the tests and the comparison that follow without a call, and
`Increment`, `Lockout`, `MarkUsed` are the calls after it. Errors that the code
drops are dropped. `OTPRepository` has no implementation under `src/internal`; its
operations are taken to be atomic and to behave like the in-memory one of
`generator_test.go`. A code is right or wrong; mail and rate limit leave no trace
in the modelled state. The user that VerifyOTP looks for or creates is part of
`OAuthLogin`. `tries` and `accepted` are history.

### OAuthLogin

`opened` and `states` are the state tokens (`AuthURL`, and GETDEL in `Callback`),
`users` the rows with their unique indexes, soft deletion included, `req[r]` a
login between its calls: `Exchange` of the code, `GetByProviderID`, `GetByEmail`,
`Create`, and `Touch`, the update of the last login with the token stores after it. Either provider's own order of lookups
is kept, and lookups that fail fall through as in the code. `email[a]` is the
address the provider knows an account by, which may change once; `Lower` is SQL's
LOWER. `had`, `into` and `uses` are history.

### GoogleKeys

`cache` is `jwksCache`, `writer` the holder of its write lock. `Read` looks under
the read lock, `Lock` looks again under the write lock, and `Answer`, `Store` or
`FetchFails` go on with the lock held; `Validate` uses the keys. An answer that is an error
document is stored as an empty key set, as the code does. Google publishes a key
at least `Lead` before it signs with it; that `Lead` is at least the lifetime of
the cache and the way of an answer is an assumption about Google.

### RateLimiter

`zset` and `life` are the sorted sets and their TTLs. `Request` reads the clock,
`Exec` is `check` with its MULTI (`Tx`) and its comparison (`Over`); in between,
requests overtake each other by up to `MaxDelay`. Entries are clock readings, so that two requests with the same reading
share one. When Redis fails the request is let in (`ExecFails`). `extractIdentifier` and
`Limit` choose the key and the limit. `allowed` and `seen` are history.

### BuildPipeline and Detection

`task` is the queue's record of a job (asynq is external: `Start`, `Retry` and
`Abandon` follow `BuildJobOptions`), `exec` the attempt in progress, `builds` the
table, `kaniko` the Kubernetes jobs. `Create` ... `MarkCompleted` are the steps of
Execute and Launch in order, with `CreateFails`, `LaunchFails`, `PollFails` and the
failing branch of each write. `Abandon` is the task's deadline, after which every
call of the attempt is refused, or a crash. `Panic` is the slice of a short commit
SHA, `DetectPanics` the nil file information after an `os.Stat` error other than
"not there". `ErrorText` and `SkipRetry` model the comparison in `worker.go:35` by
what it does: the text of a wrapped error never equals the bare text. Build IDs
are seconds of the clock, because all jobs of the model share the workload's
prefix. `cut` is history.

`Detection` has the pure part: a directory maps names to what the patterns of
Detect find in the files, `Detected` is the order of its tests, `Templates` are the
languages that the generator has a text for, and `Generated` says when it succeeds. The
clone is simulated in the code, so that an attempt may find any directory. The
generated Dockerfile is not written anywhere ("Would write dockerfile"), so that which
files a template copies has no effect and is left out.

Abstraction: log lines (`LogBroadcaster`), the search for the pod, frameworks,
ports, commands and confidence.

### LogBroadcaster

One build. `arr` and `hdr` are Go's slice: backing arrays and the header (array,
length); `append` grows by doubling. `Publish` copies the header under the read
lock, `PublishSend` reads one element of the array without the lock and sends.
`Unsubscribe` takes the lock, `Move` moves one element (a word of memory) at a
time, in any order, and `Unsubscribed` stores the shortened slice. That is the
data race between lines 68 and 90 as a choice over what a reader may see.
`Send` is the three-way select. No operation empties a channel: the interface
`Subscriber` has none. `MarkComplete` takes the lock and changes nothing that the
model has.

### Ingestion

`workloads` and `credentials` are the tables with the UNIQUE and foreign-key
constraints of the migrations, `tasks` the queue. The columns are those that the
statements of `ingestion/adapter/postgres/queries.go` name. They include
`workloads.primary_provider` and `credentials.credential_type`, `key_version` and
`rotated_at`, which `001_workloads.up.sql` and `002_credentials.up.sql` do not create and
the schemas of the repository's own tests do (`testhelper_test.go` beside the queries,
`tests/integration`); on a database made by these two migrations alone every insert of
ingestion fails, and the model is of a database that has the columns. The keys and
constraints are the same in all of these schemas. `Call` says how a call ends:
done, refused (no effect, an error) or lost (the effect, and an error); a
cancelled context refuses every later call. `FindByName`, `Save`,
`EnqueueProvisionJob`, `Rollback` are SubmitWorkload; `FindByID`,
`SaveCredential` are AddCloudCredentials; `GetSecret`, `FindHook`,
`EnqueueBuildJob` are the webhook. `Crash` ends all requests in progress. A
submission carries a descriptor with the fields that `Validate` tests; a credential
request has credentials or none; a webhook has a signature that is right, wrong or
missing.

## Runs

Passing runs:

| Run | Instance | What it shows |
|---|---|---|
| `token_races` | 2 goroutines, 1 user, 2 fingerprints, 3 tokens, limit 1, TTL 1, 2 Redis errors | `RotationSwaps`: once a successor is written the token is dead. `EvictsOnlyOldest`: enforcers on stale snapshots never log out a recent session. `ImplementsRegistry`: the store refines `SessionRegistry`. |
| `token_logins` | 2 goroutines that issue, verify, revoke; 3 tokens, limit 1, TTL 2; fair | `AtMostMaxSessions` whenever both are idle; `EveryTokenDies`, `EveryRequestReturns`. |
| `sessions` | 2 goroutines, 2 clients (one behind a proxy), 3 tokens, limit 2, TTL 2, 1 Redis error or passing days, roles ADMIN and none, access tokens of 1 tick | The handlers over the store: `LogoutEnds` says what a logout has ended, `EntryLost` how a live token may lose the index entry by which LogoutAll finds it; `ProxiedNeverMismatch`, `AuthorizedRecently`. |
| `otp_races` | 2 clients, limit 2, 3 challenges, 1 failed call | `GuessesBounded`, `UsesBounded`, `ChallengesBounded`: the limits up to the requests in flight and the failed calls. `LatestStored`: when the last code is still good. |
| `oauth_logins` | 2 requests; accounts at GitHub, Google and an address, of one person or of two; 2 states, 1 failed call, 1 change of address; fair | `OneLoginPerState`, `LoggedInAsSelf`, `SameUserAgain`, `EveryCallbackReturns`. |
| `google_keys` | 2 callers, 2 keys, TTL 2, delay 1, 7 instants, 1 error document; fair | `GoodTokenAccepted`, `WithdrawnForgotten`, `OneFetchPerTTL`, `EveryValidationReturns`. |
| `rate_limit` | 2 goroutines, 2 clients with one key, window 4, limit 2, delay 1, 7 instants, 1 Redis error | `WindowBound`, `RefusedOnlyIfBusy`. |
| `build_races` | 2 jobs (one with a short SHA), 1 retry, 3 seconds, 1 error, 4 source directories, deadlines and crashes; fair | `OneWriter`, `StatusForward`, `SucceededMeansPushed`; `EndedIsTerminal`, `NoOrphanJob` for every build that was not cut short; `FailedForAReason`: detector and generator agree; `EveryJobEnds`. |
| `log_churn` | 3 subscribers, buffers of 2, 3 lines; fair | `ListExact`, `NeverNil`, `UndisturbedGetTheLine`, `PublishReturns`. |
| `ingest_races` | 3 requests, 1 name, 10 descriptors on both sides of every limit, 1 refused call or lost reply for each request, 1 cancellation, 1 crash; requests are symmetric | `UniqueNames`, `AcknowledgedIsProvisioned`, `CredentialsOwned`, `SavedIsProvisioned`, `QueuedIsStored`. |

Runs that show a disagreement between the code and its documentation:

- `token_refresh_race`: two overlapping refreshes with one token both succeed
  (`OneLiveSuccessor` is violated), although the package comment promises that
  rotation prevents this race.
- `log_departure`: a subscriber that leaves while a line is published makes
  Publish skip another one (`AllGetTheLine` is violated).

Other departures are stated as the condition under which the promise holds:

- `AtMostMaxSessions` is about tokens that are issued, verified and revoked one by
  one, while Redis answers. Enforcement sees only the tokens in the index: RevokeAll
  deletes the entry of a token issued meanwhile, and the index dies before a rotated
  token, because Rotate does not renew its TTL. For that reason `token_logins` has
  no Rotate.
- `LogoutEnds` is about calls of Logout and LogoutAll that met no Redis error, since the
  handlers answer "success" after one as well; other requests, and their errors, may
  overlap. For LogoutAll it excepts the tokens in `unlisted`, which have lost their entry
  in the index. `EntryLost` lists the ways to lose it: the index expires before a
  token, because Rotate does not renew its TTL; a RevokeAll deletes the whole index, with
  the entry of a token that was written after the call began; enforceMaxSessions takes a failed
  GET for an expired token. The run reaches each of them.
- The code leaves sessions alive that no client knows: RefreshToken rotates before it
  looks at its claims and for the user, and does not return the new token if that fails; `/auth/logout` is
  not sent the refresh cookie, whose path is `/auth/token`; a new login replaces the old
  tokens. The model has these steps; no property says otherwise.
- `ProxiedNeverMismatch` is about clients behind a proxy. Without one, the login by
  e-mail and the refresh compute different addresses, and the first refresh is
  taken for another client.
- `AuthorizedRecently` is about `NewRequireRole`, which no route uses at present;
  the run has the roles ADMIN and none, the theorem has any.
- `GuessesBounded`, `UsesBounded`, `ChallengesBounded` add the clients and the failed
  calls to the documented limits, because counters are read before they are
  incremented and errors are dropped. `LatestStored` excepts a lockout, which deletes
  by address and not by challenge.
- `SameUserAgain` excepts addresses that change or are spelled in two ways: UNIQUE is
  case-sensitive, `GetByEmail` is not.
- `GoodTokenAccepted` excepts the time while the cache holds an error document: the
  status of the answer is not looked at. `WithdrawnForgotten` is about the cache: a
  validation that has read the keys goes on with them while the cache is replaced.
- `WindowBound` is about windows shortened by `MaxDelay`, and counts clock readings;
  requests that went through because Redis failed are not counted.
- `SavedIsProvisioned` excepts requests whose client went away, because the
  compensating delete uses the request's context, a lost reply, and a failing delete.
- `QueuedIsStored` excepts a provision job whose enqueue lost its reply: SubmitWorkload
  takes that for a failure and deletes the row. It excepts a build job of a workload
  whose submission failed or was cancelled: the webhook may find the row just before
  it is rolled back.
- The properties of `build_races` about ended builds except those in `cut`: failBuild
  writes with the context whose deadline has passed, a panic writes nothing, and
  Execute drops the errors of its last writes.

### Bounds, and why they are enough

`MaxTokens`, `MaxChallenges`, `MaxStates`, `MaxKid`, `MaxTime`, `MaxLines` bound
counters that grow without limit in the code; `MaxFaults`, `MaxFailures`,
`MaxCancels`, `MaxCrashes`, `MaxChanges` bound what goes wrong. Two goroutines suffice
for every race between a read and the transaction relying on it, and three tokens
let a rotation or an eviction happen while another one is in flight. In `sessions` the
constraint `OneTrouble` keeps troubles apart: roles change while no day passes, no call
to Redis fails and requests do not overlap; days pass while Redis answers; a third token
is written only for clients behind a proxy, and then either requests overlap or a day
passes or a call fails.
The theorems about the handlers have no such bound. In `otp_races`
one client is locked out by the other's requests, and a third challenge is made
while two are stored. In `oauth_logins` two first logins of one person through two
providers overlap, and one account changes to another spelling or another person's
address. In `google_keys` the cache turns over three times, while a key is published and
used and the one before it is withdrawn. In `rate_limit` the instants cover a window and a
half, so that entries leave it. In `log_churn` three subscribers make the slice grow
from 1 to 2 to 4 elements, and removal in front of, at and behind Publish's index
all occur. In `ingest_races` two submissions of one name overlap with a credential
or a webhook. The four directories of `build_races` are a Dockerfile beside another
manifest, a directory with the name of a Dockerfile, a file that tells nothing, and
a Python project with an odd version. Limits of one session and two wrong codes are
reached within these bounds. All safety properties of these runs are backed
by proofs without any bound; what the runs add is that the cases really occur.

Deadlock is not checked where everything may stop: all subscribers, requests or
clients may be done, or the clock has reached its bound (`LogBroadcaster`,
`Ingestion`, `EmailOTP`, `OAuthLogin`, `RateLimiter`, and `token_refresh_race`, whose
tokens run out).

### Fairness

- `RefreshTokens`: the clock advances and a goroutine that serves a request goes on
  (Go's scheduler, Redis calls that return or time out). Nothing makes a client
  send a request.
- `BuildPipeline`: asynq hands out a task that waits, and gives up an attempt that has
  not ended, which `asynq.Timeout(30m)` guarantees. Neither workers nor Kubernetes
  need go on.
- `LogBroadcaster`: the goroutine of the build goes on, and so does one that holds
  the lock.
- `OAuthLogin`: a request goes on after the provider's answer; GitHub need not
  answer, because the callback sets a timeout of 30 seconds; Google answers or the
  browser goes away, because that callback sets none.
- `GoogleKeys`: strong fairness of the two lock operations, since Go's RWMutex admits
  a waiting reader or writer in the end, and weak fairness of the steps in between;
  Google answers or the fetch fails.

The other specifications have no liveness property and no fairness.

## Proofs

TLAPS checks the following for every value of the constants that satisfies the
named assumptions of the modules.

`SessionsProofs` is about the store and its callers. The inductive invariant `Inv` of
the store is `TypeOK`, `StoreOK`
(only generated tokens were ever written, only written ones are valid or evicted),
`IndexOwned`, `DistinctWrites` (two requests in flight never write the same new
token) and `RequestOK` for every request (what a request in flight remembers about
its token was true when it was read and remains true; the token it is about to
write is not written). That makes `NoResurrection` follow: a transaction writes only
a token that nobody has written. Theorems about the store:

- `TypeCorrect`, `OwnIndexOnly` (`IndexOwned`), `DeadStaysDead` (`NoResurrection`).
- `RotationIsASwap` (`RotationSwaps`, strengthened by: a written token whose successor
  is written is not in the store, and stays so because dead tokens stay dead).
- `OnlyOldestEvicted` (`EvictsOnlyOldest`: the tokens a request has seen were written
  for its user, so the ones younger than the oldest are witnesses).
- `StoreIsARegistry`: `Spec => ImplementsRegistry`. A step that writes no token ends
  some or none; the EXEC of Issue opens one; the EXEC of Rotate exchanges one, for the
  owner of the old token (`OwnRotations`, an invariant of its own).
- `LoginsAreLimited` (`AtMostMaxSessions`) has the hypothesis `LoginsOnly`, which is the
  condition above: no Rotate, no RevokeAll, one fingerprint, no Redis error. Its
  invariant `Limits` says that the index covers every live token and does not expire
  before it (`Covered`), and that a user with too many tokens is being watched
  (`Limited`): some enforcer has yet to read the index, or its snapshot holds every
  live token (`Watches`). The enforcer that began last sees all of them, so however
  many run at once, the last one to end leaves no more than the limit.

The callers have the invariant `SessionsInv`: `Inv`, `SessionsTypeOK`, and that
the role somebody has now has age 0 in `aged`. `HandlerOK` says what a handler in
flight has established: the token that it waits for carries the fingerprint of its own
client (`Own`), and the role it read is no older than the request. `JarOK` says the
same of what a client keeps, with the time an access token has left to live. No
step of the store changes the fingerprint of a token that was generated, which is
what the lemma `StoreStepFacts` is for.
Theorems: `SessionsTypeCorrect`, `ProxiedAreRecognised` (`ProxiedNeverMismatch`),
`RolesAreRecent` (`AuthorizedRecently`), and

- `LogoutEndsSessions` (`LogoutEnds`) and `EntriesAreKept` (`EntryLost`), for any number of
  overlapping requests. The invariant is `LogoutInv` (`LogoutInvariance`). `Listed`: the index of its
  owner lists every valid token but those in `unlisted`. `LoginsCovered`: an index lives as long as
  each token in it that came from a login, because Issue renews its TTL. `Targets`: what
  RevokeAll is to end and is still valid and listed is in the snapshot it has read, however
  the index has changed since, and an entry that enforcement is about to remove belongs to
  a dead token or a call has failed. Each step of
  `SessionsNext` is seen as one of four (`SessionsSteps`): a call of the store begins,
  goes on or returns, a day passes, or the store does not change.

`IngestionProofs`. `Inv` is `TypeOK`, `UniqueNames`, `CredentialsOwned` and
`RequestOK`: a request is at a step of its own operation and has no answer before
it is done, a submission about to enqueue its provision job has its row in the
table, and an acknowledged one has row and job. Rows are deleted by the request
that made them only, which is why another request's rollback cannot take an
acknowledged workload away. Theorems: `TypeCorrect`, `NamesAreUnique`,
`CredentialsHaveWorkloads`, `SuccessIsDurable`. `RollbackIsEnough`
(`SavedIsProvisioned`) has an invariant `Rows` of its own, which relates the row of a
request to its step and to the failures of its calls so far. `JobsHaveWorkloads`
(`QueuedIsStored`) has the invariant `Queue`: a submission with a provision job has its
row or lost a reply, one that rolls back has failed or was cancelled, and what a webhook
found is there or belongs to such a submission. It is kept since only the submission
itself deletes its row, and failures are not forgotten.

`EmailOTPProofs`. `GuessesBounded` is not inductive. `Accounted(c)` says that the
wrong codes compared with a stored challenge are at most those counted, those of
requests that have yet to count (`Uncounted(c)`) and the failed calls; since Verify
compares a code only below the limit, the bound follows with at most one
uncounted request for each client. `Counts` does the same for stored challenges
(stored, and about to be stored, against clients and failed deletions) and for
uses. Theorems: `TypeCorrect`, `GuessesAreBounded`, `UsesAreBounded`,
`ChallengesAreBounded`, `NeverRevived` (`NoRevival`). `LatestIsKept` (`LatestStored`)
needs the converse of `Accounted`, that every counted attempt was a comparison
(`Compared`), that a request about to lock out has seen a challenge at its limit
(`Limited`), and, with one client, that this challenge is the last one (`Alone`).

`GoogleKeysProofs`. `SentBetween` says of a set of keys that Google sent it within
some time: it has every key published before and not withdrawn, and none withdrawn
before. `CacheOK` states it of the cache, `CallerOK` of the answers on their way;
whoever fetches holds the lock, under which the cache stays outdated. Theorems:
`TypeCorrect`, `GoodTokensPass`, `WithdrawnKeysForgotten`, `FetchedOnce`. They rest
on the assumption about `Lead`.

`RateLimiterProofs`. `KeyOK`: entries were seen and outlived by their key, and the
reading of a request that was let in is an entry unless a window has passed since.
So a later request counts all of them, whether or not it was overtaken. Theorems:
`TypeCorrect`, `WindowsAreBounded`, `RefusalsAreDue`.

`BuildPipelineProofs`. `Inv` has what an attempt knows of its row and its Kubernetes
job (`Fits`), what is true of a row whoever works on it (`RowOK`), and `OneWriter`,
`EndedIsTerminal`, `NoOrphanJob`. `OneWriter` is what makes the others inductive: no
other attempt changes the row that `Fits` speaks of. Theorems: `TypeCorrect`,
`RowsHaveOneWriter`, `SuccessIsPushed`, `EndedRowsAreTerminal`, `JobsAreWatched`, `StatusesAdvance`. `Dirs` says what attempts remember of their source
directories; with lemmas about `Detected` for every directory it gives
`FailuresHaveReasons`, for all directories and not only the four of the run.

`OAuthLoginProofs`. `Inv` has `StatesOK` (a state is in Redis, with one request, or
used up), `AddressOK`, `LoggedInAsSelf` and `Fits` (what a request in flight has
established). `RowsOK` adds that every row was made for some account with an address
of it and that the unique indexes hold; an account whose address did not change can
then only reach the one row with that address. Theorems: `TypeCorrect`,
`StatesAreSingleUse`, `NobodyElse`, `OneUserPerAccount`.

`LogBroadcasterProofs`. `Exact` says of the slice, or while its elements move of the
slice as it was before, that it lists every subscriber once and that its length is
their number. `Shifting` says what the array holds between two moves: the elements
behind the one that leaves are moved or not moved yet, in any combination. `Walk` says
of Publish that the array it walks through holds subscribers only, also when `append`
has made another array since. `Undisturbed` says that until somebody leaves, whoever
was there when the line came is served or still ahead. Theorems: `TypeCorrect`,
`ListIsExact`, `NilIsNeverMet`, `UndisturbedDelivery`.

The type invariants, `IndexOwned`, `NoResurrection` and `NoRevival` are proved and are
in no run.

Only model-checked: all liveness (fairness and ENABLED are outside the prover's
reach). The two runs that
show a disagreement are counterexamples; there is nothing to prove.

## Not modelled

Consensus, replication, provisioner and health are stubs: `docs/ARCHITECTURE.md`
describes a Raft cluster that the code does not contain. Encryption and
signatures are functions without state. `SessionRepository` has no writer;
`WorkloadRepository.UpdateStatus`, `k8sLauncher.Cancel`, the registry pusher and the
Redis log broadcaster have no caller. Log lines in Postgres are inserted one by one
by the only writer of a build, and errors are dropped. The health probes of the
worker and the list operations only read. The dashboard shows made-up data. The
CLI, metrics, tracing, security headers and wiring do not change the state the
properties speak of. Mail, formatting and the wording of responses are left out.

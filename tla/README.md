# Verification of Idenplane

Idenplane is an identity and access management server: a NestJS application over
PostgreSQL (through Prisma), with an optional Redis, run as one or several server
processes. This directory holds TLA+ modules that model the parts of it in which
concurrency, failure and time decide whether it is correct, TLC configurations that
check them on small instances, and TLAPS proofs of the most important properties for
every value of the constants. Paths below are relative to the repository; the server
is under `src/`, the schema in `prisma/schema.prisma`.

`PROJECT.json` is the index: components, runs, the source lines behind every
definition, mutants (a plausible bug for every checked property, which the run must
find), findings, hazards and theorems.

## 1. The system

### Where the difficulty lies

A request handler is an `async` function whose `await`s are almost all database
statements. Nothing holds a lock across two of them, so between any two statements of
a handler every other request, timer or server process may run. Transactions are used
in few places (`recordFailure` is serializable, `revokeAllUserSessions` is one
`$transaction`). What keeps the system right is a small set of idioms, and most
properties here are about whether an idiom is applied where it is needed:

* the conditional update whose row count is the decision (`updateMany` with
  `used: false`, with `attempts < max`): authorization codes, MFA attempts, SMS guesses;
* the delete that is the claim (`deleteMany(...).count === 1`): MFA challenges,
  enrolment tokens, SMS codes, device codes, verification tokens;
* log first, count afterwards, so that a burst cannot pass a count taken before;
* read, decide, write with no condition: refresh-token rotation, the session limit,
  recovery code sets, the webhook queue. Here two requests can both decide.

Other sources of difficulty: timers (`@Interval`) that sweep the tables under running
requests; three stores for one fact (database, Redis, process memory) that fail
separately; foreign keys with `onDelete: Cascade`, which delete more than the
statement says; failures between two statements, which leave the first one done.

### Inventory

| Component | State | Operations | Hard behaviour | What makes it correct |
|---|---|---|---|---|
| Token endpoint `auth/` | `authorization_codes`, `sessions`, `refresh_tokens` | the grants, session limit, rotation, reuse detection | races of exchanges, rotations and evictions | a code gives one session; a token has a session, belongs to its client, is spent when rotated |
| Tokens `tokens/` | the same; blacklist in three stores | revoke, introspect, logout, back-channel logout | logout under a grant in flight; fallback and loss of stores | nothing of an ended session can be presented |
| Sessions `sessions/` | the same | admin revocation, hourly cleanup | sweeps with a cutoff read once | expired sessions go, nothing else does |
| OAuth `oauth/` | `authorization_codes` | authorize, five-minute sweep | sweep under an exchange | as above |
| SMS codes `sms/sms-otp.service.ts` | `otp_attempts`, `sms_delivery_logs` | send, resend, verify, cleanup | bursts of sends and guesses, rows deleted and recreated | caps per user, phone, address, realm; budget of guesses and sends; single use |
| MFA `mfa/` | `pending_actions`, `used_totp_codes` (+Redis, memory), `user_credentials`, `recovery_codes` | challenges, TOTP check, recovery codes, enrolment | racing answers, store outages, restarts | attempt budget, one sign-in per challenge, no replay, recovery codes once |
| Account and login pages `account/`, `login/` | SSO login sessions | TOTP/SMS setup, disabling, paused sign-in | two tabs, two factors at once | a factor is active only if proven; a paused sign-in needs a factor and ends once |
| Brute force `brute-force/` | `login_failures` and two sister tables, `users.locked_until`, `enabled` | check, record, reset, unlock, cleanup | check-then-verify gap, resets racing locks | guesses under a lock bounded; permanent means permanent |
| Webhooks `webhooks/` | `webhook_events`, `webhooks`, `webhook_deliveries` | dispatch, scheduler, retries, test | overlapping schedulers, crash in delivery, stale attempt count | at-least-once, bounded retries, every event settles |
| Device grant `device/`, `auth.service.ts` | `device_codes` | initiate, approve, deny, poll | poll racing approval and denial | one grant per approved code, none after a denial |
| Magic links, verification and reset tokens, pending consents, invitations | `magic_link_requests`, `verification_tokens`, `pending_actions`, `organization_invitations` | create (replacing earlier ones), redeem, expire, sweep | double redemption, replacement and sweep under a request | single use, or at least none after the answer |
| Blacklist `tokens/token-blacklist.service.ts` | database, Redis, memory | add, check, rehydrate | outages, restarts | a revoked access token stays revoked |
| Passkeys `webauthn/` | challenges in `pending_actions`, `webauthn_credentials` | options, register, sign in, remove | a challenge shared by requests, read and deleted separately | one sign-in per challenge, the counter never falls |
| SSO login sessions and step-up `login/`, `step-up/` | `login_sessions`, `step_up_records` | sign-in with the session limit, silent SSO, step-up, admin actions that need a recent factor, sweeps | a session deleted, expired or its user disabled while its cookie is being used; parallel sign-ins | a code claims no level its user has not proved; the limit holds up to the requests in flight |
| Impersonation | OAuth session rows | start, end | not limited, see section 6 | |
| Upgrade `upgrade/` | `upgrade_audit_log`, an in-process flag, backup files | validate, back up, migrate, check, roll back | failure and crash at every step, several instances | what it reports is true, and there is a way back |
| NHI and service accounts `nhi/`, `service-accounts/` | credentials, grace periods | create, revoke, rotate, schedule | rotation overlapping rotation, cut off halfway | no gap without a usable key, old ones end |
| API-key guard | Redis sorted set, daily counter, `request_count` | check per minute, day, month | counting and adding apart, unawaited updates | limits with a known overshoot |
| Policy engine, auth flows, groups and roles | none or trees | pure evaluation | combining rules, cycles | equals a reference definition |
| Rate limiter `rate-limit/` | Redis windows, `rate_limit_entries` as fallback | check, undo, sweep | undo of rejected requests, window turn, Redis going away | limit per window, no drift |
| Configuration and CRUD (realms, clients, scopes, users, SCIM, SAML, LDAP, brokering, themes, plugins, importers, GraphQL, metrics, admin console, SDKs) | rows | CRUD, conversion, I/O | little | out of scope here |

Interaction: the components share tables rather than messages. `AuthService` calls
`BruteForceService` before and after a password, `MfaService` for challenges and
`SmsOtpService` for codes; the login pages do the same for browser sign-ins; all of
them call `WebhooksService.dispatchEvent`, which only inserts a row. The timers read
and delete rows of every component.

## 2. Modules

| Module | Models | Composition |
|---|---|---|
| `TokenLifecycle` | token endpoint, revocation, logout, admin session API, both sweeps | the four services composed on the tables they share |
| `SmsOtp` | `SmsOtpService` and the wipe by `MfaService.disableSms` | |
| `FactorEnrolment` | enrolment, recovery codes, disabling, the paused sign-in | `MfaService` with the account, MFA admin and login controllers |
| `MfaChallenge` | challenges, attempts, the used-code stores | `MfaService` on several instances with Redis |
| `WebhookQueue` | outbox and scheduler | `WebhooksService` with `WebhookSchedulerService` |
| `SingleUse` | abstract: what a one-time credential promises | |
| `OneTimeCredentials` | verification, reset and change-password tokens, magic links, device codes, consent requests, invitations | implements `SingleUse` for the kinds claimed by DELETE |
| `BruteForce` | `BruteForceService` with the sign-in around it | |
| `UpgradeRollback` | upgrade, rollback and backup services | several instances on one database |
| `MachineCredentials` | keys of non-human identities and service accounts | both services with the rotation schedulers |
| `RateLimiter` | `RateLimitService` | Redis and the fallback row |
| `ApiKeyGuard` | the limits of one API key | the guard with `validateApiKey` |
| `LoginSessions` | SSO login sessions of a user, step-up records, and what their cookie is good for | `LoginService`, `LoginFlowService`, `StepUpService` with the OAuth, step-up and admin controllers |
| `TokenBlacklist` | revoked access tokens | instances, Redis and database |
| `Passkeys` | `WebAuthnService` | |
| `MCOperations` | instance of `BruteForce`, `UpgradeRollback`, `MachineCredentials`, `RateLimiter`, `ApiKeyGuard`, `TokenBlacklist`, `Passkeys` | their sum, see section 3 |
| `MCSignIn` | instance of `FactorEnrolment`, `MfaChallenge`, `LoginSessions` | likewise |
| `TokenLifecycleProofs` | theorems and proofs about `TokenLifecycle` and `LoginSessions` | extends both; they share no state |
| `SmsOtpProofs`, `FactorEnrolmentProofs`, `MfaChallengeProofs`, `WebhookQueueProofs`, `OneTimeCredentialsProofs` | theorems and proofs | each extends its component's module, the library's theorem modules and TLAPS |
| `OperationsProofs` | the same for `BruteForce`, `MachineCredentials`, `UpgradeRollback`, `RateLimiter` | extends the four; they share no state, and the theorems are about each one's own specification |
| `CredentialProofs` | the same for `TokenBlacklist`, `Passkeys`, `ApiKeyGuard` | extends the three, likewise |
| other `MC...` | instances for TLC: symmetry sets, constant functions, profiles | extend their component's module |

### Conventions

One action is one database statement or one transaction: a handler is a sequence of
actions of a process `r` (a request) that remembers in `req[r]` (`ans[r]`, `lr[r]`, `ak[r]`
and so on) what the code keeps in local variables. `Abort(r)` ends a request between two steps, for a statement that
throws or a server that stops. Rows are functions from small ids; ids grow in creation
order, so `createdAt` order is id order. Clocks are integers with a bound `MaxTime`;
where only "expired or not" matters an action of its own expires the row. Values no
property looks at (user names, scopes, JWT contents, addresses) are left out, and
cryptography is perfect: a code or secret is its number. Variables marked *history* do
not influence any step. Mutants stand directly before the definition they mutate.

### TokenLifecycle

`codes`, `sess`, `tok` are the three tables. A grant runs
`CodeClaim | CredentialGrant | ServiceGrant` → `LimitRead` → `EvictRevoke` →
`EvictDelete` → `CreateSession` → `IssueToken`; the service-account grant creates
first and trims afterwards (`ServiceTrim...`). `CodeClaim` is
`handleAuthorizationCodeGrant` up to its conditional update and the checks after it: a
request failing those has consumed the code. `RefreshRead` → `Rotate` → `IssueToken`
is the refresh grant, with the unconditional update in `Rotate`; `RefreshReuse` →
`ReuseRevoke` is reuse detection. `LogoutRead` → `EndRevoke` → `EndDelete` is
`endSession`. `DeleteSessions` includes the cascade to `refresh_tokens`, and
`IssueToken` fails when the session is gone (foreign key). `Cleanup` is the hourly
job, one statement per step, with the cutoff it captured in `cron`.

### SmsOtp

A challenge is a flow token (`Bindings`) with at most one `otp_attempts` row. `SendRead`
→ `SendLog` → `SendCount` per bucket (the four counts run in parallel) → `SendStore`
(conditional update or unique insert) → `SendDeliver`; `VerifyRead` → `VerifyReserve` →
`VerifyClaim`. `Cleanup` deletes rows a retention time after their expiry. A row may
therefore disappear and be recreated; the budget properties say that this never hands
out a fresh budget to an open challenge.

### FactorEnrolment

One user's authenticator secret, phone and recovery codes, and the enrolment tokens of
paused sign-ins. `SetupRead/Delete/Create` is GET totp-setup, `ActivateRead/Write` the
POST, `SmsActivate` the SMS one; both go on to `EnsureCount`, `GenDelete`, one
`GenCreate` per code, and `Mark`. `ContinueClaim`, `ContinueSignIn` finish the paused
sign-in. `SelfDisableRead` and `AdminDisable` lead to `Drop`, `FactorsLeft`, `Wipe`.

### MfaChallenge

`CreateCount`, `CreateChallenge`; then `Reserve` (the attempt), `ReadBack`,
`CheckCache`, `CheckDb`, `MarkDb`, `MarkCache`, `Claim`. `up` and `ok` are the state of
Redis and the outcome of a statement, chosen anew at every call; `Restart(i)` empties an
instance's memory. The time unit is a TOTP period, and a code is valid one period early
and late, as `window: 1` says.

### BruteForce

One account. `Check` (user row read, lock looked at), then `RecordFailure` (the
serializable transaction) or `PasswordOk` → `ClearFailures` → `ClearLock`. Failed
authenticator codes and passkeys take three statements. `Unlock` → `Forget` is the
administrator. `Cleanup` takes the three tables' deletes as one step: they touch
disjoint rows and nothing reads two tables at once.

### WebhookQueue

A worker is one run of `processQueue`. `ReadQueue` (findMany), `Claim` (updateMany, the
count ignored), and then per event a job: `ReadSubscribers`, one `Answer` per
subscriber in any order, `Close` or `CloseUnheard`. `Close` writes the attempt number
read before the posts plus one. The back-off is a flag: a retried row is not due until
`RetryDue`; the branch that gives up does not move `nextRetryAt`, so its row stays due.
`Crash` and `StatementFails` end a run or a job. The batch is any `BatchSize` due events
instead of the oldest ones.

### OneTimeCredentials and SingleUse

One table of rows with a kind. `ReplaceTokens` → `Create` is `createToken`, which deletes
the user's earlier tokens and inserts; `RequestLink` → `CancelPending` → `Create` is
`requestMagicLink`, which counts, cancels and inserts; `Store` is a kind whose creation is
one insert, `InitiateDevice` the device endpoint. Redemption is a read and then what the
code does: `Claim` (the DELETE whose loser throws) → `Apply` for e-mail, reset, device
and consent, where a consent page shown stores the request again (`Restore`);
`ChangeRead` → `ChangePassword` → `ChangeEnd` for the forced password change, which
deletes last; `VerifyLinkRead` → `Complete` and `AcceptRead` → `Accept` for the magic link
and the invitation, marked by an unconditional update. `DecideRead` → `Approve` or `Deny`
is the device page, and `Poll` → `SlowDown` or `RecordPoll` the polling with its interval.
The kinds in `Claimed` are mapped onto `SingleUse` (`AbsState`: *held*
between DELETE and effect, *void* if the request dies there); `ImplementsSingleUse` is
that specification. The other kinds promise less, which `NoLateUse` states: nothing
starts with a credential that has been answered, replaced, denied or has expired.

### UpgradeRollback

`UpgStart` and `UpgAdmit` are the two tests of `assertNoUpgradeInProgress`, before and
after its await; then come the stages of a run, each with its failures: `UpgInitialize`
(the audit row), `UpgValidate`, `UpgDump`, `UpgRecordDump` (the dump's entry on the row),
`UpgConfig`, `UpgMigrate` (`UpgApply` once per migration, each of which may fail and be
recorded as failed), `UpgHealth`, and `UpgComplete`, or `UpgRestore` and `UpgFail`.
`UpgManualRollback` and `UpgRollbackLast`
are the two endpoints; `UpgCrash(i)` kills an instance's requests and clears its flag.
Child processes are synchronous (`execFileSync`), so nothing else runs on an instance
during a migration, while other instances go on.

The database is the number of applied migrations, whether one is recorded as failed, and
`made`, the migrations whose new tables and types exist. `Creating` says which migrations
create some, `Referencing` whose new tables refer to older ones; both are constants.
`pg_restore --clean --if-exists` drops what is in the archive and nothing else
(`database-backup.service.ts:484`, `:538`), so a restore keeps `Leftover`, what was made
since the dump. Where that refers to an archived table, the DROP of the latter fails (there
is no CASCADE) and so does the whole restore (`--exit-on-error`, one transaction). A
migration whose tables exist already cannot be applied again (`UpgApply`).

### MachineCredentials, ApiKeyGuard, RateLimiter

`MachineCredentials`: `RotateRead` → `CreateSuccessor` → `Retire` → `MarkRotated` on
request; `ScheduleItem` → `ScheduleReread` → `CreateSuccessor` → `Retire` by a scheduler;
each may be cut off (`KeyAbort`). `RateLimiter`: `IncrMinute`, `IncrHour`, `UndoMinute`,
`UndoHour` in Redis, `Upsert`, `ResetMinute`, `ResetHour`, `DecideDb` in the row,
`RlFallback` from the one to the other at any command. The row restarts its window by a
statement of its own and is swept by another, so its limit can only hold for windows that
are not *contested* (history): started or swept while another request was being counted,
or swept in the very minute they began, which happens when a request that hung for an
hour sets `hourStart` back.

`ApiKeyGuard` follows one key. `AkRead` reads the row with its `requestCount`, then the
verification of the hash is awaited, and `AkValidate` sends off the update of
`requestCount` that nobody awaits (`AkUsageUpdate`, which may fail); `AkRefuse` is a wrong
key or an address outside `allowedIpRanges`. `AkTrim`, `AkCount`, `AkAdd`, `AkExpire` are the four
commands on the sorted set, all with the time read when the first is sent; then
`AkDaily` and `AkMonth`, and the failures that open a limit. The set's members are
unique (time and a random part, here the request's number), so `ZCARD` is a cardinality.
Redis drops the set as a whole at its `deadline` (in `AkTick`): a
member added to a set about to be dropped is lost with it, before its own EXPIRE.

### LoginSessions

One user in one realm. `sso` is `login_sessions`, `steps` is `step_up_records`. A sign-in
is `LsSignIn` (a password, a second factor or a passkey has been proved; a password alone
only where the realm requires no second factor) → `LsDrop` (the session of an earlier
cookie) → `LsFind` → `LsEvict` → `LsCreate` → `LsIssue`. A use of a cookie starts with
`LsBegin`, which takes the realm's `mfaRequired` as the cache of realms serves it, and
`LsValidate` (`validateLoginSession`; for a realm that requires a second factor and a
password session also `LsStepUps`). All callers then read the row a second time
(`LsLookup`), and go on to `LsAcr` → `LsIssue` (silent SSO at `/authorize`), to
`LsFactor` → `LsRecord` (the step-up controller) or to `LsAdmin` (removing a factor,
unlocking a user). `LsRevoke` is every deletion of sessions by an administrator or a
logout, `LsSweep` and `LsSweepSteps` the two timers, `LsSetUser` and `LsSetMfa` the two
settings. Levels are compared by strength, as `acrSatisfies` does. `since`, `dead`, `on`
and `earned` are history: they say what was true when the request was received, and which
records the session's own user earned. `LsAbort` also stands for a `prompt` parameter
that ends `/authorize` early.

### TokenBlacklist, Passkeys

`TokenBlacklist` follows one token: `BlRevoke` → `BlPersist` → `BlStore`, and `BlCheck` →
`BlCheckRedis` → `BlCheckDb`, where a hit in the database is copied to Redis or memory;
`BlRestart` rehydrates. `Passkeys`: `PkOptions` → `PkStore` replace the challenge of a
purpose; `PkBegin` → `PkLookup` → `PkClaim` (or `PkExpired`) → `PkUpdate` sign in. The
authenticator (`PkSign`) is external: it signs a challenge with the next counter value.

## 3. Runs

| Run | Instance | Shows |
|---|---|---|
| `tokens` | 2 requests, 2 clients, 1 user and 1 service account, 1 code, 4 sessions, 2 tokens, clock 0..2, limit 2, cap 1 | `CodeSingleUse`, `ClientBinding`, `TokenNeedsSession`, `ParentSpent`, `EvictsOldestFirst`; `OvershootBounded`: the limit is exceeded by less than the requests in flight |
| `token_cleanup` | 1 request, 2 sessions, clock 0..2, fairness | `ExpiredSessionsRemoved` |
| `sms` | 2 requests, 1 challenge, 2 buckets, 3 sends, clock 0..4 | `SendCap`, `ChallengeBudgets`, `SingleUse` |
| `sign_in`: enrolment | 2 requests that may be the user's or an administrator's, 2 secrets, 1 set, 1 enrolment token | `ActiveSecretProven`, `EnrolmentOnce`, `EnrolmentNeedsFactor`, `RecoverySingleUse` |
| `sign_in`: challenges | 2 requests, 2 instances, 1 challenge, 2 attempts, 3 codes | `AttemptBudget`, `OneSignIn`, `NoReplay` |
| `sign_in`: sessions | 2 requests, 3 sessions, limit 1, 1 step-up, lifetimes 1, clock 0..2 | `SsoOvershootBounded`, `SilentCodesProven`, `AdminNeedsRecentFactor` |
| `webhook_queue` | 2 workers, 1 event, 2 subscribers, 3 attempts (column: 2), 1 fault, fairness | `AtLeastOnce`, `OneJob`, `RoundsBounded`, `EventsSettle` |
| `one_time` | 2 requests, 1 user, 3 rows, clock 1..3, lifetime 1 | `ImplementsSingleUse` (refinement), `NoLateUse`, `LiveBounded`, `LinkRateBounded` |
| `operations`: locks | 2 sign-ins, 1 administrator, limit 2, permanent after 2, 4 failures | `ExtraGuessesBounded`, `PermanentLockHolds` |
| `operations`: upgrades | 2 requests, 2 instances, 2 migrations that both create tables, those of the second referring to older ones, the in-progress lock expiring | `UpgAnswerTruthful`, `UpgWayBack`, `UpgFlagMeansRunning` |
| `operations`: keys | 2 requests, 4 keys | `KeysNoGap`, `KeysSuccessorsBounded` |
| `operations`: rate limit | 2 requests, 1 per minute, 2 per hour, an hour of 2 minutes, 4 minutes | `RateCapHolds`, `RateNoInflation` |
| `operations`: API key | 2 requests at once, 7 in all, 1 per window, 2 per day and month | `ApiKeyLimits` |
| `operations`: blacklist | 2 instances, expiry 2, clock 0..3 | `RevocationLasts` |
| `operations`: passkeys | 2 requests, 2 challenges | `PasskeySignsInOnce` |
| `find_refresh_single_use` | 2 requests, 3 tokens | expected violation of `RefreshSingleUse` |
| `find_offline` | 1 request, 1 offline token | expected violation of `OfflineSurvives` |
| `find_upgrade` | 2 requests, 1 instance | expected violation of `UpgOneAtATime` |
| `find_required_acr` | 1 request, 1 session | expected violation of `RequiredAcrHeld` |
| `find_webhook_crash` | 1 worker, 1 event, 1 fault, fairness | expected violation of `ProcessingEnds` |

`operations` is one run over seven components, and `sign_in` one over three, that share no
state: `part`, chosen at the beginning, says which of them moves, and the others stay as
they are. A step of one cannot enable, disable or change a step of another, so every
behaviour of all together is as many independent behaviours, and their product would only
multiply the states. Request and instance names are one set, so that one symmetry serves
all parts.

Some runs restrict the next-state relation to *profiles*, stated in the MC modules, where
the unrestricted instance would be too large and the combinations left out add nothing
that a property could tell:

* `tokens` (`Profiles`, an action constraint): either codes and tokens of one session, with time, or up to
  four sessions without codes, tokens, time and the sweep, for the limits;
* `one_time` (`StaysBounded`, an action constraint): rows of one kind per behaviour, since no statement touches two
  kinds; verification tokens of different types may mix, since `validateToken` looks a
  token up without its type;
* `sign_in`, sessions (a conjunct of the step): either three sign-ins and nothing else, for
  the limit, or the cookies of up to two sessions made one after the other, with one
  request of each sort at a time, settings changed before the clock moves, and the second
  session at the beginning;
* `operations` (a conjunct of each part's step): failures of one second factor; keys of one owner, created at the
  beginning; Redis counting, the database counting, or one taking over from the other;
  the API key's sorted set with `requestCount` lagging behind and requests outside the
  rate limit going on first, or up to four requests with `requestCount` updated and
  the sorted set out of order; one revocation and one check of the token at a time.

TLC's coverage of these runs shows every action of every module taken, and every
expression evaluated.

Why these bounds are enough: the races are races of two requests over one row, and two
requests are there; every limit is small enough to be reached and exceeded (limit 2
with 4 sessions, 2 attempts with more answers, 4 failures against a limit of 2, 3
rounds, 1 request a minute with 2 at once). The clock spans at least one lifetime of every row that can expire. In `webhook_queue` the column's 2 against the query's 3
keeps the relation of the code's 4 and 5. The proofs remove the bounds altogether for
the properties they cover. Deadlock is not checked, since every model stops when its
ids are used up. Request symmetry is used in safety runs only; requests are compared by
nothing but identity.

### Fairness

* No fairness is assumed in the safety runs, `one_time` and `operations` included.
* `token_cleanup`: `WF(Cleanup)`. `@Interval` fires the job every hour as long as a
  server runs, and each of its statements is eventually executed. Nothing is assumed of
  users.
* `webhook_queue`, `find_webhook_crash`: `WF(Work(w))` (the ten-second timer, statements
  that end, and posts that end within the ten-second timeout of `safe-http-client.ts`)
  and `WF(RetryDue(e))` (time passes). Subscribers may fail for ever; faults are bounded
  by `MaxFaults`, because a server that always crashes before its claim delivers nothing.

## 4. Findings

Each is a run whose property is a statement of the repository's documentation, console
or comments that the code does not keep.

* **A refresh token can be rotated twice.** `troubleshooting.mdx` says each one is
  single-use. `handleRefreshTokenGrant` reads the row and later updates it by id without
  `revoked: false`; two requests at once get two successors (`RefreshSingleUse`).
* **Offline tokens do not survive logout or the sweep.** The console says they survive
  session logout; `endSession` spares them in its update and then deletes the session,
  whose cascade deletes them; the sweep of expired sessions, whose lifetime is much
  shorter, does the same (`OfflineSurvives`).
* **Two upgrades can run at once.** `upgrading.mdx` says a second one is refused. The
  in-process flag is tested before a database query is awaited and set after it, and the
  audit row is written later still: two requests to one instance pass both tests
  (`UpgOneAtATime`).
* **An event whose scheduler crashes is not picked up again.** The scheduler's comment
  says so, but no query looks at `PROCESSING` rows (`ProcessingEnds`). `EventsSettle`
  shows that this and the claim window are the only ways an event can be stuck.

* **A sign-in is given a code below the level its client requires.** The description of
  `requiredAcr` (`create-client.dto.ts:136`) calls it the minimum required before issuing
  a code. Only `/authorize` with a session compares levels; a fresh sign-in goes from the
  login page to `authorizeWithUser` (`login-flow.service.ts:199`) with a password's level
  (`RequiredAcrHeld`).

Observed while modelling and not kept as runs:

* *Tokens and sessions.* Reuse detection can be outrun by a rotation in flight, which
  stores a usable token after the revocation (`auth.service.ts:601`); `maxSessionsPerUser`
  can be exceeded by parallel grants (bounded by `OvershootBounded`).
* *Login sessions.* A session deleted between its validation and the second read of its
  row gets a code at a password's level with no step-up check (`oauth.controller.ts:125`,
  the exception in `SilentCodesProven`). `/authorize` with `prompt=none` answers `login_required`
  even when there is a valid session (`:110`), whereas the SDK's silent refresh
  (`packages/idenplane-js/src/token-refresh.ts:86`) counts on a code. A step-up record
  outlives the session it was earned in, until it is swept; no later session reuses its
  id.
* *Second factors.* The challenge limit counts before it creates (`mfa.service.ts:428`);
  two first factors enrolled at once leave two sets of recovery codes (`:277`); disabling
  a factor while another is enrolled can delete the new factor's codes (`:331`); disabling
  both at once passes both checks that one remains (`account.controller.ts:918`); one
  authenticator code sent twice at once can be accepted on two challenges.
* *Brute force.* A sign-in in flight clears a lock set meanwhile; the permanent lockout
  counts stored failures divided by the limit, not lockouts (`brute-force.service.ts:69`);
  an unlock deletes password failures only (`:310`), so that those of authenticator codes
  and passkeys lock the account again at the next failure.
* *Webhooks.* The row's `max_attempts` is 4, and the fifth attempt follows the "terminal"
  fourth at the next tick; two schedulers that both read a row before either marks it
  both deliver it, after which a late failure can turn `DELIVERED` into `FAILED`.
* *One-time credentials.* A magic link is completed by an unconditional update, so two
  requests at once both complete it; the change-password token lives until the end of the
  handler; `validateToken` deletes a token presented under the wrong type; a reset whose
  request dies after the DELETE is lost. `cleanupExpiredRequests` of magic links is
  scheduled by nothing, and expired verification tokens and passkey challenges are not
  swept. The device grant does not look at `user.enabled`.
* *Upgrade.* A failing configuration check after BACKUP rolls nothing back, although
  `upgrading.mdx` says that any failure after BACKUP does; `checkMigrationsApplied` looks
  for markers Prisma does not print and always passes; a dry run writes an `IN_PROGRESS`
  row, which can block real upgrades and become the latest completed one without a
  backup; a failing completion update leaves the row `IN_PROGRESS` though the answer is
  success; a manual rollback is not guarded against a running upgrade.
  `upgrading.mdx:183` says that "`rollbackSucceeded: true` means the database is back to its
  pre-upgrade state. The instance stays usable and a new upgrade can be started." Tables
  and types that the failed upgrade's migrations made survive the restore
  (`UpgAnswerTruthful` says what is back and what may be left), and the next upgrade fails
  at the first `CREATE TABLE` that meets one. Most migrations under `prisma/migrations`
  that create tables give them foreign keys to older ones; once such a migration was
  applied, the restore itself fails and the archive on the audit row is what is left.
* *Keys.* The scheduler's comment claims an optimistic lock and a grace period; there is
  neither. The plain text of the key it makes is shown to nobody, and a rotation cut off
  before the old key is retired is retried a minute later while its successor stays live.
  Rotating an expired API key revives it for the grace hour, its successor is born
  expired and drops the old one's limits. The monthly quota is compared with a lifetime
  count.
  Requests that read the same `requestCount` before their hash is verified all pass the
  monthly quota, also when they are verified one after the other (`ApiKeyLimits` bounds
  them by the requests that have read it and are not in it yet).
* *Rate limiter.* Redis going away between the two increments of a request counts as
  zero, and the undo then decrements a counter that was not incremented.
* *Passkeys.* `newCounter <= credential.counter` rejects authenticators whose counter is
  always zero.
* *Continuous verification* (read, not modelled). `evaluateSession` overwrites the
  `terminateSession` flag; `terminateSession` revokes the OAuth session first, whose
  cascade deletes the profile, so the update after it throws and audit and mail never
  happen; `triggerStepUp` records the required ACR as if it had been reached.

## 5. Proofs

The theorems hold for any number of requests, instances, users, clients, rows and clock
values, under the named assumptions on the constants of each module. These say that
bounds, limits and lifetimes are natural numbers (limits that the code requires to be
positive are), that the requests in flight are finitely many wherever they are counted,
that "no user" and "nobody" are not users or requests, and that there is a user, client
or instance to speak of. Three say more: `RetentionAssumption` (`SmsOtp`) and
`WindowAssumption` (`MfaChallenge`: a used code is remembered for three periods, the
comment on `TOTP_USED_CODE_TTL_SECONDS`) relate two of the code's own constants, and
`ConstantsAssumption` keeps service-account users apart from users.

Every proof has the same outline: types; an inductive invariant that contains the
property; one step per action, most of them through a *frame* lemma that says what the
action leaves alone; the theorem by temporal reasoning from the three facts. What follows
says of each theorem what the inductive invariant adds to the property, and why.

`TokenLifecycleProofs`

* `TypeCorrect`: types, and rows exist exactly for the ids handed out.
* `CodeUsedOnce` (`CodeSingleUse`). A step that claims a code must know that nobody holds
  it. `CodeInv` adds that a code held by a request or turned into a session is *taken*
  (used or deleted) for good, so the claim's guard excludes it.
* `NoOrphanToken`, `RotatedTokenSpent`, `TokensStayWithClient` (`TokenNeedsSession`,
  `ParentSpent`, `ClientBinding`) share `TokInv`: about the tables (a live token's
  session is live and has its client, parents are spent, unused rows have no parent) and
  about requests (one about to issue a token knows a session that was created, with its
  own client as long as it lives; past `Rotate` its old token is spent).
* `OvershootIsBounded`, `OldestEvictedFirst` (`OvershootBounded`, `EvictsOldestFirst`) from
  `LimitInv`. When a grant creates its session, its read of the others may be arbitrarily
  old, and any number of sessions may have come and gone since. The invariant orders the
  pending grants by their reads: there are sets `D[q]` (those that had read when `q` did)
  such that the sessions `q` does not evict, plus `|D[q]|`, stay within the bound. A
  creation by a member of `D[q]` moves one from the one to the other; a creation by a
  later reader `x` renews the bound, because `D[q]` is a part of `D[x]` without `x`. That
  the victims leave at most `max - 1` sessions (`OldestMakeRoom`) is the one place where
  their order by creation counts, and uses that a set of numbers has a least member. The
  argument is stated on plain sets (`WithinBound`; `BoundShrinks`, `BoundRead`,
  `BoundCreate` for sessions that go, a grant that reads and one that creates), and the
  login sessions use it again:
* `SsoOvershootBoundedHolds` (`SsoOvershootBounded`) from `LsLimitInv`. Here the sessions
  limited also end by time and by the earlier cookie's `LsDrop`, which only shrinks the
  set.
* `SilentCodesProvenHolds`, `AdminNeedsRecentFactorHolds` (the properties of those
  names) from `LsTypeOK` and `LsCookieInv`: each point of a handler knows what the reads
  before it have shown, restated about the moment the request was received. A session
  found live later was not over then, since rows are never revived and their expiry
  never moves; a record that is not over later was not over then; and every record in
  the table was earned by the session's user (`steps \subseteq earned`). `LsGrows` says
  what no step undoes, so a request keeps what it knows while others act.

`SmsOtpProofs`

* `TypeCorrect`, including that a row's attempts never pass the maximum.
* `SendsCapped` (`SendCap`): in any window of a bucket at most `Limit` sends reach the
  provider. `CapInv` says of the sends that passed a bucket's count that any window
  holds at most `Limit` of them (`PassCap`). The send that passes last has counted all
  the others, because each logged itself before counting and nothing counted was pruned
  (`LogInv`). The latter needs `RetentionAssumption`: the log is kept for longer than
  the longest window plus the time a request may take.
* `BudgetsHold`, `CodeAcceptedOnce` (`ChallengeBudgets`, `SingleUse`) from `ChalInv`: while a challenge is open the row's counters equal the
  history; a row that is gone in time has spent nothing; codes on rows are fresh; a
  request in flight was admitted with a live flow token. The sweep is harmless by the
  other half of `RetentionAssumption`: a row outlives every flow token it can be bound to.

`MfaChallengeProofs`

* `MfaTypeCorrect` (`McTypeOK`).
* `AttemptBudgetHolds`, `OneSignInHolds` from `ChallengeInv`: the row's counter is the
  history of examined answers, also after the row is dropped, and a live row has signed
  nobody in, so the deleting claim is the only way to a sign-in.
* `NoReplayHolds` from `ReplayInv`: a code whose verification has ended is *guarded*, unless
  a statement on it failed: its row outlives the periods in which the code is accepted,
  or they are over; and a request that started later gets past the check only with a
  failed statement (`SoundReq`). `WindowAssumption` makes the row outlast the code.

`FactorEnrolmentProofs`

* `FactorTypeCorrect` (`TypeOK`), `ActiveSecretProvenHolds` from `Inv`: a request about to
  activate holds a secret that was proven, and activates that one or none; after that its
  token is among the enrolled.
* `RecoverySingleUseHolds` from `CodeInv`: a code whose row is unused or not yet written has
  no use behind it, and a set being written belongs to one request, which only writes
  positions nobody has written before.
* `EnrolmentOnceHolds`, `EnrolmentNeedsFactorHolds` from `SignInInv`: the deleted row and
  the request that deleted it are tied to each other; no two requests hold one token.

`WebhookQueueProofs`

* `QueueTypeCorrect` (`TypeOK`), `AtLeastOnceHolds`, `OneJobHolds`, `RoundsBoundedHolds`
  from `QueueInv`, which speaks of one event at a time. `SafeInv`: the subscribers a worker
  read include all that have stayed, and what it is about to write down as delivered has
  been accepted by those. `FreeInv`, while no two workers raced: at most one holds the
  event, which has the attempts of the row as it is, and the rounds so far are covered by
  those attempts, or exceed them by the round the holder has under way.

`OneTimeCredentialsProofs`

* `OneTimeTypeCorrect` (`TypeOK`), `NoLateUseHolds` from `Inv`: dead rows stay dead, and
  a request works on a row that exists and is of the kind its handler serves.
* `SingleUseImplemented` (`ImplementsSingleUse`): every step of the detailed specification
  is a step of `SingleUse` under the mapping, or changes nothing it can see, for the four
  kinds claimed by DELETE. The hard steps are the effects that come after the DELETE:
  `HoldInv` says that only one request holds a row, that it is deleted and not used yet.
* `LiveBoundHolds`, `LinkRateBoundHolds` (`LiveBounded`, `LinkRateBounded`): the live rows
  (recent links) plus the requests that are about to create one are bounded (`LiveInv`,
  `LinkInv`); a creation moves one from the second set to the first (`SumKept`).

`CredentialProofs`

* `RevocationLastsHolds` (`TokenBlacklist`) from `BlInv`: a Redis entry never ends before
  the token; a check in progress has lost from sight only the stores that did not answer
  it. Reading the stores one by one is sound because nothing but a lost memory takes the
  token out of a store before its expiry.
* `PasskeySignsInOnceHolds` (`Passkeys`) from `PkInv`: a stored challenge is fresh and
  nobody has claimed it, a claimed one has one claimer; unless sign-ins overlapped, who
  has read the passkey has read the highest counter and is alone.

* `ApiKeyLimitsHolds` (`ApiKeyGuard`), from `ApiKeyWindowHolds` and `ApiKeyQuotasHolds`, by
  `AkInv`. The window is
  exceeded in three ways, each by the requests in flight at most: the set holds no more
  than `PerWindow - 1` members plus the requests that counted before others added
  (`WindowInv`); members dropped with the key before their own EXPIRE belong to requests
  that still were on the way to it, because the key otherwise outlives every member by
  more than the window (`TtlInv`, from `Ttl > Window`); and requests received in a window
  may join it after it is over. `DayInv` makes the day exact, since the counter is
  incremented before it is compared. `MonthInv`: all valid uses are the count, the updates
  under way and those that failed. When a request reads a count below the limit, the
  requests already let past and those in flight that read one below the limit are no more
  than the count, the failed updates and the requests not yet in the count: the last are
  what `uses.peak` bounds.

`OperationsProofs`

* `ExtraGuessesBoundedHolds`, `PermanentLockHoldsAlways` (`BruteForce`) from `BfInv`: while
  the account is locked, the extra guesses and the requests past the lock check are
  together fewer than the requests; a permanent lock disables the user, and that is what
  later requests meet first.
* `KeysNoGapHolds`, `KeysSuccessorsBoundedHolds` (`MachineCredentials`) from `KeyInv`: when a
  rotation is about to retire a lasting key, a later lasting key of the owner exists, so
  the latest one is never retired (`NoGap`); the completed scheduler rotations of a key
  and the schedulers that hold it are together no more than the requests (`Completions`),
  since a key that was retired once is not picked up again.
* `UpgAnswerTruthfulHolds`, `UpgWayBackHolds`, `UpgFlagMeansRunningHolds`
  (`UpgradeRollback`) from `UpgInv`, which says of each step of a run what it has done to
  the database so far (nothing, or migrations on top of what it found, `Grown`; after a
  restore `BackTo`) and what the audit row holds (`JobOk`), of a manual rollback that
  its archive is on record (`ManualOk`), and that a raised flag has a running holder.
* `RateCapHoldsAlways`, `RateNoInflationHolds` (`RateLimiter`) from `RlInv`: a Redis
  counter equals the requests let through plus those that may still take their count
  back, up to the errors that lose one or leave one behind (`RedisInv`); a database
  window that was not contested cannot begin a second time, and while the row is in it
  the row counts for it alone (`WinOk`).

  The proof corrected the model. `RateCapHolds` had been true on the run's instance and
  false beyond it: with a longer clock, a request that hangs for more than an hour sets
  `hourStart` back, the sweep then deletes the row in the minute its window began with
  nobody being counted, and the minute gets a second budget. The sweep of a window in its
  own minute is now one of the ways to contest it.

Only model-checked: the liveness properties (`ExpiredSessionsRemoved`, `EventsSettle`),
which are outside the prover's reach. Every invariant and action property of a passing
run, and the refinement, are proved; the type invariants are proved and checked by no
run.

## 6. What is left out

Inside the modelled components: JWT contents, introspection beyond the blacklist check,
scopes and request validation (a request that fails them changes nothing), phone numbers
and providers, HTML pages, mails, audit events, metrics, the inline retries of a webhook's
test delivery and the delivery log; what validation, configuration and health checks of an
upgrade look at (their outcome is a choice); identity and account CRUD around the keys,
certificates, the matching of IP ranges; which limit applies to a request.

Merged or left out inside an action: the `EXPIRE` that follows the first `INCR` of a rate
limiter's key (it matters only to a request that hangs past the expiry between reading the
clock and counting), and the query of `checkTotpRateLimit`, which is one step with the
insert of the failure. `KeysNoGap` is about rows: a key is usable when its row is live,
whether or not anyone was shown its plain text.

Four properties leave out what the code does not promise: `NoLateUse` speaks of uses begun
after a credential was closed, and a change-password token is closed only at the end of the
handler; `RateCapHolds` exempts database windows that several requests restart at once;
`NoReplay` exempts answers that overlap and codes whose database mark failed; `OneJob`
exempts events that two schedulers read before either marked them.

Impersonation creates OAuth sessions without the session limit, so `OvershootBounded`
counts the sessions of grants only; continuous verification writes step-up records under
the ids of OAuth sessions, which no login session has.

Outside: the components `PROJECT.json` lists as `not_modelled`, with the reason. By far
the largest part of the repository is of these kinds: the admin console and the SDKs
(clients of the API), configuration CRUD (one statement per operation), conversions
(SAML, SCIM, LDAP, importers) and rendering. They keep no state that two actors could
leave inconsistent, or depend on formats and floating-point scores outside TLC's reach.

## 7. Plan

1. Impersonation in `TokenLifecycle`, where its sessions count for the limit but are not
   themselves limited; account deletion.
2. The type invariants of the modules of `operations` as theorems of their own.
3. Pure operators: the policy engine's combining rules and the flow executor, against
   reference definitions over bounded inputs.

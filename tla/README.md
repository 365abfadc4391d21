# A TLA+ verification project for idProvider

idProvider is an identity provider: a TypeScript server (`apps/idp-server`) over
PostgreSQL and Redis that logs users in, issues opaque API tokens and OIDC tokens,
keeps its signing keys, decides authorizations, and removes accounts and old data.
Any number of server processes, job processes and administrators work on the same
database at once, and nearly every handler is several awaited statements outside a
transaction.  This project models what those statements do to the shared state and
checks what must hold whatever order they come in.

Paths below are relative to the repository root; module names refer to this directory.

## 1. Inventory

| Component | State | Operations | Hard behaviour | Correct when |
|---|---|---|---|---|
| API sessions (`modules/sessions`, `modules/auth`) | `user_sessions`: two token hashes, two expiries, `revokedAt` | login inserts, refresh rotates, logout / revocation / revoke-all / password change / deletion revoke | find-then-update refresh, racing refreshes, revocation during a refresh, handlers that die half way | a refresh token is exchanged once; revocation is final; a deleted account gets no tokens |
| Signing keys (`auth-core/key-store-service`, `modules/keys`, `index.ts`) | `signing_keys`; the key each process has loaded | bootstrap, scheduled / manual / emergency rotation, JWKS, load at start | racing rotations and bootstraps, stale key in a running process | one successor per key; never without an active key; retirement is final |
| Account deletion (`modules/users`, `jobs`) | `users.status`, `deletionDueAt`, `legal_holds`, advisory lock | request, finalise due accounts | check-then-delete against holds, overlapping jobs, crash with the lock, one failing account | only due and unheld accounts go, and all of them do |
| Data retention (`jobs/data-retention`) | sessions, security events, audit logs | six select/process loops | loops that must end, holds after the select, one "now" for a long job | nothing touched early or under a hold; the job completes |
| Login policy (`auth.service`, `turnstile`) | login attempts, identities | password and Google login, risk score, bot check | account linking by two logins at once | one account per identity |
| One-time tokens (`verification.repository`) | email and reset tokens | request, consume | two confirmations of one token | used once, before it expires |
| MFA (`modules/mfa`) | factors, recovery codes | enrol, verify, generate, regenerate, consume | racing regenerations and consumptions | a code works once; an old batch never again |
| WebAuthn (`auth-core/webauthn-service`) | challenges in Redis, counters | options, verify | get / verify / update / delete not atomic | a challenge answers once; counters grow |
| Authorization (`modules/rbac`, `modules/config`) | roles, groups, entitlements, Redis cache, settings | decide, snapshot, invalidate, admit administrators | several queries per decision, a stale value written after the invalidation, names that share a cache key | staleness is bounded by the TTL; no administrator acts without a permission |
| Audit log (`modules/audit`) | `audit_logs` with a hash chain | append, verify, export | order by clock and random id, retention during a verification, cursors coarser than the column | the verdict on a range is exact; an export has every row once |
| OAuth clients (`modules/oauth-clients`) | clients, secrets | create, update, disable, enable, rotate, authenticate | racing rotations and updates, grace of old secrets | one primary secret; a disabled client stays disabled until it is enabled |
| OIDC provider (`core/oidc-provider*`, `core/oidc-interactions`) | `oidc_provider_states` | consent, code, exchange, refresh, revocation; upsert, find, consume, destroy, revoke by grant | unconditional consume, tokens saved while a replay ends the grant | a replay ends the grant |
| Rate limiter (`core/rate-limiter`) | counters in Redis | consume | window boundary | never more than the limit per window |
| Example BFF on the SDKs (`apps/example-bff`, `server-sdk`, `oidc-client-sdk`) | sealed cookies in the browser; discovery and JWKS caches | login, callback, logout | responses that arrive late, in another order or never; a callback URL from somebody else | a browser is logged in only by its own login |

Sessions, keys, deletion and retention share tables: deletion revokes and later
cascades to sessions; retention works on what sessions and the audit log leave behind
and loses the owner of rows whose account was removed; both jobs read legal holds.
Ending sessions purges authorization decisions; every admin route, the registry, the
configuration and the exports among them, asks the authorization service first; the
provider asks the registry for its clients, and the BFF talks to the provider through
the SDK.

## 2. Modules

| Module | Models | Used by |
|---|---|---|
| `TokenLedger` | the abstract promise: a pair of tokens is issued once, exchanged at most once, withdrawn for good | refined by `Sessions` |
| `Sessions` | `user_sessions` and every handler that touches it | `MCSessions`, `SessionsProofs` |
| `KeyStore` | `signing_keys`, `KeyStoreService`, the servers that load a key | `MCKeyStore`, `KeyStoreProofs` |
| `AccountDeletion` | deletion requests, the deletion job, legal holds | itself, `DataRetention`, `AccountDeletionProofs` |
| `DataRetention` | the retention job and the rows it works on | `MaintenanceJobs` |
| `MaintenanceJobs` | composition: both jobs on the same accounts, holds and rows | itself, `MaintenanceJobsProofs` |
| `OneTimeSecret` | the abstract promise: a code or token is issued once, spent or withdrawn for good, and good for one thing once | refined by `Credentials` |
| `Accounts` | accounts, one-time tokens, Google identities, and the handlers in flight | `SecondFactor` |
| `SecondFactor` | TOTP factors, recovery codes, passkeys, and what a login asks for | `Credentials` |
| `Credentials` | composition: requests of all these kinds at once | `MCCredentials`, `CredentialsProofs` |
| `Authorization` | decisions, entitlements, their cache and its purge, administrators' requests | `MCAuthorization`, `AuthorizationProofs` |
| `AuditLog` | the hash chain, its verification, paged exports, retention against them | `MCAuditLog`, `AuditLogProofs` |
| `OAuthClients` | the client registry and the check of credentials | `OidcProvider` |
| `OidcProvider` | the adapter, and the provider's endpoints as calls of it | `RelyingParty` |
| `RelyingParty` | the example BFF on the SDK, and browsers with cookies | `Federation` |
| `Federation` | composition: registry, provider and relying party at once | `MCFederation`, `FederationProofs` |
| `MCSessions`, `MCKeyStore`, `MCCredentials`, `MCAuthorization`, `MCAuditLog`, `MCFederation` | symmetry sets and first rows for TLC | |
| `SessionsProofs`, `KeyStoreProofs`, `AuthorizationProofs`, `FederationProofs`, `CredentialsProofs`, `AuditLogProofs` | theorems about the module they are named after | |
| `AccountDeletionProofs` | theorems about `AccountDeletion` | `MaintenanceJobsProofs` |
| `MaintenanceJobsProofs` | theorems about `MaintenanceJobs` | |

### State and actions against the code

*Sessions.*  `rows[s]` is a row of `user_sessions`; `access` and `refresh` are its two
hash columns, holding the name of the pair the token was minted with.  `req[r]` is a
handler in flight: `at` names the statement it awaits next, the other fields what it
has read.  One action is one awaited statement: `RefreshFind` is the
SELECT of `refresh()` with the status check, `Rotate` / `RotateMiss` the guarded UPDATE
of `rotateTokens`, `Punish` the revocation after it found no row.  `LoginVerify` stands
for `login`, `loginWithGoogle` and `createSessionForUser` up to the last check, and
`CreateSession` for the INSERT that does not look again.  `Authenticate` is the bearer
check of `authenticatedEndpointAdapter`, after which a handler works from what it read.
`markAsDeleted` is a transaction at READ COMMITTED in three steps: `MarkAsDeleted` is its
UPDATE of the user, which waits for another deletion of the same account,
`MarkSessionsRevoked` its UPDATE of the sessions there are then, and `CommitDeletion`
makes both visible.  In between the rows it has updated are `Locked`: others read them as
they were and an UPDATE of them waits, while a login still inserts.  `Fail` cuts a handler
short at any step and rolls its transaction back.  `family`, `from`, `cutoff`, `replayed`
and the fields `born`, `late` and `extra` of a row are history: they are never read by an
action's guard, except that a pair with a family is not minted again.

*KeyStore.*  `keys[k]` is a row of `signing_keys`: `active`, `grace` (retired with a
future expiry) or `revoked`.  A task is one call of `KeyStoreService`; `goal` says what
the current key it reads is wanted for, because `rotateIfDue`, `rotateNow`,
`getPublicJwks` and `getActivePrivateJwks` all begin with `ensureKeyExists`, whose read
and INSERT are separate statements.  `signer[v]` is the key server `v` was started with.
`overlapped` is history: a key was bootstrapped while another call that had found none was
about to insert one too.

*AccountDeletion.*  `job[j]` is a run of `run-account-deletion`: `StartJob` takes the
advisory lock, `FindDueDeletions` selects one chunk in no particular order, `CheckHold`
and `PhysicallyDeleteUser` are the two statements per account, `FailAccount` the
per-account catch of a passing error and `FailBroken` that of an account whose DELETE
fails in every job (the constant `Broken`), `CrashJob` the end of the process at any
point.  `lateHold` records the holds placed between those two statements.

*DataRetention / MaintenanceJobs.*  `rec[x]` is a row of one of the three tables, with
its owner and the date its age is counted from.  `ret` is the job: phase, selected ids
and the moment it was started.  `Cascade` is what the foreign keys do when an account
goes: sessions are deleted, events and logs lose their user.

*Accounts / SecondFactor / Credentials.*  An account is named by its e-mail address, which
is unique.  `token[t]`, `code[c]` and `factor[f]` are table rows, `challenge[u]` the two
Redis keys of a user, `answer[x]` what an authenticator (external) has signed for a
challenge.  `req[r]` is a handler; `at` is the statement it awaits.  `Login` and
`GoogleLogin` meet at `CheckMfa`, go on through `EnforceTotp` or `FindCode` and `MarkUsed`,
and end in `CreateSession`; a Google login comes there through `GoogleByEmail`,
`GoogleCreate`, `GoogleLink` and `GoogleUser`.  `VerifyMfa`, passkey registration and
`RegenerateCodes` meet at `RevokeActive` and `StoreBatch`, the two halves of
`createBatch`: at READ COMMITTED the UPDATE revokes what it saw when it began, if that is
still live when it gets to it, and never a batch another transaction inserts meanwhile.
`FindKey`, `UpdateCounter` and `DropChallenge` are the three separate statements of
`verifyAuthenticationResponse`.  `Abort` and `RiskRefuses` end a handler between any two
statements.  `granted`, `signIns`, `severed` and the request fields `past`, `guarded` and
`prior` are history and no guard reads them.

*Authorization.*  `direct`, `grouped` and `entitled` are what the role, group and
entitlement tables give a user, `cache[u][k]` the decision in Redis.  A handler puts a
question with `Ask`; `CacheHit` answers it, or `ReadDirect` and `ReadGroup` (the two
queries of `listPermissionKeys`) or `ReadEntitlement` (one query per scope, with the time
taken before the first; the membership read before a scope is one step with it) compute
it, and `CacheSet` writes it back.  `Continue` is what
the caller does next: `resolveSubject` turns to the other user, `assertAdminPermission`
falls back to `admin:manage`, refuses or admits.  `Act` is the write of the configuration
or the export.  `Scan` and `Delete` are the two halves of `deleteByPrefix`.  `Place` and
`Entitle` change the tables: no route does, so operators do it by hand, at any moment and
without a purge.  `wrong` and the fields `crossed`, `held` and `excused` are history.

*AuditLog.*  `logs` and `events` are the two tables.  A digest is the record of all that
is hashed, so equal digests mean equal content.  The chain there is at the start is a
constant: any sequence of rows of which each is linked to the one before it
(`FirstRowsAssumption`).  `LockAuditChain` takes the advisory lock
and reads the latest row in the order of `createdAt` and `id`; `InsertAuditLog` takes the
time, inserts and commits.  The clock may stand still between two appends and ids are
random, so a row can land before the one it is linked to; `orderly` records whether that
has happened.  A time is a millisecond `at` and what it has beyond that, `us`: rows that
`createAuditLog` writes have none, events and the row `system.retention.execute`
(`WriteRetention`) have the microseconds of the database's `now()`, and a cursor loses
them.  `kept` and `tails` of an export are history.  `VerifyRange` and `VerifyPrevious` are the two reads of
`verifyIntegrityRange`, between which rows come, change and go.  An export collects one
page per action.  `Edit` and `Delete` are what retention and the foreign key of a removed
account do to the rows.

*OAuthClients / OidcProvider / RelyingParty / Federation.*  `client` and `secret` are the
registry's rows.  `UpdateClient` is the unlocked read and `CommitUpdate` the write and
COMMIT of `updateClient`, and `shut` remembers whether another update was under way when a
client was last disabled; `RotateSecret`, `DemotePrimary` and `InsertSecret` are the statements of a
rotation, in which the UPDATE waits for the row lock and looks at the row again, and the
partial unique index of migration 0006 refuses a second primary.  `row` and `grants` are
rows of `oidc_provider_states`; `Upsert`, `Found`, `ConsumeRow`, `DestroyRow` and
`RevokeByGrantId` are the adapter's methods, and the actions from `FindRow` to
`DestroyGrant` the order in which the provider library calls them (external).  Two
requests that found one code unconsumed both go on.  `jar[b]` holds the two sealed cookies
of a browser.  A response is a request at `reply` until `Deliver`; it may be overtaken
or lost, and `TimeOut` gives up on the provider, which goes on.

### Abstractions

- Tokens are names, not strings: 48 random bytes never repeat and SHA-256 does not
  collide.  Passwords are counted, so "old" and "new" are comparable.
- Expiry dates are computed at the statement that stores them, not a moment before.
- The security event written after a revocation is one step with it: nothing reads it
  back.  The two lookups of `revokeByToken` are one choice of the row found.
- `invalidateUserCache` after a revocation acts on the authorization cache only: it is
  `Purge` in `Authorization`, for any user at any time.
- An UPDATE of several rows that has to wait for one of them is one step after the wait.
- In `Authorization` a question is one of six: three permissions of administrators, one
  with a key of its own whose name collides with one of them after `normalizeKeyPart`, and
  an entitlement with and without a quantity.  Redis errors are a miss, a failed set or an aborted purge.
- In `AuditLog` requests are already admitted and an export covers the whole log: a
  narrower range only selects rows.
- In `Federation` state, nonce and PKCE verifier of a login have one name, since one
  call makes all three and one cookie keeps them.  Whether a client has a redirect URI
  and the scope `openid` is one flag.  The three reads of `findClient` after the first
  are one step.  Both rows of a rotation become visible at its commit.
- In `Sessions`, login policy and MFA are a nondeterministic refusal between `LoginVerify`
  and `CreateSession`; `SecondFactor` has the decision itself, with the risk score as a
  nondeterministic refusal.
- A right password, TOTP code or signed Google ID token is an input; wrong ones are
  refused without a change of state.  In `Credentials` tokens and challenges expire at
  any moment instead of by a clock, and accounts are deleted but not yet removed.
- `hasEnabledMfa` is read twice by a login; no code disables or deletes a factor of an
  account that stays, so the second read repeats the first and is not a step.
- The three pairs of retention limits are one pair; a dry run writes nothing and is
  left out.  Only `active` and `deleted` accounts exist: no code writes another status.
- Rows a run has no room for (`PairIds`, `SessionIds`, `Kids`, `Logs`) are bounds; each
  is named in the module that declares it.

## 3. Runs

| Run | Question | Bounds | Result |
|---|---|---|---|
| `sessions` | do racing refreshes, revocations, password changes and deletion keep the token promises? | 1 user, 2 sessions, 3 pairs, 2 handlers, 2 ticks, 1 fault | passes, 658 000 states |
| `sessions_live` | does a lost refresh race end the session? | 1 session, 3 pairs, 2 handlers | passes |
| `sessions_reuse` | does any reuse of a refresh token revoke its session? | 1 session | violated (finding) |
| `keystore` | do racing bootstraps and rotations keep the key chain? | 3 keys, 2 calls, 2 servers, interval 1, grace 1, 2 ticks | passes, 706 000 states |
| `keystore_signer` | does only the active key sign? | as above | violated (finding) |
| `account_deletion` | are only due, unheld accounts removed, and all of them, across crashes and although others are held or fail? | 3 accounts of which one fails in every job, 2 requests, 2 jobs, chunk 2, grace 1, 1 tick, 1 fault | passes, 857 000 states |
| `maintenance_jobs` | do both jobs respect ages and holds? | 1 account, 1 session row, 1 log row, 1 fault | passes, 301 000 states |
| `credentials` | do overlapping requests keep codes, tokens, second factors and links straight? | 2 addresses, 1 Google subject, 1 token of each kind, 3 codes in batches of 1, 2 factor rows, 2 challenges, 2 passkeys, 2 handlers, 3 requests | passes, 156 000 states |
| `retention_loop` | does a retention job that was started complete? | 1 row per table | violated (finding) |
| `authorization` | how long can a wrong decision live, and who gets to administer? | 2 users, one cached, grants of the colliding permission and `*`, 2 handlers, 2 requests, 2 changes, TTLs 1 and 2, 2 ticks | passes, 1 569 000 states |
| `audit_log` | is the verdict on the chain exact and an export complete? | 2 chained rows and one of the retention job, 3 events, 2 new log rows, 2 new events, pages of 2, 2 handlers, 3 requests, 1 change from outside | passes, 662 000 states |
| `federation` | do registry, provider and relying party keep grants, logins and secrets straight together? | 2 clients, 3 secrets, 2 administrators, 2 browsers, 2 logins, 2 handlers, 4 rows of codes and tokens, 1 grant, 3 requests | passes, 132 000 states |

Why these are enough: every race in the session and key code is between two handlers
that have both read a row before one of them writes it, so two slots reach it; three
pairs allow an exchange, a second exchange and a competing one; two ticks let access
tokens, refresh tokens, grace periods and retention limits pass one after the other.
In `account_deletion` the chunk is smaller than the number of accounts, so the account
that fails always and a held one can fill it: there `DueIsRemoved` promises nothing, and
without that condition TLC refutes it; with one of them in the chunk the third goes.  One
tick is enough there: an account asked for at the start falls due, one asked for later has
another date and does not.
In `credentials` a secret takes one request to issue and two to compete for it, and the
second factor of the account may be there from the start, so three requests reach every
race between two of them.  In `authorization` two changes let a grant, the wildcard's too,
come and go while a computation is under way, and the two requests are that computation
and a purge that crosses it or a request that meets the answer it cached, of its own
question or of the colliding one.  In `audit_log` two of the three requests can append at
once while the third verifies or exports; three rows make a second page, and the row of
the retention job shares its millisecond with a chained one that the truncated cursor can
skip.  In
`federation` a replay needs two requests with one code and the third finds what is left;
a second grant would only repeat the first, and a code is issued while two rows are free
at least, so that an exchange can save both tokens.  The theorems below remove the bounds
for everything but liveness.

What the passing runs check:

- `OneExchangePerRefreshToken`, `OnlyNewestPairWorks`, `ImplementsLedger`: the WHERE
  clause of `rotateTokens` is enough for single use, and both tokens of the old pair die
  in the same statement.
- `PunishedOnlyIfReused`: `rotateTokens` does not test the expiry again, which is right:
  a token that expires between the SELECT and the UPDATE is not reported as reuse.
- `NothingComesBack`: a refresh that had read the row cannot revive a revoked session.
- `ExchangeOnlyForActiveUser`: a refresh that had read the status of an account deleted
  since finds its session revoked, except a session inserted between the UPDATE of the
  sessions and the COMMIT, which obtains one more pair and no second one.
- `ChangeEndsEarlierSessions`: after an answered password change every open session was
  inserted after the new password was stored.
- `IntrospectionAgrees`: introspection and the bearer check are the same predicate.
- `DoubleUseEndsSession` (liveness): the loser of a race closes the session.
- `OneSuccessor`, `OneActivePerBootstrap`, `ActiveNeverLost`, `RetiredForGood`,
  `SignerVerifiable`: keys form chains with one active end each; a second active key
  comes only from two bootstraps that overlapped; a loaded key leaves the JWKS document
  only through a rotation after it was loaded.
- `OneJobAtATime`, `DeadlineKept`, `RemovedOnlyWhenDue`, `HoldKeepsAccount`: the account
  deletion job, with the one window in which a hold is overlooked spelled out in the
  property.
- `DueIsRemoved` (liveness): neither crashes nor accounts that are held or fail in every
  job keep the others from being removed, unless they fill a whole chunk.
- `YoungRowsKept`, `HoldKeepsRows`, `SessionLoopEnds`: the retention job.

- `ImplementsOneTime`: the guarded UPDATEs of `markUsed` and of the two
  `consumeValid...TokenByHash` are enough for single use, whatever was read before them.
- `OldCodesDie`: once a batch is stored, no code that was there when its transaction
  revoked works; two batches live side by side only if their transactions overlapped.
- `SecondFactorShown`: the check-then-insert of both logins never opens a guarded account
  without a second factor of that account which this login itself has spent or shown.
- `GoogleStaysLinked`: the unique (provider, subject) decides between racing logins and
  links; a login that lost does not go on with the account it had picked.
- `LateReplayRefused`: a passkey answer is refused to every request that begins after it
  has signed somebody in, with authenticators that count and with ones that do not.

- `StaleAnswersExpire`: a purge and a computation may cross, and rows may move between
  two queries; whatever is cached wrongly goes within its own time to live, counted from
  the change or from the write that brought it in.  The answer to a colliding question is
  such a write.
- `AdminActsBacked`: an admitted request had the permission at some moment since it asked,
  or met a cached grant still in its time.  That grant may be one of another permission
  with the same key: colliding keys can admit as well as refuse.
- `VerifyExact`: between its two reads anything may happen, and the verdict still is
  exact, provided clock and ids kept the order of writing.  Without that proviso TLC shows
  an untouched chain that does not verify: two appends in one millisecond.
- `ExportComplete`: no row twice, and none missing but rows that share a millisecond with
  a row that ended a full page of their table and has microseconds, which the truncated
  cursor skips: events, and log rows next to the one of the retention job.
- `ReplayEndsGrant`: a code or refresh token used before ends the grant; the only tokens
  left are those that requests already in flight save after the rows were deleted.
- `SessionFromOwnLogin`: neither another person's callback URL nor a late response logs a
  browser in, except the response of a callback that was under way at the logout.  A
  `/login` whose response is still on its way at the logout counts as a later login.
- `SecretsRetireOnce`: racing rotations leave exactly one primary secret and never touch a
  retired one again.
- `DisableSticks`: a client disabled while no other update of it was under way stays
  disabled, through updates of its other fields, until it is enabled.

Findings, each shown by a run that TLC refutes:

1. A refresh token that was exchanged earlier is refused but does not revoke its session
   (`auth.service.ts:463`), unlike `docs/qa-and-performance-plan.md:33`.
2. A running server signs with the key it loaded at start-up after that key was retired
   or revoked (`index.ts:45`), unlike `docs/05-key-management-rotation-plan.md:62`.
3. The loops that anonymise security events and audit logs never end once they match a
   row (`data-retention.ts:175`), so the deleting phases of `README.md:337` are not
   reached.

Where a document promises more than the code keeps, and a passing property names the
exception.  In each of these TLC reaches the exception in the run named, and refutes the
property when its exception is taken out:

4. `sessions`, `ExchangeOnlyForActiveUser`: a session inserted between the UPDATE of
   `user_sessions` in `markAsDeleted` and its COMMIT stays open
   (`account-deletion.repository.ts:45`), unlike `docs/runbooks/session-termination.md:48`.
   The bearer check and later refreshes refuse the account by its status; a refresh that
   had read the status before the COMMIT obtains one pair.
5. `keystore`, `OneActivePerBootstrap`: two servers that start on an empty table insert a
   key each and sign with two active keys, of which a rotation, an emergency one too,
   retires only the newest (`key-store-service.ts:102`), unlike
   `docs/05-key-management-rotation-plan.md:61-62` (always exactly one active key).
6. `authorization`, `StaleAnswersExpire`: two permissions whose names differ in colons and
   blanks only answer for each other while one of them is cached, a grant as well as a
   refusal (`rbac.service.ts:310`), unlike
   `docs/12-cache-strategy-db-optimization-plan.md:160-161` (the same decisions with the
   cache on and off).
7. `federation`, `DisableSticks`: an update of another field that read a client before it
   was disabled enables it again, and neither request is refused
   (`oauth-client.repository.ts:204`), unlike `docs/04-client-registry-plan.md:18`
   (immediate effect) and `:231` (409 on a conflict of states).

Seen while modelling, outside what a property names:

- Two servers that start together rotate a key that is not due (`key-store-service.ts:214`;
  `docs/05-key-management-rotation-plan.md:158` rules it out).
- Two overlapping requests with the same WebAuthn answer are both given a session
  (`webauthn-service.ts:253`; `docs/14-production-readiness-plan.md:766` rules it out).
  `LateReplayRefused` states what does hold.
- The pair of the environment is accepted although the client is registered and disabled
  (`oauth-client.service.ts:65`; `docs/04-client-registry-plan.md:251` expects 401).  The
  code calls it a temporary fallback; `EnvMatch` models it.

### Fairness

`Sessions!FairSpec`: weak fairness of `Continue(r)`, since an awaited statement resolves
or rejects; clients owe nothing, so `Start` is not fair.  `DeletionFairSpec`: weak
fairness of the jobs' steps, including the start, because the job is run by an external
scheduler again and again and does one chunk per run; faults are not fair and are
bounded.  `DueIsRemoved` assumes besides that operators stop changing holds at some time,
and promises an account its removal only while the due accounts that are held or fail in
every job are fewer than a chunk: `findDueDeletions` has a LIMIT and no ORDER BY.
`MaintenanceJobs!FairSpec`: weak fairness of the steps of a retention job that
was started; nothing obliges it to start.  The runs
`authorization`, `audit_log` and `federation` check safety only and assume no fairness:
requests may stop anywhere, and their budgets run out, so deadlock is not checked.

## 4. Proofs

All theorems hold for every value of the constants that satisfies the named assumption
of the module that declares them (`SessionsAssumption`, `KeyStoreAssumption`,
`DeletionAssumption`, `RetentionAssumption`, `AccountsAssumption`,
`SecondFactorAssumption`, `AuthorizationAssumption`, `ClientsAssumption`,
`ProviderAssumption`, `PartyAssumption`, `AuditLogAssumption`, `FirstRowsAssumption`).
They ask that the sentinels are not members of the sets, that times and bounds are
naturals, that names of rows of different tables differ (the code keeps them in
different columns or compares their hashes), and what `env.ts` enforces: rows are not
deleted before they are anonymised.  The sets are arbitrary, even
infinite, but the rows the audit log starts with are finitely many.

Every proof module has the same shape: an inductive invariant in named parts that adds
to the properties what a handler may still rely on of what it has read; lemmas that say
when a step leaves a part alone; one lemma per action or group of similar actions;
`Invariance`; and the theorems, of which the invariants follow from it and the action
properties are proved step by step from it.

*SessionsProofs.*  `RowsOK`: a used row holds pairs of its own family.  `ExchangesOK`: a
pair that was exchanged is held by no row.  `RequestsOK`: the pair a refresh is about to
exchange is either still the row's, or was exchanged by someone else; and if its UPDATE
would succeed for an account that is not active, the session is a late one that has not
had its extra pair.  `DeletionsOK`: between the UPDATE of the sessions and the COMMIT every
session of the account is locked by that deletion or late, the account is active until the
COMMIT, and it has one deletion under way at most.  The two together give `ExchangeOnlyForActiveUser`
although the status is read a statement earlier.
`Refinement` shows that every step is an `Issue`, an `Exchange`, a `Withdraw` or a
stutter of `TokenLedger`.  `SameAnswers` needs no invariant: the two predicates agree in
any state.

*KeyStoreProofs.*  `IInv` adds that an unused id holds nothing (so it is nobody's
predecessor), that a task about to rotate has a key, and that a loaded key is active or
knows the successor that retired it.  `SingleSuccessor`, `SignersVerify`, `NoGap` and
`RetirementIsFinal` follow.  `RotationsKeepCount` counts: `CountInv` says that the active
keys and the keys without predecessor are finite and equally many, and a rotation takes
one active key away and adds one.  For its second half `BootstrapOK` says that without an
overlap either no key was ever inserted, or one is active and no call is about to insert.

*AccountDeletionProofs.*  `DeletionInv`: whoever runs has the lock (`LockHeld`), so an
account a run has selected stays due until that run has dealt with it
(`SelectedStayDue`), and the account about to be removed has no hold or a late one
(`OverlookedIsLate`).  The first gives `JobsExclude`; the second `OnlyDueAreRemoved`,
although the DELETE does not test the date again; the third `HeldAreKept`, with exactly
the window the property names.

*MaintenanceJobsProofs.*  The composition keeps `DeletionInv` (its steps are deletion
steps or leave that state alone) and adds `RetentionInv`: the rows of a chunk were old
enough at the start of the job and their dates do not move (`SelectedAreOld`), and a
chunk row under a hold came under it after the SELECT (`SelectedHeldIsLate`).
`YoungAreKept` and `HeldRowsAreKept` follow.

*FederationProofs.*  `ClientsInv`: a registered client has one primary secret, whatever
rotations are under way; an update carries a status the client once had.  `ProviderInv`:
ids of grants are not used again, a grant that is over stays over, and a request that
found its code once the grant was over does not get past the lookup of the grant.
`PartyInv`: what a request carries for a browser is about a login of that browser, its
callback knows of a logout that overtook it, and the cookie of a login is sent once.
Steps of one part leave the other invariants alone, which is proved once.  `SecretsRetire`
follows from the first, `ReplayIsFinal` from the second, `SessionsAreOwn` from the third.
`DisabledStays` adds to the first `ShutInv`: a client that was disabled undisturbed is
disabled, and every update of another field under way has read it so.

*AuthorizationProofs.*  Unless the rows changed while they were read, what a handler has
read is what the tables say now (`FreshOK`); a permission of an administrator that was
due or found is remembered (`BackedOK`); nothing is cached for longer than its time to
live (`TtlKept`).  With these `StaleAnswersExpire` is inductive, and `AdminActsBacked`
follows.  A write under a key that two questions share dates the staleness of the
other one: `CacheSet` records it in `wrong`, and without that the theorem is false.

*CredentialsProofs.*  `SecretsInv`: a secret is good for one grant, and at most one
handler has spent it and not yet got what it stands for.  `BatchInv`: a batch that has
revoked knows every live code of those it found, and a live code stands beside none of
them.  `GoogleInv`: the subject of a handler past the link is linked to its account, or
was until the link was taken away.  `FactorInv`: a guarded login meets a factor and then
shows one, or a code, of its own account; it rests on factors never being disabled.
`PasskeyInv`: a challenge is gone from Redis before its request signs in, and does not
come back.  `SecretsWorkOnce` shows that every step is a `Replace`, a `Spend`, a `Grant`
or a stutter of `OneTimeSecret`, for recovery codes and both kinds of tokens at once.

*AuditLogProofs.*  For `VerifyExact`: a chained row is as it was written but for its body,
and its `prev` is the hash of the row that was the latest then (`OriginInv`, `LogsInv`);
whoever is between `LockAuditChain` and `InsertAuditLog` has the lock (`LockHeld`) and
knows the latest row, unless that was deleted since (`InsertOK`).  So, while the chain is
orderly, no row that is still there lies between a row and the one it was linked to
(`OrderInv`), and none that a verification has read does (`RangeOK`); the latest row
before a row is then the one it was linked to, or one older, and the digest tells which.
Hashes are nested as deep as the chain is long, so nothing is said of their type: two of
them are compared, and a digest has the id of its row.  For the same reason the first
chain is stated by the links between neighbours and not by recursion.

For `ExportComplete`: a row that was there throughout is exported, or lies beyond the
cursor, or is of a millisecond at which a cursor of its table lost microseconds
(`NoneLost`, and `NoneMissing` once its table is through); nothing exported lies beyond
the cursor (`CollectOK`).  That ids come free again when rows are
deleted makes one more part necessary: once an exported row is gone the cursor is in the
past, so no new row under its id can come beyond it.  `Page` chooses the row of each
rank: that there is exactly one is a lemma about finite sets in a strict total order, by
an injection into an interval as large as the set.

Only model-checked: liveness (`DoubleUseEndsSession`, `DueIsRemoved`, `SessionLoopEnds`),
which is out of the prover's reach.

## 5. State of the plan

The components that keep state other parts depend on are modelled, and every invariant,
action property and refinement that a passing run checks is proved.  What is left are the
liveness properties, for which TLC's instances are all there is, and the hazards without a
property in `PROJECT.json`, each with the reason there.

## 6. Not modelled

The admin UI and the mobile SDKs hold no state a property depends on.  Metrics, tracing,
logging, OpenAPI contracts and composition code only observe or wire.  Scripts are
one-off tools.  `packages/auth-core/src/auth-service.ts` is not wired into the server.
The rate limiter is one atomic Redis script; in the models a limit is a refusal.  The
discovery and JWKS caches of the SDK and its `JwtVerifier` copy what `KeyStore` publishes
and are never refreshed, so only what holds before the first rotation could be said of
them.  Risk scores and bot checks are refusals; profile fields, claims, snapshots and
access reviews are pure reads or single-row writes.  The order of calls inside the OIDC
library, password hashing, TOTP and WebAuthn cryptography and token signing are external.
Every component, with its status, is in `PROJECT.json`.

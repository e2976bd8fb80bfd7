# A verification project for qeet-id

qeet-id is an identity provider written in Go: one Postgres database, any number
of stateless API replicas, any number of worker replicas and a scheduler. This
directory holds TLA+ models of the parts where several of those processes meet
over the same rows, the TLC runs that check them on small instances, and proofs,
checked by TLAPS, of the properties that matter most. Paths below are relative to
`src/`; line-by-line correspondence is in `PROJECT.json` under `map`.

Contents: [inventory](#1-inventory) · [how the models read the code](#2-how-the-models-read-the-code) ·
[modules](#3-modules) · [runs](#4-runs) · [bounds](#5-bounds) · [fairness](#6-fairness) ·
[findings](#7-findings) · [proofs](#8-proofs) · [what is not modelled](#9-what-is-not-modelled) ·
[plan](#10-plan)

## 1. Inventory

The Go code is in `internal/`, a directory per bounded context, and `cmd/`, one
per process. Each service keeps its state in Postgres; what is below a `pool` or
a `tx` is READ COMMITTED unless the code says otherwise, and it never does.

| Component | State | Operations that change it | Talks to |
|---|---|---|---|
| `access/authentication` (sessions) | `auth.sessions`, `auth.refresh_tokens` | issuePair, Refresh, Logout, RevokeUserSessions | users (status), recovery (revokes), outbox (`session.revoked`), audit |
| `access/authentication` (sign-in) | `password_credentials`, `login_attempts`, `mfa_login_challenges`, login sessions, trusted devices | CheckPassword, Login, CompleteMFALogin, Signup | mfa, auth-hooks, passwords, sessions |
| `access/mfa` | TOTP row, recovery codes, SMS/e-mail factors and codes, step-up window | StartEnroll, ConfirmEnroll, Verify, Disable, Regenerate, EnrollOTP, ChallengeOTP, VerifyOTP, ResetForUser | sign-in, users' settings |
| `access/passkeys` | WebAuthn sessions, credentials | registration, sign-in, second factor, sign-up | sign-in, users |
| `access/recovery` | `password_resets`, `magic_links` | start and confirm, each | passwords, sessions, mail |
| `access/authorization` | roles, permissions, assignments; relation tuples; policies | rbac CRUD, rebac Write/Delete, abac CRUD; Check, Explain, Expand, Evaluate read | groups, tenants |
| `access/risk`, `access/threat` | last sign-ins, IP rules, bot and risk settings | scoring, settings | sign-in |
| `identity/users` | `user.users`, e-mails, phones | Create, import, Update, SoftDelete, Restore, Purge, setPassword | gdpr, retention, scim |
| `identity/groups` | `groups`, `group_members`, `group_roles` | CRUD, members, roles | rbac, scim |
| `identity/invitations`, `tenant` | invites, tenants, memberships | create, accept, revoke; found a tenant | users, mail |
| `identity/domainverify`, `verification` | domain claims; codes and links for addresses and numbers | add, verify, remove; start, confirm | DNS, mail, SMS |
| `federation/oidc` | clients, consents, codes, device codes, CIBA requests, refresh tokens, signing keys | authorize, token endpoint, revoke, client administration, key rotation | sessions, users, audit |
| `federation/scim` | bearer tokens, users and groups as the IdP sees them | POST, PUT, PATCH, DELETE | users, groups, audit |
| `federation/saml`, `ldap`, `social` | connections, service providers, states, login codes, external identities | sign-in ceremonies, connection CRUD | users, sessions, audit |
| `federation/adminportal` | links with capabilities | generate, revoke; changes through a link | saml, scim, audit |
| `developer/webhooks` | subscriptions, deliveries | Create, Disable, Enqueue, dispatch, RetryDelivery | every emitter |
| `developer/agents`, `api-keys`, `principal` | agents and their status, keys, service principals | life cycle, kill switch, token issue, revocation | rbac, request middleware |
| `developer/credentials/tokenvault` | providers, connect states, grants | connect, refresh, disconnect | outside providers |
| `operations/audit`, `anomaly` | the hash-chained `audit.events`; baselines, anomalies | Record, Verify; sweep, resolve | every service, scheduler |
| `operations/siem` | sinks with cursors | sink CRUD, forwarder tick | audit |
| `operations/gdpr`, `retention` | purge and export requests, evidence runs, policies | Request, Cancel, sweep; Generate; run retention | users, most tables |
| `operations/activity` | streams and their buffers, in memory | Subscribe, fanOut, Unsubscribe | outbox (NATS) |
| `operations/billing` | plans, checkouts, subscriptions, invoices | checkout, webhook, change, cancel | the payment provider |
| `operations/ratelimits`, `platform/cache/ratelimit` | overrides; token buckets in memory | SetOverride, DeleteOverride; Take | every request |
| `platform/events/outbox` | `outbox` and its dead letters | Enqueue, dispatch, dead-letter | every service, worker |
| `operations/` and `platform/` rest | mail settings, notifications, conversations; none | CRUD, queries, support code | |
| `cmd/worker`, `cmd/scheduler` | none | start the loops above, verify the audit chain, clean up | |

What is hard about it, in the code's own terms:

* **Locks that cover less than the decision.** A refresh locks the token's row
  (`FOR UPDATE OF rt`) while the session it joins comes from the statement's
  snapshot; an UPDATE of "all rows of this grant" sees only the rows that were
  committed when it began; PUT and PATCH of a group lock the group's row or none.
* **Select, then act.** The outbox, the webhook dispatcher and the two GDPR
  sweepers use `FOR UPDATE SKIP LOCKED` in a statement that is its own
  transaction, so its locks are gone before the work starts; several replicas may
  hold the same row and write back a counter they read earlier.
* **Slow steps in the middle.** Argon2 comparisons, hooks, HTTP posts and token
  signing sit between a read and the write that depends on it.
* **Single-use things.** Refresh tokens, reset tokens, magic links, authorization
  codes, device codes, CIBA requests, MFA challenges, recovery codes, invitations,
  passkey sessions, social states, login codes, one-time codes, connect states,
  payments: each is locked, deleted or marked in its own way.
* **What has been withdrawn but is still in somebody's hands**: suspended agents,
  revoked keys, rotated secrets, disabled connections, retired signing keys.
* **Memory beside the database**: rate-limit overrides, buckets, signing keys and
  streams live in a process and outlive, or do not survive, the rows they mirror.
* **Crashes between a commit and what should follow it**, such as the tokens for a
  code already spent, or the `session.revoked` event for a session already revoked.
* **Lists of statements that must be complete**, of which erasure is the longest.
* **Order in one clock or several**: the audit chain and the forwarder's cursor
  are ordered by a timestamp each replica takes from its own clock.

What makes each component correct, and where that is stated:

| Component | Correct when | Property |
|---|---|---|
| sessions | one live refresh token a session; revocation final but for one refresh in flight; a reuse ends in revocation; relying parties hear only of sessions really revoked | `OneUnusedPerSession`, `AtMostOnePairAfterRevocation`, `ReuseRevokes`, `SignalledIsRevoked`, `ImplementsTokenFamily` |
| sign-in | guesses bounded by the threshold, the requests in flight and the storage errors; one alert per lock; tickets single-use | `GuessesBounded`, `AlertOncePerLock`, `TicketsSingleUse` |
| accounts | an outside identity is one live account, unless two first sign-ins overlapped with different addresses | `OneLiveAccountPerIdentity` |
| invitations, passkeys, social and SAML codes, factors, vault, billing | what is presented is honoured once, for what it was made | `HonouredOnce` |
| SSO, clients, directories | a row and the last audit record about it do not contradict each other | `AuditTellsTheState` |
| portal links, IdP | a link works on its own tenant, within its capabilities; users are asserted to their tenant's providers only | `DelegatesStayHome` |
| domains, directories | what counts as verified was proven | `VerifiedMeansProven` |
| agents, keys, clients, directories | what was withdrawn before a request arrived does not let it in | `OutStaysOut` |
| OAuth tokens | one rotatable token per grant; a dead grant stays dead | `OneUnusedPerGrant`, `DeadGrantStaysDead` |
| OAuth tickets | one token response per ticket, for scopes its user approved, never after a denial | `IssuedOnce`, `IssuedWasApproved`, `GrantsAreOneTime` |
| signing keys | tokens outlive the rotation of the key they name | `RotationKeepsTokens` |
| audit | the log does not accuse itself, clocks and address spelling permitting; an altered interior row is found | `UntouchedChainVerifies`, `InteriorTamperDetected` |
| SIEM, activity | nothing is skipped that was stamped in order, the newest event is kept; everything committed is delivered in the end | `NoneSkipped`, `EventuallyDelivered` |
| evidence, anomaly | a verdict was so at a moment of its run; a scored event is in its baseline, a resolved anomaly stays so | `ReportsAreTrue` |
| outbox, webhooks | marked only if accepted, given up only after all attempts, settled in the end | `EventMarksAreTrue`, `EventuallySettled`; `MarksAreTrue`, `DeliveriesSettle`; both `QueuesImplemented` |
| gdpr, users, retention | a completed purge leaves nothing in the columns of the user's row it names; ripe purges and exports are carried out | `CompletedIsRedacted`, `RequestsSettle` |
| rebac | an answer is one that the tables seen during the walk allow | `AnswerIsBracketed` |
| abac | a request is allowed only if it is however errors are read | `AllowIsCertain` |
| rbac, groups | check and explanation agree; no tenant grants through another's groups | `DecisionsAgree`, `GroupGrantsAreHomeMade` |
| SCIM | PUT leaves what it names, PATCH what its operations say where their order cannot matter and none is read as another; repeating a call does no harm | `GroupsEndAsAsked`, `RepeatedCallsAreSafe` |
| rate limits | a key gets its capacity and its rate, no more | `BudgetKept` |

`PROJECT.json` lists the components with what is modelled of each, and under
`hazards` every place found so far where the code can go wrong in a way a test
would hardly reach, with the properties that watch it.

## 2. How the models read the code

The unit of interleaving is a database statement, or a transaction where only one
statement of it matters. The models follow Postgres at READ COMMITTED:

* a statement sees what was committed when it began; a row it locks is read again
  once the lock is granted, the rows it joins are not. `Sessions` splits
  `SELECT ... FOR UPDATE OF rt` into `RefreshSelect` (the snapshot, with `barred`
  for what it says of the session and the user) and `RefreshLock` (the token's
  own `used_at`);
* an UPDATE of several rows works on its snapshot's rows, taking their locks one
  by one (`Visit` in `OAuthTokens`), so rows inserted meanwhile escape it;
* the writes of a transaction appear at its commit, and the locks go with it; a
  cycle of waiters is a deadlock, of which Postgres aborts one (`DeadlockAbort`);
* an `INSERT` waits for a transaction that is inserting or deleting the same key
  (`ScimGroups`, `Accounts`);
* a conversion is what it does: an audit row keeps the hash of the address as it was
  given and, in the column, what `host()` makes of it (`AuditChain`); a pattern that is
  no regular expression matches nothing (`Policies`);
* `DELETE ... RETURNING` takes a row for one of its takers, before anything about
  the row is checked (`Ceremonies`, `TokenVault`);
* a change and its audit record are two statements of one transaction that holds
  the row until it commits or rolls back (`SsoAdmin`, `Clients`, `Directory`).

Where Go shares memory without a lock the unit is finer: `SigningKeys` has a step
for each read and write of the active key and the map of verifiers, `Activity` one
for each cell of the slice that a leaving stream shifts, `Limiter` one for reading
the clock and one for taking the bucket.

A handler is an element of `Request` (or `Dispatcher`, `Sweeper`, `Worker`,
`Walker`), with a program counter `pc` and the values it has read. A refusal that
leaves no trace is not a step unless it releases a lock. Wall-clock time is an
action that may happen whenever the deadline exists (`Expire`, `LockExpires`,
`BackoffElapses`, `GraceEnds`). Hashes are injective, secrets are unguessable: a
request that has a token is one that was given it. A failure of a statement, a
restart or a crash rolls back what is uncommitted and drops what is in memory.

Histories, variables no code reads, are kept only where a property needs them and
are marked so in the module, such as `late` and `signalled` (`Sessions`), `tries`,
`faults` and `lost` (`Login`), `first` (`OAuthTokens`), `approved`, `issued`
(`GrantTickets`), `tamper` (`AuditChain`), `acked` (`Outbox`), `ever`
(`Relations`), `split` (`Accounts`), `honoured` (`Ceremonies`), `counted` (`Factors`), `told` and
`asserted` (`SsoAdmin`), `shown` (`Domains`), `good` and `bad` (`Evidence`), `owed`
and `raced` (`Activity`), `allowed` and `changed` (`Limiter`).

## 3. Modules

| Module | Code | Actions, by the handler they stand for |
|---|---|---|
| `TokenFamily` | none: the abstract specification of a session | `Open`, `Rotate`, `Close` |
| `OneTimeGrant` | none: the abstract specification of a code, a device grant and a CIBA request | `Say`, `Ask`, `AskAgreed`, `Grant`, `Deny`, `Spend`, `Answer` |
| `DeliveryQueue` | none: the abstract at-least-once queue of the outbox and the webhooks | `Put`, `Accept`, `Refuse`, `MarkDone`, `GiveUp`, `Reopen` |
| `Sessions` | `access/authentication/service.go`, `access/recovery` | `IssuePair`; Refresh = `RefreshSelect`, `RefreshLock`, then `RefreshRefuse`, `RefreshRotate` or `RefreshReuse`; `Logout`; the webhook after both = `Emit`; `RevokeUserSessions`; the user's status = `SetBlocked`; `Expire`, `Crash` |
| `Login` | `access/authentication`, `access/mfa`, `access/recovery` | CheckPassword = `CheckLock`, `VerifyPassword`, `RecordFailedLogin` or `ClearLoginAttempts`, each with the storage error the code swallows, `Rehash`, `HookDenies`; second factor = `LoginWithoutMFA`, `LoginTrusted`, `CreateChallenge`, `SelectChallenge`, `VerifyTOTP`, `MatchRecoveryCode`, `MarkRecoveryCodeUsed`, `WrongCode`, `DeleteChallenge`, `Issue`; recovery = `SendTicket`, `LockTicket`, `ConfirmPasswordReset`, `ConsumeMagicLink`, `TicketRollback`; settings = `StartEnroll`, `ConfirmEnroll`, `Regenerate`, `DisableMFA`, `SetPassword`; time |
| `OAuthTokens` | `federation/oidc/oidc.go`: RefreshToken, Revoke, RevokeGrant, issueRefreshToken | `Redeemed`, `IssueRefreshToken`; `RefreshLock`, `Rotate`, `Reuse`, `RefreshRefuse`; `RevokeGrant`, `Visit`, `Commit`, `DeadlockAbort`; `RevokeToken`; `Expire`, `Crash` |
| `GrantTickets` | `federation/oidc`: authorize, consent, code exchange, device.go, ciba.go | `AuthorizePage`, `Decision`, `Authorize`; `DeviceAuthorize`, `ApproveDevice`, `DenyDevice`, `RevokeDevice`; `BackchannelAuthorize`, `DecideBackchannel`; `RedeemLock`, `RedeemRefuse`, `PollAgain`, `Redeem`, `Issue`; `Expire`, `IntervalElapses`, `Crash` |
| `AuditChain` | `operations/audit`, the scheduler's job | `LockChain`, `Record` (with the address as given and the replica's clock), `Commit`, `Rollback`; `ScheduledVerify`; and, outside the program, `EditRow`, `ReorderRows`, `DeleteRow` |
| `SiemForwarder` | `operations/siem/siem.go` over `AuditChain` | sink CRUD; a tick = `ListSink`, `Fetch`, `Post`, `Advance` |
| `Outbox` | `platform/events/outbox`, the scheduler's cleanup | `Enqueue`; a tick = `Select`, `PublishOK` or `PublishFails`, `MarkPublished`, `BumpAttempts` or `DeadLetter`; `StatementFails`, `Restart`, `CleanDeadLetter` |
| `Webhooks` | `developer/webhooks/webhook.go` | `Create`, `Disable`; Enqueue = `ListSubscriptions`, `InsertDelivery`, `EmissionEnds`; a tick in `Dispatch`; `RetryDelivery`; failures |
| `Erasure` | `operations/gdpr`, `operations/retention`, `identity/users` | requests and `Cancel`; the sweeper = `SelectPurges`, `PurgeOne`, `PurgeOneFails`, `SelectExports`, `Collect`, `Ready`, `Fail`, `EndTick`; users = `SignIn`, `Update`, `ConfirmPasswordReset`, `SoftDelete`, `Restore`, `PurgeUser`; retention = `SetPolicy`, `ListPolicies`, `PurgeTenant`, `RunRetention` |
| `Relations` | `access/authorization/rebac/rebac.go` | Check, CheckExplain and Expand = `Ask`, `LookAtPerson`, `Descend`, `Return`, `FetchFails`; `Write`, `Delete` |
| `ScimGroups` | `federation/scim/groups.go`, `identity/groups/group.go` | `CreateGroup`, `DeleteGroup`; PUT = `BeginPut`, `Touch`, `Clear`, `ClearRow`, `AddMemberTx`, `Commit`; PATCH = `BeginPatch` (`ParseGroupPatch` reads the operations, also those without a path or on one member), the same and `RemoveMemberTx`; an administrator = `AddMember`, `RemoveMember`, `DeleteUser`; `Rollback` |
| `Roles` | `access/authorization/rbac`, `identity/groups` | roles, permissions, assignments, groups and their members and roles, an action each; `Check` and `Explain` are operators, one SELECT in the code |
| `Accounts` | `identity/users`, `invitations`, `tenant`, sign-up, `findOrCreateUser` of social, SAML and LDAP | a first sign-in = `LookIdentity`, then `LinkFound` or `LinkNew`; `Unlink`; `Signup`, `RegisterInTenant`, `CreateUser`, `BulkCreate`, `ImportRow`; `CreateInvite`, `RevokeInvite`, `AcceptLock`, `Accept`; `Delete`, `Restore`, `Purge`; `CreateWithOwner` |
| `Ceremonies` | `access/passkeys`, `federation/social`, `saml` | `BeginRegister`, `BeginLogin`, `BeginMFA`, `CheckSignup`, `BeginSignup`, `BeginSocial`; `TakeSession`, then a `Finish...` each or `Refuse`; `CompleteCallback`, `AssertionConsumed`; `ExchangeLock`, `ExchangeMark`, `ExchangeIssue` |
| `Factors` | `access/mfa` (codes and step-up), `identity/verification`, login sessions, trusted devices | `EnrollOTPStart`, `ChallengeOTP`, `StartEmail`, `StartPhone`; the locking reads `GetOTPCodeForConfirm`, `GetOTPCodeForVerify`, `GetLatestVerification`; `EnrollOTPConfirm`, `VerifyOTP`, `ConfirmContact`; `RequireRecentMFA` and what it guards; `CreateTrustedDevice`, `CreateLoginSession` |
| `SsoAdmin` | `federation/saml`, `adminportal`, SCIM tokens | a change = `Statement` (of a connection, provider, token or link), then `RecordAudit` or `Rollback`; `Resolve` and the `Portal...` changes; `LookupSP`, `IdpSSO` |
| `Directory` | `federation/ldap` | connection changes as in `SsoAdmin`; a sign-in = `Arrive`, `getFull`, `Search`, `BindUser`, `Login`; and, outside, `ChangeEntry`, `ServerStops` |
| `Domains` | `identity/domainverify` | `Add`, `Remove`; Verify = `GetDomainForVerify`, `LookupTXT`, `MarkDomainVerified`; and, outside, `PublishOrWithdraw` |
| `TokenVault` | `developer/credentials/tokenvault` | `RegisterProvider`, `BeginConnect`; the callback = `DeleteConnectState`, `FinishConnect`, `StoreGrant`; a use = `GetTokenGrant`, `GetAccessToken`; `Disconnect` |
| `Policies` | `access/authorization/abac` | `Create`, `Update`, `Delete`; the conditions and `Evaluate` are operators |
| `ScimUsers` | `federation/scim/scim.go`, users' administration | POST = `CreateWithCredential`, `TagProvisioned`, `CreateSuspended`; PUT and PATCH = `UpdateUser`, `Reload`; DELETE = `StartDelete`, `SoftDelete`; `Fails`; `AdminDelete`, `AdminRestore` |
| `Limiter` | `platform/cache/ratelimit`, `operations/ratelimits` | `StoreOverride`, `CacheOverride`; a request = `RateFor`, `ReadClock`, `Take`; `Restart`, `Tick` |
| `Billing` | `operations/billing` | `ChangePlan`, `Cancel`, `CheckoutFree`, `CheckoutPaid`, `Open`, `Answered`, `CheckoutFails`; the webhook = `HandleWebhook`, `CompleteCheckout` or `CompletionFails`; and, outside, `Pay` |
| `Machines` | `developer/agents`, `api-keys`, `principal`, `platform/http/httpx/auth.go`, token exchange | `SponsorBelongsToTenant`, `CreateAgent`, `TransferAgentSponsor`; a change of status = `GetAgentStatus`, `Transition`; `KillAllAgents`; keys and principals; a token = `AskToken`, `GetForToken`, `IssueToken`, `TokenExchange`; a request = `Call`, `VerifyAPIKey`, `RequireAuth`, `Serve` |
| `Clients` | `federation/oidc/clients_admin.go`, client authentication | `RegisterClient`, `UpdateClient`, `RotateClientSecret`, `DeleteClient`, then `Commit` or `Rollback`, `Answer`; `ReviewClient`; `Ask`, `AuthenticateClient` |
| `SigningKeys` | `platform/crypto/tokens/jwt.go`, `rotateKey` | `SignHeader`, `Sign`; `GenerateKey`, `RetireKey`, `Rotate`, `RecordRotation`, `Answer`; `Restart`; the operator's `SaveKey`, `DropRetired` |
| `Evidence` | `operations/gdpr/evidence.go` | `Begin`, `AskFirst`, `Check`, `Generate`; the catalogs of controls are operators; `ChangeTable` |
| `Anomaly` | `operations/audit/anomaly` | a sweep = `ListUnscoredAuditEvents`, `settingsFor`, `loadBaseline`, `InsertAnomaly`, `saveBaseline`, `MarkAuditEventScored`; `Rollback`, `Crash`; `ResolveAnomaly`, `UpdateSettings` |
| `Activity` | `operations/activity` | `Subscribe` (with the replay), `Unsubscribe` = `Shift`, `Shorten`; `dispatch`, `fanOut`, `FanOutEnds`; `stream` |

Composition. `Sessions` implements `TokenFamily` (`INSTANCE TokenFamily WITH` a
refinement mapping), `GrantTickets` implements `OneTimeGrant`, and `Outbox` and
`Webhooks` both implement `DeliveryQueue`, the one without, the other with an operator
who may put a settled message back; each of these is checked and proved.
`SiemForwarder` extends `AuditChain` and reads its rows; the step of either
leaves the other's variables alone. A redemption in `GrantTickets` is what
`Redeemed` in `OAuthTokens` assumes happened, and an account that `Ceremonies`,
`Directory` or `ScimUsers` need is one that `Accounts` makes. The rest share no rows
that matter to their properties; where several of them are checked in one run, the
MC module has a variable that says which one moves, chosen at the start: since they
share nothing, a behaviour of all is one of each. Some properties of such a run are
conjunctions over its parts, named for what the parts have in common.

An MC module instantiates a model for TLC: it adds sets of model values, symmetry
and, for the runs that hold several models, a variable that picks the one that moves.
`Sessions`, `Login` and `SiemForwarder` are checked as they stand.
The theorems (section 8) are in modules of their own. `SessionsProofs`, `LoginProofs`
and `AuditChainProofs` extend the model they are about (the last one `SiemForwarder`
over `AuditChain`). `GrantsProofs`, `WorkersProofs`, `AuthzProofs` and `IdentityProofs`
extend the MC module that holds the models they are about, so that a theorem is about
the very property a run checks.

## 4. Runs

Seven runs must pass, five must find the violation they name (section 7).
`tlc -workers 2 -config <cfg> <module>`; the times are on two workers.

**sessions** (`Sessions` with `MCSessions.cfg`, 262,000 states, 2 min). Two
handlers refresh, replay and log out while the account is suspended or reset, tokens expire and one
handler fails. Shows that the row lock and the re-read `used_at` make rotation
exclusive (`OneUnusedPerSession`); that a revocation can be outrun by exactly one
refresh already past its snapshot (`AtMostOnePairAfterRevocation`); that a reuse
is followed by the revocation although the request fails (`ReuseRevokes`); that
the webhook never precedes the commit (`SignalledIsRevoked`); and that the whole
is a `TokenFamily`.

**login** (`Login` with `MCLogin.cfg`, 2.6 million states, 2 min). Two requests anywhere
between the lockout check and the last factor, with a reset token or a magic link,
enrolment and removal of the second factor, administrators changing the password, and
one storage error of the lockout. `GuessesBounded` gives the exact price of checking
the lock before the slow comparison and of swallowing what goes wrong with it: one
guess per request in flight and one per lock that could not be read or failure that
was not stored. `AlertOncePerLock` follows from the counter being one upsert whose
returned value is compared with `=`.

**grants** (`MCGrants`, 823,000 states, 2 min). One of six parts moves.
*Tokens*: refreshes, replays and revocations of one grant beside another, with a
deadlock; one rotatable token per grant, and a grant all of whose tokens are revoked
never revives. *Tickets*: a code, device code or CIBA request with two clients (one
of another tenant, without scopes) and two scopes; one response, for scopes approved
at the time; and as a whole a `OneTimeGrant` (`GrantsAreOneTime`), so that what was
denied stays denied and is never redeemed, and what one user granted is not granted to
another. *Keys*: two processes rotate, sign, verify and restart; a token verifies where it was issued for as long as it lives
(`RotationKeepsTokens`). *Evidence*: a table changes and a query fails during a run;
each verdict holds at some moment of it. *Anomaly*: two sweepers score two events of
one actor while an administrator resolves (`ReportsAreTrue` is about these two).
*Activity*: three streams come, go and fall behind (`InOrder`, `NewestIsKept`).

**siem_live** (`SiemForwarder` with `MCSiem.cfg`, 38,000 states, 2 min). Two transactions
record side by side, a replica's clock may run ahead by the time of two inserts,
and an address may be given in another way than `host()` writes it. A chain nobody
altered verifies throughout if its rows were stamped in order and its addresses given
as the column shows them (`UntouchedChainVerifies`: the two conditions are about the
rows, not about the bounds of the run, which has rows of either kind). Then either rows
are edited, reordered and deleted behind the program's back and found out, whatever the
clocks (`InteriorTamperDetected`), or a sink is fed by two workers: of a log stamped in
order it skips nothing (`NoneSkipped`), and every committed row reaches it while it is
enabled, although posts fail, cursor updates are lost and a slow worker sets the cursor
back. The last two are asked of untouched logs, since an altered row differs from the
one delivered.

**workers** (`MCWorkers`, 143,000 states, 3 min). The outbox, the webhook deliveries
and the GDPR sweeper, each with two replicas that hold the same rows, failing
statements, and a restart; and with operators, users and retention acting
meanwhile. The marks are truthful (`EventMarksAreTrue`, `MarksAreTrue`,
`CompletedIsRedacted`), giving up is never early although the counters are written
from stale reads, the outbox and the deliveries are each a `DeliveryQueue`
(`QueuesImplemented`), and nothing waits for ever (`EventuallySettled`,
`DeliveriesSettle`, `RequestsSettle`).

**authz** (`MCAuthz`, 431,000 states, 2 min). Relationship walks beside writes; a PUT
beside a PUT or a PATCH, which may be a single operation the parser reads as something
else; two tenants' administrators over roles and groups.

**identity** (`MCIdentity`, 981,000 states, 4 min). Thirteen parts, one at a time:
* *accounts*: two requests sign in through one outside identity for the first time
  while an account is created, imported, invited, deleted, restored and purged under
  the same address, each with the address the provider gave it before its transaction
  began (`OneLiveAccountPerIdentity`);
* *ceremonies*, *factors*, *vault*, *billing* and again *accounts*: each row of a
  ceremony, each code, state, payment and invitation is presented by two requests, late,
  twice or for another purpose (`HonouredOnce`); the step-up window is opened by a code,
  a recovery code and by the end of an enrolment, as in the code;
* *sso*, *clients*, *directory*: two administrators, or an administrator and the
  holder of a link, change one row, with either statement or the commit failing; a record
  says what the code's does, the status of an update but neither that of a new row nor a
  changed address or identifier
  (`AuditTellsTheState`, `DelegatesStayHome`);
* *domains*: two tenants claim, remove and claim again one domain while a
  verification waits for the DNS (`VerifiedMeansProven`, which also says that a
  directory sign-in gave a password its entry had);
* *machines*, *clients*, *directory*: a request, a token, a secret and a connection at
  every point of being withdrawn (`OutStaysOut`);
* *policies*: every operator over a number, a text and a list, `regex` with a pattern that
  is none among them, and combinations of conditions of which some cannot be evaluated,
  in two policies (`AllowIsCertain`);
* *scim*: two calls for the same user and a repetition of either (`RepeatedCallsAreSafe`);
* *limiter*: two requests of one key read the clock and reach the bucket in either
  order while an override is written (`BudgetKept`).

Every property is known to be falsifiable: `PROJECT.json` lists under `mutants`,
for each, a definition of the model and the same definition with a plausible bug
(a lock not taken, a condition not asked, a commit replaced by a rollback, an
off-by-one at a threshold); the mutated forms stand next to the originals in the
modules and are marked *Mutant*. A property that is a conjunction over several parts
has one mutant in that list, in one of them; for the other parts the modules have
mutants of their own, with which a run of that part alone is violated.

## 5. Bounds

The bounds are constants, named in each `.cfg` or at the instantiation in the MC
module. Why they are enough:

* **Two of every actor.** The hazards are between two holders of one row. More
  are covered by the proofs, which hold for every number: all safety properties of
  the passing runs have one.
* **Three tokens** in `sessions` and `grants`: a token, its successor and the
  successor's successor, so that a replay of the first meets a family that moved
  on twice. Two pairs in `grants`, so that a revocation of one must spare the other.
* **MaxFailed = 2** in `login`: one wrong password below the threshold, the one
  that reaches it, and, with two requests in flight, those past it. **MaxFault = 1**: a
  lock that cannot be read or a failure that is not stored; deletes fail without bound.
  One ticket is sent in a behaviour (`OneTicket`): the property is about each.
* **MaxRows = 3** in `siem_live`: an interior row, its predecessor and its
  successor; **MaxWatched = 2** where a sink is fed and nobody alters rows: the
  second is linked to the first. **MaxSkew = 2**, and in the logs a sink reads a clock is
  right or that much ahead, where two inserts are at least one apart: a row may be stamped like the one before it, or before it. With 1 nothing would
  need `InOrder`; with 2 `NoneSkipped` fails without it. Two spellings of an address: the
  one `host()` writes and another.
* **MaxAttempts = 2, MaxPosts = 3**: the first failure, a retry, the cap. One
  operator retry (`MaxRetry`), at any moment.
* **MaxFault, MaxFailure, MaxCrash = 1**: one lost statement or restart per
  behaviour; a second one repeats what follows from the first.
* **MaxDepth = 2 with three nodes** in `Relations`: every chain of usersets lies
  within the cap, which is when the answer is meant to be exact (`WithinCap`).
  One tuple is written or deleted during the walk.
* **MaxOps = 2** in `ScimGroups`: the smallest PATCH whose order can matter. The
  run generates the PATCHes whose order does not and, alone, the operations that are
  read as something else; the property speaks of the former.
* **Three keys, two processes, `MaxToken = 2`** in `SigningKeys`: two rotations after
  the first key, overlapping in one process or apart in two, and two tokens out at a
  time: the property is about one. Keys and streams are used in their order.
* **MaxChanges = 1** in `Evidence`: one table changes, between any two queries; one
  that changes before a control asks is as good as one that changes when it asks
  (`WhenAsked`). The run ends when its verdicts are stored.
* **MaxTime = 2, limits of one and two** in `Limiter`: a bucket that is refilled
  beyond its capacity and one that is not.
* **MaxLives = 2** in `ScimUsers` (an account restored once), **MaxInvoices = 3** in
  `Billing` (one more than two checkouts can make), **MaxEvent = 2** and buffers of one
  in `Activity` (a second event finds the buffer full).
* **One of the odd things at a time**: in `MCIdentity` one policy of any kind beside
  simple ones, one agent, key or principal, at most one account before the ceremonies
  begin. Ids are never used again, so two rows of a kind already are an old and a new
  one; three domain claims let two tenants claim and one claim again.
* In `MCAuthz` steps of `Roles` that change no table are left out, and at first
  nobody has a relation to itself. A part that stands still has one initial state.

`CHECK_DEADLOCK FALSE` stands where a bounded model comes to rest: all tokens
used, all rows recorded, all attempts spent, all edits made, all ids drawn.

## 6. Fairness

| Spec | Assumed | Because |
|---|---|---|
| `Sessions!FairSpec` | WF of a handler's next step, SF of `RefreshLock` | a started handler runs on; Postgres queues the waiters of a row lock, so none is passed over for ever |
| `Outbox`, `Webhooks` | WF of a tick's steps per replica, WF of `BackoffElapses` | the ticker of `cmd/worker` fires until the process ends and a replacement starts; time passes. Nothing is assumed of the publisher or the receiver: failures end in dead letters |
| `Erasure` | WF of `SweepStep` per replica | the same ticker; failures are bounded (`MaxFault`), which the property needs |
| `SiemForwarder` | SF of `ListSink`, `Fetch`, `Post`, `Advance` | at-least-once delivery presupposes a collector that does not refuse for ever and a cursor update that does not fail for ever; sinks are visited in turn |
| `AuditFairSpec` | WF of `ScheduledVerify` | the scheduler's ticker |

No fairness is assumed of clients, administrators or the passing of a deadline
other than backoff, and none of the modules that `MCIdentity` instantiates: what
they owe is safety, their handlers answer or fail.

## 7. Findings

Five runs each check one statement of the repository that the code does not keep.

| Run | Statement | What happens |
|---|---|---|
| `login_reset` | `recovery/http.go:70`: "Your password has been reset. You can now sign in with your new password." | A sign-in that verified the old password before the reset writes its rehash after it, by `user_id` alone (`authentication/service.go:662`): the old password is back. |
| `login_challenge` | `flows_test.go:106`: "The challenge is single-use." | `verifyAndConsumeMFAChallenge` selects without a lock and does not look at how many rows its DELETE hit (`service.go:581`): two completions are let in by one challenge. |
| `grant_revoke` | `oidc.go:1424`: "... so a rotated sibling can't keep the grant alive" | The UPDATE waits for a rotation and then revokes what its snapshot showed; the successor stays active (`oidc.go:1436`). The replay branch has the same statement. |
| `audit_tenants` | `cmd/scheduler/main.go:70`: "nil = all tenants" | `Verify(ctx, nil)` selects the rows without a tenant (`verifier.go:41`): no tenant's chain is ever verified by the job. |
| `erasure_cancel` | `gdpr/queries.sql:114`: "Cancel a pending purge request (e.g. the subject changed their mind)." | The sweeper acts on a request it selected before the cancellation and marks it completed (`gdpr.go:175`). |

Met while modelling, and without a run of their own:

* a password reset revokes sessions but emits no `session.revoked`;
* the lockout fails open: a lock that cannot be read counts as none
  (`lockout.go:25-33`), a failure that cannot be stored is logged and not counted
  (`56-59`), and the counter stays when its delete fails (`66-69`);
* one recovery code may serve two sign-ins, as a challenge may (`mfa.go:222`);
  `StartEnroll` clears `confirmed_at`, so beginning a second enrolment switches
  the second factor off until it is confirmed (`mfa.go:61`) and a sign-in then needs
  the password only; confirming it counts as a step-up proof (`mfa.go:88`), for which
  the old factor was never asked;
* a refresh of an OAuth grant does not look at the user's status; a replay that
  the database aborts in a deadlock with an older RevokeGrant may leave the
  replayed grant live; `RevokeDevice` after the commit of a poll does not stop the
  tokens that poll is about to make; the authorize endpoint does not compare the
  client's tenant with the user's, as the device page does;
* rows cut off the end of an audit chain are not noticed. Replicas whose clocks disagree
  by more than the time between two inserts can make an untouched chain fail and the
  forwarder pass over a row, against its "at-least-once", since `created_at` is the
  replica's clock (`audit.go:178`) and the order of both: `UntouchedChainVerifies` and
  `NoneSkipped` say so by asking for rows stamped in order (`InOrder`);
* Record hashes the caller's address as given (`audit.go:99`, `179`) and stores it
  `::inet`; Verify hashes `host(ip)` (`audit/queries.sql:42`, `verifier.go:90`), and
  `ClientIP` takes `X-Forwarded-For` as it stands (`httpx/ctx.go:41`). So `10.0.0.5/24`
  or an IPv6 address in capitals makes an untouched chain fail, against
  `queries.sql:36` ("the canonical bytes match what Record wrote at insert time
  regardless of how Postgres stored the values"). `UntouchedChainVerifies` asks for
  addresses given as `host()` writes them (`AsGiven`); without that it fails in its run;
* a dispatcher that fails at the cap dead-letters a row another one has
  delivered, so that it is both;
* a purge redacts the columns `PurgeUserPII` names and drops the password, the TOTP secret
  and the recovery codes (`gdpr.go:159`), against `gdpr.go:115` ("erases PII from the user
  row + drops auth credentials") no more: `avatar_url` and `external_id` stay on the row;
  passkeys, OTP factors and external identities keep theirs; a reset token asked for
  before sets a password again (`recovery.go:100`). All of it is in `Erasure` (the kinds
  `avatar`, `factor` and `password` of `data`), and `CompletedIsRedacted` is about the
  kind `profile`, the columns, only;
* an export collected before a purge and stored after it keeps the data; retention's
  deletion of users cascades to the tombstones of completed purges
  (`0018_gdpr.up.sql:5`);
* two first sign-ins of one outside identity, to which the provider gave different
  addresses before their transactions began (`social.go:310`), each find nothing and
  insert an account (`362`); one link is dropped by `ON CONFLICT DO NOTHING` and each is
  signed in to its own, against `social.go:352` ("All in one tx so concurrent logins
  can't duplicate rows"). `OneLiveAccountPerIdentity` excepts such identities (`split`)
  and fails in its run without the exception;
* a role given directly to a user is not tied to the role's tenant, unlike one
  given to a group; deleting a group takes with it children other tenants attached;
* beyond the depth cap the answer of a relationship check depends on the order of
  the rows, since visited nodes are remembered without their depth;
  Expand ignores its depth parameter;
* a SCIM PATCH is read into a set of additions and one of removals, so the order
  of its operations is lost; a removal without a path that names members is read as a
  replacement by them, so that those to be removed are the ones who stay
  (`groups.go:611`), and a replacement of `members[...]` is ignored (`groups.go:585`);
  `GroupsEndAsAsked` leaves such requests out (`ReadAsNamed`). A PATCH beside a PUT may
  be half overwritten;
* a SCIM POST stopped between creating the account and marking it provisioned is
  answered 409 when it is repeated (`scim.go:621-637`): the account is there, unmarked;
* audit records carry less than the row: a new connection's or provider's has its name
  and identifier and no status, a change's has the status only, so a changed
  `server_url` or certificate is not told (`saml.go:558`, `647`; `ldap.go:547`, `609`;
  `idp.go:765`, `833`); `AuditTellsTheState` asks that what they do say is so;
* a change of an agent's status is written by id after the check of the one read
  (`agent.go:107`), so two changes that overlap may leave the second's status
  although the first forbids it; tokens got by exchange, and those of service
  principals, are not stopped by a suspension;
* a vault connection removed while its token is being refreshed comes back;
* a connection, client or LDAP change whose audit record fails is rolled back, but a
  rotated signing key stays active in the process although its private half is then
  answered to nobody (`clients_admin.go:440`), and a signature that straddles a
  rotation names a key it was not made with (`jwt.go:177`);
* two sweepers that find an actor without a baseline at one time write one each, and
  the second replaces the first; two that hold one event may count it twice;
* two controls of an evidence run read a query that failed as an empty table and
  fail (`evidence.go:198`, `334`), where the others answer that they could not tell;
* a stream that leaves while an event is handed out shifts the slice being walked: a
  stream after it may miss that event, or be given it twice (`hub.go:79`);
* no cursor of the activity history decodes: it is cut at its first colon, which is the
  time's own (`activity/http.go:301`, `314`), so a stream that reconnects with the id of
  its last event replays nothing (`94-96`, against "history replays" at `hub.go:34`)
  and the history has no second page;
* the in-memory bucket subtracts when the clock went back and keeps the budget; the
  script for Redis clamps at zero and does not, and is the mutant of `BudgetKept`;
* a comparison of lists with `==` in a policy ends the request (`abac.go`); a bad pattern
  of a `regex` is not refused when the policy is saved (`abac.go:464-522`) and reads as
  no match (`338-342`), not as the error that callers are told to deny on (`457`): a deny
  policy with it never applies, one whose negation it is always does. `AllowIsCertain` is
  about the evaluations that do end in an error;
* a SCIM PUT or PATCH updates the user by id and looks at the tenant when it reads
  the result back (`scim.go:672`);
* the scheduler's session cleanup names a column `auth.sessions` does not have.

## 8. Proofs

`tlapm <module>` checks them; no obligation is left out or assumed. All hold for
every value of the constants under the assumptions named in the modules:
`SessionsAssumption`, `LoginAssumption`, `OAuthTokensAssumption`,
`GrantsAssumption`, `AuditAssumption`, `SiemAssumption`, `OutboxAssumption`,
`WorkersAssumption`, `RolesAssumption`, `AuthzAssumption`, `LimitAssumption`,
`PoliciesAssumption` and `IdentityAssumption`. They say that `None` is none
of the identifiers, rows and
states it stands beside, that bounds are naturals, that ids of different kinds differ
(a person and a node, a purge and an export, a PUT and a PATCH, the three kinds of
bearers), that conditions are finite trees (each has a height above its parts'), and that the
requests of `Login`, the dispatchers and the nodes are finite, so that they can be
counted. TLC evaluates each in a run.

Each proof goes by an inductive invariant, checked by TLC before it was proved, with
a lemma per action or a step per action under one lemma (`...Step`), which is about
the component's own next-state relation, and one temporal step. The MC modules add
"one part moves" and the bounds of their runs; lemmas such as `TicketsMove` or
`PartsRun` say that a step there is a step of one part and leaves the variables of
the others. Why the properties are not inductive by themselves, and what makes
them so:

* **`SessionsProofs`.** `OneUnusedPerSession` survives a rotation only because the
  handler that rotates holds the row lock (`LockInv`) and what it read under it is
  still true (`SeenInv`). `AtMostOnePairAfterRevocation` needs that a token minted
  after the revocation is never spent and that every refresh of it has read the
  revocation (`LateInv`). `SignalledIsRevoked`: a handler about to emit has committed
  (`EmitInv`). `SessionsImplementTokenFamily` maps every step to `Open`,
  `Rotate`, `Close` or a stutter, from the same invariant.
* **`LoginProofs`.** `TicketInv`: at most one transaction holds a ticket, and it is
  unused until that one commits. `AlertInv`: an anomaly was sent,
  or its answer lost, exactly if the counter has met the threshold. `GuessInv`, for
  `LockoutBoundsGuesses`: below the threshold the wrong passwords compared are at
  most those counted, those about to be and those a storage error left uncounted;
  under a lock they and the requests past the check stay within the bound; afterwards
  they are those about to be counted.
  The counting is by cardinalities of finite sets of requests.
* **`GrantsProofs`, refresh tokens.** `RotationHolds`: a handler about to rotate holds
  the row of a token that is neither used nor revoked. From it `OneUnusedPerGrant`,
  and the action property `DeadGrantStaysDead`: only a rotation adds to a family, and
  its own token is a member that is not revoked.
* **`GrantsProofs`, tickets.** `TicketLockInv`: past its locking read a request holds
  the row, and its verdict on it is still true. `IssueInv`: a ticket's response is
  made by the one request that consumed it. `ConsentInv`, `MintInv`, `DecidedInv`: what
  a consent, a request at the mint and a decided row name was approved, and no
  approval is forgotten. Hence `IssuedOnce`, `IssuedWasApproved` and
  `DeniedNeverRedeemed` (which `GrantsAreOneTime` implies, so that no run asks for it).
* **`GrantsProofs`, tickets as `OneTimeGrant`.** `PhaseTells` reads the phase of a
  ticket from its row, the request that answers it and what was issued. A code's or a
  CIBA request's row knows its user from the start and only a device's does not until it
  is decided (`UnboundInv`), which is why a decision never changes whose a ticket is. A
  consent stored is a `Say` whether or not a code follows; the step from a redemption to
  its answer needs `IssueInv`, and a handler that dies there leaves a grant spent.
* **`GrantsProofs`, signing keys.** A key verifies in the process that signed with it
  unless a restart lost it (`VerifierInv`); that a restart loses only keys the
  operator had not saved, or was not told, needs that a key stays in the environment
  while something signed with it lives (`EnvInv`), and that the key of a rotation is
  its own until it is answered (`RotationInv`).
* **`GrantsProofs`, reports.** Evidence (`RunInv`): each table was heard in each of
  the states it has had since the run began, and each verdict so far is confirmed
  by what was heard; a query that failed belongs to a control already checked or is
  the first of two (`UnheardInv`). The catalogs stay what they are:
  `ControlShape` lists the controls. Anomaly (`SweepInv`): a transaction that has
  read a baseline is alone with it (`AloneInv`), unless two found no row at one
  time, and the baseline only grows. Activity (`HubInv`): a slice names its open
  streams once each, but for the cell being shifted over (`SliceInv`); until a stream
  of the tenant leaves, the walk goes over the slice as it was (`WalkInv`); who has
  the message was passed (`PassedInv`), who is owed it has it or is still ahead
  (`KeptInv`).
* **`AuditChainProofs`, the chain.** For clocks any way apart. `HolderInv`: one
  transaction at a time holds a chain, and only it has rows waiting; `OrderInv`: its rows
  come after the committed ones in the order of inserts; `ExtendInv` and `LinkedInv`: the
  rows, with the waiting ones and without, are each linked to the tip that was there when
  they were inserted. Where the stamps are in that order too and the addresses are as
  `host()` writes them, linked rows verify (`InOrderVerifies`). `TamperingStaysDetected`
  is for one alteration (`tampers <= 1`, as a second may undo the first) and needs neither
  condition: an edited or moved row is not what was hashed, and a row linked to a
  deleted one stays without it, since inserts are not repeated (`BrokenInv`); rows added
  later mend neither.
* **`AuditChainProofs`, the forwarder.** `Sent`: up to the cursor of a sink every
  committed row was delivered, and no row that waits for its commit will come to stand
  there, as long as the log is stamped in order. The second half is why the order of commits matters: it is the
  chain's lock that lets no earlier row become visible later. `WorkerInv` says the same
  of the cursor a worker has listed, and that its batch has no gap.
* **`WorkersProofs`.** Outbox: `CountInv`: the stored count, and each copy of it a
  replica holds, is below the cap and at most the number of refused publishes, so that
  a stale write can only lower it; `CurInv`: a replica past a publish stands at an
  event that was accepted, or refused once more than it had read. Webhooks:
  `OwedInv`: every replica that has posted and not written owes the row an attempt,
  so that the attempts and the replicas standing at the row are together at most the
  posts. Both are queues (`QueuesAreAtLeastOnce`) because what a replica holds, listed or
  in hand, is known to the queue (`BatchInv`, `HeldInv`), whatever became of the row
  meanwhile: a mark written to a row that moved to the dead letters is a stutter, a
  delivery is marked only by a replica whose post was accepted. Erasure: `ErasedInv`:
  an account erased by a completed request is not live until it is restored, and only a
  live account's row is written to; a reset token brings back a password, no profile.
* **`AuthzProofs`.** Relations: `Knows`: the part of the graph that has been there
  since the walk began and is reachable is what was visited or will be from
  the stack, and what was visited is reachable in all that was ever there meanwhile.
  Reachability is stated with closed sets, so that no induction over paths is
  needed. Within the depth cap the answer lies between the two graphs
  (`AnswerIsBracketed`). Roles: `RowsAreHome`: the tenant written in a row of members
  or group roles is the one of its group and role, and a row of a role refers to one
  that exists. Then Check and Explain, which join different tables, agree
  (`CheckIsExplained`), and a step that gives a permission by way of a group is one
  of the tenant's own administrator (`GroupGrantsStayHome`). SCIM groups (`GroupInv`):
  a call that has written nothing has all it was asked for still to do (`Fresh`), one
  that writes members adds before it drops (`Ordered`), and every user whom nobody
  else changed meanwhile is in or out as far as the call has come (`Fits`). What the
  operations say one after the other is a recursive function over them
  (`AppliedUnfolds`); that it is what the code's two sets come to
  (`AppliedComesTo`) is proved from the least prefix for which it would not be.
  `GroupsAlwaysEndAsAsked` is for requests of any number of operations.
* **`IdentityProofs`.** *Limiter*: with `last` going back and forth the budget is
  not inductive; `Balance` is: what was allowed and what is left are at most the
  capacity and the rate up to `last`, and what is left, refilled up to the present,
  is no debt. *Accounts*: whoever got in through an outside identity and the account
  its link names have one address among them, that of any first sign-in still on its
  way, unless two of these disagreed (`split`), and live rows do not share one
  (`LinksInv`), which is what makes a concurrent link harmless; an invitation being accepted has made nothing and
  is with one transaction (`InvitesInv`). *Ceremonies*, *factors*, *billing*: a row
  taken, or locked, is with one request, and what that read of it still holds
  (`CeremonyInv`, `FactorInv`, `BillingInv`). *Vault*: there is a function `of` that
  says whose each state and token is, and every row and request agrees with it.
  *SSO*, *clients*, *directory*: what the last committed record
  says of a row is so, since the row is held from the statement to the
  commit, with its record or neither; nobody else has the row meanwhile; what is done
  through a link is of the link's tenant and capability at each step, and keeps to it
  because a change of a link or provider keeps its tenant (`SsoInv`). *Clients*: a
  secret being handed out is nobody else's and not yet shown. *Domains*: a claim in
  hand is the one that was read or is gone for good, since ids are not used again.
  *Machines*: a request whose credential was withdrawn before it came is not let in,
  whatever was restored since. *SCIM*: a mark once told stays, one live row per
  address, and an account has ended fewer times than it has lived. *Policies*: a
  condition's answer depends on its parts' only, so the recursive functions that
  evaluate it are determined (`Recursion`, which builds them height by height; then
  `EvaluateUnfolds`, `HoldsUnfolds`), and an answer of yes or no is the one that every
  reading of the errors gives (`TreesAnswer`, from a least tree for which it would not
  be). Hence `AllowIsAlwaysCertain`, for trees of any height and width.

`IdentityProofs` is about the parts as `MCIdentity` instantiates them.
The values there are constants (who an outside identity, a factor and a directory
entry belong to, files, passwords, amounts, attributes, conditions, the restores of an
account and the invoices of a plan), so what is left of the instance in these theorems
is what `IdentityInit` and `IdentityNext` say: which states a part may begin in, and
that one agent, key or principal exists at a time and one policy beside simple ones
(section 5). Sets of ids, users, tenants, requests and rows are arbitrary here and in the
other modules.

Only model-checked:

* liveness (`ReuseRevokes`, `EventuallySettled`, `DeliveriesSettle`, `RequestsSettle`,
  `EventuallyDelivered`): beyond the provers, as is every use of `ENABLED`;
* the type invariants of the modules in `identity` and `grants` that are stated there
  (`...TypeOK`): the proofs have typing conjuncts of their own, as strong as needed.

## 9. What is not modelled

* **Not here because it keeps no state of its own**: configuration, encryption,
  logging and metrics, HTTP plumbing, the route table, the generated query code
  (its SQL is what the models read), migrations except where a foreign key or a
  trigger matters to a model.
* **Not here because it computes rather than coordinates**: risk scores, payload
  formats, XML and LDAP encoding, signatures, JWT contents, analytics and search
  queries. A hash is an injective function, a signature a fact.
* **External**: Postgres (modelled by its locking and visibility rules as above),
  the message publisher, webhook receivers, log collectors, mail. Each is a
  nondeterministic answer.
* **Not here because nothing meets in it**: settings that are one row written and read
  by single statements (branding, mail templates, `authpolicy`, `policy`, auth-hooks,
  social providers, bot and risk settings), append-only lists (notifications, login
  contexts, security events), secrets and verifiable credentials, conversations with
  the copilot. Their only hazard is the last writer winning.
* **The random parts of a decision**: whether a bot check, a hook or a risk score lets a
  sign-in through is a free answer in `Login`.

`PROJECT.json` marks each component `modelled`, `partly` or `not_modelled` and says
which part is missing.

Data are abstracted to what the properties tell apart: a password is its value
and the kind of its hash, a user's personal data is of four kinds (what a purge
redacts, the rest of the row, the password, the other factors), an audit body is a value
that alteration changes, an address is its spelling, a pattern is good or bad and matches
the texts it is part of, scopes and permissions are names. Listing,
searching and formatting are left out throughout.

## 10. Plan

The models of sections 3 and 4 cover what coordinates. What remains, in order:

1. **More one-time rows.** `Ceremonies`, `Factors` and `TokenVault` also keep rows
   that are drawn, taken by one and honoured or spent, as `OneTimeGrant` does for the
   grants; their invariants give the mapping. `SsoAdmin`, `Clients` and `Directory`
   are likewise one audited change.
2. **Guards.** IP rules and bot settings with their in-process caches, as far as they
   keep state; trusted devices beside a password reset.
3. **The caller's side of SIEM and activity**: history and stream of one client put
   together across a reconnection.

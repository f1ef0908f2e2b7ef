# qid: TLA+ verification project

qid is an identity provider and control plane in Rust: OAuth/OIDC token
endpoint, browser sessions, federation, lifecycle, policy and edge decisions,
one `qidd` process or several over a shared repository and cache. This
directory holds TLA+ modules for the parts of it whose correctness depends on
the order in which concurrent calls, failing writes, crashes and clocks meet,
the TLC configurations that check them on small instances, and TLAPS proofs of
the most important results for every instance.

Contents: 1 inventory, 2 plan, 3 modules and their relation to the code,
4 runs and bounds, 5 fairness, 6 proofs, 7 where code and documentation
disagree, 8 what is not modelled, 9 how to run.

## 1. Inventory

Every call of an HTTP handler is a tokio task. It awaits repository, cache and
file operations one after the other, holds no lock between them, and is dropped
when the client disconnects, except where the code spawns a detached task. So a
handler is a sequence of atomic steps with every other actor in between, and
whatever it read before an await may be stale after it. That is the shape of
all the component models.

| Component | State | Operations | Interacts with | Hard behaviour | What makes it correct |
| --- | --- | --- | --- | --- | --- |
| File repository (`qid-storage/src/file`) | in-memory `Store` behind a RwLock, the store file, its temporary file, `save_lock`, `dirty` | open and rekey, map writes, `create_token_family`, rotation with rollback, `revoke_token_family`, transactions that persist under both locks, flush, background and shutdown flush | all handlers; `qidd` at start and shutdown | a save fails after memory changed; crash between write and rename; dropped futures whose blocking write runs on; the dirty flag against the snapshot | acknowledged means durable; a rolled-back change is nowhere; one rotation per hash; revocation is permanent; what lags is flushed eventually |
| Token endpoint (`qid-oauth/src/endpoints/token_grant.rs`, `token_issue.rs`, `revoke.rs`) | authorization codes, token families, access tokens | redeem a code, refresh, detect reuse, revoke | repository, sessions, user deletion | two calls with one credential; revocation between check and issuance; a failing write in the middle; absolute deadlines across rotations | a credential is claimed once; at most one token after a revocation; reuse revokes; deadlines never move; a dead grant issues nothing |
| Device flow and CIBA (`device_flow.rs`, `ciba.rs`) | grant rows: user, approval time, consumption, poll times | start, approve, poll with `slow_down`, consume and issue | sessions, users, the same issuing code | polls write what they computed from a snapshot; approvals replace each other while a token call runs | tokens once, and only for somebody who approved; approvals and consumption are not undone by polls |
| Session cache and PEP assertion (`qid-core/src/state.rs`, `cache.rs`, `qid-session/src/browser.rs`, `qid-proxy/src/assertion.rs`) | session row, shared cache entry, one L1 entry per process | assertion request (lookup, read, fill, validate), browser, admin, back-channel, RP-initiated and SAML logout, refresh, regeneration at login, eviction | repository, user deletion, several processes | a fill that lands after the delete; logouts that ignore an error and answer success; L1 of other processes; TTLs from an earlier clock | a logout that says it ended the session did, in both layers and, within the L1 TTL, everywhere; deadlines hold for cached copies; a refreshed session is served |
| SQL repository (`qid-storage/src/sql`) | rows and foreign keys | conditional UPDATEs | all handlers | the only atomicity between overlapping calls | the predicates of the updates and the foreign keys (inside TokenGrant, PolledGrant, SessionCache) |
| Replay and nonce state (`qid-core/src/cache.rs`, `qid-oauth/src/dpop`) | `jti`, assertion and nonce entries with a TTL | check the lifetime, take the nonce, record | token and resource endpoints | the TTL against the acceptance window; overlapping presentations | an assertion, and a proof with a nonce, is accepted once |
| Authorization endpoint and PAR (`qid-oidc/src/provider.rs`, `push.rs`) | pushed requests, continuations, codes | authorize by session or password, continue after a push, issue a code | sessions, PAR store, push MFA | the pushed request is resolved more than once before it is marked used | one code per pushed request, and a spent one has given it |
| Password login, lockout, rate limiting (`qid-session/src/auth.rs`, `qid-http/src/ratelimit.rs`, `qid-core/src/throttle.rs`) | windows per key, failure budget, lockout columns of the user row | admit on two axes, verify, count, lock, release | every login route | release after the window restarted; capacity; the row is written back whole | counts cover failures and flights; nobody is refused for a window that is over; a lock yields only to overlap |
| Push MFA (`qid-session/src/push.rs`, `qid-storage/src/push.rs`) | challenges, attempts, authenticators, quotas | issue, send, resend, decide, complete, enrol, revoke, clean up | repository transactions, delivery slots | a proof checked against a challenge read earlier; a resend in between | a session follows one signed approval of its last push; sends within the quota |
| TOTP (`qid-session/src/totp_api.rs`) | credential rows with `last_used_step` | enrol, confirm, authenticate | repository | a confirmation writes the whole row back from a snapshot | accepted steps only rise |
| WebAuthn (`qid-session/src/webauthn.rs`, `api/webauthn.rs`) | ceremony maps with TTL and capacity, sign counts | start, finish, register | repository | counters compared with a snapshot | a challenge is answered once; a clone is seen unless it overlaps |
| Email magic link, verification, recovery (`qid-resource/src/ciam`, `qid-session/src/email_magic_link.rs`) | challenges, reset tokens, the user row, the password credential | issue, redeem, replace the password | repository, logins, administrators | whole-row writers beside a redemption; budgets by a clock read earlier | single use; mails within the budget |
| Audit chain and retention (`qid-storage/src/sql/audit.rs`, `qid-worker/src/audit.rs`) | hash chain per stream, row locks, policy, archive | append, verify, plan, archive, report | all writers | appends overlap each other and the job | one unbroken chain; what is ready to purge is archived |
| SIEM delivery (`qid-worker/src/audit.rs`, `qid-storage/src/sql/siem.rs`) | queue rows with attempts and status | deliver, retry, dead-letter, redrive, reset | audit log, webhook | a worker dies between the answer and the mark; jobs overlap | nothing undelivered is dropped |
| IGA access requests (`qid-iga/src/routes/access.rs`, `review.rs`, `engine.rs`) | request, approvals, grants, privileges, reviews | approve or reject, materialize grants, issue JIT privileges, revoke, review | repository | an unconditional status write after a snapshot; a review that fails half way | a refusal stands |
| OIDC logout and Shared Signals (`qid-oidc/src/discovery.rs`, `shared_signals.rs`) | subscribers, events | fan-out, delivery | sessions, clients | partial delivery | everybody is told or retried |
| PEP decision and policy (`qid-proxy/src/pep_decision.rs`, `qid-policy`, `qid-iga/src/rebac.rs`) | one loaded bundle per process, decision cache per process and shared, relationship tuples | decide, evaluate (AuthZEN), walk the tuples, fail open | edge enforcement points, repository | the key's revision is of whichever realm was loaded last; a walk beside writers of its tuples | an evaluated answer is the policy's; a cached one was, for the same registration and key, within its lifetime; a check errs by no more than was written meanwhile |
| Captive portal (`qid-proxy/src/captive_portal.rs`) | process-local bindings | bind, look up | session cache | a binding outlives its session | bindings end in time |
| SCIM, admin API | ETags, elevations | conditional update, elevate | repository | lost updates | CAS |
| SAML IdP, federation, directory and HR sync, risk, verifiable credentials, network AAA, device registry, FedCM, workload identity | mostly protocol documents and record keeping | see `PROJECT.json` | | document validation and cryptography | outside a state model |
| Cryptography and keyrings, `qidd`, `qidc`, xtask, observability, diagnostics, configuration, vendored rustls | see `PROJECT.json` | | | | outside a state model; `qidd`'s shutdown flush is in FileStore |

`PROJECT.json` lists every component with its status, and under `hazards` the
places where this code is hard to test, each at its line with the properties
that watch over it.

## 2. Plan

Order: what is lost or duplicated for good comes first.

1. **FileStore** (done): persistence decides what an acknowledgement is worth.
2. **CredentialClaims** (done): the abstract specification of a single-use
   credential. **TokenGrant** and **PolledGrant** (done, both proved to
   implement it).
3. **SessionCache** (done).
4. **ReplayCache** (done): replay and nonces over the shared cache.
5. **PushedRequest** (done): the authorization endpoint with PAR and the push
   continuation, ending in the code that TokenGrant redeems; with it
   `create_with_regeneration` as the `login` path of SessionCache.
6. **PushLogin**, **AccountMail**, **TotpProof**, **Passkey** (done).
7. **PasswordLogin** (done): rate limiter, failure budget and lockout.
8. **AuditChain**, **SiemDelivery**, **AccessRequest** (done).
9. **DecisionCache**, **RelationCheck** (done): PEP decisions and the relations
   they may ask for.
10. Left: the OIDC logout fan-out and Shared Signals delivery; the captive
   portal; SCIM conditional updates; key rotation; admin elevation; federation
   state.

A module may replace a run of an earlier one as the project grows. Components
that share nothing but the clock run side by side in `MCSignIn` and
`MCServices`.

Every safety property of the passing runs has its theorem (section 6). Worth
proving next: which of the FileStore theorems survive dropped futures in
Immediate mode, with the excuse stated as a history variable instead of
`Cancellable = {}`; and what SAML logout does guarantee, instead of
`"saml" \notin Paths`. New components bring their theorems with them.

How the modules compose: TokenGrant sees the file store as FileStore shows it
to behave in Immediate mode (a rotation is visible in memory while it is being
persisted, is rolled back when that fails, and no creation or rotation runs
beside it), or SQL as atomic conditional updates. TokenGrant and PolledGrant
both instantiate CredentialClaims. `MCTokenGrant` adds symmetry,
`MCSessionCache` symmetry and a bound on what overlaps, `MCDecisionCache` two
realms' policies; `MCSignIn` and `MCServices` put several specifications beside each
other (section 3).

## 3. Modules and the code

### FileStore

`file/mod.rs`, `file/token.rs`, `file/push.rs`, `domain/mod.rs`, and the
shutdown part of `qidd/src/main.rs`.

| State | Code |
| --- | --- |
| `mem`, `disk`, `tmp` | the `Store`, the store file, the temporary file. One token family (current hash, revoked), a set of other records, and whether keys are legacy |
| `saveLock`, `storeLock` | the tokio mutex `save_lock`; the store's write lock where a transaction holds it across awaits |
| `dirty` | the `AtomicBool` of Interval mode |
| `pc`, `snap`, `expect`, `prev`, `reply` | a call's position and locals, and its answer |
| `orphans` | `spawn_blocking` file operations whose future was dropped |

`Open` is `new_with_flush_mode` with its rekeying. `MapWrite`, `CreateFamily`,
`Rotate` and the `Txn*` actions are the critical sections of the repository
operations. `AcquireSaveLock`, `Snapshot`, `WriteTmp`, `RenameTmp` are
`save_locked`, and `SaveOk`/`SaveError` what the caller does then, the rollback
of a rotation included. `SwapDirty`, `FlushOk`, `FlushError`, `Redirty` are
`flush`, run by the background task and by shutdown. `Cancel`,
`OrphanCompletes` and `Crash` are the environment. The fsync calls are part of
`WriteTmp` and `RenameTmp`; a crash loses memory and the calls, not synced files.

### CredentialClaims

Not code: what each grant promises. A credential is claimed by at most one
call, for good, and a call that claimed one issues at most once.

### TokenGrant

`token_grant.rs`, `token_issue.rs`, `revoke.rs`, `file/token.rs`,
`sql/token.rs`, `file/user.rs` and the two foreign keys of the schema.

`backend` is chosen once, at the start. `code`, `family`, `access`, `session`,
`user` are the rows. A call's locals are `cred`, `fam`, `seen`, `at`,
`deadline`. One action per awaited repository operation: `RedeemCode`,
`MarkCodeUsed`, `ReadCodeUser`, `CreateFamily`, `CreateAccess` for codes;
`PresentRefresh`, `ReadSession`, `ReadUser`, `Rotate`, `PersistRotation` (file
store only), `RevokeReusedFamily`, `CreateAccess` for refresh tokens. The other
actors are `RevokeFamily`, `RevokeAccess`, `EndSession`, `DeleteUser` and the
clock. Every operation may fail, with or without its effect where the backend
can do either. `owner`, `issued`, `late`, `barred` are history variables:
no guard reads them.

Abstracted: token strings are the calls that minted them; client
authentication, PKCE, redirect URI, scope, DPoP and mTLS checks are a refusal
that may happen and changes nothing.

### PolledGrant

`device_flow.rs`, `ciba.rs` and their repository operations. `flow` and
`backend` are chosen at the start, as one of the pairs in `Setups`. Approvals (`BeginApproval`,
`ReadApprovalSession`, `ReadApprover`, `RecordApproval`, in the order each flow
has them) and token calls (`BeginCall`, `RecordPoll`, `ReadUser`, `ConsumeGrant`,
`CreateFamily`, `CreateAccess`, `ReadClient`) run against each other, logout,
user deletion and the clock. A token call decides from `seen`, the snapshot it
read first; `RecordPoll` writes two fields of the row as it is by then.

### SessionCache

`state.rs`, `cache.rs`, `browser.rs`, `assertion.rs`, the session routes and
admin revocations, `backchannel_logout` and the end-session endpoint of
`qid-oidc/src/discovery.rs`, and `qid-saml/src/routes.rs`.

One session, `l1` per process, `l2` shared, the row. A `request` is the session
path of the PEP assertion endpoint: `Begin`, `LookupLocal`, `LookupShared`,
`ReadRepository`, `SetShared`, `PutLocal`, `Validate`, `ReadUser`. An `update`
takes one of the paths below. It begins if the path finds what it loads
(`Loads`), does `Write` or `WriteFails`, and then `DeleteShared` and
`DeleteLocal` on the paths that make these calls (`Deletes`).

| Path | Code | Deletes from the caches | On a repository error |
| --- | --- | --- | --- |
| `browser` | `session_revoke` | if it was the one to revoke | refuses |
| `admin` | admin and break-glass revocation | always | refuses |
| `sid` | `backchannel_logout` by session id | if it was the one to revoke, else if the row is there (`Confirm`) | logs, deletes nothing, answers success (`lost`) |
| `sub` | `backchannel_logout` by subject, of one of the sessions listed | always | the same |
| `rp` | RP-initiated logout | if it was the one to revoke | goes on and answers success (`lost`) |
| `saml` | SAML logout | never | refuses |
| `refresh` | `session_refresh` | if the row was there | refuses |
| `login` | `create_with_regeneration` | never | ignores it |

A logout token with both a session id and a subject is two updates. A path that
finds no session answers success where the code does (`NothingToRevoke`,
`already`). So an answered logout ended `done` (it says that it ended the
session), `already` (it found nothing to do) or `lost` (it ignored an error);
the logout properties speak of the first two, and the run `sessioncache_saml`
shows what the third, and SAML, leave behind.

`lateFill` (a copy was cached after a logout's delete), `slowFill` (its TTL
counted from an older clock) and `lostDelete` (the shared cache failed, which
the code logs and ignores) are history variables that name the exact exceptions
of the logout properties; they are not assumptions on the environment, TLC and
the proofs explore behaviours with and without them.

### The modules of MCSignIn

All extend `Clock`, whose `now` they share, and name their own state apart, so
that `MCSignIn` can declare them together. A behaviour of `SignInSpec` is of one
`part` (`"password"`, `"push"`, `"totp"`, `"passkey"`, `"pushed"`) and leaves the
variables of the others in an initial state: the parts are checked side by side,
not multiplied.

**PasswordLogin** (`api/password.rs`, `auth.rs`, `password_limit.rs`,
`ratelimit.rs`, `throttle.rs`). `entries` and `nextExpiry` are the limiter's map
and its lower bound on expiries, `budget` the realm's failure window, `account`
the lockout columns. A login runs `Admit` (both axes under the limiter's mutex),
`CheckBudget`, `ReadUserRow`, `ResetExpired`, `Verify`, `WriteFailure` or
`ClearFailures`, `ReleaseUser`, `ReleaseRealm`; `LoginFails` is an error of the
repository, after which nothing is released. `era`, `opened`, `late` and `locks`
are history variables that state which counts a window may have lost.

**PushLogin** (`qid-session/src/push.rs`, `api/push.rs`,
`qid-storage/src/push.rs`, `file/push.rs`). A start issues and sends a
challenge; calls are the device's decision (`ReadForDecision`, `VerifyProof`,
`RecordDecision`), the browser's completion (`ReadForBrowser`, `ReadOwner`,
`Redeem`) and a resend (`Resend`, `SendAgain`); authenticators are enrolled and
revoked meanwhile, and `CleanUp` removes old rows.

**TotpProof** (`totp_api.rs`, `qid-mfa/src/lib.rs`, the credential rows). The
clock counts time steps. `ReadTotp`, `VerifyTotp`, `ClaimStep` (the conditional
update) and `ConfirmTotp` (the whole row, with the larger `last_used_step`).

**Passkey** (`webauthn.rs`, `api/webauthn.rs`). Ceremony maps per kind, bounded
and expiring; `TakeChallenge`, `ReadAndVerify`, `StoreResult`.

**PushedRequest** (`qid-oidc/src/provider.rs`, `push.rs`,
`file/oidc_continuation.rs`). Visits of the authorization endpoint by session
(GET) or by password (POST), and completions of a push approval, on one
`request_uri`.

### The modules of MCServices

The same construction, with the parts `"polled"` (PolledGrant), `"audit"`,
`"siem"`, `"replay"`, `"mail"`, `"access"`, `"decision"` and `"relation"`.

**AuditChain** (`sql/audit.rs`, `file/audit.rs`, `models/audit.rs`,
`qid-worker/src/audit.rs`). An append is a transaction of three statements
(`LockStream`, `ReadTail`, `CommitEvent`) on an event built before
(`BuildEvent`); the job goes from `VerifyChain` to `ReportReady`.

**SiemDelivery** (`qid-worker/src/audit.rs`, `sql/siem.rs`, `file/siem.rs`,
`qidc`). Deliveries (`ListEvents`, `Enqueue`, `SendWebhook`, `MarkStatus`,
`RecordDelivery`) and redrives (`ReadDelivery`, `ResetDelivery`, ...), any of
which may die between two steps.

**ReplayCache** (`cache.rs`, `dpop/validate.rs`, `dpop/private_key_jwt.rs`). One
proof and one client assertion, each presented by several calls.

**AccountMail** (`ciam/verification.rs`, `ciam/auth.rs`, `email_magic_link.rs`,
`file/ciam.rs`, and of `auth.rs` and `directory.rs` the writes of the user row
and the credential). Issuers, redeemers and the writers that overlap with them.

**AccessRequest** (`qid-iga/src/routes/access.rs`, `review.rs`, `engine.rs`,
`iga_grants.rs`, `file/iga.rs`). Approvals with their snapshot of the evidence,
the unconditional status write, the grants' transaction, JIT privileges, and a
review that revokes, grant by grant, those of the entitlements its campaign lists
for the subject. A call may bring several decisions of its caller, stored one
after the other. No approver is the request's subject: with one the validation
fails whatever the approvals are, and nothing is ever issued.

**DecisionCache** (`pep_decision.rs`, `pep_decision/decision.rs`, `state.rs`,
`qid-policy/src/native.rs`, `models.rs`, and the seeding in `qidd`).
`policySlot` is `policy_bundle_cache`, one bundle per process for all realms;
`cached` holds the entries of each process and of the shared cache. A request is
`LookUp` (or `Evaluate`, AuthZEN's, without the cache), `LoadEngine`, `Decide`,
which also stores. An input is a pair of what the cache key has and what it has
not (roles, entitlements, risk score); a rule's conditions are the set of inputs
it is for, and the answer of its ReBAC check, which other requests may change at
any time, is a choice of related, unrelated and unknown. Each answer carries its
`origin`, a history of the request it was made for. A cache may have dropped any
entry, which is a lookup that misses, and a shared entry may be one this program
cannot read, an error (`ErrorAnswer`) that fails open where the registration says
so. A realm has one bundle: where a configuration names several, the one that is
active (`get_active_policy_bundle`).

**RelationCheck** (`qid-iga/src/rebac.rs`, `file/rebac.rs`, `sql/rebac.rs`). One
walk, a userset per step, beside `WriteTuple` and `DeleteTuple`; `everStored` and
`alwaysStored` are the tuples it could at most and must at least have seen.

## 4. Runs and bounds

Calls and requests run once, clocks are bounded, and the configured bounds
limit failures; a state in which all are done is a normal end, so deadlock
checking is off in every run. What must not wait for ever is stated as
liveness instead.

| Run | Instance | Shows |
| --- | --- | --- |
| `filestore_immediate` | 1 write, 1 revocation, 1 creation, 2 rotations, 1 transaction, 1 failing operation, 1 crash, legacy file | acknowledged writes are durable; a failed change leaves no trace; a hash is accepted once; revocation is permanent |
| `filestore_interval` | 1 write, 1 creation, 1 rotation, 1 transaction, background and shutdown flush, 1 failure, 1 crash; fair | the dirty flag covers every lag; acknowledged writes reach the file |
| `filestore_cancel` | 1 write, 1 revocation, 1 creation, 2 rotations, write and one rotation may be dropped, 1 failure; fair | nobody waits for a lock for ever |
| `filestore_cancel_durable` | as above without failure | violation, see section 7 |
| `filestore_shutdown` | Interval mode, no failure | violation, see section 7 |
| `tokengrant` | both backends; 3 calls, 1 code, 1 legacy family, TTLs 1 and 2, 1 failure, clock to 1 | single use as a refinement, one token after revocation, reuse revokes unless a write failed, deadlines final, a rolled-back rotation is not reuse, deletion complete over SQL |
| `sessioncache` | 2 processes, 2 requests, 2 updates of which 3 calls begin, on every path but SAML's, 1 failure, deadlines 2 and 3, clock to 3 | a logout that says so clears both layers and reaches all processes within the L1 TTL; one that deleted nothing found the session ended; a refresh does not revive a session; a refreshed session is served; no assertion past the deadlines |
| `sessioncache_saml` | 2 processes, 1 request, a SAML logout and a back-channel logout by session id, 1 failure | violation, see section 7 |
| `signin` | password: 3 logins on 2 addresses, 1 account, limits 2, 2 limiter entries, clock to 3; push: 2 starts, 2 calls, 1 device, quota 1, clock to 4; TOTP: 3 proofs, 2 credentials, clock to 1; passkey: 3 starts, 3 finishes, 1 passkey, counts to 2, clock to 1; pushed: 2 visits, 2 completions, 1 failure, clock to 2 | the limiter holds and lets go, a lockout yields only to overlap; a push session is approved and sends stay within the quota; TOTP steps rise; a passkey proof is fresh; one request_uri gives one code |
| `services` | polled: device flow over the file store and CIBA over SQL, 2 calls, 2 approvals, 2 users, 1 failure, clock to 1; audit: 2 appends, 2 streams, clock to 2; SIEM: 2 jobs, 2 events, clock to 1; replay: 2 presentations, clock to 4; mail: 2 issuers, 2 redeemers, 1 writer, clock to 2; access: 3 calls, one with several decisions, 1 review, 2 members, clock to 1; decision: 2 requests out of 5 kinds and a third that reads the cache, 2 realms, 3 registrations, 1 process, lifetimes 0 to 2, clock to 1; relation: 4 usersets, 7 tuples of which any may be stored at first, depth 2, 2 writes | single use of polled grants as a refinement, tokens only for an approver; every chain verifies, purge-ready is archived; nothing undelivered is dropped; replays are refused; mails within the budget and used once; a refusal stands; answers are of the policy and a ReBAC check of the tuples |
| `decision_realms` | the decision part of `services`, 2 requests, clock to 2 | violation, see section 7 |
| `password_reset` | 1 mail, 1 redemption, 1 login | violation, see section 7 |

For PolledGrant, the two other pairs of flow and repository, `{<<"device",
"sql">>, <<"ciba", "file">>}`, pass with the same bounds when `MCSetups` is set to
them; the run keeps two pairs to stay within a few minutes. In the
access part an approval of lifetime 1 ends within the run; the request's expiry
is reached by no step, and what it gates (a refusal without effect) is left to a
larger instance. The bounds of each part are in its `ClockBound`, and what runs
beside what in three more: the third PEP request comes after the others, before
the clock moves, and is answered from the cache (`LastReadsCache`), so that it
sees what two overlapping evaluations, of two realms over one slot, have stored
under which revision; the third call on the access request brings two decisions
in one body, before the clock moves and not beside a review (`AccessBound`); a
login or an update of the account runs beside one mail (`MailBound`).

In `sessioncache` any two of the four calls begin, on any paths, with the
failure anywhere; the clock passes the idle deadline, and beside a refresh the
absolute one (`BegunBound`). A third is
explored for the paths `sid` and `refresh`, which between them take every step
of an update (`CrowdBound`): two requests beside a logout, with the failure and
until the L1 TTL has passed; two requests beside a refresh, until the first idle
deadline (`CrowdedTime`); or one request beside a logout and a refresh. That is
what the longest violations need: a copy cached by one request, found by another,
after a logout by a third. With three calls nothing is explored beyond a lost
delete or a late fill, which the properties except, nor the user's deletion; both
are explored with two.

Why these are enough to be interesting. Every race modelled is between two
calls on one record, with a third actor (revocation, rollback, deletion,
logout) in between; the instances have two or three calls, one record and each
third actor. Three calls of TokenGrant are a code redemption or first refresh,
then two overlapping presentations of its token, or two generations of
rotation and a reuse. Three password logins fill a window, restart it and
release into it; three TOTP proofs are a confirmation between two others; two
push calls are a decision and the completion or resend it races with. Clock
bounds pass every TTL and deadline configured in the run, except the access
request's expiry. With more failures or crashes the same paths repeat;
the proofs of section 6 have no such bounds.

Each property has a mutant: the definition it rests on, changed as a plausible
bug would change it, under which TLC reports the property violated. They stand
before the definitions they mutate, marked "Mutant".

Symmetry is used for calls, approvals, processes, requests and updates, in runs
without liveness only; no definition tells members of these sets apart. In
`signin` and `services` the sets of the parts use the same model values, so that
two permutation sets serve every part; `z`, `w` and `v` stand outside them.

## 5. Fairness

Only FileStore states liveness, under `FairSpec`: weak fairness of opening the
store, of the opener's own save, of each accepted request, and of the flush
tasks. Tokio polls every woken task and `tokio::sync::Mutex` queues its waiters
in order; the background task is an endless loop on an interval timer. Weak
fairness of a lock acquisition is less than a fair queue gives. A request that
has not arrived, crashes, failures, drops and shutdown are never forced to
happen. `AckedWritesReachDisk` rests on failures not going on for ever, which
the bound of the run expresses.

## 6. Proofs

All proofs hold for every set of calls and processes, every TTL and every bound
that satisfies the named assumptions of the modules: names are distinct, numbers
are naturals, modes and paths are those of the code. Beyond that
`BundleAssumption` says what a policy bundle is (a default and a sequence of
rules for each realm), and `RelationAssumption` that there are finitely many
usersets. Where a theorem assumes more, its `ASSUME` says so: `Cancellable = {}`,
`Mode = "immediate"` or `"interval"`, `"saml" \notin Paths`. The runs that expect
a violation show that durability and the clearing of the caches need theirs.

The inductive invariants were tried with TLC on small instances before they were
proved. Where an argument is an induction over data (the walk along a chain, the
reach of a userset, the precedence of rules, a minimum), the proof is by a least
counterexample: `LeastNumber` follows from the well-foundedness of the naturals,
and a recursive function is first shown to exist (`WalkExists`, `ReachExists`)
and to satisfy its equation (`WalkUnfolds`, `ReachUnfolds`).

### FileStore_proofs

- `TypeCorrect`.
- `Durability`: `AckedWritesDurable`, `RevocationStays`: `RevocationPermanent`,
  `Rollback`: `FailedChangeLeavesNoTrace`, each under `Cancellable = {}`: when no request
  future is dropped. Section 7 shows that durability needs the assumption.
- `AcceptedOnce`: `RotationAcceptedOnce`, under the same assumption and in
  Immediate mode.
- `LagCovered`: `LagIsCovered`, and `IntervalDurability`: `AckedWritesDurable` in
  Interval mode, both with dropped futures. There a dropped future is harmless:
  only transactions write the file themselves, each in a task of its own
  (`tokio::spawn` in `mutate_push_value`) that outlives its request.

`AckedWritesDurable` is not inductive: the next snapshot could lack the record.
`DurabilityInv` adds what the locks guarantee (`LockDiscipline`: one process
beyond `save_lock`, no stray file operation except the last rename of a stopped process;
`ProcessDiscipline`: who may run in which phase), that content only grows from
file to temporary file to snapshot to memory (`SnapshotsGrow`), and where each
call's record is at each of its steps (`WriteReaches`, `TxnReaches`). The
rollback proof adds `HashDiscipline`, that a rotation being persisted is the
current hash and nobody else can snapshot it, and `FlushTasksQuiet`, that
Immediate mode has no flush task that could. For `AcceptedOnce`, `SpentInv` says
that a hash that was rotated away is nowhere it could come back from: not in
memory, in the file, in a snapshot, nor in what a rotation would roll back to.
For `LagCovered`, `IntervalInv` says who will still set the flag or snapshot
because of it (`Pending`) whenever a flush carries an old snapshot, and that a
transaction changes memory only by its own record while it holds the lock.

### TokenGrant_proofs

- `GrantTypeCorrect`.
- `OneWinner`, `OneAfterRevocation`, `DeletionIsComplete` (over SQL; the
  property says so), from the inductive `GrantInvariant`.
- `ReuseRevokes`, `UnspentIsCurrent`, and the action property `DeadlineFinal`.
- `ClaimedOnce`: TokenGrant implements CredentialClaims, with `owner` and
  `issued` as its variables.

`GrantInv` is the type invariant, `CredKind` (a refreshing call presents a
refresh token, which the rollback writes back) and `ClaimInv`. `ClaimInv` relates
the history variable `owner` to the rows (`Owned`), says which family a call
works on (`Presented`) and that its row exists (`RowsExist`). Its heart is
`Chain`: a call that has consumed a credential and not answered yet is itself
the current hash of its family, and nobody can present a hash before the call
that minted it has answered. So no second rotation can overtake it, which gives
the single token after a revocation. `UnspentIsHeld` adds that an unspent token
is current or the one a pending flush rolls back to. `DeadlinesAgree` says that
every call that presents the current token has read the deadline that is stored,
so the one a rotation writes is the same, and that the rollback of a first
rotation, which takes the deadline away again, cannot follow an issue.

### SessionCache_proofs

- `CacheTypeCorrect`, which includes that only active copies are cached.
- `LogoutClears` and `LogoutReaches`, under `"saml" \notin Paths` (section 7
  shows why).
- `RevocationFinal`, `DeadlinesHold`, `LiveServed`.

`LogoutInv` follows a logout through its steps: once written, or found already
done, the repository refuses the session (`WrittenInv`), also where the write
changed nothing and the path looks again (`confirm`); once the shared entry is deleted, only an
excuse brings one back (`SharedInv`); L1 entries end within the TTL of the
logout's end (`LocalInv`, from `ClockInv`); a request that came after that holds a
revoked copy or none (`LateInv`). `CopyInv` says what a request may carry at
each step. `GrantedInv` says that every copy anywhere carries the idle deadline
of the login or of some refresh. `ServedInv` says that no entry outlasts the
deadline of the copy it holds unless a fill was slow (`InTime`), so what a live
session's request finds in a cache is valid by its own clock. The attempt to
prove `LiveSessionIsServed` showed that an earlier form, which looked at the row
at the request's start only, fails with three refreshes: the history `live` now
also follows what the request reads from the repository.

### PolledGrant_proofs

- `PolledTypeCorrect`, `ApproverOnly`, and `GrantClaimedOnce`: PolledGrant
  implements CredentialClaims.

`PolledClaims` is `Owned` of TokenGrant for a grant's conditional consumption.
`PolledApprovals` follows the approver: an approval under way passed its checks,
a row's user approved it, and so did the user of every copy that a token call
has read, which is why a second approval in between does no harm.

### Login_proofs

- `LimiterHolds` and the action property `LockoutYields` of PasswordLogin;
  `PushApproved` and `QuotaHolds` of PushLogin.

`LoginsInv` relates every login's step to the windows it was admitted by
(`WindowsInStep`) and to the row it read (`LoginInStep`: whoever has seen every
lockout of the account read a row without one in force). The proof found that
`CountsCover` was false for a map of fewer than two entries: where nobody is ever
admitted, logins that were refused counted against a realm window that never
opened; `Unreturned` now counts admitted logins only. `PushInv` says that an
unissued start has no row, that a verified proof is of the nonce of the row the
call read and was signed by the device, and that a session's challenge is
consumed for as long as its row exists. The quota is of a history, `sends`, while the code counts rows that a
cleanup removes: `QuotaInv` numbers the sends injectively by challenge and send
number (`SendsNumbered`), and says that a send without its row is outside every
window to come.

### SignIn_proofs

- `TotpStepsOnlyRise`, `PasskeyIsFresh`, `OneCodePerRequest`.
- `SignInParts`: a behaviour of `MCSignIn` is one of the component it is a part
  of; with it `SignInTypeCorrect`.

`TotpInv` says that a row never forgets an accepted step (`RowKnowsWins`).
`PasskeyInv` says that a challenge is in one place, its map or one finish
(`EntryInOnePlace`, `TakenInOnePlace`), that the stored count covers every proof
(`ProofsAreKnown`), and that the count a finish read covers the proofs that were
there when it began (`InStep`). `PushedInv` gives the
request one owner from the mark to the code (`OneOwner`), the continuation one
taker (`OneTaker`), and says where the code of a spent request will come from
(`SpentAccounted`).

### Audit_proofs

- `NothingDropped` of SiemDelivery; `ChainsVerify` and `PurgeReadyIsArchived` of
  AuditChain.

`SiemInv` gives each row the job that queued it (`RowsHaveOwners`,
`OneOwnerPerRow`) and says that whoever will write the status holds the row's
payload (`WritersHoldPayload`). `AuditInv` says that a stream is one chain with one
end (`Chained`) and that a transaction between its lock and its commit read that
end (`LocksHeld`); `ChainGrows` shows that appending there keeps the chain, and
`ChainWalk` that such a chain verifies.

### Services_proofs

- `ReplayRefused`, `RefusalFinal`, `AnswersJustified`, `MailsLimited`,
  `CheckBounded`.
- `ServicesParts` and `ServicesTypeCorrect`, as for `MCSignIn`.

`ReplayInv`: the jti of an accepted assertion stays until `exp`, and a nonce is
there only while no proof is past it. `AccessInv`: a call that began after a
rejection holds no verdict but a refusal, and a review has revoked what it
passed. `DecisionInv`: every entry is justified, keyed by its origin's name and
material, and ends with its origin's lifetime, whatever revision is in its key;
a revision read for a key is of a realm whose bundle is stored
(`RevisionIsStored`), so a request that has its own realm's revision finds that
bundle whatever another realm has done to the slot. `MailInv`: mails kept are finitely many and sent, and a
redeemed one is consumed in its row. `RelationInv`: a userset is listed at the least depth it
is queued with (`InOrder`: the queue's depths rise by at most one), and what the
constant tuples reach is answered for, queued or refused by a visit no deeper
(`Covered`).

### Only model-checked

Liveness, `AckedWritesReachDisk` and `EveryCallEnds` of FileStore, is out of the
prover's reach: it needs fairness and `ENABLED`. Every other property of a
passing run is a theorem; the properties of the five runs that expect a violation
are false of the code. `OneWinner` is proved and not a property of a run:
`EachCredentialClaimedOnce` implies it.

## 7. Where the code and its documentation disagree

- `filestore_cancel_durable`: `docs/configuration.md:272` promises for Immediate
  mode that a mutation is flushed durably before returning. A dropped request
  releases `save_lock` while its `tokio::fs::write` still runs on a blocking
  thread with the same temporary path, so it can replace the content that the
  next flush is about to rename.
- `filestore_shutdown`: `docs/configuration.md:273` says `qidd` also flushes
  during graceful shutdown. `flush()` returns Ok when `dirty` is clear, also
  while the background task has taken the flag and not written yet; exit drops
  that task.
- `sessioncache_saml`: `docs/operations.md:77` says that revocation deletes both
  layers on qid-managed revoke paths. SAML logout (`qid-saml/src/routes.rs:40`)
  revokes the row only, and cached copies go on being accepted until they
  expire. A back-channel logout by session id would clear them, but when the
  repository fails it logs the error, deletes nothing and still answers
  "acknowledged" and "sessions revoked" (`discovery.rs:1252-1254`, `:1280-1283`);
  RP-initiated logout ignores the error likewise (`:983-991`). The trace has both:
  two logouts answered success and the shared cache still serves the session.
- `decision_realms`: `docs/README.md:46` calls the realm the boundary of policy
  bundles and PEP registrations. The cache key has the name of the registration
  and the slot's revision, not the realm of the request
  (`pep_decision/decision.rs:313-353`), and names are unique within a realm only
  (`qid-core/src/config.rs:1556`): registrations of one name share cached
  decisions while the same bundle is in the slot. And `docs/configuration.md:926`
  gives a quarantine, "a refusal", the negative lifetime; `Decision::cache_class`
  (`models.rs:50`) gives it the positive one. Either statement alone excludes that
  a quarantine past its negative lifetime is served to another realm; the trace
  has one. `AnswersAreOfThePolicy` says what holds beside these two.
- `password_reset`: `docs/http-api.md:402-405` says that the reset atomically
  replaces the credential. A login that verified the old password before the
  reset and finds outdated Argon2id parameters stores a fresh hash of the old
  password afterwards, with an unconditional update
  (`qid-session/src/auth.rs:173`).

Read while modelling, with no run of their own:

- A DPoP `jti` is kept for 60 s (`qid-core/src/cache.rs:264-266`), a proof is
  accepted for 120 s. Without a nonce requirement the record may end first
  (`docs/standards.md:89`); `ReplayIsRefused` says what does hold.
- Events reported ready to purge need not be in the archive when appends come
  between the plan and the list, or the stream is longer than 1000 events; the
  history variable `overrun` marks these cases.
- A login that finds an expired lockout resets the row but counts its failure on
  the copy it read, so one wrong password after an expired lockout locks the
  account again (`auth.rs:146-153`, `docs/configuration.md:704`).
- `docs/http-api.md:346` says "Delivery happens before persistence";
  `ciam/verification.rs:129-147` persists first.
- A password login writes the whole user row back and can undo an
  `email_verified` set meanwhile (`auth.rs:150`, `:192`, `:218`;
  `directory.rs:303-314`); an administrator's change of the address keeps
  `email_verified`.
- The captive portal binds a session read after a cache miss without testing
  that it is active (`captive_portal.rs:208`); a binding outlives its session by
  up to a day.
- Two SIEM jobs of one second and one number of events have the same id; the
  history variable `collided` excludes them from
  `NothingUndeliveredIsDropped`.
- The poll interval may shrink when polls overlap: each writes what it computed
  from its own snapshot.
- Finishes of two WebAuthn ceremonies that overlap pass with the same sign
  count; `docs/standards.md:149` says that the count is monotonic.
- A user may have several TOTP rows, and `get_totp_credential` returns any of
  them.
- An approval that overlaps a rejection writes `approved` over `rejected`
  (`access.rs:499`); no privilege or grant follows for calls that come later
  (`RefusalStands`). An approval that expired keeps its request invalid although
  a newer one exists.
- The `policy_revision` of a decision response, read again after the decision,
  may name another realm's bundle (`pep_decision.rs:1052`).
- A cached decision is answered whatever the roles, the entitlements and the
  risk score of the new request are.

Two more limits are written into the properties themselves. `ReuseRevokesFamily`
holds as long as no repository operation failed: `revoke_reused_family`
logs the error of the revocation and answers all the same.
`DeletedUserHasNoTokens` holds over SQL: the file store lets a redemption under
way insert a family after the user's deletion.

## 8. Not modelled, and why

- Cryptography, encodings and document formats (JWT, XML, mdoc, RADIUS): not
  state; out of reach of a model checker.
- Client authentication, PKCE, scopes, DPoP and mTLS binding: a refusal without
  effect wherever they occur.
- Other record types of the file store: they go through the same map write and
  save.
- Redis and the SQL server: external; atomic operations that may fail, as the
  code uses them. Transactions of SQL are single steps.
- Loss of synced files, corrupt JSON at start, two processes on one store file
  (excluded by the lock file): `open` refuses them.
- A graceful shutdown that gives up on its calls: `BeginShutdown` waits until the
  server has drained, as it does without TLS. With TLS the drain ends after 30 s
  (`qidd/src/main.rs:408`), and a detached transaction may outlive its request;
  then the last flush meets calls that still run, which only adds to what
  `filestore_shutdown` shows.
- Clock steps backwards and skew between processes.
- SQL statements run as if serialized; an isolation level below that, where a
  single statement's predicate would be evaluated twice, is not explored.
- Configuration, discovery metadata, CLI parsing, HTTP layers and the many
  record-keeping endpoints are most of the repository's lines. They hold no
  state of their own beyond a row written by one statement, so the map covers a
  small share of the whole and most of what its concurrency rests on.
- The components of section 1 that section 2 leaves for later, and those
  `PROJECT.json` marks as not planned.

## 9. Running

In this directory: `tlc -workers 2 -config TokenGrant.cfg MCTokenGrant` (the
module and configuration of each run are in `PROJECT.json`; the longest take a
few minutes) and `tlapm TokenGrant_proofs.tla`.

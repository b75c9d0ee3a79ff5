# TLA+ models of the gateway's money, job and session paths

The repository is an API gateway in Go for AI providers: it authenticates a client's request,
charges an estimate, forwards the request to one of several upstream channels, settles the real
usage and returns what was charged too much. Long jobs (video, music, images) become rows of a
task table that background passes poll. Several gateway processes share one database. A web client
in TypeScript signs users in; its tabs share one rotating refresh token, and every gateway process
checks access tokens against a cached copy of the session row.

This directory holds TLA+ modules for the parts whose correctness depends on the order of steps
of several goroutines, requests, nodes or browser tabs, the TLC configurations that check them on small
instances, and TLAPS proofs for every instance. Paths below are relative to `src/`.

    tlc -workers 2 -config MCBillingWallet.cfg MCBillingSession     # one run
    tlapm BillingSessionProofs.tla                                  # the proofs of one module

## 1. Inventory

| Part | State it keeps | Operations | Interaction | What is hard, and what must hold |
|---|---|---|---|---|
| Billing session (`service/billing_session.go`, `funding_source.go`, `billing.go`, `violation_fee.go`, `relay/request_billing.go`) | in-memory session: funding source, pre-consumed, token-consumed, extra-reserved quota, flags | pre-consume, Reserve, Settle, Refund, violation fee | called by the relay loop; calls the quota store and subscriptions; Refund spawns a goroutine | concurrent requests of one user, any call may fail, rollbacks in two orders. A failed request keeps nothing, a served one pays its usage once, a reservation never overdraws |
| Quota store (`model/quota_reserve.go`, `user.go`, `token.go`, caches, `utils.go`) | `users.quota`, `tokens.remain_quota`, Redis copies, batch maps | try-reserve, increase, decrease, hydrate, flush | called by everything that moves money | cache and row change separately; hydration during a pending batch. The cached balance never exceeds what will be in the row |
| Subscriptions (`model/subscription.go`, `service/subscription_reset_task.go`) | `amount_used`, `amount_total`, period, pre-consume records | pre-consume, post-consume delta, refund by request id, reset, expire | called by the session; reset by a background task | nested transactions, retry of a refund that had succeeded, reset between charge and refund. A refund is applied once |
| System task runner (`service/system_task.go`, `model/system_task.go`) | `system_tasks` rows with `active_key`, one lease per type | create, claim, takeover, heartbeat, stale cleanup, finish | runs the polling passes, log cleanup, subscription resets | several nodes, crash and stall between two statements. A row runs at most once, a dead node's row is failed and its key freed |
| Asynchronous tasks (`service/task_polling.go`, `task_billing.go`, `model/task.go`, `relay/relay_task.go`) | `tasks` rows: status, progress, quota, private data | submit, sweep, poll, bulk-fail, terminal billing, realtime fetch | submitted through a billing session, polled by the system task runner | overlapping passes, timeout against a late answer, billing split in three calls. One winner bills; a failed row is refunded once |
| Relay retry loop (`controller/relay.go`) | retry counter, used channels | choose channel, attempt, classify error, retry | drives the session; feeds the channel breaker | panic and deferred refund |
| Midjourney (`controller/midjourney.go`, `model/midjourney.go`) | `midjourneys` rows | submit, poll, refund | like asynchronous tasks | the same races with an older code path |
| Channel breaker (`service/channel_breaker.go`) | window of samples, open-until, probes | record, allow, probe | consulted when a channel is chosen | one half-open probe at a time; a probe that never reports |
| Channel selection (`service/channel_select.go`, `model/channel_cache.go`, `ability.go`) | cached ability table | pick by group, model, priority and weight | relay loop | stale cache while a channel is disabled |
| Session cache (`model/user_session.go`, `service/auth_session.go`) | `user_sessions` row (status, version), its snapshot in each Redis | validate, create, rotate, advance the version, revoke (by id, by refresh hash, all of a user) | asked by every authenticated request; the login, refresh and security handlers change the row | row and snapshot change in separate calls that may fail; several Redis servers; a fill delayed past a revocation. A version is accepted for less than one cache lifetime after its end, and not at all once its Redis has the tombstone |
| Browser session (`web/src/lib/auth-session.ts`, `auth-session-sync.ts`, `http-client.ts`, `stores/auth-store.ts`, `routes/__root.tsx`; `controller/auth_session.go`) | per tab: store, `refreshPromise`, epoch, pending calls; per browser: refresh cookie, hint, Web Lock, broadcast channel | refresh, bootstrap, 401 retry, login, logout, rotation by a security change, settings saved by a profile card, events of other tabs | tabs talk to each other by events and to the server by requests whose `Set-Cookie` takes effect whatever the page does | answers and events overtake each other, answers are lost, pages are left. No late answer restores a session that has ended, and none but that of a profile card mixes two accounts; racing tabs never look like token theft; every refresh settles |
| User authentication versions (`model/user_auth_cache.go`) | per-user version and its cache | bump, check | beside the session's version | not modelled: the same shape as the session cache |
| Top-up, redemption, check-in, lottery | orders and codes | single transactions that credit the wallet | webhooks, users | duplicate webhook |
| Quality test jobs, rate limits, websocket relay, protocol conversion (`relaykit`), adaptors and plugins, pricing, options, logs, clients | - | - | - | see section 7 |

`PROJECT.json` lists every part with its files and status, and under `hazards` the lines where
something can go wrong that a test would hardly reach.

## 2. Plan

Done:

1. `BillingSession` with its proofs, the totals of the accounts included: every cent the gateway
   takes passes through it.
2. `SystemTask` with its proofs: the lease protocol under all background work.
3. `AsyncTask` with its proofs: rows, overlapping passes and terminal billing on top of both.
4. `SessionAuthority`, the abstract specification of what a session's caches promise, and
   `SessionCache`, which is proved to implement it.
5. `WebSession` with its proofs: the tabs of a browser against the rotating refresh token of the server.

Next, in this order:

6. `QuotaStore`: row, Redis balance, hydration and batch updater; abstract specification: one
   balance with atomic try-reserve, increase and decrease (the steps `BillingSession` uses). The
   detailed store is to be shown to implement it, or the states in which it does not are named.
7. `Subscription`: pre-consume records, the transaction inside a transaction of
   `RefundSubscriptionPreConsume`, `refundWithRetry`, period reset and expiry.
8. An abstract specification of task billing (a row is open, refunded or settled, and changes once)
   that `AsyncTask` implements when neither bulk failure nor realtime fetch occurs.
9. `ChannelBreaker`, the Midjourney path as a variant of `AsyncTask`, the streaming client of the
   playground (`web/src/features/playground`).

## 3. Modules and the code

**`BillingSession`.** All requests of an instance belong to one user and one API token, so they
compete for one wallet (`wallet`), one token quota (`token`) and one subscription (`subUsed`).
`pc[r]` is the request's goroutine, `rpc[r]` the goroutine that `Refund` spawns, `sess[r]` the
`BillingSession` struct with its `FundingSource`. One action is one call into the store with the Go code up to the
next one:

| Code | Actions |
|---|---|
| `PrepareRequestBilling`, `NewBillingSession`, `tryWallet`, `trySubscription` | `Start`, `StartFree`, `OpenInLoop`, `CheckWallet` |
| `preConsume` | `PreConsumeToken`, `PreConsumeFunding`, `UndoToken` |
| `Reserve`, `reserveFunding`, `reserveToken`, `rollbackFundingReserve` | `Reserve`, `ReserveFunding`, `ReserveToken`, `UndoFunding` |
| attempt, retry, panic in `Relay` | `Respond` |
| `Settle`, `SettleBilling` | `SettleFunding`, `SettleToken` |
| `Refund` and its goroutine | `Refund`, `RefundFunding`, `RefundExtra`, `RefundToken` |
| `ChargeViolationFeeIfNeeded` | `FeeFunding`, `FeeToken` |

Every call may fail with a database error (`Fault`, at most `MaxFaults` times). Where the code only
logs the failure of a compensating call, the history flag `leak[r]` is set: from then on the ledger
properties say nothing about that request. `held` and `fee` record what a request has taken,
`walletDebt` and `tokenDebt` what was taken without a balance check (settlement, fees, an unlimited
token, a text request's later reservation).

**`SystemTask`.** The rows of one task type (`status`, `activeKey`, `lockedBy`), the lease row
(`lock`), for each node its runner goroutine (`pc`, and the locals `target`, `stale`), for each row its handler and
heartbeat goroutines. Each SQL statement is a step. `ClaimSystemTask` and
`ExpireStaleSystemTaskLocks` read the clock once and then issue several statements; `age[n]` is how
old that reading is, so a slow call really compares with an old time. `Tick` lets time pass, `Crash`
stops a node with its handlers. A restarted process has a new runner id, so it is another node.

| Code | Actions |
|---|---|
| `StartLogCleanupTask`, `EnqueueSystemTask`, `DeleteSystemTaskHistory` | `Enqueue`, `DeleteHistory` |
| `ExpireStaleSystemTaskLocks` | `ReadStaleLocks`, `SkipStaleLocks`, `MarkStale`, `DeleteStale` |
| `runSystemTaskScheduler`, `runSystemTaskClaimPass` | `Schedule`, `Claim` |
| `ClaimSystemTask`, `acquireSystemTaskLock` | `InsertLock`, `ReadLock`, `StealLock`, `MarkExpired`, `SetRunning`, `ReleaseClaim` |
| `runWithLeaseHeartbeat`, `RenewSystemTaskLock`, `UpdateSystemTaskState` | `Heartbeat`, `LeaseLost` |
| `FinishSystemTask` | `Finish`, `ReleaseFinished` |

**`AsyncTask`.** The row of each task, the submitting request (`submit`, `plan`), the provider's own
status (`upstream`) and workers that are at any time a polling pass, a sweep or a client's realtime
fetch. A worker loads a row into `copy`, edits it and writes all columns back if the status is still
`from[w]` (`UpdateWithStatus`); terminal billing is `RefundFunding`, `RefundToken`, `ClearQuota` or
`AdjustFunding`, `AdjustToken`, `StoreQuota`. `paid` records what the row has taken. `verdict` and
`leak` record why a terminal row may keep something: usage was settled, a legacy row, a refund that
reported an error, a crash in the middle of billing. `SweepOn` says whether the timeout sweep is configured
(`TaskTimeoutMinutes > 0`), `MaxPollFailures = 0` that the failure cutoff is not. `done` is the progress column at
"100%": the code stores the progress of an active row as the provider reports it, so `AfterPoll` may set it, and
such a row is seen neither by the polling list nor by the sweep (`Hidden`).

**`SessionAuthority`.** What a node promises about one login session, without any cache
(`docs/authentication.md`, lines 18-26): the row decides; `Create`, `Advance` and `Revoke` change it; a
validation (`Ask`) may be answered `Accept` only if its version is current, or ended less than one
cache lifetime before the validation started, and always `Deny`.

**`SessionCache`.** The same row with one snapshot per Redis (`cache`) and workers that run one
request or job each on a node (`job[w].at` is its Redis). Every SQL statement or transaction and every Redis
call is a step, `Tick` may come between any two, every call may fail and `End` may stop a worker anywhere.
`writeUserSessionCache` is `Fill` (the deadline check), `Eval` (the script) and `Filled` (its return
value), because the deadline is fixed before the row is read and the script runs later.
`endedAt` and `sealed` are history: when each version ended, and which Redis has taken a tombstone.

| Code | Actions |
|---|---|
| `ValidateLoginSession`, `GetUserSessionCached`, `confirmUserSessionActiveSnapshot` | `Validate`, `Lookup`, `Load`, `DenyWrite`, `Fill`, `Eval`, `Filled`, `Confirm` |
| `CreateUserSession` | `CreateUserSession`, `Insert`, then the fill |
| `RotateUserSessionRefresh` | `RotateUserSessionRefresh`, `RotateRead`, `RotateUpdate`, then the fill |
| `AdvanceUserSessionAuthVersion` | `AdvanceUserSessionAuthVersion`, `Advance`, then the fill |
| `RevokeUserSession`, `RevokeUserSessionByRefreshHash`, `revokeUserSessions` | `RevokeUserSession` or `RevokeUserSessions`, `Candidate`, `Fence`, `Commit`, `Tombstone` |

**`WebSession`.** Per tab the auth store (`store`), the refresh behind `refreshPromise` (`ref`; its
`current` stands for `authEpoch === refreshEpoch`), the page with its pending API call, login,
sign-out and security change (`page`) and the events waiting for it (`inbox`); shared by the tabs the
Web Lock's queue, the refresh cookie and the session hint; on the server the session rows. A refresh
token is its session and its distance from the newest of the family (current, previous, older), which
is all the server distinguishes. Requests and answers are records in the set `net`, so they arrive in
any order; an answer may be lost (`Lose`), or arrive after its page is gone (`ReceiveOrphan`).
`page[t].call` stands for any API request of the page that meets the interceptor; when it is the request of a profile
card, `page[t].save` is the user the card captured and will write back.

| Code | Actions |
|---|---|
| `refreshAuthentication`, `performRefreshWithBrowserLock`, `createRefreshRunner` | `StartRefresh` inside its callers, `RunRefresh`, `RaceDelayEnds`, `RefreshAnswered` |
| `bootstrapAuthentication`, `beforeLoad` of the guarded route | `BootstrapAuthentication`, `Navigate` |
| `getFreshAuthHeaders`, the response interceptor of `http-client.ts` | `GetFreshAuthHeaders`, `CallUnauthorized`, `AnonymousCall`, `CallSettles` |
| `login`, `handleLoginResult`, the WeChat route; `logout`, `executeLogout` | `Login`, `LoginAnswered`; `Logout`, `LogoutAnswered`, `LogoutResumes` |
| `applyAuthRotation` after a security change | `ChangeSecurity`, `ChangeAnswered` |
| `setUser` after the request of the language card or the sidebar card | `SaveSettings`, `SaveAnswered` |
| `publishAuthSessionEvent`, `subscribeAuthSessionEvents`, the root component | `Publish`, `HandleEvent`, `IgnoreStaleEvent` |
| `RefreshAuth`, `RefreshLoginSession`; `createLoginSession`; `AuthLogout`; `AdvanceCurrentSessionSecurity`; the access-token check before `UpdateSelf`; `RevokeUserSession` | `ServeRefresh`, `ServeError`; `ServeLogin`; `ServeLogout`; `ServeChange`; `ServeSave`; `RevokeElsewhere` |

The Web Lock's queue is a sequence of tabs: a tab joins at the end when it starts a refresh, its head holds the
lock (`HoldsLock`), and `Leave` takes a tab out when its refresh settles or its page is unloaded.

**`MC...`** modules add model values and symmetry. **`BillingSessionProofs`**, **`BillingAccountsProofs`**,
**`SystemTaskProofs`**, **`AsyncTaskProofs`**, **`AsyncTokenProofs`**, **`SessionCacheProofs`** and **`WebSessionProofs`** hold the
theorems, **`FiniteSums`** the lemmas about sums over a finite set that the accounts and token proofs use.

Operators named `Slip_...` are deliberately wrong variants of the operator that follows each of them. No
specification uses them; substituting one must make the property break that `PROJECT.json` pairs it
with under `mutants`.

## 4. Runs

| Run (configuration) | Instance | What it shows |
|---|---|---|
| `billing_wallet` (`MCBillingWallet`) | 2 requests, text or image, playground or not, wallet 3, token 2, quotas 1 and 2, 1 retry, 1 error; also a preference for a subscription the user does not have | races for the last quota, trust bypass, reserve and rollback: `TypeOK`, `FailureReturnsEverything`, `ServedPaysActual`, `ReservationsNeverOverdraw`, the inductive `LedgerInv`, and `AccountsExact` |
| `billing_subscription` (`MCBillingSubscription`) | 2 requests that prefer subscription or wallet, subscription total 3, wallet 2, quotas 0 and 2, fee 1, 1 error, fairness | fallback in both directions, full subscription, fee beside a refund: the same, with `RefundMatchesHolding` while the request is in flight, and `RequestsEnd`, `RefundsRun` |
| `billing_image_refund` (`MCBillingImageRefund`, violation) | 1 image request, 1 retry | "Refund returns all of the pre-consumption" is false for image requests on the wallet |
| `system_task` (`MCSystemTask`) | 2 nodes, 2 rows, lease 1 tick, calls of at most 1 tick, 1 crash, 1 failed statement, fairness | `ExecutedAtMostOnce`, `ActiveKeyMatchesStatus`, `RunningIsLeased` and the inductive `LeaseInv` behind it, `TerminalIsFinal`, `LeaseInForceIsKept`, `RowsEnd` |
| `system_task_stall` (`MCSystemTaskStall`, violation) | lease 2 ticks, calls of up to 3 ticks | a claim slower than the lease starts a row that no cleanup can find |
| `async_task` (`MCAsyncTask`) | 1 row, 2 workers, quotas 0 and 1, sweep on, cutoff off, 1 crash, 1 error, fairness | `FailedIsRefunded`, `QuotaMatchesPaid`, `NeverOverRefunded`, `TerminalIsFinal`, `RowsEnd` |
| `async_task_fetch` (`MCAsyncTaskFetch`) | a legacy row, channel may vanish, cutoff 1, 1 client fetch, 1 error | `TokenFollowsFunding`: funding source and token move together whatever rewrites the row |
| `async_task_bulk_refund` (`MCAsyncTaskBulkRefund`, violation) | 1 worker, channel may vanish | a row failed in bulk is not refunded |
| `async_task_fetch_refund` (`MCAsyncTaskFetchRefund`, violation) | 1 worker, 1 fetch | a failed row closed by a client's fetch is not refunded |
| `session_cache` (`MCSessionCache`) | 2 workers, 2 Redis servers, 2 versions, lifetime 1, session ends at time 3 | `BoundedStaleness`, `RevokedAtOnce`, `SnapshotsBounded`, and the refinement `ImplementsAuthority` |
| `web_session` (`MCWebSession`) | 2 tabs, 2 sessions, 2 user operations, 1 fault | `SignedOutStaysOut`, `OnlySavesMixAccounts`, `ReuseNeedsLoss` (2.4 million states) |
| `web_session_liveness` (`MCWebSessionLiveness`) | 2 tabs, 1 session, 1 operation, 1 fault, fairness | `RefreshesEnd`, `RevokedLeaves` |

**Why the bounds are enough.** Billing: two requests are the fewest that race; a wallet of 3 and a
token of 2 with quotas up to 2 let each of the two be exhausted by one request, by both, or by neither,
and reach every refusal; one retry gives two Reserve calls after a pre-consume; one error reaches
each compensating step once. The ledger properties are proved for all sizes, so the runs serve
mainly to exclude a vacuous model. System tasks: with two nodes every claim meets a rival; two rows are needed
because a takeover may replace the lease of an older row; a lease of one tick with calls of one tick
has every comparison at, before and after its boundary. Asynchronous tasks: rows share
nothing, so one row suffices; two workers give every race between winner and loser; `async_task` runs
without the failure cutoff, so that a silent provider leaves the row to the sweep alone, and `async_task_fetch` with it. Session cache: two workers give a fill against a revocation and a
revocation against a rotation; two Redis servers give the node that misses the tombstone; a lifetime of 1 within 3
ticks lets an entry, a tombstone and a delayed deadline each expire before the others. The properties are proved
for all sizes. Browser: two tabs are the fewest that race for one refresh token; two sessions are needed for
a sign-in that replaces another; two operations give a sign-out, a security change, a saved setting or a revocation from elsewhere that overlaps
with a refresh or another sign-in (the safety properties are proved for all sizes); one fault gives a lost answer, an
answer in place of the handler's or a stale event in each of those. One race retry stands for the list of delays: the loop treats all but the last alike.

`CHECK_DEADLOCK FALSE` in all configurations: the bounded instances end when every request or row has ended.

**Fairness.** `BillingSession!FairSpec`: a goroutine that has started is scheduled and its store call
returns (with success or error); nothing says a client must send a request. `SystemTask!FairSpec`:
time passes; the runner loop of a live node keeps turning (`StartSystemTaskRunner` loops for ever on
a ticker); its stale pass runs again and again, strong fairness because most turns may skip it within
`systemTaskStaleLockInterval`; a handler ends some day (they are finite loops with timeouts). Heartbeat has
no fairness, so `RowsEnd` also holds for a node whose heartbeat has died. `AsyncTask!FairSpec`: passes keep running, a started
request or fetch ends, a row grows old. The provider has no fairness: it may stay silent. `RowsEnd` needs the sweep
(`SweepOn`), and it excepts a hidden row (section 6).
`WebSession!Fairness`: timers and handlers of a tab run, and each of its requests is served and answered, or fails;
among the handlers is the 401 of the next API call, so `RevokedLeaves` is about a tab that is still used. Nothing is assumed of the user.

## 5. Proofs

`BillingSessionProofs` proves for any set of requests, any preferences, any quotas and balances in
`Nat` (`ConstantsAssumption`), and any number of errors:

- `TypeCorrect`: `[]TypeOK`. Not only a formality: `preConsumedQuota`, `tokenConsumed`,
  `extraReserved` and `amount_used` are shown never to become negative.
- `NoOverdraw`: `[]ReservationsNeverOverdraw`, with the check-and-deduct of the two reserve
  operations as the key step.
- `Ledger`: `[]LedgerInv`, the inductive invariant.
- `RefundComplete`, `SettlementExact`, `RefundableExact`: the three accounting properties
  `FailureReturnsEverything`, `ServedPaysActual` and `RefundMatchesHolding`, which follow from it.

Argument: the accounting properties speak about the end of a request (or a few labels) and are not
inductive: the steps in between take from one place before another. `LedgerInv` says for *each*
label of both goroutines which session fields account for what is held: nothing before the
token step (`Unopened`); the token alone at `preFunding` and `undoToken`; pre-consumption on both
sides with equal token share at `ready`, `sent` and so on (`Balanced(r, 0)`); the
amount under reservation in addition between `reserveFunding` and `reserveToken` (`Balanced(r, quota[r])`); and
what is left after each step of the refund goroutine. `SessionShape` ties flags, labels and outcome, which the case
distinction needs. `LedgerFrame` shows that a step of one request leaves the invariant of
the others alone; then there is one lemma per action and `LedgerStep` puts them together.
Two exceptions are in the invariant because the code has them: a request with a failed
compensation (`leak`), and the refund of an image request on the wallet (`WalletImage`, see finding 1).

`BillingAccountsProofs` proves for any *finite* set of requests (`IsFiniteSet(Requests)` in
`ConstantsAssumption`; a process serves finitely many):

- `AccountsConserved`: `[]AccountsExact`. Wallet and token plus what all requests have paid is what they
  were at the start, `amount_used` is the sum of what the subscription requests have paid, and it never exceeds
  the total. Unlike the ledger, it also speaks of requests whose compensation failed: what is lost is lost by a request,
  and not by an account.

Every step moves quota between the accounts and one request (`Moves`), so the sums change by the same amount.
Two places in the code could spoil that. `PostConsumeUserSubscriptionDelta` clamps `amount_used` at zero: a
refund larger than the whole of it would vanish in the clamp. And a request may change its funding source while
it opens: whatever it held would then count for another account. `HoldingInv` excludes both: a request that has not
passed the pre-consumption of its funding source holds nothing of it (`Opening`), and what a subscription request holds
covers what its session may still return, whether or not it has leaked (`Covers`). With all holdings
non-negative, `amount_used` is then at least what one request holds (`SumBound`), and the clamp never acts.

`FiniteSums` makes sums over the requests provable. The library states induction over an operator, which no installed prover
can instantiate; `InductionOverNat` states it over a set (a set with 0 and closed under successor contains `Nat`) and
derives it from the pigeonhole principle of `FiniteSetTheorems`. From it follow the recursion equation of the
community modules' `MapThenSumSet` (`SumRecursion`), that a sum of integers is an integer, bounds, and `SumChange`: when one
summand changes, the sum changes by the difference.

`SystemTaskProofs` proves for any set of nodes, any number of rows, crashes and failed statements,
any lease and any length of a call (`ConstantsAssumption`):

- `TypeCorrect`: `[]TypeOK`; a lease written by a slow call is never longer than the TTL.
- `FinishedIsFinal`, `ActiveKeyExact`, `RunsOnce`: `TerminalIsFinal`, `ActiveKeyMatchesStatus` and
  `ExecutedAtMostOnce`. They rest on one lemma, `LifecycleStep`: whatever is going on with leases, a
  step moves a row only along none, pending, running, finished, deleted, and starts a handler only
  when the row becomes running. So these three do not need the lease at all: the WHERE clauses on
  the status carry them, even when a claim outlasts its lease.
- `LeaseKept`: `LeaseInForceIsKept`. A lock is taken away only when it has expired, by the claim that
  owns it, or by the handler that has finished its row (`LockStep`); a claim never owns the lease of
  a running handler, because a node does not claim a row that it has already started (`ClaimsForeign`).

and, under the further assumption `MaxStall <= TTL` (no call lasts longer than the lease):

- `ReadingsStaySound`: `[]LeaseInv`, and from it `RunningStaysLeased`: `[]RunningIsLeased`.

`RunningIsLeased` is not inductive: whether a takeover or a cleanup removes the lock of a running row
depends on what the call has read before. `LeaseInv` adds what each label of a call may rely on: a
call that still sees the lock expired with its old clock reading looks at the lock of a row that does
not run (`ReadingOK`); a call that has got the lock still owns it, with `lock.left >= TTL - age[n]`, and its
row does not run yet (`ClaimOK`). Since `age[n] <= MaxStall <= TTL`, such a lease is seen as valid by every
other call, which is why nobody takes it (`OwningFacts`). `NodeFrame` shows that a step of one
node leaves the readings of the others sound; one lemma per group of actions follows, and
`LeaseStep` puts them together. The assumption cannot be dropped: `system_task_stall` is the counterexample
for `MaxStall = TTL + 1` (finding 2).

`SessionCacheProofs` proves for any number of workers, Redis servers and versions, any lifetime and
any expiry of the session (`ConstantsAssumption`):

- `TypeCorrect`, `Staleness` (`BoundedStaleness`), `Revocation` (`RevokedAtOnce`), `Snapshots` (`SnapshotsBounded`);
- `Refinement`: `Spec => Authority!Spec`. The mapping keeps `now`, `row` and `endedAt` and shows of each job
  only what a caller of the validation sees (`Call`). Inserts, version changes and revocations map to
  steps of the abstract row, the answer of a validation to `Accept` or `Deny`, everything
  between (lookups, loads, fills, scripts, fences, tombstones) to stuttering. The whole difficulty is in `Accept`:
  the abstract guard must hold when the cached snapshot agrees with the token.

`BoundedStaleness` speaks of the moment of acceptance and is not inductive: a snapshot that is read now was
stored by a fill that fixed its deadline before it read the row. The invariant `IInv` therefore follows the version from the
row to the answer: `EndsOK` (the clock is past every end, and the last version ends last), `JobOK`
(what each label of a worker knows: the deadline of a fill lies within one lifetime of the moment its version
ended, and a validation that fills started no later than that moment), `CacheOK` (an entry is live, an
active one lies within the same horizon, and once a Redis is sealed its tombstone outlives every snapshot
that could still be written there). Deadlines that are
absolute, not relative to the write, are what makes it inductive: the slip `Slip_ActiveExpiry` breaks it.

`AsyncTaskProofs` proves for any number of rows, workers, crashes, errors and any cutoff,
with the sweep on or off (`ConstantsAssumption`):

- `TypeCorrect`: `[]TypeOK`, realtime fetches and bulk updates included; quotas never become negative;

without realtime fetches (`~Realtime`), with legacy rows and with bulk updates:

- `NoOverRefund` (`NeverOverRefunded`), `QuotaIsPaid` (`QuotaMatchesPaid`);

and if moreover no channel is deleted (`~ChannelsVanish`):

- `FailureRefunds` (`FailedIsRefunded`) and the action property `TerminalStays` (`TerminalIsFinal`).

Both assumptions are needed: findings 3 and 4 are the counterexamples. The properties speak of a row whose
billing has ended; the invariant `IInv` says for each step of the billing what the row still holds. `OneOwner`:
at most one worker is past the terminal compare-and-swap of a row. `WorkerOK`: the copy of a
worker that has not yet written carries the row's quota as long as the row is active, because nothing
changes the quota of an active row; so a winner writes back the quota it found. `FloorOK` bounds what the row has
taken from below, even after failures (the surplus the submission will still return, plus what
the owner's remaining steps give back); `ExactOK` says the same with equality while nothing was lost; `ClosedOK` and
`VerdictOK` tie a failed row without owner to its verdict. The surplus is why a row may be refunded before its
own submission has settled: the two never touch the same part. `TaskFrame` and `WorkerFrame`
show that a step leaves other rows and workers alone, `KeepsRow` and `LeavesRow` reduce each
billing step to its arithmetic, and `InvStep` puts the actions together.

`AsyncTokenProofs` proves, for a finite set of workers (`IsFiniteSet(Workers)`) and *with* realtime fetches and bulk updates:

- `TokenIsFunding`: `[]TokenFollowsFunding`.

With fetches a row has no single owner: a fetch may write an active status over a terminal one, so several workers can win
the row and refund or settle it at the same time. `OneOwner` is false then and most of `IInv` with it. What
remains is one equation (`Gap`): as long as nothing leaked, the row has taken from the funding source what it has
taken from the token plus the sum, over all workers, of what each has moved on the first and not yet on the second
(`Owed`: a refund between `RefundFunding` and `RefundToken`, a settlement between `AdjustFunding` and
`AdjustToken`). `Unborn` is needed beside it: `Reserve` and the failed `Insert` overwrite both amounts, which is right only while no worker
has the row. When the row is quiet every summand is zero.

`WebSessionProofs` proves for any number of tabs, sessions, race retries, user operations and faults
(`ConstantsAssumption`), with and without Web Locks:

- `TypeCorrect`: `[]TypeOK`;
- `AccountsMixOnlyBySaves`: the action property `OnlySavesMixAccounts`;
- `EndIsFinal`: `[]SignedOutStaysOut`;

and with Web Locks (`HasLocks`):

- `LocksPreventReuse`: `[]ReuseNeedsLoss`.

`OnlySavesMixAccounts` is an action property: for each action either every tab whose account and session
agree keeps them in agreement (`AccountKept`, from the check of `applyAuthRotation` and from the fact that every bundle
names its own user), or the action is the answer of a card, which writes the user captured in `page[t].save` and leaves the session alone.
The others follow from `Invariance`: `[]Inv`. `SignedOutStaysOut` is about the store, but what can break it is a message
on its way, so `Inv` says what messages may carry:

- `GrantsAreValid`: a granted refresh that the page would still accept (its epoch is the current one) is not for a session
  whose end the page has been told of. It is kept because `SignOut` raises the epoch in the same step as it clears the store,
  and the server grants nothing to a revoked row (`KnownSids`: only revoked sessions are told).
  `OneRefresh` ties the answer to the one runner of its page: a runner that was started later
  must not accept the answer of an earlier one.
- `LoginsAreNew`: the answer of a login names a session that no store, cookie or other message mentions and no tab was
  told the end of; so accepting it needs no epoch check. `KnownSids` (nobody speaks of a session not yet
  created) and `Messages` (which answers carry a token) are what makes it inductive.
- `SenderHoldsLock` and `TokenIsNewest`, with Web Locks only: while no answer is lost, no refresh request carries an old
  token, and if the cookie is old, the answer with the newest token is on its way. As its sender holds the lock until
  the answer has set the cookie, the next tab reads the cookie after it. Without Web Locks `SenderHoldsLock` is
  false, and two tabs that send the same token do lose the session.

There is one lemma per action and part of the invariant; messages are handled by how a step changes them: a request made
(`RequestMade`), an answer (`AnswerMade`), or a copy of an older message with its tokens aged or its page gone (`IsCopy`).

Only model-checked: liveness, that is `RequestsEnd`, `RefundsRun`, `RowsEnd` of both task modules, `RefreshesEnd` and
`RevokedLeaves` (temporal reasoning with fairness is outside the prover). Every other property that a passing
run checks is a theorem.

## 6. Findings

1. `service/funding_source.go:53`: `WalletFunding.PreConsume` *assigns* `consumed`. An image request
   reserves through it a second time, so a later refund returns only the last part
   (`billing_image_refund`).
2. `model/system_task.go:291`: the statement that starts a row does not check the lease. A claim that
   stalls longer than the lease leaves a running row without a lease, which nothing recovers and which blocks its type
   (`system_task_stall`).
3. `service/task_polling.go:431`: rows of a channel that cannot be loaded are failed with
   `TaskBulkUpdateByID`, which its own comment forbids for this, and never refunded
   (`async_task_bulk_refund`). The bulk update has no status condition either, so `TerminalIsFinal` is not claimed there.
4. `relay/relay_task.go:599`: a client's realtime fetch stores a terminal status without billing and
   thereby takes the row out of polling (`async_task_fetch_refund`). As it writes a whole old copy back,
   `QuotaMatchesPaid`, `NeverOverRefunded` and `TerminalIsFinal` are not claimed with realtime fetches.

Two more places where the code does less than one may expect are part of the models and named in a property that
passes, without a run of their own:

5. `service/task_polling.go:595-597` (and 342-344 for batches; 522-529 copies the progress of another gateway) stores the
   reported progress whatever the status. An active row at "100%" is found neither by the polling list nor by the
   sweep (`model/task.go:384`, `368`), so it keeps its charge for ever. `docs/plugin-api/v1.md:355` says "The 24h
   `TASK_TIMEOUT_MINUTES` sweep remains the outer deadline." `RowsEnd` holds with the exception `Hidden`, and not without it.
6. `features/profile/components/language-preferences-card.tsx:75-86` and `sidebar-modules-card.tsx:188-193` (in `web/src`) write back
   with `setUser` the user they captured before their request, without looking at the session. When another tab signs out meanwhile
   (`routes/__root.tsx:88-90` resets the store and keeps the page) the answer puts the old account back: with no session,
   so that the guards of `/sign-in` and of the protected routes each send the page to the other, or, after a new sign-in,
   beside the token of the other account. The next refresh or reload sets both together again.
   `OnlySavesMixAccounts` says that nothing else does this.

## 7. Abstractions and what is left out

- A store call is atomic and acts on one balance. With Redis, balance and row are changed separately (plan, step 6).
- A subscription is one record with one total, without period; its refund by request id is one step (plan, step 7).
  One active subscription per user.
- One clock for all nodes and Redis servers. Skew between nodes acts like a shorter lease and a longer cache lifetime.
- `SessionCache` follows one session. The user's own version beside it and its cache are left out: they invalidate
  the same tokens in the same way. Rows are never deleted; the cleanup job deletes only rows long expired.
- Known and allowed by `SessionCache`: a tombstone is refused, and only logged, when the cached version is higher
  than the one the revoker read; a slower fill may publish an older version over nothing; a fence that is followed by a failed
  transaction denies an active session until it expires. All three stay within one lifetime, which is what is promised.
- `WebSession`: the account is named by the session that shows it; error texts and the targets of redirects are
  left out; the second step of 2FA and OAuth ends in the same bundle as `Login`; the WeChat route
  (`routes/(auth)/oauth.tsx:43-45`) applies its bundle without the check of `handleLoginSuccess`, and so does the model.
  A form that is no longer mounted ignores its answer at any time (the model does not follow mounting). `redirectToSignIn`
  does nothing on `/sign-in`; the model lets the page stay or go. A refresh whose session cannot be looked up is refused with 401
  and loses its cookie although the row is active (`ServeError`); one that finds the session inactive in the rotation ends in
  a 500, which to the page is an answer without content (`ServeError`, `Lose`). The audit page also calls `setUser`, but compares the
  user's id first (`features/usage-logs/audit/index.tsx:52-90`) and never changes the account. The code `AUTH_REFRESH_RACE` that the
  client handles is not produced by this server, so it is an answer of the environment (`ServeError`). `ReuseNeedsLoss` is checked
  and proved with Web Locks (`HasLocks`); a browser without them can lose a session to two racing tabs.
  A late `Set-Cookie` of an older session may replace a newer cookie; nothing in the repository promises otherwise.
- A statement and the timestamp it uses are one step, except in the two calls named above.
- Task handlers are reduced to when they end and what they report.
- `AsyncTask`: `RowsEnd` is checked with the sweep on; with `TASK_TIMEOUT_MINUTES` at zero or below
  (`service/task_polling.go:71`) nothing ends a row whose provider stays silent unless the cutoff does. The safety
  theorems hold for both. The batch path may rewrite `submit_time` with the provider's (`service/task_polling.go:339`): the model takes
  the reported time to be one fixed moment, so that a row that has grown old stays old. A provider that reports a new
  time at every poll would keep its row from the sweep. The columns of a terminal row that no pass reads
  again (its progress among them) are not followed.
- A crash of the gateway in the middle of a request is not a step of `BillingSession`: nothing durable records a reservation,
  so everything reserved at that moment is lost by design. It is a step in `SystemTask` and `AsyncTask`.
- Prices, ratios, tokens counted and log entries: any quota of a set stands for the result of pricing.
- A commit whose answer the database driver loses is not modelled: `Insert` either happens or does not.

**Not modelled**, with the reason of each in `PROJECT.json`: channel selection and breaker, Midjourney, the per-user
authentication version, second factors, top-up, redemption, check-in and lottery, quality test jobs, rate limits,
websocket relay, protocol conversion, adaptors and the plugin sandbox, options, logs and statistics, and the
forms, tables and editors of the web and desktop clients. The last are most of the repository's TypeScript: components
that show what the server answered and send what the user typed, one request at a time. What they share is the query cache
and the auth store. The store is `WebSession`, with the three callers of `setUser`: two profile cards that write a
captured user (`SaveSettings`) and the audit page that cannot change the account. The query cache holds copies of server
answers that are fetched again. Modelling their layout and validation line by line would only repeat them.

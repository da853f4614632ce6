# pressay-cloud: models, checks and proofs

TLA+ models of the control plane in `src/` (a Hono API over Neon Postgres), the
TLC runs that check them and the theorems about them that TLAPS proves.

Paths below are relative to `src/`; "0008" is `migrations/0008_*.sql`.
`PROJECT.json` maps every definition that models code to the lines it
translates, and lists hazards, findings, runs, faulty variants and theorems.

Contents: 1 the system · 2 what is modelled, and where · 3 the runs · 4 the
proofs · 5 what the runs found · 6 what is not modelled · 7 plan.

## 1. The system

The API runs as stateless functions on Vercel. Each lives 60 seconds at most
(`vercel.json`, `maxDuration`); crons call the routes of
`src/routes/internal.ts`. No process keeps state between requests: **everything
lasting is in Postgres or at a provider**. A query is one autocommit statement
at READ COMMITTED, or the call of one SQL function, whose statements each see
what other transactions have committed in between. The concurrency control is
row locks, unique keys and the `WHERE` clauses of updates. A function can be
killed between any two awaits, and an HTTP client can retry with the same
idempotency key.

This gives every component the same hard behaviours: two functions between each
other's statements, a row checked in one statement and used in a later one, an
answer of a provider held over an await, a retry of what was already done, and a
death between two steps.

| Component | State | Operations | Talks to | What makes it correct |
|---|---|---|---|---|
| Metered Cloud processing (`services/cloud-processing.ts`, `usage-reservations.ts`, 0006, 0008) | `usage_reservation`, `usage_period` | reserve, claim, provider call, settle, expiry of stale reservations | model provider; account, entitlement and device rows | the counters are the sums of the reservations; the quota holds; one provider call per key; every request ends |
| Stripe events (`billing.ts` 455-1190, `provider-events.ts`, 0013, 0016, 0028) | `provider_event`, `billing_subscription`, `billing_financial_event` | webhook, replay, projection, refund, dispute, won dispute | Stripe (`retrieve`, `cancel`), referrals, entitlement recomputation | each event is applied once; the newest one decides; what is answered is not lost |
| Accounts and devices (`accounts.ts`, `admin-support.ts`, 0003, 0015, 0021, 0024) | `pressay_account`, `pressay_device`, `operations_request` | sign-in, restoration by owner or support, revocation | deletion, sync | the limit of active devices; no active device once a deletion is requested; an idempotent restoration |
| Account deletion (`account-deletion.ts`, 0003, 0017) | `account_deletion_job`, and all the account's rows | request, claim with lease, three provider or clean-up calls, completion, failure with backoff | Stripe, web identity provider, every component that writes account rows | job and account agree; one function at a time; nothing is left; the backlog drains |
| Stripe checkout (`billing.ts` 41-361, 0022) | `billing_checkout_lease`, `billing_legal_acceptance`, `billing_customer` | lease, consent, customer, list of subscriptions and of sessions, expiry and creation of sessions, release | Stripe, the webhook | one session that can be paid; one subscription; an abandoned lease lapses, but not while its function lives |
| Apple billing (`apple-billing.ts`) | the subscription rows and customers of the App Store, `provider_event` | notification, restoration, linking to another account | App Store | the newest signature decides whatever the order; a purchase stays with its account |
| Entitlement (0019, 0017, 0024, `entitlements.ts`) | `entitlement`, `access_grant` | recomputation at the end of each transaction that bills, claims, gives, extends or revokes | everything that bills or grants | the row shows the account's best right, whoever writes at the same time |
| Campaigns and grants (`operations.ts`, 0017, 0024) | `access_campaign`, `access_grant` | create, claim, redeem, revoke | Stripe coupons and promotion codes, entitlement | a revoked campaign stays revoked, at Stripe too |
| Referrals (`referrals.ts`, 0017, 0018) | `referral_attribution`, `referral_payment`, `referral_reward`, `referral_reversal` | attribution, payment, reversal, reward queue, retry by support | Stripe's balance credits, billing events, entitlement | a reward is given once, and nothing is left of reversed money |
| End-to-end encrypted sync: keys (`sync.ts` 37-344) | `pressay_device` (public key, envelope, approval), `account_recovery_code` | enrol, approve, configure, begin and complete a recovery | devices | a device keeps its key; a recovery code opens once |
| End-to-end encrypted sync: log (`sync.ts` 346-485, 0007) | `sync_change` and its sequence | push, read a page from a cursor | devices, deletion | what a cursor passes was delivered; conflicts are told |
| Operations members (`admin-members.ts`, `operations.ts`, 0030) | `operations_member` | change or removal of a role, claim of the owner's seat | audit, deletion | an active owner remains |
| Admin support, audit (`admin-support.ts`, `routes/operations.ts`) | `operations_audit`, `operations_request` | an action with an entry before and after it; the record of an action of the web | accounts, grants | the ledger says what was done, once |
| Rate limits (`rate-limits.ts`, 0010) | `rate_limit_bucket` | count in each scope, clean-up | every route | the limit of a window under concurrent requests |
| Retention, waitlist, downloads, export, authentication, dashboards, HTTP layer | rows of others | clean-up, reads, routing | | see section 6 |

`PROJECT.json` lists the hazards of each at their lines. Some carry a note: a
property names the case and excepts it, because that is what the code does.

## 2. What is modelled, and where

| Module | Models | Composes |
|---|---|---|
| `QuotaContract` | what metered processing promises: grants and provider calls, no counters, locks or time | |
| `UsageReservations` | reserve, claim, call and settle of one account | `INSTANCE QuotaContract` under a refinement mapping |
| `StripeEvents` | the webhook of one customer, with Stripe | |
| `AccountDevices` | the devices of one account and its status | |
| `AccountDeletion` | the deletion job, its functions and the handlers it races | EXTENDS `AccountDevices`: its variables and its actions |
| `Checkout` | `POST /billing/checkout` of one account, with Stripe, its customer and the webhook | |
| `AppleSubscriptions` | App Store notifications and restorations of several accounts | |
| `Entitlements` | the one row that shows an account's best right, and its writers | |
| `Campaigns` | one campaign, here and at Stripe | |
| `Referrals` | one referral, from its attribution to its rewards and its reversal | |
| `SyncKeys`, `SyncLog` | the devices' way to the account key; the log of changes | |
| `Members` | the administrators and the owner's seat | |
| `SupportActions` | the audit trail around an action | |
| `RateLimits` | the windows of one caller | |
| `UsageReservationsProofs`, `UsageLedgerProofs` | theorems on metered processing; the second on its counters, refusals and contract | EXTEND `UsageReservations`, and the first |
| `StripeEventsProofs` | theorems on the Stripe webhook | EXTENDS `StripeEvents` |
| `AccountsProofs`, `SyncProofs`, `OperationsProofs` | theorems on devices and deletion; keys and log; members, rate limits, support and the sum `MCIdentity` | EXTEND the modules they are about |
| `BillingProofs`, `GiftsProofs` | theorems on checkout, entitlement and App Store; campaigns, referrals and the sum `MCCommerce` | EXTEND the modules they are about |
| `MCCommerce`, `MCIdentity` | several components in one TLC instance | EXTEND them, side by side |
| `MCStripeScenes` | the scenes of the Stripe webhook that one instance has room for | EXTENDS `MCStripeEvents` |
| the other `MC*` | instances for TLC | |

Each module has one comment with its granularity. The rule is the same
throughout: **one step per statement that another function can come between, one
step per call of a provider**; the lock of a row is state where transactions can
wait for it. Definitions marked *Faulty variant* are never used by a
specification: they are the plausible bugs that show that a property can fail.

### UsageReservations

| State | Code |
|---|---|
| `row` | `usage_reservation` by idempotency key: status, month, body (device, kind, units, hash), expiry, `processing_started_at` as a flag |
| `used`, `reserved` | the counters of `usage_period`, by month and kind |
| `monthLock`, `rowLock` | row locks that a transaction holds until its end |
| `pc`, `clock`, `asked` | one HTTP attempt: where it stands, its arrival, the `now()` of its transaction |
| `denied` | the account checks that fail at the moment (entitlement, device, sandbox) |
| `created`, `called`, `served` | history: who inserted, who called the provider, who got a result |

| Actions | Code |
|---|---|
| `Arrive`, `Admit` | the sandbox query, then the account checks of `reserve_pressay_usage`, read before any lock |
| `LockMonth` | the upsert of the period |
| `FindExisting`, `CheckQuota`, `Insert` | expiry of stale rows, then the known key, the quota check, and the insert |
| `BeginClaim`, `Claim` | `claim_pressay_usage`: one UPDATE that waits for the row |
| `CallProvider`, `ProviderReturns` | `processCloudTransformation`, `processCloudTranscription` |
| `SettleRow`, `Settle` | `settle_pressay_usage`: the row's lock, then the period's |
| `AbortDeadlock` | Postgres ends one of two transactions that wait for each other |
| `Die`, `Tick`, `ChangeAccount` | a kill or a failed query, the clock, the rest of the world |

Reserve locks the period and then the stale rows, settle the row and then the
period: the deadlock is real, and the model has it. `Tick` stops while a request
would outlive `MaxDuration`; the assumption `MaxDuration < Ttl` is the code's 60
seconds against 10 minutes. A transaction whose function dies is rolled back, or
had committed just before. Waiting for stale rows is one step (`Expires`), not
one per row.

### StripeEvents

`truth` and `event` are Stripe; `row`, `state`, `ledgered` are
`billing_subscription`, `provider_event.state` and `billing_financial_event`;
`pc`, `job`, `target`, `read`, `toCancel` are the memory of each function over
its awaits. A projection is a single SQL statement (with data-modifying CTEs) in
the code and one step here; `subscriptions.retrieve`, each
`subscriptions.cancel`, the list of live rows and the capture for referrals are
steps of their own. Stripe delivers any emitted event any number of times, also
after an answer. `Fail` is any call that throws and any kill: the failure record
is written or not. `Wins` is the `WHERE` of the upsert: a newer `created` wins,
and one of the same second unless it takes a live subscription back to its unpaid
start.

Abstractions: an event's payload is its kind, subscription, second, charge and
status; `trialing` counts as `active`, and `incomplete` and `unpaid` as `expired`,
which is how `mapStripeStatus` maps the latter two; `paused` can be resumed and is
what a reversal has to stop (`Renewable`). A charge belongs to the period whose
start it carries; `Cancel` emits Stripe's event, so it needs a free identifier; the
clock stops once all events are emitted (it only dates them). `Known` subscriptions
are projected at the start. `foreign` ones belong to another product or to no
account, and `unknown` is a customer that no account has, whose financial events are
ignored too; both are chosen at the start.

### AccountDevices and AccountDeletion

`bootstrap_pressay_account` and `restore_pressay_device` are three steps: the
lock of the account (`holder`), the reading of the device and the count of active
ones, and the writes with the commit. Support's restoration claims its
idempotency key before it locks. A revocation is one statement that does not lock
the account. A deletion request locks the account, revokes the devices, deletes
the sync material and queues the job.

In `AccountDeletion` the job has a state, its attempts and the ticks it still has
to wait (`next_attempt_at` or the lease); a `worker` has the step it is at, the
attempt it claimed and its age. `rows` is the set of kinds of rows that exist
for the account; `inflight` the writes whose handler has checked the account and
not written yet: a sync push, recovery material, the first Stripe customer of a
checkout, the subscription of a webhook. A checkout makes its customer at Stripe in
one step (`CreateCustomer`) and names it here in the next; one that dies between
them leaves an `orphan`, which a later checkout finds again only as long as Stripe
remembers the key. `Select` and `Complete` are two steps of one SQL function: at READ COMMITTED the `SELECT ... FOR UPDATE OF account` that
waited checks the account row again but keeps the job row it joined. A second
request puts a job in process back into the queue, so a second function may join
the first; the model has that. A call may fail with its effect or without
(`CallFails`), the erasure too: `AnswerLost` commits it and goes on to record a
failure.

`overtaken` records that the deletion that completed ran beside such a write;
it guards one property and no action.

### Checkout

The row of the lease keeps two requests apart, and no lock: `AcquireLease` is one
upsert that takes a free or lapsed lease. A request is in the step of the call or
statement it makes next; `CheckoutFails` throws out of any of them and runs the
`finally` block (`ReleaseLease`), `Killed` does not. `reusableCheckoutUrl` asks
Stripe for the subscriptions and then for the open sessions, which are two steps:
`Pay` can fall between them, and `late`/`overtaken` remember that it did. A key
that Stripe knows is answered with the session it made then (`CreateSession`).
A session is `open`, `ending` (less than 30 minutes left, never handed out again),
`complete` or `expired`; `subscription` is Stripe's, `projected` what the webhook
has written of it.

### AppleSubscriptions

`store` is what Apple has, `notice` what it has signed, each with the time of its
signature; a notice is sent until it is answered, to any function, at any time.
`Resolve` looks for the account (row first, then the token), `ApplyNotice` is the
single statement of `applyAppleSubscription`. A restoration checks the owners
(`StartRestore`), asks Apple (`AskApple`) and writes by the same statement
(`ApplyRestore`). Nothing that is older than the row replaces it (`Accepts`), no
other account's row is taken (`CustomerOf`, `TakenByOther`). `overlooked` marks
purchases of which a notice is ignored for good, so that an older status may stay
until Apple signs another change: another account than the one it had found was
linked when it wrote, or it found none, or one with another purchase, while a
restoration was about to write what it had read before.

### Entitlements

A writer is a transaction with the `now()` it began with. `Compute` takes the
entitlement's row lock, writes its own row and chooses the best right among what
others have committed by then; `CommitWriter` makes both visible. Rights are a
beginning and an end: a projection renews or ends a subscription's period, a
claim or an offer starts a grant, support extends or revokes one. `Unseen` grants
began after the `now()` of the transaction that computed last: it waited for the
lock and does not count them, although it sees them.

### Campaigns

`maker` is the creation and `revoker` the revocations, one call at a time; `offer`
is the coupon and the promotion code at Stripe. A claim holds the campaign's row
from its check to its end (`RowFree`). A call that fails may have had its effect
at Stripe (`CreationFails`), a killed function leaves the row as it is. `Activate`
looks at no status: a revocation during the creation is undone by it, which is why
`RevokedIsOver` speaks of revocations that began after the creation had ended.

### Referrals

`recorder` and `reverser` are the open transactions of payments and reversals,
which can overlap; `runner` the functions that run the queue of rewards, with the
attempt and the first attempt's time they read. Stripe's memory of a key is
`keptUntil`: within it a repeated credit is the same credit, later it is another
one. Times are in the relations the code has (a lock outlives a function, the
review of 23 hours comes before Stripe forgets), not in their values. `retried`
marks rewards that support has sent back to the queue, `settled` that a reversal
was committed which no payment's transaction overlapped.

### SyncKeys and SyncLog

A key stands for whatever an envelope opens; clients make up a new one for each
founding. An `UPDATE` that joins other rows reads them when it starts and, after
waiting, looks again at the row it changes only: `Begin...` and the action that
ends it are two steps (`BeginEnrol`/`Enrol`, `BeginApprove`/`Approve`,
`BeginComplete`/`CompleteRecovery`). `recovery.row` tells a rotated row from a new one.
A code may be stored again, as a repeated request does: `stored` counts that, and
`MaxStored` bounds it for TLC.
`SyncLog` gives a push its sequence ids row by row (`PushRow`), before the key of the
row is looked up, where it may have to wait for another push or turn out a duplicate
and lose its id (`EnterRow`); its rows appear together. A page is read in one
statement, and the cursor is the client's.
`missed` marks ids that were in flight when a page went past them.

### Members, SupportActions, RateLimits

`set_pressay_operations_member` is a transaction of six statements: the one that
locks the owners finds them at its start and waits for their rows
(`FindOwners`, `LockOwners`); later ones see what was committed by then. The claim
of the seat is one statement with a condition read at its start. `before` is
`v_previous`, read once and used after it; `counted` stands for `v_owners`. Someone
who became an owner after the first statement had started is not locked, but may
be let in as the actor or be the one who is counted: `Overtaken`.

`SupportActions` has the three statements of `audited` (entry, action, outcome)
and the two of `recordExternalAction`; `blind` marks a handler that was not told
of the effect it had, or could not write it down, or wrote it and was not told
(`OutcomeUnknown`).

`RateLimits` has one upsert per scope; its window is that of its start, and it may
wait for the row. `passed` counts what a window has let through, which the
clean-up of `bucket` does not touch.

## 3. The runs

Every property below has a faulty variant of the code, in `PROJECT.json` under
"mutants", that makes TLC refute it under the configuration of its run.

| Run | Checks | Bounds, and why they are enough |
|---|---|---|
| `usage_ledger` | `TypeOK`; `WithinQuota`; `ProviderCalledOnce`; `OwnReservationCovers` (a request that made its reservation keeps it until it ends, a delivered result is billed); `RefusalIsHonest` (no refusal because of dead units); `ImplementsContract` | 3 requests, 2 keys, bodies of 1 and 2 units, limit 2, one month, 3 instants, life of a reservation 2, an entitlement that changes: two requests can share a key and race a third; two keys can overspend the limit; a reservation expires inside the run; a dead request's units are expired by another. Requests and keys are symmetric |
| `usage_waits` | `LedgerBalanced` (counters = sums over the reservations); `EveryRequestEnds` | 3 requests of one key, 4 instants over two months: the shortest cycle of locks needs two requests and the dead reservation of a third; a reservation of one month is settled in the next |
| `usage_expired` | violated: `DeliveredIsFinalized` | as `usage_ledger` |
| `stripe_events` | `TypeOK`; `AppliedOnce`; `AckedIsProcessed`; `NewestEventWins`; `CancellationStands` (once the end of a subscription is processed its row stays closed, whatever answer a function still holds); `CheckoutConverges` | 3 events, in one of three scenes. A purchase on 2 functions in 2 seconds: two events of one second and one of the next, each delivered twice at the same time. A dispute, won again, and an end on 2 functions in 2 seconds: one function asks Stripe for the won dispute, the subscription ends and the other processes the end before the first one writes. Refunds, disputes and all statuses in one second on one function at a time, with a subscription that may be foreign and a customer that may be unknown |
| `stripe_won` | violated: `WonNeverResurrects` | 3 events of one second, 2 functions: a dispute, its end, the subscription's end |
| `stripe_same_second` | violated: `SameSecondConverges` | 2 events, 2 functions |
| `stripe_refund` | violated: `RefundCancels` | 3 events, 2 functions, refunds |
| `account_deletion` | `TypeOK`; `JobMatchesAccount`; `OneWorker`; `ErasedUnlessOvertaken`; `ChangesStayErased`; `BacklogDrains` | 2 functions, 2 requests to delete, 2 failures or kills, 6 attempts, a lease of 2 ticks and a life of 1. With fewer attempts the two failures and the repeated request can spend them all, and nothing claims the job again. `Writes` has a sync change, a customer and a subscription; recovery material doubles the states and is written like a subscription, to the account alone: the theorems, which hold for all `Writes`, cover it |
| `identity` | `IdentityTypeOK`; devices: `SlotsKept`, `DeletingRevokes`, `LiftedOnce`; sync: `CodeOpensOnce`, `EnvelopesKept`, `MissedWasInFlight`, `ConflictsAreTold`; administrators: `OwnersRemain`; ledger: `LedgerIsTrue`; rate limits: `AdmittedWithinLimit` | 3 devices for 2 slots and 3 transactions; 2 devices, 2 keys, 2 codes, 2 storings, of one code or of both, and 2 handlers; 2 sequence ids and pages of one row; 3 accounts, 2 of them listed, and 2 changes, so that two owners remove each other while a third acts; 3 administrative requests over 2 keys; 2 calls, 2 scopes with limit 1, 6 instants and windows of 2, so that a call may outlast a window |
| `commerce` | `CommerceTypeOK`; checkout: `OnePayable`, `SecondIsOvertaken`; App Store: `PurchasesConverge`, `PurchaseKeepsItsAccount`; entitlement: `ShowsBestRight`; campaign: `RevokedIsOver`; referral: `CreditedOnce`, `ReversedIsTakenBack` | 2 requests, 2 keys, 2 prices and a lease that lapses within the run; 2 purchases, 2 accounts, 2 notices, 2 functions and one restoration; a subscription, a Sandbox row and a grant with 2 writers; 2 claims and 2 revocations; one reward with 2 runners, 2 payments, 2 reversals and 5 hours, of which Stripe remembers 4 |
| `checkout_overtaken` | violated: `OneSubscription` | 2 requests, 2 keys, 2 prices |
| `referral_credit` | violated: `NeverReissued` | one reward, one runner, 7 hours |

The scenes of `stripe_events` are behaviours of `StripeEvents!Spec` in which Stripe
emits fewer kinds of events (`MCStripeScenes`); all of it in one instance is beyond
TLC's time, and the theorems cover it.

`identity` and `commerce` are sums: the components they hold write tables of their
own and share no variable, so their initial state chooses the one that moves
(`moving`) and every behaviour is one of that component alone. Each property is
checked over all behaviours of its component, at the cost of one run.

`CHECK_DEADLOCK FALSE` in every configuration: when all requests have ended, all
events are answered or the account is erased, the system rightly has nothing to do.

### Fairness

Safety runs use no fairness. Two specifications have it:

- `UsageReservations!FairSpec`: weak fairness of each request's own `Step`. A
  running function is scheduled, queries and the provider's call return (the call
  has a timeout), and Postgres breaks deadlocks (`AbortDeadlock` is part of
  `Step`). No fairness for `Arrive`, `Die`, `Tick`.
- `AccountDeletion!FairSpec`: weak fairness of the clock while a job waits, of
  each function's `Work` (the daily cron comes again and claims what is due), and
  of the end of each open transaction. A failing call is never forced, and the
  failures are bounded by `MaxTroubles`: that is the providers' recovery. No
  write in flight has to finish.

## 4. The proofs

TLAPS proves the following for every value of the constants that meets the named
assumptions, in particular for any number of requests, keys, devices, functions,
attempts and failures. Every safety property that a passing run checks is such a
theorem; section 3 has the instances on which TLC checks it.

| Theorem | States | Argument |
|---|---|---|
| `TypeCorrect` | `UsageReservations!TypeOK` | `TypeInv`: the types with `LockInv` (a transaction past a lock holds it; a settlement that holds a row finds it reserved). Types alone are not inductive: `Settle` reads a month that an absent row does not have |
| `CalledOnce` | `ProviderCalledOnce` | `ClaimInv`: a request that claimed finds its row marked, and two such requests have two keys; no step unmarks a row |
| `CountersAreSums` | `LedgerBalanced` | lemmas on the units of a set of keys (split, move, expire) give each adjustment by a difference the sum it should have; hence no clamp at 0 ever acts |
| `QuotaKept` | `WithinQuota` | `QuotaInv`: whoever stands between its quota check and its insert would still pass the check, because the lock of its month keeps the counters still. Needs `LedgerBalanced` |
| `OwnReservationStays` | `OwnReservationCovers` | `OwnInv`: a running request is not older than `MaxDuration` and its transaction began after it, so its reservation, which lives for `Ttl`, outlives it (`MaxDuration < Ttl`) and no expiry meets it; by `ClaimInv` nobody else settles it |
| `RefusalsAreHonest` | `RefusalIsHonest` | a request is refused for its quota by the quota check alone, which has expired the stale rows under the month's lock: with `LedgerBalanced` the counters it compares are the units that are finalized or alive |
| `ContractIsImplemented` | `ImplementsContract` | a refinement, step by step: an insert is a grant within the cap (`QuotaInv`, with the tokens of the contract equal to those of the ledger by `LedgerBalanced`), an expiry a lapse, a provider call the only one for its key (`ClaimInv`, `CalledInv`), a settlement a close, and every other step a stutter |
| `StripeTypeCorrect` | `StripeEvents!TypeOK` | `Sound`, `SubsExist`: what a function remembers fits the event it works on, and every event and row is of a subscription that Stripe has. Types alone are not inductive: a projection writes the fields of an answer that could be none |
| `ProjectedOnce` | `AppliedOnce` | `EffectsInv`: an event that can still be processed was never projected; failure records only touch such events |
| `AnsweredIsProcessed` | `AckedIsProcessed` | `DoneInv`: a processed event is in the ledger, and a function that is about to answer has a processed event |
| `NewestDecides` | `NewestEventWins` | `AnswerInv`: what a function read for the newest event of a subscription is still true, because every change since would be another event; `StampInv`: a row's stamp is from the start or from a processed event that concerns it, so the newest event beats it and no other event beats the newest |
| `CancellationsStand` | `CancellationStands` | `EndInv`: a subscription that has ended stays so at Stripe, and who asks for its end or for a newer event is told so; `EndRowInv`: from the end's second on, what writes the row leaves it closed, and who holds an older answer works on an older event, which the stamp refuses |
| `CheckoutsConverge` | `CheckoutConverges` | `CheckoutInv`: a checkout only goes forward at Stripe, so no event of its unpaid start is newer than one of a payment (`PaidAtStripe`), who works on the event of a payment asked Stripe after it (`PaidInMemory`), and once a payment is processed the row is live and not older (`PaidInRow`); an unpaid answer then loses, in the same second too, by the exception in `Wins` |
| `DevicesTypeCorrect` | `DevicesTypeOK` | a sign-in or restoration names a device |
| `SlotsAreKept` | `SlotsKept` | `SlotInv`: a transaction about to take a slot found one free and, since it holds the account (`LockInv`), it still is; a revocation, the only change without that lock, only frees slots |
| `DeletionRevokes` | `DeletingRevokes` | `OpenInv`: while a sign-in or restoration holds the account, its status is not `deleting` |
| `RestorationsLiftOnce` | `LiftedOnce` | `KeyInv`: a key in an open transaction has no answer yet and is in no other one; a key without an answer has lifted nothing |
| `DeletionImplementsDevices` | `Spec => DevicesSpec` | each step of `AccountDeletion` is a step of `AccountDevices` or leaves its variables alone: what is proved of the devices holds of the composition |
| `DeletionTypeCorrect` | `AccountDeletion!TypeOK` | the same, with a bound on the backoff |
| `JobAlwaysMatchesAccount` | `JobMatchesAccount` | `JobInv`: while a deletion is being requested the account is not erased; only the erasure writes both, under the lock, whether its answer arrives or not |
| `ChangesAreErased` | `ChangesStayErased` | `TombstoneInv`: an erased account has no device, and a change needs one |
| `NothingIsLeft` | `ErasedUnlessOvertaken` | `ErasureInv`: what a function has done for a deletion stays done (`WorkInv`), because nothing makes a customer, an invitation or an identity for an account that is being deleted unless it had begun before; a customer that nothing names yet belongs to a checkout under way (`CustomerInv`); the erasure removes the other rows, and a function beside which a write was on its way leaves the deletion `overtaken` |
| `SyncKeysTypeCorrect`, `MembersTypeCorrect`, `RateLimitsTypeCorrect` | `SyncKeysTypeOK`, `MembersTypeOK`, `RateLimitsTypeOK` | inductive as they stand; what a handler remembers follows from its step |
| `CodesOpenOnce` | `CodeOpensOnce` | `SyncKeysInv`: rows are numbered in order, and a code that the row has, or had when somebody who can still delete the row compared it (`MayOpen`), was stored once more than it was answered for (`StoredForOneMore`). Neither part is inductive alone: a number that two rows share would let one storing open twice |
| `KeysAreKept` | `EnvelopesKept` | the types: each write of an envelope but the first device's checks the row again when it changes it |
| `OwnersStay` | `OwnersRemain` | `Kept`: what a change saw of a row that it has locked is still so, because only the holder of a row writes it (`LocksApart`, `LockedIsUnchanged`). A change that removes its own actor has counted an owner; if it holds that row, that owner stays |
| `RateLimitsHold` | `AdmittedWithinLimit` | `CountsAll`: a bucket that has not expired has every request that it let through; `InTime`: who can still count in it started less than `CallTime` ago, so it has not (`NotExpiredYet`, where `Expiry` needs its second window) |
| `OneWorkerAtATime` | `OneWorker` | `LeaseInv`: until the user asks again, the rest of the lease and the age of the function that has the job add up to `Lease`, and `MaxLife < Lease` |
| `ReadersMissOnlyWhatWasInFlight`, `ReadersAreToldOfConflicts` | `MissedWasInFlight`, `ConflictsAreTold` | `SyncLogInv`: an id names one row, and what is in flight behind a cursor was noted when the cursor passed it; a row that waits for its key has its id already; of two versions of one revision that a device has got, the one that came later was a conflict for it |
| `LedgerCorrect` | `LedgerIsTrue` | `SupportInv`: the entries of an operation fit its step and what it did (`OperationInv`), what is done under a key is done once (`KeyedOnce`), and one request at most writes for a form, unless it died (`OneClaimant`) |
| `OneSessionPayable`, `SecondIsAlwaysOvertaken` | `OnePayable`, `SecondIsOvertaken` | `CheckoutInv` (of `BillingProofs`): a lease outlives the function that took it (`LeaseInv`, from `FunctionTime < LeaseTime`), so one request is between its lists and its creation, and the sessions it has listed are all that are open (`ListInv`); without a payment between the two lists it also knows of every subscription (`PaymentInv`) |
| `BestRightIsShown` | `ShowsBestRight` | `ShownIsChosen`: the row is the choice among the committed rights at the `now()` of its writer; who has computed holds the lock, and what it has read is still committed |
| `AppleTypesCorrect` | `AppleTypeOK` | with `HookInv` and `RestoreInv`: what is about to be written names an account and a status |
| `PurchasesKeepTheirAccount` | `PurchaseKeepsItsAccount` | `RowInv`, `HookInv`: a row that exists keeps its account, and an account has one purchase that is not of the Sandbox |
| `RowsSayWhatAppleSays` | `PurchasesConverge` | `TrueOrOlder`: what was read or written is what Apple says, or has an older signature; `ToldInv`: once the last change is answered the row has it, or no notice can find an account and no restoration remembers less (`Barred`, `ReadsNow`) |
| `RevocationIsFinal` | `RevokedIsOver` | `CampaignsInv`: what can be redeemed at Stripe was named in the row before (`OfferIsNamed`); a revocation that began after the creation had ended read all of it (`RevokerInv`) |
| `RewardsAreCreditedOnce` | `CreditedOnce` | `RewardInv`, `RunnerInv`: a function asks for a credit within the time in which Stripe knows the key of the first attempt (`ReviewTime + RunTime < KeepTime`), so a repetition is the same credit |
| `ReversalsTakeBack` | `ReversedIsTakenBack` | `AttributionInv`: a reversal that no payment's transaction has overlapped knows whether the referral was converted; `SettledInv`: after it no payment converts it, and nothing it gave is live |
| `IdentityTypesCorrect`, `CommerceTypesCorrect` | `IdentityTypeOK`, `CommerceTypeOK` | the sums implement each of their components (`IdentityImplements`, `CommerceImplements`), whose type theorems then apply |

The assumptions, each in the module that declares the constants:

| Module | Assumptions |
|---|---|
| `UsageReservations` | `SetsAssumption`, `ShapeAssumption`, `LifeAssumption` |
| `StripeEvents` | `TimeAssumption`, `ScopeAssumption`, `StatusAssumption` |
| `AccountDevices`, `AccountDeletion` | `LimitAssumption`, `DevicesAssumption`, `NamesAssumption`; `JobAssumption` |
| `Checkout` | `LeaseAssumption`, `CheckoutClockAssumption`, `CheckoutNamesAssumption` |
| `Entitlements` | `SandboxAssumption`, `SourcesAssumption`, `DayAssumption`, `WritersAssumption` |
| `AppleSubscriptions` | `SandboxScope`, `LastSignedAssumption`, `AppleNamesAssumption` |
| `Campaigns`, `Referrals` | `MaxRedemptionsAssumption`; `QueueAssumption` |
| `SyncKeys`, `SyncLog` | `AccountKeysAssumption`; `PageAssumption` |
| `Members`, `RateLimits` | `ListedAssumption`, `RolesAssumption`; `WindowAssumption`, `ScopesAssumption`, `LastSecondAssumption` |

TLC evaluates them in every run. They say that tables are finite, that null
values are not members of the sets they stand out from, that bounds are numbers,
and the relations of the code's times: a function lives 60 seconds, a reservation
10 minutes, the lease of a deletion 15, that of a checkout 90 seconds, a window
of the rate limits 60 seconds; the lock of a reward outlasts a function, and its
review after 23 hours comes before Stripe forgets the key.

A batch of deletions that is run as a script (`scripts/run-account-deletions.ts`) has
no such limit and is outside `MaxLife < Lease`: the model is of the cron's functions,
and a script may still be at work when its claim lapses, which `OneWorker` excludes.

The specifications bound their clocks (`MaxTime`, `MaxClock`, `LastDay`,
`LastHour`, `LastSecond`, `LastSigned`, `MaxSequence`) so that TLC can end; the
theorems hold for every value of these bounds.

Only model-checked: the liveness properties `EveryRequestEnds` and
`BacklogDrains`, which are out of this prover's reach (fairness, ENABLED). The two
changes of `identity` do not reach `Overtaken`, which takes four committed changes;
`OwnersStay` covers it.

`CheckoutConverges` speaks of subscriptions whose own events are the only ones
(`InCheckout`). Next to a refund it does not hold: the refund makes the row
`refunded`, which is not live, so that a function which read the unpaid start in the
same second may write it afterwards. TLC shows this with three events of one second
and three functions; it is the case of finding 2 once more.

## 5. What the runs found

Six disagreements of the code with its documentation, each a run that TLC
refutes; `PROJECT.json` quotes both sides.

1. `usage_expired` — a retry can claim a dead request's reservation just before
   it expires; the result is delivered and the reservation neither finalized nor
   released (0006:186, `cloud-processing.ts:75`; `docs/ARCHITECTURE.md:21`).
2. `stripe_same_second` — two events of one second in two functions: the one that
   asked Stripe first can write last, and its stale answer stays
   (`billing.ts:946`; `docs/ARCHITECTURE.md:119`).
3. `stripe_refund` — a refund that is processed before the subscription has a live
   row cancels nothing (`billing.ts:627`; `docs/ARCHITECTURE.md:125`).
4. `checkout_overtaken` — a session that the customer pays between the two lists
   of `reusableCheckoutUrl` is in neither, and a second one is created and paid
   (`billing.ts:210`; the comment at `billing.ts:286`).
5. `stripe_won` — a won dispute asks Stripe, the subscription is canceled in the same
   second and that is projected, and the dispute writes the older answer: the row is
   active again (`billing.ts:533`; the comment at `billing.ts:752`). `CancellationStands`
   says that only an event of that second, or a dispute opened later, can open it.
6. `referral_credit` — a reward that support sends back to the queue counts as a
   first attempt again, and its credit is repeated after Stripe has forgotten the
   key (`routes/operations.ts:484`; the comment at `referrals.ts:241`).

What the properties except by name, because the code does it (the hazards say
where):

- A webhook, a checkout or a configuration of recovery that had checked the account
  may write after it is erased: `overtaken` in `ErasedUnlessOvertaken`. `README.md:67`
  says that sync material is removed, and `docs/ARCHITECTURE.md:320` keeps the
  transitions of a subscription only until the deletion. `ChangesStayErased` speaks of
  sync changes only, which name a device.
- A customer whose checkout died before its INSERT stays at Stripe: `orphan`, which is
  not in `ErasedUnlessOvertaken`. `docs/ARCHITECTURE.md:142` says that the job deletes
  the customer.
- An event of the end's second, or a dispute opened later, may open a closed
  subscription: `Closes`, finding 5.
- A deletion that has spent its twenty attempts is never claimed again: `BacklogDrains`
  is checked below that bound; `docs/OPERATIONS.md:116` promises more.
- Two devices that enrol at once found two keys (`first` in `EnvelopesKept`); a page
  goes past ids in flight (`missed`); a notice that finds no account, or not the one
  that is linked by then, is lost (`overlooked`); a grant younger than the last
  recomputation is not shown (`Unseen`); a change that an owner overtook
  (`Overtaken`); an action recorded as failed although it was done (`blind`).

## 6. What is not modelled

- *Retention* (`retention.ts`): it deletes rows long after every state change the
  models follow (395 days for reservations); each statement stands alone.
- *Waitlist*, *download events*: independent idempotent inserts. *Data
  export*, *dashboards*, *digests*: reads and formatting. *Authentication*: a
  stateless check per request.
  *HTTP layer*, environment, logging: no state.
- In the modelled components: several accounts at once where they share no row
  (and the order of their deletion jobs, the batch's deadline); names, platforms,
  versions and contact addresses; ledger-only Stripe events (partial refunds);
  the log of subscription transitions, written by a trigger; signatures, products,
  prices and tax; the flag that two stores bill one account
  (`flagDuplicateWithStripe`), which nothing reads back; which payment of a referee
  is the first; envelopes' sizes and encodings; the second factor and the step-up
  of administrators, which are checks of a token.

## 7. Plan

All components with state of their own are modelled, and every safety property of
a passing run is proved. What is left is to go deeper:

1. An abstract specification of a second component, as `QuotaContract` is for
   metered processing: a reward that is earned, given once and taken back, with
   `Referrals` shown to implement it.
2. The steps that each of `EveryRequestEnds` and `BacklogDrains` rests on, as action
   properties: that a wait ends in a smaller one, which leaves fairness alone to TLC.
3. `StripeEvents` with two subscriptions in a run of its own, for the disputes that
   touch every row of a customer.

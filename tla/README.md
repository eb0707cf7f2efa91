# CelebrateDeal: specifications, model checking and proofs

CelebrateDeal is a multi-tenant live-commerce application: merchants sell
products in live sessions and landing pages, buyers pay through a payment
provider (PayUni), and scheduled jobs finish what requests leave behind. The
code is a Next.js server over PostgreSQL; almost every hard behaviour is a race
between *requests*, *provider callbacks* and *cron jobs* over rows that are
guarded by conditional updates, and by Serializable transactions that a request
leaves and enters again.

This directory specifies the core of that system in TLA+ (money, stock, what
buyers get, the mails about it, and who owns a login address), checks it with TLC
on small instances, and proves its main theorems with TLAPS for every value of the constants. Paths below are relative to the repository
root, and `lib/` is short for `src/lib/`.

## 1. Inventory of the system

| Component | State it keeps | Operations | Hard behaviour | What makes it correct |
|---|---|---|---|---|
| Checkout, stock reservation, expiry (`lib/inventory-reservations.ts`, `src/app/api/payments/checkout/route.ts`, `lib/post-purchase-checkout-recovery.ts`) | `Product.inventory/isActive`, `PaymentTransaction.status/metadata`, `CommerceOrder.status` and events, `InventoryReservation` | reserve, prepare and store the session, fail, resume, commit, release, expiry job | a request crosses three transactions and a provider call and may die anywhere; the expiry job works on rows it read earlier | no unit lost or doubled; payment, order and stock agree; abandoned stock returns |
| Payment webhooks (`lib/payment-webhooks.ts`, `payment-webhook-invariants.ts`, `payment-webhook-manual-reconciliation.ts`, `commerce-orders.ts`) | the same rows, `WebhookEvent` of a manual reconciliation | paid / failed / refund / dispute events, manual-reconciliation hold | late, duplicated, reordered events; a payment after the expiry | booked money is never taken back; a held payment is left alone by the expiry job and the checkout |
| Webhook claim and retry (`src/app/api/webhooks/payments/route.ts`, `lib/webhook-retry.ts`) | `WebhookEvent.status/retryCount/updatedAt/nextRetryAt` | claim, process, record failure, recover stale claim, exhaust | overlapping cron runs and provider resends; a lease that ends while its owner still runs; crashes | effects once; one owner; bounded attempts; a claimed event settles |
| PayUni refunds (`lib/payuni-refund-execution.ts`, `-reconciliation.ts`, `-hold-release.ts`, `src/app/admin/billing/refund-reconciliation`) | `RefundRecord`, refunded amount and status of the payment, the no-refund streak | reserve, call, complete, reconcile, confirm "no refund", release hold, refund notices | the provider's answer is lost; its query lags; operators and the waiting request race; notices in any order | total is what the rows say; nothing is booked twice; a released hold never moved money |
| Product editing (`src/app/actions/product-actions.ts`) | `Product` | load a form, save it | sales happen while the form is open | a stale form never overwrites newer stock |
| Order fulfilment, vendor suspension (`lib/commerce-order-fulfillment.ts`, `vendor-suspension.ts`) | fulfilment and entitlement rows, vendor status | ship, grant, suspend, resume, release held batches | a grant races a refund; paid orders arrive while held ones are released; triggers of one order's payment or refund move another order's rows | a refunded order grants nothing; nothing held is forgotten |
| E-mail outbox (`lib/email-delivery.ts`, `email-delivery-operations.ts`, `src/app/api/email/unsubscribe/route.ts`) | `EmailDelivery` rows, `EmailSuppression` | create, claim, check recipient and source, send, retry, recover a lease, the merchant's retry, unsubscribe | a job and after-response hooks send the same row; crashes around the provider call; the source or the recipient's wish changes while a row waits | one sender at a time; sent means taken; nothing unwanted is sent; every mail gets an outcome |
| Live quota, stream usage (`lib/live-quota-admission.ts`, `stream-usage.ts`) | counters, sessions | admit, meter, reconcile | counters at their limit | no over-admission beyond the documented slack |
| Account e-mail change (`lib/account-email-change.ts`, `login-email-reservation.ts`, `account-security-hold.ts`, `src/app/actions/account-email-change-actions.ts`) | `User.email/status`, `UserEmailChangeRequest` with its two links, sessions | request, mail both links, confirm, cancel, revert, lock, hold, release | the request is stored after its response; mails are lost or late; several changes and reverts of one account, some by whoever took it over; newcomers want the address just left | the way back is never blocked; only earlier links end a link; a lockdown holds |
| Settlement, commission, payout (`lib/settlement-*.ts`, `affiliate-commission*.ts`, `payout-state.ts`) | monthly periods, ledger rows, payouts | accrue, reverse, lock month, adjust, pay | refunds after the month is locked | ledgers balance, no payout twice |
| Live reminders, learner notifications (`lib/live-reminder-reconciliation.ts`, `email-delivery.ts`, `live-notification-delivery.ts`, `learner-notification-*.ts`) | `LiveReminderReconciliationJob` with its cursor, reminder rows of the outbox | queue a job in the edit's transaction, claim, plan a batch, advance, cancel, recover; plan one reminder on confirmation | an edit overtakes a run of the job; runs die or overlap; a configuration comes back | nobody is skipped; an old run writes nothing; jobs are let go of |
| Post-purchase credit, vouchers (`lib/post-purchase-credit*.ts`, `prisma/migrations/20261017120000_*` to `20261018090000_*`, `checkout-voucher-claim.ts`) | `PostPurchaseCredit.releasedAt/supersededAt/invalidatedAt`, claims | bind to an upgrade, release, supersede, invalidate (database triggers) | the checkout it belongs to expires, is resumed, or is paid after the credit was given back; either order is refunded | the money of one order is delivered once |
| Purchase tracking (`lib/tracking-*.ts`) | outbox | enqueue, claim, send | as the e-mail outbox | as the e-mail outbox |
| Electronic invoices, billing cycle (`lib/taiwan-electronic-invoice-job.ts`, `billing-cycle.ts`) | invoices, subscriptions | issue, void, renew | provider timeouts | one invoice per payment |
| Chat, interactions, funnels, page editor, authentication | many | request / response over single rows, or pure data | little beyond validation | not planned |

How they interact. The checkout request creates payment, order and reservation
in one transaction and then leaves the database to call the provider. The
provider's callbacks arrive through the webhook route, which claims the
`WebhookEvent` and runs the payment transaction; whatever fails there is tried
again by the `webhook-retry` job, and the same cron entry first runs the expiry
job. Refunds are started by a finance admin (PayUni) or by the provider, and
end in the same rows as a refund callback. All of them meet in the rows, never
in memory; that is why every model here is a set of rows, and processes with a
program counter. The planners of reminders and the senders of mail never call
each other either: they meet in `EmailDelivery`, whose life `MailRows` specifies
once for both sides.

## 2. Modules

| Module | Models | State ↔ code |
|---|---|---|
| `CheckoutInventory` | checkout, callbacks, recovery, refunds as the stock sees them, expiry job, product form | one variable per column (`payment` = `PaymentTransaction.status`, `held`/`issued` = two keys of its metadata, `order`, `reservation`, `releaseReason`, `expiresAt`, `stock`, `active`, ...) and one program counter per request that is not a single transaction: `checkout`, `recorder`, `batch`/`batchNow` (the rows the job selected), `editing`/`baseline` |
| `StockLedger` | the abstract specification of a sale: hold, release, sell, refund, restock | `CheckoutInventory` implements it with `shelf <- stock`, `deal <- Deal` |
| `CheckoutInventoryProofs` | the theorems of section 5 | |
| `WebhookRetry` | one `WebhookEvent`: callbacks, overlapping retry jobs, leases, crashes | `status`, `retryCount`, `version` (`updatedAt`), `leaseOver` and `due` (the two time conditions the queries ask for), `unprovable` (a legacy event; chosen by `Init`), `at`/`seen`/`claimed` per worker; `effects` counts committed payment transactions |
| `WebhookRetryProofs` | the theorems of section 5 | |
| `PayUniRefund` | refunds of one trade: requests, provider, operators' page, notices | `record` (`RefundRecord` of each request: status and `providerEventId`), `noticed` (rows made by notices), `refunded`/`status` of the payment, `checks`/`lastCheck`/`reservedAt` (the streak), `at`/`answer` per request, `desk` per operator; `asked`, `movedAt`, `shown`, `closing` are the provider |
| `RefundAccount` | the abstract specification of a trade's refunds: reserve, settle, give up, notice | `PayUniRefund` implements it (`AccountSpec`) with `row <- ` the status of each `RefundRecord`, `booked <- refunded` |
| `PayUniRefundProofs` | the theorems of section 5 | |
| `FiniteSums` | what a sum over a finite set obeys; used by `PayUniRefundProofs` | |
| `OrderFulfillment` | what the buyers of one vendor get: payment and refund, upgrades and their credits, merchants' forms, suspension and release | `order` (`CommerceOrder.status`), `source` and `marks` of the `PostPurchaseCredit` an order received (`sourceOrderId`; which of `releasedAt`, `invalidatedAt`, `supersededAt` are set), `status`/`revision` of each item's entitlement, shipment or service row, `suspended` (`Vendor.suspendedAt`), `release` (program counter and batch of each run of `releaseHeldEntitlements`), `form` (row and revision each open page shows); `owed` and `lifts` are history |
| `OrderFulfillmentProofs` | the theorems of section 5 | |
| `MailRows` | the abstract specification of a row of the e-mail outbox: planned, taken, settled, stopped, replaced, reopened | `status` of `EmailDelivery`, nothing else |
| `EmailOutbox` | the outbox of one vendor: writers, workers, provider, lease recovery, unsubscribe, suspension, the merchant's retry. It implements `MailRows` (`RowsSpec`) | `status`, `attempts`, `refused` (exhausted with `provider_rejected`) are columns; `desk` is the program counter, row and attempt of each worker; `current` says which mails' source checks would succeed, `unsubscribed` and `suspended` are rows of other tables; `asked`, `timely`, `accepted` are history |
| `EmailOutboxProofs` | the theorems of section 5 | |
| `LiveReminders` | the reminders of one live: edits, reconciliation job, confirmations. It composes the planners with the outbox through `MailRows` alone | `config` is what the digest covers, `past` the configurations whose start has passed, `job` each configuration's row (lifecycle, attempts, cursor; `scope` is history), `planner` the program counter of each run, `direct` the reminders that confirmed registrants are about to plan, `status` the rows |
| `LiveRemindersProofs` | the theorems of section 5 | |
| `AccountEmail` | login addresses: requests of a change, their change and revert links, confirmations, reverts, new accounts, new passwords, holds | `email`, `status` of `User`; per request `change` (`consumedAt`, `revokedAt`), `revert` (`revertedAt`, `revertRevokedAt`), `ends` (`revertExpiresAt`), `revertedAt`; `older` is the order of `createdAt`; `task` is the program counter of the work after the response ("queued" while its session lives, "orphaned" after), `ask` its input, `mailed` the links its recipients have |
| `AccountEmailProofs` | the theorems of section 5 | |
| `MC...` | instances for TLC | |

Every Serializable transaction of the code is one action. A handler of several
statements is a chain of actions, so that anything may happen between two of
them: `RecorderReads` / `RecorderCreatesEvent` / `RecorderHolds`;
`JobScans` / `JobRecovers` / `JobReads` / `JobRetries` / `Commits` or
`AttemptThrows` / `RecordsFailure`; `Query` / `Reconcile` / `ConfirmNoRefund` /
`ResetChecks`; `OpenForm` / `SubmitForm` / `CommitForm`; `BatchReads` /
`BatchGrants` (a release batch is one transaction, but at read committed, so its
read and its update are two steps; its `FOR SHARE` on the vendor is `Unlocked`);
`Consider` / `Claim` / `CheckRecipient` / `CheckSource` / `Send` / `Finish`;
`ClaimJob` / `ReadBatch` / `Recheck` / `PlanNext` (one transaction per registrant) /
`Advance`, or `CancelStale` / `CloseStale`.
A conditional update (`updateMany` with a WHERE) is its guard;
the branch where it matches no row is written out where the code does something
about it.

Provider callbacks carry facts that stay true (the money of `p` was collected, a
refund took place), so they are modelled as actions that stay enabled: late,
duplicated and reordered delivery cost no extra state.

### What the models abstract

* Amounts of an order are left out of `CheckoutInventory` (a refund is full or
  partial); in `PayUniRefund` they are small integers. Fee shares, settlement
  months, commission and invoices are not modelled.
* A cart takes one unit of each product, as the code does. The revision check
  of `createReservedPaymentTransaction` only refuses more and is left out; so
  are the idempotency key, the vouchers and the admission checks before it.
* One form per product is open at a time, and one run of the expiry job at a
  time (`batch`); rows of the run are taken in any order.
* `RecorderHolds` writes the metadata the recorder read; only its effect on the
  hold is modelled, not the other keys it could overwrite.
* The branches of `CleanupRow` for a paid payment with a reserved row, and for
  one that is neither paid nor pending, are kept although `RowsAgree`
  (section 5) shows that no reachable state takes them. They are the code's
  defence, and the proof is what says they are not needed.
* `WebhookRetry` follows one event. The job's batch limit (20), and the
  operator's retry that expects a version, are left out. `updatedAt` is assumed
  to differ after every write (`version`); a stored payload that does not parse
  is an attempt that throws.
* `PayUniRefund`: one trade, each request is made once. The provider decides a
  request within the tick in which it was made; a query shows a refund before
  it is `MaxLag` old. That bound is the premise of the release policy
  (`lib/payuni-refund-hold-release.ts:11-40`), and `RefundAssumption` states it
  as `MaxLag <= Window + (Confirmations - 1) * Interval`: nothing in the code
  can establish it, and without it no number of confirmations is enough. A lag is
  at least one tick: a refund that moves is not yet in a query already answered.
  (With `MaxLag = 0`, no window and one confirmation, a reservation could be
  released in the tick of its call, which the code's window of hours excludes.)
* `OrderFulfillment`: "ended" stands for `payment_failed` and `expired`, which look
  alike from here, and a service's `scheduling`, which no code writes, is left out.
  A batch is any full set of held rows, where the query takes them by id. The
  page offers a form where the handler would allow a transition
  (`components/commerce-order-detail.tsx:81-160, 299-301`); `CommitForm` decides again on the row it then finds. The database triggers of
  post-purchase credit (`prisma/migrations/20261017120000_*`, `20261017130000_*`,
  `20261018090000_*`) are part of the action whose UPDATE fires them: a first payment of
  an upgrade withdraws its source (`Replaced`), a refund withdraws the upgrade it
  paid for (`Funded`), a credit that is given back withdraws its own (`GiveBack`).
  The window of 24 hours is not timed: a credit may lapse, or be refused, at any
  moment. A recovery asks for the credit and its source; what else it asks for
  (session, reservation) is in `CheckoutInventory!ResumeCheckout`. Not
  modelled: the events of orders and the flags for manual review, delivery snapshots,
  the terms of an offer, learner notifications, portal sessions, audit rows.
* `EmailOutbox`: time is left out. A row that waits is due whenever a worker
  looks at it, so every order of attempts is covered; and a lease of ten minutes
  is over only when its worker is gone, because the platform ends an invocation
  after some minutes (the routes that state a `maxDuration` state 60 or 300
  seconds; `api/jobs/email-deliveries` states none and has the platform's
  default, which is not in the repository). That premise is what `OneSender`
  stands on: its mutant drops it. `updatedAt` is assumed to differ after every
  write (`Losers`). Whether a mail's source is current is one set, changed by one
  action, instead of seven checks over as many tables. An unsubscribe is for
  good; bounces and complaints of the provider, the blacklist and the windows of
  the already-registered notice are left out. The provider keeps its promise
  about idempotency keys.
* `LiveReminders`: registrations are numbered in the order of creation, which is
  the order of the cursor; they are confirmed in any order. The outbox is
  `MailRows!Send` and its companions, so the planner is checked against
  everything `EmailOutbox` was proved to do. A configuration whose start has
  passed is one without reminders. Post-live follow-ups, sessions of fixed-session
  lives and in-app notifications are left out.
* `AccountEmail`: every transaction locks the user's row and the addresses it is
  about, so it is one action (`VerificationFails` is a single statement).
  The time it works with was read before it waited for them: any clock up to
  `MaxLag` old. `Request` takes the action and the beginning of its after-response
  work together; nothing is written between them, and what the work reads then it
  reads again in `Store`. Requests of an account have distinct `createdAt` (the code
  revokes links of the same instant, too). Which reverts put an account on hold
  depends on factors that are not modelled, so any may. A suspended account is like a
  held one that nobody releases. A confirmation that fails its address check
  is `ConfirmTaken`, whether the check or the unique index finds out. Left out: the
  synchronised `Vendor.email`, reset tokens (a reset is a new password), LINE
  identities, the evicted password, rate limits, audit rows.
* Undefined behaviour does not occur: the program is single-threaded per
  request, and all sharing is through the database.

## 3. What the runs check

All configurations have `CHECK_DEADLOCK FALSE`: the systems stop when every
trade is final and the bounds of the environment (clock, forms, deliveries) are
used up, and a stopped shop is not an error.

| Run | Instance | Properties | What it shows |
|---|---|---|---|
| `checkout` | two payments, products `a`, `b`; `p1` takes `a` and its order bump `b`, `p2` the last `b`; a resumable payment, one form, stock up to 1, one job run cut short, fairness of section 4 | `TypeOK`, `StockConserved`, `LedgersAgree`, `SalesFollowLedger`, `HeldPaymentKept`, `PaidNeverDowngraded`, `ExpiredRowReleased` | no unit is lost or doubled by any interleaving of sale, failure, recovery, late payment, refund, expiry and stock edit; the three ledgers agree in every state; every transaction is a step of the abstract sale; neither the expiry job nor a late write of the checkout touches a held payment, its units or its hold, only a callback of the trade does; booked money is kept; abandoned stock comes back, also from a checkout that was resumed |
| `webhook_retry` | two callbacks, two jobs, two retries, three deliveries, an event that can be re-proved or not, fairness of section 4 | `TypeOK`, `AppliedOnce`, `OneOwner`, `ClaimedEventSettles` | `(status, retryCount)` is a sufficient ownership token, although a lease can end under a running attempt; an event that somebody claimed is settled whatever dies; a set-aside event obeys the same fences |
| `payuni_hold` | two requests, one outside refund, two operators, no notices | `ReleasedHoldNeverMoved`, `BookedWithinProvider` | the release policy is sound under its lag premise, whatever two operators and the waiting request do |
| `payuni_notices` | the same with one operator, notices of all refunds, a trade-only answer, a repeated answer | `TypeOK`, `TotalExplained`, `ReservationExclusive`, `NamedRefundBookedOnce`, `AccountSpec` | total and rows agree; every step is one of `RefundAccount` or none; a reservation keeps notices out; a refund booked under its own name or under the trade number is recognised |
| `fulfillment` | one order with an item of each kind and three entitlements, batches of two, one form, services moved twice, two release runs, two suspensions, fairness of section 4 | `TypeOK`, `NothingForgotten`, `DecidedOnWhatWasShown`, `NothingOpensSuspended`, `ReleaseEnds` | comparing the revision alone protects a decision; a suspension holds; overlapping, failing and overtaken releases forget nothing and end |
| `post_purchase` | three orders of one item each (goods and entitlements), any of them the upgrade of another, one form, two release runs, one suspension | `FulfilmentFollowsPayment`, `DeliveredOnce` | whatever form, callback or batch was in flight, nothing is open after a full refund, and what is withdrawn has one of three reasons: a refund, an upgrade that replaced it, a credit that was lost; an order and its upgrades are never delivered together, and an upgrade that is paid after its credit was given back stays closed |
| `email_outbox` | a reminder and a service notice of one registration, two workers, two attempts, one edit, one merchant retry, one restored reminder, fairness of section 4 | `TypeOK`, `OneSender`, `SentWasAccepted`, `SentWhenWanted`, `RowsSpec`, `SettledKept`, `MailSettles` | the compare-and-set on `updatedAt` and the two checks after the claim are enough: no mail has two senders, none is sent that was unwanted at its claim, and no crash or lost answer leaves one without an outcome |
| `live_reminders` | two registrations, one configuration that is set and taken away, a job that takes one registration at a time, one run at a time, three edits, fairness of section 4 | `TypeOK`, `NobodySkipped`, `OldJobCreatesNothing`, `ClaimedJobReturns` | the guard in the reminder's transaction stops a run that was overtaken by an edit; a failed or killed run skips nobody; a claimed job is let go of |
| `account_email` | one account and a newcomer, two addresses, three requests of the account, links of one and two ticks, a lock of one, clocks up to one tick old | `TypeOK`, `RevertNeverBlocked`, `EndedByEarlierLink`, `LockdownHolds` | a live revert link finds its address free, also when the account moved on and came back; what happens to a mail, a later link or a newer request does not end it; nothing that was under way moves a locked account |

Three runs are expected to find a violation; each is a disagreement between the
code and something the repository says of it:

| Run | What the repository says | What happens |
|---|---|---|
| `refund_booked_twice` | a notice of a refund that was started here is recognised as a duplicate (`lib/payment-providers/payuni.ts:247-250`) | a reconciled refund is stored under a `reconcile:` identity; the notice with its serial is no duplicate and a partial refund is booked again |
| `retry_drops_notice` | the check shared by the worker and the merchant's retry stops what is stale (`lib/email-delivery.ts:1380-1384`) | the retry loads the row without its `idempotencyKey`, which three of the checks read: a cancellation notice that failed and is still current is superseded by the retry, for good |
| `reminders_skipped` | the job is a durable cursor over the registrations that are verified already (`prisma/schema.prisma:1280-1281`) | configuration A is replaced by B and restored while a run of A's job is at work. The job starts over with `attemptCount` 0, so the old run's last write, which compares `(processing, attemptCount)`, meets the new run's claim and moves its cursor past registrants that were verified in between |

### Observations without a run

Met while modelling, and confirmed on an instance or by reading, but not kept as
runs of their own:

* A reported collection that waits for finance "keeps its stock and pending state
  until finance resolves it" (`lib/inventory-reservations.ts:584-585`). The expiry
  job, where the comment stands, keeps to it, and that is what `HeldPaymentKept`
  states. A failed callback does not ask for the hold: it takes the held payment to
  `failed` and returns the units (`lib/inventory-reservations.ts:520-525`). With
  "failed" taken out of `HeldPaymentKept`, TLC finds this behaviour: reserve,
  capture, report and hold, failed callback.
* The dedup key of the expiry event is made of the reservation alone
  (`lib/commerce-orders.ts:711`). Where a local manual session can be issued again
  (`LocalManual = TRUE`: the demo provider), a checkout that expires, is
  resumed and expires again meets the key of its first expiry, and the order stays
  `pending_payment` beside an expired payment, against the comment at line 701.
  `LedgersAgree` fails then, and only then: `Agreement` (section 5).
* `recordPaymentWebhookManualReconciliation` reads the payment and creates its
  event in a later statement (`lib/payment-webhook-manual-reconciliation.ts:65-110`).
  A paid callback in between resolves the events there are, and the new one stays
  open for a settled trade, against the comment at lines 72-74.
* Held rows stay expired and are the oldest: `limit` of them fill every run of
  the expiry job (`lib/inventory-reservations.ts:550`), and a later row is never
  examined. `ExpiredRowReleased` excludes exactly this.
* A release that is repeated by hand keys its events `manual_release`
  (`lib/vendor-suspension.ts:211`): an order split between it and an earlier
  batch gets a second event, against the comment at lines 150-152.
* With two overlapping runs of the reconciliation job, `OldJobCreatesNothing`
  fails as well: a job that was superseded, restored, failed and claimed again is
  `processing` once more, and that is all `isCurrentReconciliationJob` asks
  (`lib/email-delivery.ts:143-160`). Runs overlap when a merchant's save works
  off its own job (`vendorId`) while the scheduled one is at work.
* `attemptCount` counts the batches of a job, not only its failures, and is not
  reset when a batch succeeds (`lib/live-reminder-reconciliation.ts:526-536, 572`):
  a live with more registrations than five batches hold is left `pending` for ever.
* A confirmed registrant plans a reminder without the job's guard
  (`src/app/api/form-submissions/verify/route.ts:207`); if the live was edited
  meanwhile, the old reminder replaces the one the job wrote, and is then stopped
  by the check before sending.

### Bounds and why they are enough

* Two payments: every conflict over stock is between one sale and another for
  the last unit, and the code never looks at a third row. Products: two, as
  a cart must move as a whole. Both payments can hold the last unit only after the
  merchant restocked it.
* `MaxNow`: one tick expires a reservation (`TTL = 1`), also that of a checkout which
  failed and was resumed before, and one that is resumed afterwards meets a job that
  had picked its expired row. That it expires a second time needs another tick and is
  covered by the proofs only (`Agreement`). `MaxCuts = 1` gives a run that is cut short and one
  that is not. `MaxEdits`, `MaxStock`: one form open over a sale, typed to 0 or 1.
* `CleanupLimit` stands for the default of 100 rows: 2 is a run that can take
  everything here.
* Retries: two jobs and two callbacks are every pair of workers; the token
  argument is about pairs, and the proof covers any number.
* Refunds: two requests are a settled one and a reserved one. Amounts are
  chosen so that the trade can be used up exactly, and, in `payuni_notices`,
  overdrawn if a check were missing. Window and interval are one tick and two
  confirmations are needed (24 h, 6 h, 3 in production), so that the first
  possible release is at the lag bound.
* Fulfilment: three entitlements in batches of two make a full batch and a
  partial one; two runs and two suspensions let a run of
  the first meet the second. `MaxRevision` stops a service from being
  rescheduled for ever; 3 lets it be scheduled and then moved once more, so that a
  form can show "scheduled" before and after; `DecisionsFit` covers the others.
* Upgrades: three orders let a source be bound again after its first upgrade lapsed,
  while that one may still be paid; goods have the states "packing" and "shipped",
  which the triggers treat differently.

* Outbox: two workers are every race for a claim; a reminder can be replaced and
  restored, a notice can not, and is exempt from an unsubscribe, so the two rows
  cover the kinds of mail. Two attempts are one that is repeated and the last.
* Reminders: a job that takes one of two registrations needs two claims, so that
  edits, confirmations and failures fall between them; three edits take a
  configuration away and restore it. `live_reminders` has one run at a time,
  because with two the properties fail (`reminders_skipped`, and the observation
  above).

* Account e-mail: two addresses and three requests are the smallest instance in
  which an account leaves an address, comes back and leaves it again, so that a
  link is covered by an older one, a later request is open at a lockdown, and a newcomer waits for
  what is left. Three ticks let both kinds of link end. Three addresses, and a
  second account with requests of its own, were checked with smaller clocks and
  gave the same answers; they take too long to keep.

Symmetry is used only where workers or requests are interchangeable and no liveness
property is checked (operators in `payuni_hold`, requests in `account_email`).

Every property of a passing run has a mutant: an operator named `Faulty` in the
comments, which replaces the definition next to it the way a plausible bug
would, and under which the run must fail.

## 4. Fairness

* `CheckoutInventory!Fairness`: the cron entry starts the expiry job again and
  again and a run examines its rows (`.github/workflows/scheduled-jobs.yml`,
  every five minutes). No fairness is assumed of requests, buyers, merchants,
  callbacks, or the recorder.
* `WebhookRetry!Fairness`: time passes, the job runs again and again, and the
  platform ends every attempt somehow, possibly by killing it. The provider
  owes no resend. So an event whose process died before its claim
  (`received`) waits for a resend and is not covered.
* `PayUniRefund` has no fairness: reservations are resolved by people.
* `OrderFulfillment!Fairness`: a release run that was started goes on to its
  next statement (it is a loop inside one request); a run may also fail at any
  step. Nobody has to suspend, resume or repeat a release, and no fairness is
  assumed of merchants or callbacks.
* `EmailOutbox!Fairness`: a worker goes on (it is one request; it may also be
  killed at any step), and the e-mail job comes back for rows that are due and for
  leases that are over. Nothing is assumed of the provider's answers, of the
  merchant, or of the vendor's suspension, which `MailSettles` allows for.
* `LiveReminders!Fairness`: a run goes on, and the cron entry looks for jobs
  whose run died. Nobody has to edit, confirm, or claim a job.
* `AccountEmail` has no fairness: nobody has to follow a link, and mail may be lost.

## 5. Proofs

`CheckoutInventoryProofs` proves, for any payments, carts, products, stock and
bounds (assuming `CheckoutAssumption`):

| Theorem | States | Argument |
|---|---|---|
| `Typing` | `Spec => []TypeOK` | inductive; stock stays natural because every decrement is guarded by `InStock` |
| `LedgerImplemented` | `Spec => SalesFollowLedger` | step by step under `TypeOK /\ RowsAgree`. The strengthening `RowsAgree` (reservation and payment status determine each other) is needed because `Deal` reads both: without it a release could be a step from a sold deal |
| `Conservation` | `Spec => []StockConserved` | each abstract step changes `shelf`, `supply` and the set of holders together; cardinality lemmas `DealTaken`, `DealGivenBack` |
| `NeverDowngraded` | `Spec => PaidNeverDowngraded` | only callbacks and refunds move a paid payment; `RowsAgree` rules the expiry and failure branches out |
| `HoldKept` | `Spec => HeldPaymentKept` | needs `HoldFollowsCheckout`: a hold only exists once the session was stored (callbacks need an issued session), so the metadata overwrite of the checkout request can no longer happen; every step but a paid or failed callback of the payment leaves its status, reservation and hold alone (`HeldStep`) |
| `Agreement` | `LocalManual = FALSE` implies `Spec => []LedgersAgree` | needs `OrderAgrees`: with no reissued local session an order expires at most once, so the dedup key of its expiry never blocks. Without the hypothesis it is false (section 3, first observation) |

`WebhookRetryProofs`, for any workers, retry limit and number of deliveries
(assuming `RetryAssumption`), from the inductive invariant `RetryInv`:

| Theorem | States | Argument |
|---|---|---|
| `RetryTyping` | `Spec => []TypeOK` | needs `FirstAttempt`: a callback that counts its failure either holds count 0 or a retry that was counted when it was claimed |
| `EffectsOnce` | `Spec => []AppliedOnce` | a commit needs a "retrying" row and leaves "processed", which no write reopens |
| `ClaimIsToken` | `Spec => []OneOwner` | `CountGrows`: the count never falls, and each new claim is strictly above the count of every attempt still running, dead owners included |
| `BoundedAttempts` | `Spec => []AttemptsBounded` (proved, not part of a run) | `ClaimsCounted`: every claim but the first raised the count |
| `SettledEventKept` | `Spec => FinalKept` (proved, not part of a run) | each write's WHERE clause excludes the final statuses, or writes the same one again |

Actions fall into three shapes, each with a lemma: a step that leaves the row
alone (`RowKept`), a claim (`ClaimKeeps`), a write that ends or sets aside
(`EndKeeps`).

`PayUniRefundProofs`, for any requests, outside refunds, amounts, answers,
operators and policy (assuming `RefundAssumption`). The first two come from `NameInv`,
the next four from `LedgerInv`, the others from `HoldInv`; each of these contains
the one before it and is inductive:

| Theorem | States | Argument |
|---|---|---|
| `NoticedOnce` | `Spec => []NamedRefundBookedOnce` | `NamesKept` says under which names a row can be booked: its own serial, the trade number, or its reservation's name, and then another row has the trade number, which keeps every notice out. `RequestStands` ties moved money to requests that were granted, so a notice of a request meets a settled row (`NoticedSettled`) |
| `SettledKept` | `Spec => SettledRowKept` (proved, not part of a run) | every write of a row is of one that does not exist yet (`RequestStands`) or is compared with a pending reservation |

| `Typed` | `Spec => []TypeOK` | `LedgerInv`; a snapshot is a sum of amounts (`WorthNat`) |
| `Explained` | `Spec => []TotalExplained` | every booking moves one amount from the reserved part of the ledger to the booked part (`ReservationBooked`), or adds that of a notice not yet booked (`NoticeBooked`); all other steps leave the parts alone or drop a reservation (`NoneBooked`) |
| `ReservedOnce` | `Spec => []ReservationExclusive` | a reservation is made when there is none, and fits what is left beside the booked rows; a notice is booked when there is none |
| `AccountImplemented` | `Spec => AccountSpec` | each action is a step of `RefundAccount` or a stutter (`AccountStep`). The code compares the amount of a new reservation with the booked rows and that of a notice with the total; `TotalExplained` says that they are the same bound |
| `BookedMoved` | `Notified = {}` and `Repeated = {}` imply `Spec => []BookedWithinProvider` | `BookedHasMoved`, below |
| `ReleasedUnmoved` | `Notified = {}` and `Repeated = {}` imply `Spec => []ReleasedHoldNeverMoved` | `ReleaseSafe`, below |
| `SafeUntilForeignAnswer` | `Spec => [](OwnAnswers => BookedWithinProvider /\ ReleasedHoldNeverMoved)` (no hypothesis on the constants) | `OwnAnswers` says that no notice was booked and no request was given another one's answer; it can only become false |

Why a release is safe is an argument about time and amounts at once, and
neither invariant of the run is inductive without it. `HoldInv` has the time in
`TimeInv`: the call of a request, and what the provider makes of it, belong to the
tick of its reservation (`CallsInTime`); counted checks are apart by the interval,
so a streak of `n` is at least `Window + (n - 1) * Interval` old (`StreakTakesTime`,
`StreakLength`); and whatever an operator's snapshot leaves out is younger than
`MaxLag` (`ShownInTime`, `SnapshotsFresh`). It has the amounts in `BookedHasMoved`: what
is booked is covered by money that moved and is not reserved and, while there is a
reservation, by money that moved *up to the time of the reservation*. At a release
the reservation is older than the lag, so its snapshot counts all of that money. Had
the reserved refund moved as well, it would be counted too, and the snapshot would
exceed the ledger; but the release found them equal. A reconciliation books
what the snapshot counts, and a completed request money of its own, so both stay
covered.

The hypothesis is not one of convenience. `refund_booked_twice` violates
`BookedWithinProvider` with one notice; and with an answer that repeats the serial of
an outside refund TLC finds the same: an operator reconciles the outside refund
with a reservation, which is stored under a `reconcile:` identity, so the
next request that is answered with that serial finds no duplicate and is booked.

`RefundAssumption` contains three premises that are not about sizes: a serial of
the provider is none of the names this program makes up, the query's lag is
within the release policy, and it is at least a tick. `NameInv` uses the first,
`HoldInv` the other two.

`FiniteSums` proves what `PayUniRefundProofs` needs of sums (`TotalNat`, `TotalAdd`,
`TotalRemove`, `TotalMonotone`). The sum of the model is a fold, a recursion over the
set, so this is an induction over data; the library's induction theorems take an
operator and cannot be used, but its theorems about well-founded orders can: a
set of counterexamples that is not empty has a least one (`LeastSubset`,
`LeastNatural`), and one step of the recursion contradicts it. That the recursion has
a solution at all (`SumsDefined`) is proved in the same way.

`OrderFulfillmentProofs`, for any orders, items, forms, runs, batch size and
bounds (assuming `FulfillmentAssumption`), from the inductive invariant `Inv`:

| Theorem | States | Argument |
|---|---|---|
| `FulfilmentTyping` | `Spec => []TypeOK` | each kind of row has its own statuses (`StatusesOf`), and every update stays in them (`MoveRows`) |
| `PaymentFollowed` | `Spec => []FulfilmentFollowsPayment` | a batch's rows were paid for when it was read (`BatchesRead`), and its update asks for "pending" again, which a refund or a trigger has ended; a row is withdrawn only together with the mark or the refund that is its reason, and marks stay (`MoneyStep`, `PaymentFollows`) |
| `NothingTwice` | `Spec => []DeliveredOnce` | follows from `Inv` with two strengthenings: `CreditBound` (of the credits of one order all but one were given back, and a paid upgrade's credit has a mark: superseded, refunded or given back) and `WithdrawnStays` (what lost its credit or was replaced has nothing open but goods on their way) |
| `ReleaseComplete` | `Spec => []NothingForgotten` | `BatchesRead`: no suspension begins between a batch's read and its commit, so nothing more comes to be held (`ReleaseFollows`), and a batch that is not full contains all that is |
| `SuspensionHolds` | `Spec => NothingOpensSuspended` | callbacks look at the suspension, and no batch is open during one |
| `DecisionsFit` | `Spec => DecidedOnWhatWasShown` | `FormsShowRows`: revisions only grow and no status changes without one (`MoveRows`), so an equal revision means the row that was shown |

`EmailOutboxProofs`, for any mails, recipients, workers, sources and bounds
(assuming `OutboxAssumption`), from the inductive invariant `Inv`: what each
worker knows at each step (`WorkersOK`), that no two hold one mail (`Alone`), and
what a row's outcome says (`SentWasAccepted`, `RefusedStay`):

| Theorem | States | Argument |
|---|---|---|
| `OutboxTyping` | `Spec => []TypeOK` | part of `Inv` |
| `MailHasOneSender` | `Spec => []OneSender` | whoever claims finds a row that waits, so nobody holds it; every write of a waiting row takes the claim from those who read it (`Losers`); a row is taken back only from nobody (`LeaseOver`) |
| `SentMeansAccepted` | `Spec => []SentWasAccepted` | only `Finish` writes "sent", and its worker's verdict says so only after the provider took the mail |
| `OnlyWantedMail` | `Spec => []SentWhenWanted` | a worker that passed both checks claimed before the unsubscribe and saw a current source since; `WorkersOK` carries both from check to outcome |
| `OutboxImplementsRows` | `Spec => RowsSpec` | each action is a step of `MailRows` or a stutter (`RowsStep`), because `Inv` says in which status the row of each worker is |
| `SettledForGood` | `Spec => SettledKept` | from the refinement for "sent" and "suppressed", from `RefusedStay` for rejected rows |

`LiveRemindersProofs`, for any registrations, configurations, numbers of runs, batch
sizes and bounds (assuming `RemindersAssumption`), from `TypeOK`, `ScopesVerified`,
`RunsKnow` and `NobodySkipped`:

| Theorem | States | Argument |
|---|---|---|
| `RemindersTyping` | `Spec => []TypeOK` | a run that goes on has a job (`HaveJobs`); a claim asks for attempts that are left; a batch is a set of registrants |
| `JobSkipsNobody` | `Spec /\ []Apart => []NobodySkipped` | `RunsKnow`: between a run's cursor and its claim's everyone of the job's scope has a reminder, and its batch is the first of those that are left (`BatchTakes`), so the cursor it writes back passes only them |
| `OldJobIsStopped` | `Spec /\ []Apart => OldJobCreatesNothing` | a run that plans and whose job is still `processing` has the current configuration (`RunKnows`): an edit supersedes every other open job in its own transaction, and only a run of the same job could make it `processing` again; the run's guard asks in the reminder's own transaction |

`Apart` says that no two runs have the same job at a time; it is a condition on
the behaviour, and runs of different jobs overlap freely under it. The code
breaks it only when an edit and its reversal start a job over under a run of its
first life, as long as no lease ends while its run lives, which the model assumes
(section 2); `reminders_skipped` is such a behaviour and refutes the second theorem
without the condition.

`AccountEmailProofs`, for any users, addresses, requests, lifetimes and bounds
(assuming `AccountAssumption`), from the inductive invariant `Inv`, which is
`TypeOK` with `Links`, `Kept`, `NothingOpenWhenLocked` and `EndedByEarlierLink`:

| Theorem | States | Argument |
|---|---|---|
| `Typing` | `Spec => []TypeOK` | a confirmation's window starts at a time of the clock; a request is made from an address |
| `RevertIsFree` | `Spec => []RevertNeverBlocked` | the link of a completed change reserves its own address (`CompletedKept`). A change that did not complete is either where its account still is, or a completed change of the same account reserves the same address for at least as long (`Protected`, `Covers`). A revert must not end that change: it is older than every request that was made after the account had left (`Remembered`), and a revert ends later links only (`Ordered`) |
| `EarlierLinksRemain` | `Spec => []EndedByEarlierLink` | a failed send looks at the row (`StillOpen`), a cancel is of a change that did not complete, a revert ends links of later requests |
| `Lockdown` | `Spec => LockdownHolds` | a lockdown revokes every open request and ends every session, so nothing that was asked for before is stored, and what is asked for later is refused (`NothingOpenWhenLocked`) |

`QueuedHome` is what makes a request stored late harmless: while its session lives
the account has not moved. `AccountAssumption` has one premise that is not about
sizes: a request lives, and a clock lags, together no longer than a revert link
(60 minutes and the timeouts of a transaction, against seven days). Without it the
reservation that covers an uncompleted change could end before the change.

Only model-checked: the liveness properties (`ExpiredRowReleased`,
`ClaimedEventSettles`, `ReleaseEnds`, `MailSettles`, `ClaimedJobReturns`), since
fairness is out of the prover's reach. Every invariant, action property and refinement that a
passing run checks is also a theorem.

## 6. Not modelled, and what comes next

* Settlement, commission and payout: refunds after a locked month, and the
  ledgers of affiliates. The next module worth writing, as an abstract ledger
  that the webhook's and the refund's transactions implement.
* Live quota and stream usage (counters), vouchers (an extension of
  `CheckoutInventory`): each is a small protocol of its own.
* Purchase tracking and learner notifications: outboxes like the e-mail one, with
  other columns. `MailRows` is the specification to implement again.
* Electronic invoices and billing cycle: batch jobs over provider calls.
* Compositions: `CheckoutInventory` with `WebhookRetry` (a collected
  payment is booked within the retry budget) and with `PayUniRefund`
  (`RefundBooked` becomes its completion).
* Proofs: `LiveReminders` without `Apart` needs a claim token that does not repeat in the code first.

Left out for good: page editor, templates, rendering and analytics (pure data),
chat and interactions (request and response over single rows), credential
handling, and provider SDK details beyond what the handlers observe.

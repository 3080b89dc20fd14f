# Dukarun in TLA+

Dukarun is a point of sale and accounting service for shops in Kenya. Its core
logic is PostgreSQL: about 600 functions in `supabase/migrations`, most of them
`security definer` procedures that the Angular apps and the Edge Functions in
`supabase/functions` call as single transactions. Around it are programs that
cannot be one transaction: Edge Functions that call a provider between two
transactions, browsers that lose their connection, tabs that are closed half-way.

This directory specifies the parts where money, sales or messages can be lost or
counted twice: how a payment gets from M-PESA into the books, how a sale made
without a connection gets there, how the browser's copy of the catalogue stays
true, how a message leaves the house once, and how a company pays for the service.

File names below are relative to the repository; `0119` stands for
`supabase/migrations/20260818000021_0119_mpesa_collections.sql`, and other
four-digit numbers for the migration with that number.

## 1. The system

| Component | State it keeps | Operations | Interacts with | What is hard | What makes it correct |
| --- | --- | --- | --- | --- | --- |
| **M-PESA settlement** (0119) | payment intents, STK attempts, collections, allocations, late reviews, reversals | create intent and attempt, finalize success or failure, record C2B money, allocate, approve or reject late, split with cash, reverse, classify, sweep | orders and customer receipts it settles; till, period lock, voids | provider answers late, twice, for an older attempt or another amount; staff working on the same money; posting that fails after the reservation | money is promised once, posted once, visible until posted; a fulfilled intent keeps its money |
| **M-PESA processing** (`functions/mpesa-initiate`, `-callback`, `-process`, 0119:922-1413) | prompts, inbox of provider events with leases, next query times | send a prompt, record its answer, store a callback, claim, query the provider, settle, retry, sweep, review | the settlement | expiring leases, a crash or a lost answer between two calls, late callbacks, duplicate workers | nobody is charged twice; a payment is not put away before it is recorded; nothing stays pending for ever |
| M-PESA commissioning (`functions/mpesa-credentials`, 0119:598-784, 2247-2467) | connection, Vault secrets, C2B tokens | request, register, test, activate, rotate tokens | settlement reads the active connection | rotation while callbacks use the old token | a live callback URL is always accepted |
| Checkout screen (`core/mpesa-checkout-coordinator.service.ts`, `core/mpesa.service.ts`) | polling state of one checkout | start, poll, retry, finish with cash | calls initiate and reads the intent | stale poll answers | shows the server's state |
| **Offline sales outbox** (`pos/offline/*.ts`, `pos/sell/sell.component.ts`, 0103, 0114) | cart, IndexedDB queue of sales, device heartbeat, late sale reviews | complete, queue, replay, refuse, retry, discard; post or review late | posts sales, blocks the close of a period | lost answers, reloads, two tabs, a period closed meanwhile | a sale is booked once, never into a closed period, and has one fate |
| Customer accounts and prepayments (0079, 0091, 0096, 0098) | receipts, deposits, applications, balances | receive, apply, reverse | settled by M-PESA, voided with orders | reversal of a partly used deposit | balance equals unapplied money |
| Ledger and periods (0004, 0081, 0082, 0126) | journal entries, period locks, closes | post, reverse, sign off, close | every poster | posting races a close | nothing is posted into a closed period |
| Cashier sessions and reconciliation (0095, 0099, 0108, 0114, 0120) | sessions, counts, verified balances | open, close, count, reconcile | orders and M-PESA name a session | closing while a payment is on its way | expected cash equals postings |
| Orders (0003, 0007, 0039, 0132) | orders, payments | post, settle, hold, void, reverse | everything above | void of a paid order | a completed order is paid in full |
| Approvals (0039-0041) | requests for a decision | request, decide, expire, execute | voids, reversals, credit | deciding what has changed meanwhile | executed at most once |
| Inventory and purchases (0005, 0074, 0132, 0143) | stock batches, purchases | receive, consume oldest first, reverse | orders | reversal of stock already sold | quantities never negative, costs conserved |
| **Notification outbox** (0037, 0055, 0092, 0100, `functions/notification-flush`) | messages, quotas | queue, claim, send, finalize, record, fall back, opt out, switch off | external providers | overlapping flushes, expiring leases, crash between sending and recording | a message is sent once, ends, and is paid for if sent |
| **Billing and paid onboarding** (0006, 0077, 0134, 0135, `functions/paystack-*`) | payment attempts, purchase, subscription of a company | reserve, charge, verify, webhook, approve, override, scan | Paystack | two people pressing Pay, prompts paid after they were given up, lost and repeated webhooks | nobody is charged twice for the first payment; a payment is credited, and once |
| **Cache journal and catalogue cache** (`core/cache-journal.service.ts`, `core/catalog-cache.service.ts`, 0127, 0131) | change log and its floor; watermark and snapshot in IndexedDB; rows on screen | emit, prune, reconcile by pages, reset, patch, refresh, count stock | every catalogue write | wake-ups during a pass, pruned pages, failed writes, reloads, several tabs | a saved watermark never passes the saved rows; the screen converges |
| Catalog: products, price lock, import (0043, 0044, 0125) | products, staged rows | edit, import, lock prices | the journal | import of many rows at once | covered by pgTAP tests |
| VAT, eTIMS, legal, blog, storefront, tenancy, reports, ETL | documents and read models | - | - | arithmetic and access rules | covered by pgTAP tests |

Every function of the settlement runs in one transaction and takes row locks in
the order intent, collection, so calls are atomic and only their *order* is free.
All orders are possible: callers are browsers, a cron job, Safaricom's callbacks
and staff.

## 2. Plan

Done: `MpesaSettlement` with its abstract specification (the most
important behaviour, because all other money goes through its statuses), then
`CatalogCache`, `OfflineOutbox`, `MpesaProcessing`, `NotificationOutbox` and
`SubscriptionBilling`, the components that are concurrent in themselves, with abstract
specifications where a component promises something to another one (`PaymentBooks`, `StreamReplica`,
`SaleFate`). Every invariant, every action property and every refinement that a run
checks is also a theorem; liveness is left to TLC.

Next, in this order:

1. Theorems about what is not calm in the catalogue (section 6): `TypeOK` is proved for
   any number of tabs, the replica for one.
2. `NotificationOutbox` with SMS segments and the change of the quota period.
3. Stock batches (0132, 0143), approvals (0039-0041).

## 3. Modules

| Module | What it is |
| --- | --- |
| `PaymentBooks` | what collections promise to the books: money is outside, set aside, posted, or gone; a subject is settled once |
| `MpesaSettlement` | the settlement, one action per database function, and its properties |
| `MpesaSettlementProofs` | types; the allocation status is truthful and money is promised once |
| `MpesaIntentProofs` | who must act on an intent and on its money; what a step never does to a fulfilled or completed intent |
| `MpesaBooksProofs` | posted money matches its subject; the settlement implements `PaymentBooks` |
| `MpesaProcessing` | callers, inbox, workers, sweep and reviewers around one intent |
| `MpesaProcessingProofs` | types; nobody is charged twice; a payment is not put away unrecorded |
| `StreamReplica` | what a browser's copy of a stream promises |
| `CacheJournal` | the change log and the reconciliation loop of every tab |
| `CatalogCache` | the catalogue as a consumer of the journal: extends `CacheJournal` and composes its steps with the mutation queue |
| `CatalogCacheProofs` | types; one tab's screen and snapshot never lack what the watermark claims; the snapshot implements `StreamReplica` |
| `SaleFate` | what the outbox promises for a sale |
| `OfflineOutbox` | sell screen, queue, replay and the functions that receive a replayed sale |
| `OfflineOutboxProofs` | types; a sale is booked once, never into a closed period, and never disappears; the outbox of one tab implements `SaleFate` |
| `NotificationOutbox` | messages, flushes, quota and fallback |
| `NotificationOutboxProofs` | types; final is final; the fallback comes second; the quota is exact; a message is sent once and paid for |
| `SubscriptionBilling` | first payments, renewals, webhooks and administrators of one company |
| `SubscriptionBillingProofs` | types; nobody pays twice; one attempt buys; a payment is credited once |
| `MC...` | small instances, state constraints, and claims the repository makes of the settlement |

`MpesaSettlement` refines `PaymentBooks` through `Books`, an instance that reads
where the money of a receipt is off its allocations. `CatalogCache` refines
`StreamReplica` through `Replica`, whose rows are those of the snapshot in
IndexedDB. `OfflineOutbox` refines `SaleFate` through `Fates`, which reads the fate
of a sale off the books, its review and the queue. `MpesaProcessing` and
`MpesaSettlement` look at the same functions from two sides: the settlement repeats,
delays and loses every answer without asking why, the processing says why and reduces
the settlement to what an intent and its attempts can see of it.

An operator whose comment says `fault:` stands for a plausible mistake in the
definition after it (a dropped guard, a missing refresh). The specification does
not use it. `PROJECT.json` pairs each with the property that fails when the
mistake is put in, which is how we know that a property says something.

### Settlement: state

| Variable | Table |
| --- | --- |
| `subject` | `orders.status`, `customer_receipts.status` and their cashier session; `pending` stands for `pending_payment` and `pending_approval`, `posted` for `completed` and `posted` |
| `intent` | `mpesa_payment_intents`: status, number of the current attempt, `fulfilled_collection_id`, whether `review_reason` is `accounting_post_failed`, the initiating session |
| `attempt`, `bound`, `flagged` | `mpesa_payment_attempts.status`; whether `checkout_request_id` is known; whether a callback of the attempt is in manual review |
| `coll` | `payment_collections`: provider status, amount, day, typed by hand, disputed, classification, allocation status, the intent named on the row |
| `alloc`, `review`, `reversal` | `payment_collection_allocations`, `mpesa_late_posting_reviews`, `payment_collection_reversals` |
| `till`, `today`, `lockEnd` | latest cashier session of the location, business date, `period_locks.lock_end_date` |

The status `funds_received` exists only inside `mpesa_apply_collection_to_intent`
and is not a state between transactions.

### Settlement: actions

`CreateIntent`, `CreateAttempt`, `RecordStkRequest`, `RecordRequestUnknown`,
`FinalizeSuccess`, `FinalizeTerminal`, `RecordQueryPending`, `Sweep`, `RecordC2b`,
`ManualFallback`, `CashSplit`, `AllocateCollection`, `ApproveLate`, `RejectLate`,
`RetryPosting`, `Classify`, `RequestReversal` and `ReviewEvent` are the functions
of 0119 with similar names. `BindCallback` and `ConflictingCallback` are the two
effects `mpesa_ingest_provider_event` has on these rows and `GiveUpEvent` that of
`mpesa_retry_provider_event`. `ReversePosting` and `VoidOrder` include the trigger
`sync_reversed_collection_allocation`. `SettleOtherwise`, `VoidHeldOrder`,
`OpenTill`, `CloseTill`, `LockPeriod` and `NextDay` are the back office, reduced to
the columns that the settlement reads.

`Apply` is `mpesa_apply_collection_to_intent`, one operator per way out of the
function; its callers pass the collection row and the attempts as they have just
written them. `PostingFails` is always possible where `PostAtOnce` is: posting
consumes stock and checks accounts and approvals that are not modelled, and the
code catches every exception.

A call that raises changes nothing and is therefore no step. This includes the
partial unique index on unresolved intents (`IndexAdmits`) and the trigger on
allocations (`Overallocated`), both of which raise in the middle of functions
that have already written other rows.

### Processing

`intent`, `current` and `fulfilled` are the row of the intent, `status`, `bound`, `old`
and `queryLease` its attempts, `event`, `evidence`, `eventOld` and `lease` the inbox;
`caller` and `worker` say between which two calls an invocation of `mpesa-initiate`
or `mpesa-process` stands, and `provider` is what Safaricom knows. Actions of a caller:
`Prepare`, `CreateAttempt`, `RefuseAttempt`, `AskProvider`, `RecordRequest`,
`FailToRecord`, `RecordUnknown`. Of a worker: `ClaimEvents`, `TakeEvent`, `SettleEvent`,
`PostponeEvent`, `FinishEvent`, `RetryEvent`, then `ClaimQuery`, `Query`,
`RecordQuery`. `Deliver` is the callback, at any time after the prompt, also before
the caller has recorded the answer; `Dismiss`, `Acknowledge` and `ReviewRetry` are
the decisions of a reviewer, `Sweep` the minute job. Time is four actions: an attempt
or event becomes 15 minutes old, a lease runs out. The callback of a prompt that was not
paid may carry a code that is none of the four final ones: it is then done with and
nothing is decided (`TakeEvent`), which leaves the intent to the queries and the sweep.
A fault is a crash between two calls or a database call that fails.

### Catalogue

The server is a log of entities; the version of a row is the number of its last
change, so that "the copy has change *i*" is `copy[log[i]] >= i`. Every tab has a
reconciliation loop (`pending`, `phase`, `after`, `answer`) and a queue of mutations
(`queue`), whose first element builds a `draft`, reads the server row by row (`got`),
writes IndexedDB (`durable`) and then the screen. Loading a tab is in two steps, for
reading IndexedDB takes time (`load`, `copy`). A tab may be closed and opened between
any two steps, a request may fail or its answer be lost, and the log may be pruned
between two pages.

### Offline outbox

A client reference is one payload of one cart. `cart`, `attempt` and `at` are the
screen, `saved`, `outbox`, `arrived` and `day` IndexedDB, `list`, `step` and `reply`
the pass of a tab, the rest the server. `arrived` is the place of a sale in the order of
queueing (`queued_at`); a pass keeps the *set* of entries it read that it has not
settled, and the next one is the `Oldest`. Every request is two steps, the server's
transaction and the browser's use of its answer, with the loss of the connection
(`LosePost`, `StopPass`, `LoseReport`) and `Reload` as alternatives to the second.
`PostOffline` is `post_offline_sale_at_location` with its tests in the order of the
code: retired device, closed period, completed order, posting. Refusals that depend on
stock, prices or an open till may always happen.

### Notification outbox

`status`, `attempts`, `due` (scheduled_after has come), `quota` are a row; `reserved`
and `used` the company's WhatsApp counters. A flush holds the rows it found, those it
claimed, the current one, and the attempts it *read*, which it writes back later
whatever has happened since. `accepted` counts what the provider really took and
`unsure` marks rows with a fault or a send without an answer; both are for the
properties only. A fault is a crash, a failed or unanswered database call
(`FailCall`, `LoseAnswer`) or a lease that runs out in the hands of a living flush
(`Overrun`).

### Subscription billing

`status`, `sub`, `term`, `grace`, `lastRef` are the row of the company, `purchase` its
row in `initial_subscription_purchases`, `attempt` and `old` the payment attempts.
`charge` is what Paystack knows of a reference, `verified` the webhooks that stand
between the verification and the database, `caller` an invocation of `paystack-charge`
between two of its calls: `Read`, `ReadAttempt`, `VerifyAttempt`, `CloseAttempt`,
`Reserve` or `RefuseReservation`, `AskPaystack`, `RecordFailure`, or `Renew` when the
company has paid before. `VerifyPayment` and then `BookPurchase`, `BookRenewal` or
`BookNothing` are `paystack-webhook`, as often as Paystack repeats itself. `Approve`,
`Disable`, `Override` and `Scan` are the functions of 0134, 0077 and 0006. Of time the
model keeps whether an attempt is ten seconds old and whether paid time is over
(`EndTerm`). A fault is a crash, or a call or answer that is lost. `credited` and
`overridden` are for the properties only.

## 4. Runs

| Run | Instance | Checks |
| --- | --- | --- |
| `Checkouts` | one order of 3 and two intents, one for 2 with the rest in cash, the other for 3; one attempt each, two receipts, two tills, one day, provider reversals | `TypeOK`; `PostedMatchesSubject`: what is posted stands alone against a settled order, to the last shilling; `MoneyIsVisible`: unposted money is in a queue; `ReservationOwned`: a reservation always has somebody who must act on it, and cash waits for one; `ReversedMoneyLeavesBooks` |
| `Retries` | one order, one intent, two attempts, a receipt for each | `FulfilledIntentIsKept`: an intent with money is never ended unpaid; `FulfilmentIsFinal`: its money is never exchanged; `CompletionIsPosted`: it completes only when its money is in the books |
| `Accounts` | a customer receipt with an intent, another without, an order, two days, period locks, manual fallback | `LateReviewDecidable`; `AllocationStatusTruthful`; `KeepsTheBooks`, the refinement of `PaymentBooks`; `CompletedReopensOnDispute`, for completed payments are disputed here, when the provider reports a receipt that was typed by hand and posted |
| `RetryClaim`, `ChargeAgainClaim` | one order; one intent or two | expected violations, see below |
| `Processing` | one caller, two prompts, one fault; a second worker that overlaps on the first prompt's callback | `TypeOK`; `ChargeableMeansUnpaid`; `ProcessedMoneyIsKept`; `PendingResolves` and `EventResolves` under `FairSpec` |
| `CatalogHeals` | one tab that holds a snapshot, two rows others change, a log that keeps one change and answers of one change, one fault | `ShownCoversMark`; `Converges` under `FairSpec` |
| `CatalogYoung` | a tab with or without a snapshot, one row others change and one counted here, refreshes, a log that is not pruned, one fault | `TypeOK`; `IsReplica`, the refinement of `StreamReplica` |
| `PartialSnapshotClaim` | one tab, a slow disk, two changes | expected violation, see below |
| `Outbox` | two sales, one tab, two days, one reload | `TypeOK`; `BookedOnce`; `ClosedStaysClosed`; `HasOneFate`, the refinement of `SaleFate`; `QueuedIsSettled` under `FairSpec` |
| `Notifications` | one message with its fallback, two overlapping flushes, two attempts, one fault | `TypeOK`; `QuotaExact`; `SentOnceAndPaid`; `FallbackAfterFailure`; `FinalIsFinal`; `EveryMessageEnds` and `FailureIsFollowedUp` under `FairSpec` |
| `Billing` | two payments, two overlapping invocations of `paystack-charge`, one fault | `TypeOK`; `InitialChargedOnce`; `PurchaseClosesAttempts`; `CreditedOnce`; `PaidIsHonoured`, `EndedAttemptMakesWay` and `ExpiryIsMarked` under `FairSpec` |

Deadlock is checked in `Outbox` only. Elsewhere days, tills, attempts and changes are
bounded, orders are never deleted and messages come to an end, so an instance comes to
rest when everything is settled, which is what the program does too.

### Bounds

`MaxAttempts`, `MaxTill` and `MaxDay` bound attempts per intent, cashier sessions
and business days. Two attempts are what "an older attempt" needs; two sessions
let a split be finished in the wrong till; two days let the payment's day be
locked while today is open (under `MaxDay = 1` a lock covers today as well). Two
intents of an order are enough for money that arrives for the one that has ended, and two
receipts for every "another collection" in the code. The constraints in
`MCMpesaSettlement` cut what a run is not about: `NoFlags` and `OneFlag` bound
callbacks under review (the reviews are exercised by `Retries`), `OneOutcome`
keeps one of the three equivalent failures, `Answered` drops attempts whose
answer is unknown (exercised by `Retries`), `NoReversals` leaves reversals to
`Checkouts` and `Accounts`, `OneClosure` leaves a lock that follows the second
cashier session of `Checkouts` to the theorems. Manual fallback is on in `Accounts` only, for
`MoneyIsVisible` is claimed without it.

Two payments in `Billing` are a first payment and a competing one, or a renewal, or two
renewals; a second invocation overlaps before the first payment is booked and before
any fault (`OverlapFirst`), which is when two first payments can compete, and an
administrator overrides companies that are approved and have met no fault
(`OverrideAlone`); the theorems have neither limit. `MaxCredits = 2` shows whether a payment is ever credited twice.

One message keeps the liveness of `Notifications` cheap; that several messages of a
batch do not disturb each other's quota, status or fallback is part of the theorems.
In `Processing` a second worker takes events beside the first during the first prompt,
before any fault or status query (`OverlapOnce`): the late failure of the first then sends
an event back that the second has finished, which is how staff come to acknowledge one.
After a fault, events grow old during the first prompt only (`AgedFaultEarly`). Overlaps
on the second prompt, and any number of workers and faults, are left to the theorems;
liveness is checked for the behaviours that stay inside these constraints. One tab in
`Outbox` and the catalogue runs is a limit of what holds, not of the bounds (section
5). Two days put a sale before and after a close. A log
that keeps one change and a page of one change make every second answer a reset. One
fault at any place is what the code is written to survive.

### Fairness

The settlement states none, except for `RetryClaim`: strong fairness of a retry that
succeeds, for staff who see "Retry accounting post" press it again and again. It
favours the code as much as possible, and the claim fails nevertheless.

Elsewhere fairness is weak and only on what happens by itself: the cron jobs (sweep
and workers every minute, flushes every minute: 0006:1293), invocations that live go
on, requests are answered or fail, promises are resolved and timers fire, leases run
out and time passes. Nothing is assumed of customers, staff, Safaricom, message
providers or the connection; where a property needs the connection to come back, it
says so (`<>[]online`), and it does not say how often it was lost before. In the
billing Paystack is assumed to repeat a webhook until it is answered with success, and
the scan runs daily (0006:1003); that a customer keeps pressing Pay is the premise of
`EndedAttemptMakesWay`.

### What the expected violations show

* `RetryClaim`. When posting fails, the reservation stays. Retrying inserts the
  reservation again; `enforce_collection_allocation_total` is a BEFORE INSERT
  trigger and counts the existing reservation, so it raises
  `collection_overallocated` before `ON CONFLICT DO NOTHING` applies. The only
  action the reconciliation queue offers for such a payment can never succeed,
  even when the reason of the failure is gone.
* `ChargeAgainClaim`. `docs/MPESA_INTEGRATION.md:59` says that paid but unposted
  work cannot be charged again. The check at 0119:979 is per intent: money that
  arrives for a cancelled intent becomes a surplus, and a second intent of the same
  order sends another prompt.
* `PartialSnapshotClaim`. `catalog-cache.service.ts:41` says that reads emit the
  complete cached snapshot at once. When IndexedDB is slower than two requests, the
  first journal patch is built on an empty screen and sets `loaded`; `ensureLoaded`
  then drops the snapshot it has read, and the tab shows the changed rows only.

## 5. Properties and the code

Properties are stated at the end of each module with the behaviour they are about.
The least obvious ones, and what limits them:

* `AllocationStatusTruthful`: `allocation_status` is a copy. Eight functions write
  allocations and each must refresh it; reconciliation, the period close and
  `mpesa_upsert_collection` itself decide by it.
* `FulfilledIntentIsKept`: late answers, the sweep and dismissed callbacks all look
  at `fulfilled_collection_id` to leave a paid intent alone, each in its own way.
* `ReservationOwned` and `MoneyIsVisible` together say that no money is forgotten.
  `MoneyIsVisible` is claimed only where manual fallback is off: with it, a
  mistyped receipt can be reserved by an intent that is not the one on the row, and
  the queue, which joins the row's intent, may not show it. A split intent that goes
  to review after its reservation is visible there, but no function moves it on to
  `awaiting_cash` (0119:1702).
* `CompletedReopensOnDispute` counts as the money of an intent what its attempts were
  paid with, whatever row names it: with manual fallback the receipt of one intent's
  attempt can be typed for another one, and it is its late callback that then reopens
  the intent.
* `KeepsTheBooks`: whatever the functions do amounts to moves of `PaymentBooks`.
* `ChargeableMeansUnpaid`: a prompt of unknown outcome must block the next one, through
  five statuses that six functions write in any order.
* `PendingResolves` leaves out two states in which the code really waits for ever: an
  initiator that dies after `create_mpesa_payment_attempt` leaves the intent
  `requesting`, which the sweep does not age although `docs/MPESA_INTEGRATION.md:61-63`
  says that unresolved work goes to review after 15 minutes; and the dismissal of an
  older attempt's callback (0119:1289) makes an intent pending whose current attempt
  has ended, so that nobody asks about it. Also, a settlement that always fails in the
  query path (`mpesa-process:184`) is repeated at every lease; the model lets it fail
  `MaxFaults` times.
* `Converges` is claimed for one tab that already holds a snapshot. With two tabs, one
  that finds the shared watermark moved by the other keeps its old rows
  (`cache-journal.service.ts:234`). A cold browser whose first refresh failed has
  nothing to patch and stays empty until a screen refreshes
  (`catalog-cache.service.ts:686`). Screens that refresh while the journal resets are
  kept apart (`Refreshes` in `CatalogYoung`, pruning in `CatalogHeals`): a refresh that
  began before a change can be joined by the reset that must cover it (`:172`), and the
  change is then lost to the snapshot. `CatalogYoung` also keeps counted rows apart from
  rows that others change: the late answer of a stock count overwrites a later change
  (`:153`). `SlowDisk` is `FALSE` in the passing runs, see `PartialSnapshotClaim`.
* `HasOneFate` and `QueuedIsSettled` are claimed for one tab: with `Tab = {t1, t2}` a tab
  whose list is stale posts a sale that was refused, and discarded by the cashier, in
  the other tab. They also assume that the server refuses with P0001, which is what
  `raise exception` gives: any other error (`sync.service.ts:203`) ends the pass like a
  lost connection, and one such sale at the head of the queue holds up all others.
* `BookedOnce` is per reference. After a lost answer and a reload the cart is restored
  but not its reference, so the same cart can be sold under two.
* A replay of a sale that *was* posted is safe for the books but not for the cashier:
  0114:1073-1094 tests the retired device, the closed period and the till before the
  reference, so the posted sale is reported as refused, or kept for a review that can
  never be approved, although `sync.service.ts:34` calls it safe to replay.
* `SentOnceAndPaid` leaves out rows with a fault: a send whose answer is lost,
  or a flush that dies after it, is repeated, and no code could know better. The
  comment at `notification-flush:24`, that a send in flight is never claimed again,
  needs the lease to cover the batch: 50 rows at up to 12 seconds each take longer than
  5 minutes (`Overrun`), and a row that is overtaken counts as one with a fault.
* `FailureIsFollowedUp` leaves out flushes that die between recording the failure and
  queueing the SMS (`notification-flush:312`): the row is final then and nobody looks
  at it again.
* `QuotaExact` is about WhatsApp. For SMS, `reconcile_runtime_sms_quota` (0100:415) marks
  a row reserved again whose units an earlier, uncertain send had already turned into
  used ones, and the next `finalize_message_quota` counts them once more and takes them
  from another row's reservation.

* `InitialChargedOnce`: the ten seconds, the verification, the reservation and the unique
  index keep a second first payment out while Paystack has not declared the first one
  ended. A prompt that is paid after it was declared ended is outside of it: it is then
  booked if it comes first, and otherwise refused for a human to return.
* `EndedAttemptMakesWay` is about attempts that Paystack knows. An invocation that dies
  between the reservation and the charge leaves an attempt that no verification can ever
  end, and the company cannot make its first payment (`paystack-charge/index.ts:172`).
* `CreditedOnce` says less of renewals than the comment at 0006:694 ("Idempotent on the
  Paystack reference"): `activate_subscription` remembers the last reference only, so a
  webhook repeated after the next renewal extends the paid time again.
* `PaidIsHonoured` is about first payments. A renewal whose tier is withdrawn before its
  webhook is refused at 0006:728 each time. It also ends its claim when the company may
  no longer buy: one that has paid, was disabled and is approved again keeps its
  `last_payment_reference` (0134:299), and `paystack-charge` takes it for neither a first
  payment nor a renewal until an administrator sets its subscription.
* `ExpiryIsMarked` leaves out companies whose subscription an administrator has set:
  `platform_update_subscription` keeps an old grace period, and the scan passes over
  companies that have one.

## 6. Proofs

Every proof is about `Spec`, for all sets and bounds that satisfy the module's
assumption; fairness adds no states. Liveness and the absence of deadlock stay with TLC.

**Settlement** (an intent asks for at most the total, and for a customer receipt exactly
the total; model values are distinct).

* `MpesaSettlementProofs!TypeCorrect` (`TypeOK`): one lemma per operator that builds a
  row, one per group of actions, then the step.
* `MpesaSettlementProofs!StatusCorrect` (`AllocationStatusTruthful`) and
  `MoneyPromisedOnce`: no collection backs two live allocations.
  Neither is inductive. `mpesa_upsert_collection` creates the row with
  `unallocated` without looking at allocations, and `retry_mpesa_collection_posting`
  takes any row that names the intent, so the invariant `MoneyInv` adds that a
  receipt nobody has seen has no allocation and names no intent. A settled split,
  an approved review and a rejected one replace the *only* live allocation, which
  is why "promised once" is needed to know the refreshed status.
* `MpesaIntentProofs`: `FulfilledKept` (`FulfilledIntentIsKept`), `LateReviewsDecidable`
  (`LateReviewDecidable`), `ReservationsOwned` (`ReservationOwned`),
  `ReversedMoneyLeaves` (`ReversedMoneyLeavesBooks`) and `MoneyVisible`
  (`MoneyIsVisible`) follow from one invariant, `WorkInv`, for they need each other: a
  review is decidable because its intent is kept, an intent is kept because its
  reservation has an owner. `WorkInv` adds that rows, attempts and events name only
  intents that exist, that a subject has one unresolved intent, and that every reversal
  is recorded. The proof classifies the steps before it looks at the invariant: whatever
  function runs, either no money moves and statuses drift, or one of a few things happens
  to the money of one receipt. The action properties `CompletionPosted`
  (`CompletionIsPosted`), `FulfilmentFinal` (`FulfilmentIsFinal`) and `ReopenedOnDispute`
  (`CompletedReopensOnDispute`) follow from the same classification.
* `MpesaBooksProofs!PostedMatches` (`PostedMatchesSubject`). `BooksInv` adds to `WorkInv`
  that a live allocation, not only a posted one, is for the total or for the price of the
  intent it fulfils, since it may be posted later without being compared again; and that
  a customer receipt has one intent and one collection that ever touches it, because
  nothing at the time of posting asks whether the receipt is settled already.
* `MpesaBooksProofs!BooksKept` (`KeepsTheBooks`): the settlement implements
  `PaymentBooks`. Steps are sorted by what they do to allocations and subjects
  (reserve, post, release, replace, settle or void a subject, or nothing), and each kind
  is one move of the abstract books or a stutter.

**Processing.** `TypeCorrect`, `ChargedOnce` (`ChargeableMeansUnpaid`) and
`CallbackMoneyIsKept` (`ProcessedMoneyIsKept`), for any number of callers, workers,
attempts and faults. The invariant `IInv` says of each attempt what its status, the
stage of the caller that asks for it and the answer a worker holds allow Safaricom
to know: only one caller can be between its two calls on an attempt, an attempt that
has ended was declined or never asked, and a worker that holds "settle" holds a
payment. TLC explored it with two callers and two workers before it was proved.

**Offline outbox.**

* `SaleIsBookedOnce` (`BookedOnce`) and `PeriodStaysClosed` (`ClosedStaysClosed`), for
  any number of sales and of tabs that replay the same queue. The proof reduces every
  step to "one sale is posted, for the first time, after the lock, or none"
  (`StepPosts`). It needs types of the books only: what the browser believes does not
  matter. `OutboxTypes` is `TypeOK`.
* `NoSaleDisappears`: a sale that was queued has been accepted by the server, is still
  in the outbox, or was discarded by the cashier, for any number of tabs. It needs
  `QueueInv`: places in the queue are distinct, so that the entry a pass removes is the
  one it was answered for; the screen's reference was never queued; and a pass that
  holds "ok" holds it for a sale that the server has.
* `OneFate` (`HasOneFate`) for one tab, `Tab = {SellTab}`. `Alone` is what a second tab
  would break: the entries of a pass are queued, and a discarded one is in no pass.

**Notification outbox.** `FinalStaysFinal` (`FinalIsFinal`), `FallbackIsSecond`
(`FallbackAfterFailure`), `QuotaStaysExact` (`QuotaExact`), `OutboxTypeCorrect` (`TypeOK`)
and `SentOnce` (`SentOnceAndPaid`), for any number of messages, flushes and faults.
`Stage` adds what a flush knows of its current row: it has at most one, quota is
reconciled for an SMS only, and a fallback follows a row that has failed. `Counted` adds
that a row that was never queued holds no quota. That the counters are cardinalities of
sets of rows is why `FinalizeCounts` never meets the clamp `greatest(0, ...)` of
0037:428. The type of `attempts` already needs an argument (`Bounded`): a flush writes
back the number it *read*, so the rows in its hands must have been read below the
maximum. `SentOnce` follows a row without a fault along its path (`Paths`): at most one
flush holds it, under its lease and with the attempts it has claimed; what the others
found of it is out of date and their claim will fail; and where its flush stands says
whether the provider has it and what has become of its quota.

**Billing.** `TypeCorrect`, `NobodyPaysTwice` (`InitialChargedOnce`), `PurchaseIsFinal`
(`PurchaseClosesAttempts`) and `CreditIsOnce` (`CreditedOnce`), for any number of
invocations, payments and faults. The heart of `IInv` is `OpenWaits`: a first payment
that Paystack may still take, or is about to be asked for, keeps its attempt pending
until the company has bought, so that the reservation finds it. It needs `CallerInv`
and `OneAsker`, that an invocation which gives an attempt up holds one whose payment
has ended or was never known, and that no other invocation is about to ask for it;
`CreditInv` adds that what was credited is known by the last reference.

**Catalogue.** `CatalogTypes` (`TypeOK`) for any number of tabs. `ShownCoversTheMark`
(`ShownCoversMark`) and `SnapshotIsReplica` (`IsReplica`), for any number of rows and
changes, any page size and retention and any failures, under the hypothesis `Calm`,
whose four parts are the four ways in which the code does lose a change (section 5):
one tab; the snapshot is read before a patch is (`~SlowDisk`); no row is counted here and
changed elsewhere; and either nothing is ever pruned, or a refresh only ever begins for
a reset. Both instances `CatalogHeals` and `CatalogYoung` are calm, each in its own way.
The invariant `CatalogInv` says, of rows as versions: no copy is ahead of the server
(`Behind`); what waits in the mutation queue is what the pass waits for (`Waiting`);
between two mutations the screen is nowhere older than the disk, which is why counted
stock may be written from the screen (`Loaded`); disk, screen and a snapshot that is yet
to be shown have all that the watermark claims, or is about to claim (`Marked`); an
answer has every change up to the place it claims (`Answered`); and what a mutation has
read is no older than the disk and, from where a pass will set the watermark, complete
(`Working`). Three facts carry it: an answer without changes claims nothing new; a patch
is read after its answer; a refresh that a reset waits for began after it. The last one
is what the fourth part of `Calm` is for. Then a step moves the log, the rows of
the snapshot or the watermark, never two of them, and each is a move of `StreamReplica`.

Only model-checked: liveness (`PendingResolves`, `EventResolves`, `Converges`,
`QueuedIsSettled`, `EveryMessageEnds`, `FailureIsFollowedUp`, `PaidIsHonoured`,
`EndedAttemptMakesWay`, `ExpiryIsMarked`), which needs `ENABLED` and fairness, and that
`Outbox` has no deadlock.

## 7. Not modelled

The KES 1 connection test, callback tokens and credentials; names, phones and
notes; permissions, except that some staff reverse at once and others must ask;
stock, VAT, prices and journal lines; companies and locations (one of each).
Campaigns, e-mail, team invitations, SMS segments and the start of a quota period.
Barcodes, families and categories of the catalogue, and the other consumers of the
journal (customers, orders, prices), which share its loop but have handlers of their
own. The provider's answers are final in `MpesaProcessing`; C2B events and conflicting
callbacks are in the settlement only.

Prices, tiers, the length of paid time, exemptions, reminders, sales invitations and
commissions of the billing.

Approvals, stock batches, deposits and account reconciliation are single transactions
under row locks, called by people; they are the next to be modelled. Access rules, read models, documents, blog, storefront, site administration
and the one-off import scripts have no concurrency of their own and are covered by the
repository's pgTAP and unit tests.

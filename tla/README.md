# NovaCart: a TLA+ model of a shop's back end

NovaCart (FastAPI, PostgreSQL, Redis, background workers) is a shop. This
directory models what it does with money, stock and access while many requests,
webhooks, jobs and administrators act at once: orders and their payments,
refunds, the job queue, checkout, carts, the catalogue, shipping and returns,
taxes and prices, accounts and roles, gateways and their configuration, and the
cache. TLC checks small instances of every module; TLAPS proves, for all instances,
nearly every safety property that the passing runs check: of payments, refunds,
jobs and checkout, of accounts and carts, of the back office, the catalogue, the
books, the cache and the gateways. Section 4 says what is left to TLC and why.

All paths below are relative to `src/`.

## 1. Inventory

### Components

| Component (code) | State it keeps | Operations |
|---|---|---|
| Payment start (`app/modules/payments/services/payment_service.py`) | `payments` rows | plan under the order lock; call the provider without a transaction; re-lock and record |
| Payment webhooks (`handle_webhook`, `process_webhook_event`) | `processed_webhook_events`, `deferred_webhook_events`, `payment_reconciliations` | claim, apply, finish; defer what has no payment yet; flag what cannot be applied |
| Deferred recovery (`payments/jobs.py`) | the same rows, `attempts` | re-apply, give up at a limit or at the end of a window |
| Order lifecycle (`lifecycle_service.py`) | `orders.status`, stock | `mark_paid`, `fulfil_order`, `cancel_order` (customer, administrator, expiry job) |
| Refunds and disputes (`lifecycle_service.py`, `payments/jobs.py`) | `refunds`, `payments.refunded_amount_cents`, `disputes` | request; execute; refund and dispute webhooks; refunds made at the provider |
| Reconciliation worklist (`refund_repository.py`, `lifecycle_router.py`) | `payment_reconciliations` | record once per key, resolve, refund from a record, close by recovery |
| Gateways (`app/core/payments/`, `demo_checkout.py`) | intents at the gateway, signed events | create, retrieve, cancel, refund, verify and parse a webhook |
| Gateway configuration and mode (`provider_config_service.py`, `payment_mode_service.py`, `store/`) | encrypted configurations, live switch, store currency | create, rotate, validate, attest, enable, prefer; demo and live; set currency |
| Job queue, scheduler (`app/core/jobs/`) | `jobs` rows, time buckets in dedupe keys | enqueue, claim (`FOR UPDATE SKIP LOCKED`), complete, fail; tick |
| Checkout (`orders/services/order_service.py`) | orders, lines, idempotency keys, stock, coupon uses | quote, checkout, guest payment tokens |
| Order access (`orders/api`, `payments/api`) | owners, guest cookies, payment capabilities | read, list, pay, cancel |
| Currency review (`currency_remediation.py`) | reviews of orders without a currency | establish, leave for manual review |
| Cart (`cart/`) | carts and lines, guest tokens | add, update, remove, clear, merge at sign-in |
| Catalogue (`products/`, `variants/`, triggers) | products, options, variants, stock, price range | edit, archive, options, variants, convert, adjust stock |
| Listings (`products/`, `categories/`, `core/storage/`) | names, slugs, statuses, image paths, files | create, rename, deactivate, replace an image, list |
| Coupons, prices (`coupons/`, `tax/gst_calc.py`) | coupons and their terms | discount, share it over lines, tax, quote, charge |
| Tax master (`tax/`) | rules, classifications, registrations, settings | draft, edit, approve, close, retire; decide the tax of a product |
| Fulfilment (`shipments/`, `returns/`, `invoices/`) | parcels, return requests, number series, documents | ship, deliver, return, receive, restock, refund; invoice, credit note |
| Sessions (`auth/`) | refresh tokens, e-mailed links, the user row | login, refresh, logout, reset, verify, change |
| Staff (`users/`, `roles/`) | administrators, roles, assignments | promote, demote, deactivate, create, assign, delete |
| Shopper (`addresses/`, `reviews/`, `wishlist/`) | default address, reviews, saved products | create, update, delete, moderate |
| Site, mail (`site_config/`, `email_settings/`) | versions and draft; provider rows | publish, roll back; save, test, activate |
| Cache (`core/cache.py`) | Redis versions and entries, missed invalidations per process | get or set, invalidate after commit |

The rest (rate limiting, e-mail and frontend notification, audit and reports,
REST/GraphQL layers, settings, logging, migrations) is listed in `PROJECT.json`
with the reason it is left out.

### How they interact

* A customer's request, a webhook, a job and an administrator all act on the
  same order through the row lock on `orders`. Money lives at the provider, so
  three operations (`create_payment_for_order`, `cancel_order`, the refund job)
  are split in phases *lock - commit - call the provider - lock again*, and
  whatever happens between the phases is a race by design.
* The provider answers on two channels: the call's own answer and webhooks, in
  any order, late, more than once, or never.
* A committed transaction hands follow-up work to the job queue by inserting a
  row in the same transaction (`enqueue`). Workers claim rows; a claim is
  identified by its attempt number, not by the worker.
* Whatever cannot be decided automatically becomes a row of
  `payment_reconciliations`, which is how a human learns of it.
* Everything else shares the database only: a request reads rows, most of them
  without a lock, decides, and writes at the end. Row locks, unique and
  exclusion constraints and triggers are what keeps two such requests apart.
* The public lists are served from Redis; every commit that changes them bumps
  a version afterwards, outside the transaction.

### What is hard, and what makes it correct

* *Phased operations:* an order is decided once; stock is released with the
  cancellation and only then; one confirmation per paid order.
* *Values read before a lock and used after it:* SQLAlchemy keeps loaded
  objects in the session, so a row locked later by another query is not the
  row the handler looks at. Whether that is harmless is a question for a model.
* *Money never disappears:* a captured payment ends up credited or reported,
  by an event of the configuration it was made with.
* *Retries after unknown outcomes:* a refund is made once, a timed-out one is
  not recorded as failed, a dispute is not refunded silently.
* *Overtaken workers:* a late result changes nothing; every job ends; no tick
  of the scheduler is missed.
* *Checks that two requests pass together:* the last role manager, the last use
  of a coupon, two active mail accounts, two rules for one day, two versions of
  the site.
* *Several things that must move together:* stock and order lines through a
  conversion, invoice numbers through a rollback, an image's row and file, a
  cached list and its version.

`PROJECT.json` lists the hazards one by one, at their line, with the property
that watches each.

## 2. Modules

| Module | What it is |
|---|---|
| `OrderLedger` | abstract specification: what the payment side promises about one order |
| `OrderPayment`, `OrderPayment_proofs` | one order, its payments, payers, cancellers, webhooks, deferred events, provider; implements `OrderLedger` |
| `Refunds`, `Refunds_proofs` | the refunds and disputes of one captured payment |
| `JobQueue`, `JobQueue_proofs` | the `jobs` table and its workers |
| `Checkout`, `Checkout_proofs` | concurrent checkouts: idempotency keys, stock, coupon, carts |
| `Common` | the constants the modules below share: `None`, `Requests` |
| `Sessions` | the sessions, links and password of one account |
| `Staff` | who administers the shop |
| `Shopper` | addresses, reviews and wishlist of one customer |
| `OrderAccess` | whose order it is, and who may read, pay and cancel it |
| `Cart` | one shopper's user and guest cart, and the merge |
| `PaymentSetup` | gateway configurations, demo/live mode, the store currency |
| `TaxMaster` | drafts, approvals and the engine's decision |
| `EmailSettings`, `SiteConfig` | the active mail account; published versions of the site |
| `CurrencyReview`, `Worklist` | orders without a currency; reconciliation records |
| `Listings` | names, slugs, images and public lists of products and categories |
| `Catalogue` | one product, its variants and stock, under carts and orders |
| `Pricing` | discounts, taxes, quote and charge, with coupon terms |
| `Fulfilment` | parcels, returns, invoices and credit notes of paid orders |
| `Cache` | Redis lists, single flight, invalidation |
| `Gateways` | the Stripe, Razorpay and demo adapters behind one order |
| `Scheduler` | ticks, buckets and the sweep of stale orders |
| `MCOrderPayment`, `MCRefunds`, `MCCheckout`, `MCCart` | instances for TLC of one module |
| `MCRecovery` | instance for TLC of `JobQueue` and `OrderPayment` side by side, where things fail |
| `MCAccounts`, `MCBackOffice`, `MCOperations` | instances for TLC of several modules side by side |
| `Accounts_proofs` | proofs about `Sessions`, `Staff`, `Shopper`, `OrderAccess`, `Cart` |
| `BackOffice_proofs` | proofs about `EmailSettings`, `SiteConfig`, `CurrencyReview`, `Worklist`, `Scheduler`, `TaxMaster`, `PaymentSetup`, `Listings`, `Pricing` |
| `Operations_proofs` | proofs about `Cache`, `Gateways`, `Fulfilment`, `Catalogue` |
| `Sums_proofs` | facts about sums over finite sets that the other proofs use |

The modules that `MCAccounts`, `MCBackOffice` and `MCOperations` put side by side
share no state in the code beyond rows each of them
already contains, so `part` chooses the one a behaviour exercises and the
variables of the others stay `None`; a run of such a module is the union of the
runs of its parts, and every property speaks of its part. `MCRecovery` does the
same with the job queue and one order's payments, except that the part left alone
stays as it begins: no job is queued and no event is out, so the fairness of that
part asks for nothing. `PaymentSetup` appears
as two parts (gateways with one administrator, the store currency with two
shoppers), because the two only meet in which currency a gateway must support.

Operators marked `Mutant:` are not part of the models. Each is a plausible
wrong version of the definition that follows it; substituting it must break the
property that `PROJECT.json` pairs it with, which shows that the property has
something to say about that code.

### OrderPayment

Atomicity follows the database. A transaction that takes the order's row lock
before it reads is one action. Where the code reads without a lock and writes
later, the value is kept in the handler's state: `seen[h][i]` is the payment
status a webhook handler loaded (`get_by_provider_payment_id` does not lock), `snap` in a
canceller holds the payment objects of phase 1, which phase 3 sees again.
`payer[p].pc = "commit"` is the one state in which a request holds the order
lock between two steps: the pinned FastAPI version runs the exit code of
`get_db` (and so the commit) after the response was sent, so a customer can pay
before the payment row is visible. `LateCommit` switches this; a run uses it
where it matters. `handed` is the set of intents whose client secret a caller
has.

The provider is external and modelled from how the code uses it: Stripe
de-duplicates creation by idempotency key and can cancel; Razorpay does
neither. A call that fails or times out may or may not have had its effect
(`CancelOrphan`, `AskCancel`). Webhooks are redelivered until acknowledged;
`claim_webhook_event` inserts the event id, so two deliveries of an event never
run at once, and one event is one handler in the model.

`Mismatched` are intents whose event fails `_event_matches_payment`; amounts and
currencies have no other effect and are left out, as are authorisation, rate
limits and the choice of a provider (the order's payments share one).

### Refunds

One payment, captured, of an order that is paid (or cancelled and paid late).
A request through NovaCart always asks for the whole amount, so request `q`
stands for its row, its idempotency key and the provider refund made with that
key. A refund event is handled in two steps, because `_handle_refund_event`
matches it, and loads the payment when the id is unknown, before it takes any
lock. `job` is the `execute_refund` job as `JobQueue` guarantees it (at most
`MaxJobAttempts` runs, re-run after a death). Disputes are a status per
dispute; their events come in any order.

### JobQueue

One row per dedupe key, `claims` counts claims as history, `lock` says whether
`locked_until` is in the future, `run_at` whether the job is due. `LockExpires`
needs nobody alive to hold the latest claim; `LockOverrun` is the worker that is
paused longer than `jobs_lock_seconds` and then reports late.

### Checkout

A request is a transaction with four places where others can act: waiting for
the advisory lock of its (owner, key); inside, with the copy of the cart it read
without a lock; `locked`, holding the product and variant rows of what it buys;
`priced`, holding the coupon row after its uses were counted. `PlaceOrder` then
moves stock, creates the order and deletes the cart rows that were read. Row
locks are derived from these states (`UnitsFree`, `CouponFree`) and make
administrators and cancellations wait. A unit is a simple product or a variant;
checkout also locks the product of a variant, so the model allows more
interleavings than the code. The rows of one request are locked in one step: the
order in which they are taken matters only for deadlock, which is planned apart.

`Buyer` says who the coupon counts an owner as, since two guest sessions may
give one e-mail address. Of the request's fingerprint the coupon is a field and
the rest may differ at will; everything that can refuse an order without a trace
(address, delivery, configuration, tax, minimum subtotal, a lost connection) is
`Refuse`. `StillThere` is the row id: a line removed and added again is a new
row, which neither `clear` nor `set_price_snapshot` touches. An order is `open`
while it counts as a use (pending, paid, fulfilled); `cancelled` stands for any
end that returns its stock, `refunded` for one that does not.

### The other modules

They follow one convention. A request that locks what it reads before it
decides is one action. A request that reads without a lock has a step that reads
(`Load...`, `Start...`, `Ask...`, `Read...`) and keeps what it saw in a record of
its own (`request`, `doing`, `edit`, `turn`, `asking`), and a step that decides
from that record and writes everything its transaction writes, including what
triggers and cascades add. A constraint of the database is a conjunct of the
write (`LineFree`, `OneActiveIndex`, `Exclusion`, `StateFree`, `CurrencyGuard`,
`ActiveVariantRule`): violating it ends the request without a trace. Reads of the
public are actions only where they leave something behind (a cached page, a
capability). Variables marked *history* record what a property needs to know of
the past and influence nothing.

* `Sessions` models the row lock on the presented token and PostgreSQL's rule
  that an `UPDATE` of many rows sees those committed when it starts; a refresh
  that overlaps a sign-out is why `survivors` exists.
* `Staff` keeps the objects a session has loaded apart from the rows: the check
  that a role manager remains reads both.
* `Shopper` counts a list in one step and inserts in another; `MaxReviews` bounds
  the reviews ever written.
* `Cart` writes quantities computed from what was read; the merge reads the
  guest's cart, then the user's, then writes. Deleting a guest cart that another
  sign-in deleted is no error (`Gone`).
* `PaymentSetup.validate` closes its transaction while it asks the gateway;
  credentials are numbered, and evidence (validation, attestation, checks)
  belongs to a number.
* `TaxMaster` has four tables in one function `record`; days are `1..LastDay`
  and periods half-open, as the `daterange` constraints are.
* `Catalogue` has one product with one option; the triggers that maintain the
  stock ledger and the price range are operators applied in every write.
  `supplied` is what administrators' writes changed the stock by, as the movement
  trigger books it: an absolute stock written over a sale counts as supply.
* `Pricing` computes with integers: `Allocate` is the largest-remainder split,
  `SlabTax` the half-up rounding; like the code's functions they take the shop's
  configuration as an argument. Baskets, rates and coupon terms come from
  small sets chosen so that remainders, caps and equal fractions occur.
* `Fulfilment` keeps parcels as counts, because only their number and whether
  one was delivered within the return window matter.
* `Cache` makes each `await` a step, for writers and for readers that replay what
  their process owes; a command may fail before or after Redis executed it.
* `Gateways` takes each adapter's own rules: which call de-duplicates, what an
  event carries, what identifies it, what a refund needs. The interleavings
  inside one handler are `OrderPayment`'s.
* `Scheduler` counts half seconds; a wake-up may be late by `MaxDelay`, a tick
  may fail, a worker may stop and start.

## 3. Runs

Deadlock checking is off in every run: a decided order, a settled refund, a
finished job or an idle back office with nothing in flight is where the system
legitimately stops. That something *must* happen is stated by the liveness
properties instead.

| Run | Instance | Result |
|---|---|---|
| `payment_races` | 2 intents, 2 payers, 1 cancellation, Stripe and Razorpay, commit after response; or 1 intent with 1 failure, lost commit or wrong amount and no cancellation; symmetry | holds, 1.6 M states |
| `recovery` | 2 intents (one mismatched), 2 payers, 2 handler failures, 1 lost commit, 2 recovery attempts; 2 jobs, 2 workers, 3 attempts, 1 death, 2 overrun locks | holds, 122 k states |
| `refunds_own` | 2 NovaCart refunds, 1 dispute, 1 worker death | holds, 1.6 M states |
| `refunds_external` | 1 NovaCart refund and 1 partial dashboard refund, 2 worker deaths | holds, 94 k states |
| `checkout_orders` | 3 requests, 2 guest sessions of 1 person, 2 keys, 2 pieces of 1 unit, coupon limits 1 or 2, 1 cart edit, 1 administrator's edit; symmetry | holds, 1.4 M states |
| `accounts` | 2 requests at a time on sessions, staff, reviews and carts; 2 browsers and 2 customers for order access; caps of 1 saved address and product; symmetry in requests | holds, 4.3 M states |
| `back_office` | 1 administrator and 2 gateways, 2 shoppers for the currency, 2 of everyone else; 2 tax rules over 2 days; 3 shops of the price model; 2 worker processes over 12 half seconds | holds, 2.1 M states |
| `operations` | 1 product with 2 option values, 2 orders with 2 returns, 2 server processes with 1 fault, 4 gateway configurations with 2 intents; symmetry in values and returns | holds, 2.5 M states |
| `payment_downgrade` | 1 intent | violated, see findings |
| `refunds_total` | 2 dashboard refunds | violated |
| `cart_merge` | 2 requests, 2 units, 1 sign-in | violated |
| `cart_twice` | 2 requests, 2 units, 2 sign-ins | violated |

**payment_races** asks whether the phases of payers and cancellations and the
webhooks can disagree. `DecisionCarriedOut`: stock and e-mail follow the
decision, once, and a payment is never `succeeded` under a pending order, which
is what lets phase 3 of `cancel_order` get away with stale payment objects.
`OneWayToPay`: no two pending rows, and with Stripe never two payable intents in
a customer's hands. `ImplementsLedger`: all of it is a behaviour of
`OrderLedger`.

**recovery**, payments, adds failing handlers, events that come before their row,
wrong amounts and a lost commit. `MoneyAccounted`: an acknowledged success event
is credited or waits in an open record. `PaidIsBacked`: a paid order has a
captured payment of the right amount. `CapturesSettle`: every captured payment
is eventually credited or reported. `DeferralEnds`: recovery ends. Jobs:
`AttemptsAreFenced` (attempts are exclusive, a success was run by the recorded
claim, a failure used every attempt), `OutcomeStands` (a late result is ignored, a
finished job is final), `JobsFinish`.

**refunds_own**: `TotalIsTrue` (the refunded total is the sum of the recorded
refunds), `RefundsRecorded` (a confirmed refund event leaves a row or a record,
and a `failed` refund did not go through), `DisputesRespected` (a refund given up
because of a dispute was not sent; an open dispute next to a submitted refund
was reported).

**refunds_external**: `RefundEndsRight` (an order is `refunded` only when the
whole payment is back; shipped goods are never restocked, nothing is restocked
twice), `RefundSettles` (a request is decided or handed to a human, unless
worker deaths eat up the job's attempts first).

**checkout_orders**: `StockConserved` (stock and what orders hold always add
up), `KeysHold` (one order per owner and key, never by grace of the unique
constraint, and nobody is given another's order or one made for another
request), `CouponWithinLimits` (an order that takes a use stays within the
limits in force at that moment; an administrator may lower them later).

**accounts**: `Sessions_CredentialsHold` (a refresh token is exchanged once, up
to the replays the grace window allows; a link works once; a new password ends
every older session, except one that obtained a token while it was being set; a
verified address was proven, unless a stale row was written back),
`Sessions_DeadStaysDead` (a session that was shut down does not come back),
`Staff_ShopIsAdministered` (a role manager remains as long as no request relied
on a row that had changed, and nobody holds what was not given),
`Cart_CountedOnce` (one line per unit, and no more pieces in the carts than were
asked for, except of units that two overlapping sign-ins merged from one guest
cart), `Shopper_HiddenStaysHidden` (a customer's edit does not publish what the
store hid), `OrderAccess_OnlyOwnersAct`, `Shopper_ListsStayBounded` (requests count
a list before they insert, so the caps on addresses and on saved products can be
overshot, but in any sequence of requests by less than the number in flight at
once: "the point is to keep it bounded").

**back_office**: `PaymentSetup_GatewayMayTakePayments` (accepted credentials,
current evidence, chosen by an administrator; not claimed of a configuration
whose credentials were last judged by an answer about credentials they replaced),
`PaymentSetup_OneCurrency`,
`TaxMaster_TaxIsDefinite` (one rule a day, approved on approved),
`EmailSettings_MailHasOneAccount`, `SiteConfig_PublishingTakesTurns`,
`CurrencyReview_CurrencyIsEvidenced`, `Worklist_ResolutionStands`,
`Listings_ListingIsTrue` (a shown image exists, the public sees only active
products), `Pricing_AmountsAreRight` (shares and invoices add up, a tax rounded once
for a rate is spread without rest, the quote is what is charged, a used coupon keeps its terms), `Scheduler_DueWorkIsQueued` (no
bucket is skipped while some worker ticks; a stuck order is retried each hour).

**operations**: `Catalogue_CatalogueConsistent` (stock and what orders hold add
up to what administrators supplied, through edits and conversions; lines name
units the product is sold as, an active product has an active variant, the price range is
true), `Fulfilment_BooksComplete` (consecutive numbers, credit notes),
`Fulfilment_GoodsAccounted` (nothing returned beyond what was bought, restocked
twice or refunded before it came back), `Cache_ServedIsFresh` (a list served is as
new as every write whose invalidation Redis executed before the request, and as
the process's own finished writes, unless the invalidation of one was crossed off
unsent), `Gateways_MoneyIsRight` (only money that came is credited, once, by an
event of the payment's own configuration; a credited payment can be refunded at
the gateway that took it; refunds the shop was told of stay on record).

**cart_merge**, **cart_twice**, **payment_downgrade** and **refunds_total** each
check one sentence of a docstring or a document, which the code does not keep
(section 5).

Where a property has an exception (`survivors`, `stale`, `reliedOnOld`, `twice`,
`raced`, `spoilt`, `late`, `dropped`, `Recovered`, `lost`), the exception is a
behaviour of the code that the model found; section 5 lists each under its name.

### Bounds

Two intents are enough for a second one to be created while the first is
reused, paid, cancelled or orphaned; two payers for the losing request of
`_create_new_payment`; one cancellation because two only compete for the lock
and the second finds the order decided (the proofs allow any number). One
failure event per intent: a second one does the same to a payment that can be
no more than `failed`. In `payment_races` a failure, a lost commit or an intent of
the wrong amount is followed with one payer and one intent only (`TroubleAlone`, a
state constraint, which keeps the races of two good intents whole); `recovery`
follows them with two of each. Two handler failures exhaust the two recovery attempts
and also hit a live delivery. Two refunds of the full amount allow a failed one
followed by a successful one; one worker death per behaviour beyond
`refund_max_attempts`, and one more in `refunds_external`, reach the point where
the job's attempts run out. Three attempts, two workers and two overruns let a
worker be overtaken twice and report in any order. Amounts are 2 units so that
a partial refund (1) and a full one (2) exist. Three checkouts of two owners
let two share a key, or a cart, while a third competes for the second of two
pieces and for a coupon use; one edit of a cart and one of the shop fall between
any two steps of a request. One unit suffices because units never interact in
the code except through the common commit (the proof allows any number).

In `accounts`, `back_office` and `operations`, two requests at a time are what it takes for
one to act between the read and the write of another; their number in a
behaviour is bounded by what they create (tokens, rows, versions, files,
records), each bound a constant of its module. Three tokens with one link, or
one with two, give a rotation with a replay and two uses of a link; one role
besides the system roles lets two administrators take it from each other; three
saves of mail settings give an activation between another's two steps; two tax
rules can overlap on one of two days, also after one was closed; two versions
beyond the first let a rollback meet a publication; two orders share a number
series and a return of two units can come in parts; two processes and one fault
let an invalidation get lost in one while the other serves; two intents over four
configurations include two of one Razorpay account. The hour of the scheduler is
shortened to six half seconds so that a stuck order is swept in two of them. Two
sign-ins (`MaxLogins`) in `accounts` and `cart_twice` can bring one guest cart;
`cart_merge` has one, so that what it loses was added by another request and not
merged by another sign-in. A cap of 1 on addresses is passed by two requests at
once, and there are ids for more addresses than `Shopper_ListsStayBounded` allows;
with the one product of that run the wishlist never exceeds its cap, so its half of
the property rests on the proof.

### Fairness

* Order: a transaction that holds the order lock ends (weak fairness on
  `payer[p].pc = "commit"`); the provider redelivers an event until it is
  acknowledged and the scheduler keeps starting `reprocess_deferred_events`
  (weak fairness on `ClaimEvent`); PostgreSQL grants a row lock to those who
  wait for it in turn (strong fairness on `ApplyEvent`, since others may take
  the lock in between). Payers, customers and cancellers need not do anything.
* Refunds: workers keep running queued jobs, the provider settles what it
  accepted and redelivers. People need not do anything.
* Jobs: worker loops poll, a handler is cut off at its time limit, clocks
  advance. Deaths and overruns are bounded by their constants, never forced.
* The other modules state safety only: their requests may stop at any point,
  which is what a lost connection does.

## 4. Proofs

**Sums_proofs** is what the proofs about stock, refunds, returns and amounts share: facts
about `SumFunctionOnSet` over a finite set. The library's induction theorems
cannot be instantiated here, so every induction is an argument about a smallest
counterexample (`SmallestBad`, from the well-foundedness of `<` on the naturals).
It shows first that the recursion behind the fold has a solution
(`SolutionExists`, `SumDefined`) and that any member may be taken first
(`AnyFirst`, `SumTaken`); the rest follows: a sum changes by what one member
changes by (`SumChanged`, `SumAdded`), is monotone (`SumMonotone`, `SumPart`),
grows with the number of members raised by one (`SumRaised`), and a sum over a
part is one over the whole that counts the part only (`SumOver`). Sums add and
scale (`SumPlus`, `SumScaled`), and of the members of a finite set in a total
order exactly `k` have fewer than `k` before them (`FirstMembers`).

**JobQueue_proofs** (any jobs, workers, `max_attempts`, deaths, overruns).
`AttemptsAreExclusive` is not inductive: it needs that a row's attempts equal its
number of claims (`AttemptsCountClaims`) and that whoever holds a job holds one
of its past or its latest attempt (`HoldersAreBehind`), so a new claim's number
is larger than any held one. Then `status = 'running' AND attempts = :attempts`
admits exactly the latest claim: `FencedAttempts` (with `OkWasRun`),
`LateResults` and `FinishedJobs`, together `OutcomesStand`, and type correctness
in `QueueInvariant`, including that attempts never exceed the limit.

**OrderPayment_proofs** (any intents, payers, cancellations, providers,
failures, lost commits). The inductive invariant adds to the safety properties
that success events exist only for captured intents (`EventsAreBacked`), that a
row a handler has seen still exists (`SeenRowsStay`), that a pending order was
paid by nobody (`PendingIsUnpaid`) and that an `unmatched_payment` record is
closed only after its event was applied (`ClosedIsApplied`). It needs nothing
about what payers and cancellers remember between their transactions: each
decision is taken again in the transaction that acts on it, and the proof
confirms that this is enough. From it: `AcknowledgedMoney`, `PaidOrders`,
`DecidedOnce` (all of `DecisionCarriedOut`), and `LedgerRefinement` (the initial
state maps to the ledger's, every step to a ledger step or a stutter).

`OneWay` needs a second invariant, because here it does matter what a payer
remembers. `WaysInv` says that a request between its insert and its commit is
alone with the order (`InsertsAlone`) and that rows are numbered in the order
they were made (`RowsCount`). With Stripe the idempotency keys of the rows also
count up from 0 (`KeysCount`), a request moves on to a new key only once the
intent of the key before is cancelled (`MovesOn`), so every intent but the one of
the newest key is over (`EarlierAreOver`) and one at most can be paid.
Razorpay ignores the key, which is why the property says nothing of its intents.

**Refunds_proofs** (any requests, refunds at the provider, disputes, attempts,
deaths). `RefundInv` ties the three places that know of a refund together: a
request without a counted attempt has not reached the provider, and one that a
dispute blocked never gets an attempt (`RequestSound`); a dispute next to a
refund that was or may be sent has its record (`OverlapReported`); stock is back
only where the order says so (`GoodsSound`). From it `DisputesMet` and
`StockReleasedOnce`. `OwnRefundsRecorded` adds that an event comes after what it
tells and is matched with its own request (`EventsSound`, `OwnSound`) and that
one request is in flight at a time (`OneActive`). These hold while `Externals`
is empty, the instance of `refunds_own`: a refund made at the provider can be
taken for a request's (section 5), and `RefundsRecorded` is not claimed then.

`PaidInv` is about the amounts. One request at a time is committed to the
provider, and none beside a refund made there, because the provider never pays
out more than the payment; whatever base a handler loaded before its lock was 0
if it may still add to it. So a recorded full refund means that the whole payment
went back: `RefundsEndRight`. `TotalTrue` adds, for `Externals = {}`, that the
refunded total is the sum of the recorded refunds; with external refunds that is
false (`refunds_total`).

**Checkout_proofs** (any requests, owners, keys, units, limits, edits). The
properties speak of committed rows; the invariant says what each lock protects.
`InsideIsExclusive`: whoever is inside is alone with its owner and key and no
order has them. `HoldersHaveStock`: whoever holds a unit's row holds enough of it
and holds it alone. `PricedHasUseLeft`: whoever holds the coupon has a use left.
`RequestAdvances` proves once what every step of a request needs, `OthersKeepInv`
the same for customers, administrators and ending orders. From it:
`NeverOversold`, `OneOrderPerKey` (with that answers are the caller's own),
`CouponLimits`, and `StockAddsUp`: `PlaceOrder` moves to one new order what it
takes from the stock and an ending order returns what it held, so for every unit
stock and orders add up.

The other proofs are about modules that run side by side. A lemma `PartStep` of
each composition says that a step of it is a step of the part exercised or leaves
that part alone, so every theorem states the property twice: of the component's
own specification and, under the name the run uses, of the composition.

**Accounts_proofs** (any requests, tokens, links, users, roles, browsers, orders,
units). *Sessions:* `TokenInv` follows each token from its making to its
exchange, says which tokens a request in flight holds or has yet to see
(`RefreshSound`, `SignOutSound`), and so which survive a sign-out; `LinkInv` says
that a link in use was unused when its row was locked. From them
`CredentialsSafe` and `ShutSessions`. *Staff:* `AlwaysAdministered` rests on
`OneChecked` (one request at a time is between the check and the write, because
the check locks the administrators) and `Given`. *OrderAccess:* `OwnersAct` rests
on `OwnCapabilities` and `PastCookies`: a capability in a browser is of an order
placed there, and a cookie that was replaced never comes back. *Shopper:*
`HiddenReviews` is an action property. *Cart:* `NothingTwice` bounds every
quantity by the pieces asked for so far, whether it is in a line or in what a
request has read (`AmountsSound`), where guest lines that a sign-in has read count
as long as their cart is there to be merged (`Waiting`, `SignInReads`). Any number
of sign-ins may overlap: one that merges a cart that is gone puts its units in
`twice`, which is the property's own exception and the subject of `cart_twice`.
`ListsBounded`: a list and the requests that are about to insert into it are
together fewer than the cap and all requests (`Bounded`, `ListsInv`): a request
that starts to insert has counted a list below the cap, and an insertion takes
one from the requests and adds it to the list.

**BackOffice_proofs** (any requests, providers, versions, orders, problems,
processes, schedules, tax records, days, gateways, currencies, customers, rows,
files). `MailAccount`: the unique index is an invariant of the
rows whatever the requests had read. `PublishingInTurn`: the row lock makes one
writer (`OneWriter`) whose view is the last version (`TurnFresh`).
`CurrencyEvidence` and `ResolutionsStand`: whoever holds a row's lock still sees
it as it is (`OneReview`, `ClosingOpen`). `WorkIsQueued`: a running process wakes
again within its interval and delay (`KeepsTicking`), so two ticks are never in
buckets with one between them; the arithmetic is in lemmas on `Bucket`.
`TaxDefinite`: an approval between check and write holds a draft on an
approved parent (`ApprovingSound`), and the exclusion constraint keeps periods
apart. `GatewayTakesPayments`: each configuration's evidence belongs to its
present credentials unless `raced` says otherwise, and `raced` is exactly the
configurations last judged by an answer about other credentials (`RowSound`,
`WaitsFor`).
`OneStoreCurrency`: a customer shown a price was shown it in the recorded
currency. `ListingTrue`: an image path has one owner and a request that uploads
owns its file (`OwnFile`, `OneOwner`).
`AmountsRight`: `AllocateRight` is about the largest-remainder split, for any
total and weights. The rests add up to the leftover times the weights' sum and
each is smaller than that sum, so the leftover is at most the number of lines
that have a rest (`Leavings`); it goes to as many lines as it has units
(`FirstMembers`), and a line whose share is already its whole weight has no rest
and comes after all that have one, so no share exceeds its weight. From it
follow the shares of a discount (`DiscountShared`), the taxes of a line or a slab
(`LineTaxRight`), the invoice (`CalculateRight`, `FlatTaxRight`) and the order and
its quote (`ChargeRight`). `PricingInv` then says that every order is what
checkout charges under the terms it records (`Priced`) and that a used coupon is
still there with them.

**Operations_proofs** (any processes, readers, writers, lists, faults, intents,
configurations, events, orders, documents, option values, carts). *Cache:*
versions only grow, an entry is no older than its version allows (`EntrySound`),
and an invalidation that did not reach Redis is owed by the process that missed
it or in `dropped` (`OwedSound`, `WriterSound`). A reader that replays relies on
its own process's writes only if they are announced or among those it still has
to send (`ReaderSound`), so it is served what it may rely on, also when it joins
another's load (`Shareable`): `ServedFresh`.
*Gateways:* what was paid, sent, claimed, deferred and recorded of an intent
agree (`IntentSound`, `EventSound`, `DeferredSound`, `RefundTold`, `PaidOnce`):
`GatewayMoney`. *Fulfilment:* `BooksAreComplete`, from
`SeriesSound` (numbers up to the series' last are issued once) and
`CreditNoteFollows`; `GoodsAreAccounted`, from `GoodsInv`: what arrives of a
return is part of what it claims, the claims on a line stay within what was
bought, returns exist only of shipped orders and a release only of one that never
was. Once all of an order has arrived, what later returns may claim of it is 0,
which is why a refunded return stays covered. *Catalogue:* `CatalogueTrue` and
`NothingOversold`, from `ProductSound`: the triggers' rules hold of the product
and its variants together, and no edit decided from an old read can get past
them. `UnitsInv` adds the stock: a variant without a ledger row has none, so
deleting an unused variant loses nothing, a conversion hands out exactly the
product's stock, and an order's row changes with the stock it moves.

Where an invariant was not obvious, TLC checked it on a run's instance before it
was proved. Two definitions were changed because the provers would not have
them: `Refunds.ApplyRefundState` and `OrderAccess.ShipTo` had `CASE` arms that
overlapped where the code has an `if` chain; they are exclusive now.

Assumptions on constants are named in the modules and evaluated by every run.
They say that markers (`None`, `NoIntent`, `NoRow`, `NoKey`, `Simple`) are not
values they stand beside; that sets the code counts or takes a maximum of
or adds up over (requests, intents, refunds, orders, returns, option values, mail
providers) are finite; that bounds are
naturals and limits positive; that roles, gateways, currencies, tax tables,
coupon terms, cart values and tax configurations,
processes and first documents are of the kinds their modules name; and, for the
scheduler, that a tick is late by no more than half an interval.

**Only model-checked:** all liveness (`CapturesSettle`, `DeferralEnds`,
`RefundSettles`, `JobsFinish`; temporal reasoning under fairness is outside the
prover's reach). Every invariant and action property of a passing run is also a
theorem, under the conditions named above. Of `OrderPayment` the proofs use the part of
`TypeOK` they need (`Types`, `PayersType`) and do not state all of it.

## 5. Findings

1. *A late failure downgrades a success* (`payment_downgrade`).
   `_handle_payment_failed` checks a status it read without a lock; a success
   committed in between is overwritten by `failed`. `docs/STATUS.md` says "a
   failure after success never downgrades". The order stays paid and the money
   is accounted for; the payment row is wrong (and a refund of it refused).
2. *The refunded total misses a refund* (`refunds_total`). Two dashboard refunds
   recorded concurrently: `add_refunded_amount` adds to the value each handler
   loaded before any lock.
3. *A sign-in loses a cart line* (`cart_merge`). The merge copies the guest
   cart's lines as they were loaded and deletes the cart; a line added in
   between is gone, although the docstring says "nothing is lost". (With two
   sign-ins the second may also find that the first made the guest cart the
   user's: it then deletes that cart with all its lines.)
4. *Two sign-ins count a guest cart twice* (`cart_twice`). Both load the guest
   cart; the one that merges second adds its lines to quantities that contain
   them already, and that the cart it deletes is gone is no error. The docstring
   says "nothing is duplicated". `Cart_CountedOnce` excepts the units merged so
   (`twice`).

### Seen while modelling, without a run of their own

Names in brackets are the variables or operators by which a property excepts the
behaviour; where a comment or a document says otherwise it is quoted.

Payments and refunds
* `cancel_order` asks the provider only about the payments of phase 1; an intent
  recorded before phase 3 stays payable (if it is paid, it is reported as late).
* A refund event with an unknown id is matched to whatever NovaCart refund of
  the payment is in flight, so a full dashboard refund completes that request.
* The commit after the response means a webhook can be acknowledged and then
  lost; `AckLost` models it and `MoneyAccounted` and `CapturesSettle` except it
  (`lost`). The comment at `payment_service.py:472` assumes the older order.
* With Razorpay a customer may hold two payable intents; the second payment is
  reported as late. A refund stays `requested`, with nobody told, when worker
  deaths use up the job's attempts first (`RefundSettles` states the margin).
* A deferred event is rebuilt without its provider reference and configuration:
  a Razorpay payment credited from one cannot be refunded through NovaCart, and
  the configuration check is skipped for it (`Recovered` in
  `Gateways_MoneyIsRight`). Recovering a refund event closes the
  payment's `unmatched_payment` record too.
* An event delivered through another configuration's endpoint is claimed there,
  and its redelivery to the right one ignored. Two clicks in the demo checkout
  can open a late-payment record for one payment, and a declined click can
  overwrite a success. A failure event after a refund turns `refunded` to `failed`.
* A problem that recurs after its record was resolved is never reported again:
  the dedupe key is taken (`ON CONFLICT DO NOTHING`).
* An order with total 0 can never be paid; a fully discounted order with shipping
  has an invoice whose lines do not include it.

Gateway setup
* Credentials nobody validated can be enabled. `validate` asks the gateway without
  a transaction and writes the answer on the row as it is afterwards
  (`provider_config_service.py:281`); if the credentials were rotated meanwhile
  the new ones are marked `valid`, and `enable` needs no more. The same race
  exists for the check before live activation. The module's docstring says that a
  configuration "can be ENABLED only when its credentials were validated against
  the provider". `PaymentSetup_GatewayMayTakePayments` excepts exactly the
  configurations in this state (`raced`): one enters it when such an answer is
  written and leaves it with the next rotation or the next answer about the
  credentials it has.
* `rotate` keeps `last_check_ok`, and an event signed with the previous secret
  marks the new webhook verified. Live activation is global, not per gateway, and
  the demo gateway can become preferred while live is active (it is then refused).

Checkout, carts, access
* One cart can become two orders: two checkouts with different keys both read the
  cart before either empties it. The code promises one order per key.
* Of two additions that read the same quantity one is lost. A guest who signs in
  before paying can neither pay for nor look up the order; answers that arrive
  out of order leave a browser with a capability that no longer works.

Accounts
* A login or refresh in flight survives "sign out everywhere" (`survivors` in
  `Sessions_CredentialsHold`). A stale write of the user row can mark an unproven
  address verified (`stale`, in the same property).
* The role-manager check uses assignments and roles loaded before it locked the
  administrators (`role_repository.py:86`), so two changes can together leave
  none, although the docstring says "race-free" (`reliedOnOld` in
  `Staff_ShopIsAdministered`).
* Two first addresses created at once are both default, and reading the default
  then fails. Address and wishlist limits can be overshot
  (`Shopper_ListsStayBounded` says by how much). `update_address` switches the
  default off whenever there are other addresses, and makes none of them the
  default; its comment (`address_service.py:111`) says "Refuse to leave the user
  with zero default addresses".

Back office
* An administrator who edited another's draft may approve it. A draft rule can
  stand under a retired classification. The engine reads the rules twice, and a
  rule retired in between is missing from the second read.
* The active mail account may be one whose test was never accepted, and a delete
  can remove a row that was activated after it looked. Two first uses of the site
  configuration race to create its row. A draft replaced before publication is
  published unseen.
* Old image files are deleted before the commit that stops using them; a failed
  commit leaves the row without its file (`spoilt` in `Listings_ListingIsTrue`).
  Failed deletions leak files. Renaming a
  category to a name with the same slug gives it "-2".
* With an interval of one second and a delayed tick a bucket can be skipped.

Operations
* Shipping is not blocked while a cancelling refund is in flight, and a parcel
  added without fulfilling does not keep a cancelling refund from restocking. An
  invoice asked for before a refund and written after it has no credit note
  (`late` in `Fulfilment_BooksComplete`). An
  invoice prefix "CN" collides with credit notes. A closed return that never
  arrived still uses up its quantity.
* A product can be converted to variants while delivered orders of it may still
  be returned; their units then have no row to go back to.
* An administrator's stock is an absolute number (`product_service.py:210`),
  written over whatever was sold since the page was loaded; the ledger books the
  difference as the administrator's, and so does `UnitsConserved`.
* A missed invalidation can be forgotten. `_replay_missed` (`core/cache.py:151`)
  crosses a namespace off when its answer arrives, even if it was noted again
  while the command was under way; when the second command fails, nothing
  remembers it and the process may serve a list older than its own write until the
  entry expires or the next invalidation. `docs/caching.md` says it "is remembered
  and replayed". The answer may be a writer's or a replaying reader's.
  `Cache_ServedIsFresh` excepts exactly such writes (`dropped`).
* Resetting `attempts` to 0 by hand (`docs/background-jobs.md`) reuses attempt
  numbers, on which the fencing of late results rests.

## 6. Plan

1. Done: `OrderLedger`, `OrderPayment`, `Refunds`, `JobQueue`, `Checkout`; the
   eighteen modules after `Common` with their runs; the proofs of section 4.
2. Next, proofs: the whole of `OrderPayment.TypeOK`; what is true of orders with
   several refunds made outside the shop, beyond the finding.
3. A model of the order in which requests take several row locks (deadlock).
4. The deferral of dispute events; retiring a webhook secret; first use of the
   site configuration.

## 7. Not modelled

Cryptography (signatures, encryption, password hashes), HTTP and the libraries
behind it, e-mail and the bytes of files, the contents and rendering of
documents, request parsing, rate limiting (slowapi), audit and reports, settings,
logging and migrations; the deferral of dispute events (the same mechanism as
for payments and refunds); and what section 6 leaves. Database isolation is READ
COMMITTED, PostgreSQL's default (the engine sets none); row locks, unique indexes
and triggers are modelled where the code relies on them, deadlocks between lock
orders are not.

# Verification of the point-of-sale platform

TLA+ models of this repository's server, of the till that works offline and of the
agents around them; TLC runs that check the models on small instances; and TLAPS proofs
of what the parts where stock, money and goods are at stake guarantee for every number
of orders, members, agents and concurrent requests. `PROJECT.json` lists the runs, the
mutants each property is tried on, the source lines of every definition, the hazards of
the code and what disagrees with its documents.

## 1. Inventory

The system is a FastAPI backend over PostgreSQL (`apps/api/app`, asynchronous
SQLAlchemy, one session per request, isolation READ COMMITTED), a Flutter till
that works offline (`apps/pos_app`), its domain library (`packages/pos_domain`)
and Vue front ends (`admin`, `pos_web`, `customer_order_web`,
`marketplace_web`, `shopping_web`). Parts talk over HTTP; the server's parts
meet in the database rows.

Two facts about the platform decide most of what follows. A handler that reads
a row, awaits and writes it back may overlap any other: few places take a row
lock (the order sequence, the claim of print jobs) or put the condition in the
UPDATE (the bookstore checkout, the marketplace's payment notification). And a
session writes the columns whose value differs from what *it* read, so a stale
read shows up as a lost write or as a write that never happens.

| component | state | operations | what makes it hard | what makes it correct |
|---|---|---|---|---|
| **Bookstore self checkout** `services/bookstore_checkout.py`, `api/v1/bookstore*.py` | checkout rows and lines, `on_hand`/`reserved`, orders | create, cancel, expire, select cash, payment page, gateway notification, confirm cash, exit pass, verify exit, refund | concurrent handlers over one row, late and repeated notifications, expiry against payment | stock never given twice, reserved = active holds, one settlement and one order, one admission |
| **Bookstore settings and invoices** `services/bookstore.py`, `api/v1/invoices.py` | one JSON column; invoice rows | patch settings, rotate and read the door code, issue, re-issue, void | whole-column writes, two transactions after one payment, crashes between them, rounding | the door's code is kept, items make the total of the sale's own invoice, a refund leaves no issued invoice without a cause |
| **Offline sync of the till** `pos_app/lib/data/sync`, `checkout_controller.dart`, `refund_page.dart`, `api/v1/{orders,refunds,invoices}.py` | the till's rows, `sync_queue`, the session; the server's orders, stock, invoices | sale, refund, tick of the worker, upload, refund, invoice, login, crash | ticks that overlap, lost answers, answers after a give-up, uploads that are refused, crash between two steps, change of cashier | nothing lost but what was refused, nothing booked twice, the till believes what is so, the queue drains |
| **Delta pull** `api/v1/sync.py`, `delta_puller.dart` | the till's copies and its cursor | page, store, write the cursor, resync | time stamps taken at the start of a transaction, changes that stamp nothing, pages, overlapping pulls, restarts | a change is missed for known causes only |
| **Order review** `api/v1/{refunds,approvals}.py` | order status, refunds, void requests, stock level, movements | file, approve, reject a refund; request, approve, reject a void | check-then-act without locks, lost updates | effects once, status agrees with what is booked |
| **Reports** `services/reporting.py`, `api/v1/{reports,analytics}.py` | none: queries | summaries by day, hour, store, method, product, period | refunds and voids in any order, time zones, boundaries of a second | figures of a page add up; net revenue is what was kept |
| **Print queue and agents** `api/v1/print_jobs.py`, `remote_print_job_worker.dart`, `pos_web/src/stores/printer.ts` | job rows; what each agent holds | create, poll (requeue, claim), print, report, lapse | claims that lapse under a slow agent, printers that are off, lost reports, sessions that do not re-read a locked row | done means printed, or taken up where the printer was off; given up only after all tries; every job ends |
| **Stock documents** `api/v1/{inventories,purchasing}.py`, `book_receive.py` | levels, movements, transfers, stocktakes, purchase orders | adjust, record, transfer, count, order, receive | overlapping receipts, movements sent again in batches | what documents say is in the ledger, each movement once |
| **Catalogue, market place and shopping pages** `api/v1/{categories,products,options,public_orders,public_marketplace,public_shopping,marketplace_admin}.py` and their services | categories, products, options, overrides, listings, favourites, settings of online orders | edit, move, hide, delete; browse; order | the same visibility decided by many queries | what is shown can be ordered, at the price shown |
| **Guest orders and online payments** `api/v1/{guest_orders,table_sessions,public_orders,marketplace_payments}.py` | guest orders, QR sessions, points, reviews | submit, accept, ready, deliver, cancel, complete, merge, capture, notify | statuses checked when read, repeated notifications, failures after the claim | a payment settles once, survives stale writes, and is recorded |
| **Loyalty and order numbers** `services/{order_number,loyalty_engine,loyalty_maintenance}.py`, `api/v1/{members,coupons}.py` | points, transactions, levels, coupons, sequences | upload, redeem, reverse, expire, greet, book by hand | a lock in the middle of a handler, first row of a day, repeated uploads | numbers without gap, points and coupons booked with the order |
| **Members** `api/v1/{public_members,public_member_center,alliance}.py` | accounts, members, links, codes, wallets, referrals | log in, register, bind, refer, top up, join | unique keys met late, codes, two alliances, points written by what was read | a referral is paid once, and in points unless two requests met; a tenant's sales keep working (refuted) |
| **Staff accounts and till sessions** `api/v1/{auth,users}.py`, `providers.dart` | users, refresh tokens, terminal keys, the till's session | sign in, refresh, sign out, change, lock | rotation against lost answers and overlapping refreshes, tokens that expire | a till is signed out for a cause only |
| **Shifts** `api/v1/shifts.py` | shifts; the drawer | open, close, summarise | sales uploaded later, refunds of other shifts | a drawer counted right shows no difference (refuted) |
| **Tenants and plans** `api/v1/{tenant_apply,platform,tenant_settings}.py`, `core/{otp,usage}.py` | applications, codes, tenants, subscriptions, counters, settings | apply, verify, approve, reject, plan, count, list | codes of earlier applications, limits checked before use | a tenant comes of a verified application |
| **Consigned books** `api/v1/books.py`, `services/book_*.py`, `consignment_settlement.py` | books, barcodes, levels, categories, shares | look up, receive, import, sell, refund, settle | one session for a whole file, rounding per refund | answers are booked; the settlement is net sales |
| **Events** `api/v1/events.py` | event, registrations | register, check in, cancel, change | capacity counted before the insert | overfull for a cause only |
| Promotions and cart; uploads, audit, webhooks; front ends; printer plugin | little | prices of one cart, output, device I/O | none that is stateful | not modelled |

How the parts meet: a till's sale becomes an order through `upload_order`, which
takes the day's number, moves stock, books points and coupons, and counts
against the plan; a refund at the till becomes `refund_order`, which undoes
them at once or after a review; the reports read what is left. A bookstore
checkout takes the same `on_hand` column by conditional UPDATEs. A guest order
is merged into an order of the till. The till's catalogue comes by the delta
pull. Orders and front ends create print jobs. The hazards that follow are
listed in `PROJECT.json`, each at its line.

## 2. Modules

| module | is about | composed with |
|---|---|---|
| `Baskets` | lines of checkouts; `Demand(S, p)`, the copies a set of checkouts asks for | extended by `BookstoreCheckout` |
| `BookstoreCheckout` | the checkout's handlers | implements `StockHold` |
| `StockHold` | what the shop promises about its copies: abstract specification | instantiated in `BookstoreCheckout` |
| `BookstoreCheckoutProofs`, `PosSyncProofs`, `GuestOrdersProofs`, `PrintJobsProofs` | theorems on the module each is named after | each extends it |
| `OrderReviewProofs` | theorems on `OrderReview` and `Reports`, sums over finite sets, and the invoice of `BookstoreShop` | extends `BackOffice` |
| `SalesProofs` | theorems on `Loyalty`, `Books` and `Events` | extends `OrderReviewProofs`, for its sums |
| `AccountsProofs` | theorems on `Members`, `Accounts` and `Tenants` | extends `BackOffice` |
| `StoresProofs` | theorems on `StoreStock`, `BookstoreShop`, `DeltaPull` and `Storefront` | extends `BackOffice` |
| `BookstoreShop` | the bookstore's settings, door code, basket and invoice | beside `BookstoreCheckout`, whose races are one step here |
| `PosSync` | till, network and server of the write path | implements `SaleOnce` |
| `SaleOnce` | what the till promises about a sale: abstract specification | instantiated in `PosSync` |
| `DeltaPull` | the till's read path | |
| `OrderReview` | refunds, voids and reviews at the server | takes over where `PosSync` stops: partial refunds, reviewers |
| `Reports` | what the reports say of the orders | extends `OrderReview` |
| `PrintJobs` | the queue and its agents | |
| `StoreStock` | documents of the stock | |
| `Catalog` | categories, products, options, menu, dialogue, check of a line | |
| `Storefront` | the market place's listings, feeds and favourites; the shopping pages; the checks of their orders | extends `Catalog` |
| `GuestOrders` | guest orders, online payment, QR sessions, reviews | |
| `Loyalty` | points, order numbers, levels, coupons | |
| `Members` | accounts, links, codes, referrals, wallets | |
| `Accounts` | staff sign-in, tokens, the till's session | |
| `Shifts` | shifts and drawers | |
| `Tenants` | applications, plans, limits, settings, listings | |
| `Books` | consigned books and their settlement | |
| `Events` | an event, its tickets and its door | |
| `BackOffice` | the parts of the server that keep rows of their own, side by side; what the parameters of each must satisfy | extends `Reports`, instantiates twelve others |
| `MCBackOffice`, `MC...` | instances for TLC | each extends the module it is named after |

Definitions marked `Mutant:` or called a mistake are not part of the models:
each is a plausible bug, named in `PROJECT.json`, under which the property it
is listed with fails.

Conventions. A handler that decides by rows it has read and writes after an
await is two actions, `X(w)` and `CommitX(w)` (or `CommitX` shared by several
handlers), with what it read kept in the record of its worker (`session`,
`request`, `job`); a column that is as it was read is not written. A handler
whose one UPDATE carries its condition, or that checks nothing another request
could change, is one action. `Abort` is any error, a deadlock that PostgreSQL
breaks included. A unique key met by an insert makes the request fail (`Clashes`,
`Unique`). `requests` bounds what is asked of the server, and is the clock where
a module needs one.

### BookstoreCheckout

`row[c]` is the row of checkout `c`: `active` is `reservation_active`, `late` is
`paid_after_expiry`, `lapsed` and `pass` say whether `expires_at` and
`exit_expires_at` have passed, `gate` and `ref` are the gateway and the trade
number that settled it. A handler that decides by a row and writes after an await
is two actions with what it read kept in `job[w]` (`CreateRead`/`CreateCommit`,
`PageRead`/`PageCommit`, `ExitRead`/`ExitCommit`). A handler whose single UPDATE
repeats its checks (`select_cash`, `mark_paid`, `refund_checkout`,
`_close_pending`, `_reserve`) is one action. `ecpay_notify` compares the amount
before the UPDATE; it can still be one action, since the total changes in
`select_cash` only, which demands that no payment page was ever handed out.
Several statements of one transaction on different rows are one action because
each locks its row until the commit and none waits for a row in the wrong state.
Each read of the clock is a Boolean that an action of its own sets. The gateway
(`Capture`) is external: it takes a form's payment, each trade number once, and
may repeat a notification without bound.

Abstracted: prices are two totals (online, and with the cash discount); catalogue,
presence tokens and closed shops refuse requests early and change nothing;
partner notifications run after the commit and change no column that is
modelled; a deadlock of two transactions over the rows of two products rolls one
back, which is `CreateFail` or a request that never came.

### StockHold

`free[p]`, `fate[c]` and `late`. A checkout takes all its copies or none, and only
when they are free; a hold ends in a release or a sale; a payment after the release
is honoured (`SellLate`); a sale returns once. Refinement mapping: `free` is
`on_hand - reserved`, `fate` renames the status, `late` is `paid_after_expiry`.
The mapping says nothing of how holds are counted: that the two columns move
together is what refinement shows.

### BookstoreShop

`json` is `store.bookstore_json`; `UpdateSettings`, `RotateDoorQr`, `GetDoorQr` and
the first sale (`WithIdentity`, which makes the app's user and terminal) each
write all of it from what they read. `checkout` is one sale with the arithmetic of
its basket: list price, app price, cash price, redemption with its cap, discount
by largest remainder, items of whole copies at whole prices (`InvoiceLines`).
`invoices` has the items and the total of every invoice that the gateway issued, and who
asked for it: the sale (`IssueLook`) sends `InvoiceLines`, the staff's screen (`StaffIssue`)
sends `OrderItems`, the lines of the order as they were before any discount.
Paying is `Claim` (the conditional UPDATE) and `CommitPaid`; issuing the invoice
and voiding it for a refund are transactions of their own after it (`IssueLook`,
`CommitIssue`, `RefundLook`, `CommitVoid`), and `Crash` may come between any two.
`undone` and `excused` remember that a known gap was met. Amounts are of one
basket; dates, carriers and signatures are left out.

### PosSync

`sale`, `queue` and `todo` are the till: rows, `sync_queue`, and the calls a tick or
the checkout screen has yet to make. `req[q]` is a request under way, with the
entry it is for, the user whose token it carries, who waits for the answer, and
its stage in the handler. `CallFails` covers the three things a till cannot tell
apart: the request never arrived, the server failed, or it is still at work and
nobody hears its answer. `Crash` keeps the database only. `Settle` is the
worker's table of answers: an error waits for a backoff, a 4xx other than 401, 408, 409
and 429 deletes the entry. `_running` is not modelled because `flush()`, which
every checkout calls, ignores it.

An upload is refused (`TurnsDown`) when another cashier than the seller sends it who is
no store manager (`MayUpload`), and, of a sale in `Disputed`, at any try: that is the
quota of the plan (402), the role, store or terminal of the session (403), the member,
products, options and prices, the coupon and the redeemed points (400, 409). What those
rules look at is left out, so any of them may strike at any time; the till drops the
entry of a sale that is refused, and `refused` remembers the sale.

Abstracted: one product and refunds of the whole sale; backoff lengths; the e-invoice
platform (`GatewayIssue`, external) takes an order number once and may refuse.

### SaleOnce

`rung[s]` and `booked[s]` are what became of a sale at the till and at the server,
`gone[s]` the copies that left the inventory for it, `owed` the sales the till has still
to upload and `known` those it holds for stored. Only what was rung up is booked, and
once; only what the till took back is taken back, and once; a sale is owed until it is
booked or the server has turned it down (`TurnDown`, which `denied` remembers, and after
which another try may still book it). Refinement mapping: `rung` is the `phase` of the
till's row, `booked` the status of the server's order, `owed` the sales with an entry
`uploadOrder` in `sync_queue`, `known` the rows marked as synced, and `denied` the sales
that the server answered with a refusal (`refused`). It promises nothing of the entry of
a refund: sent before the upload it is answered with 404 and deleted.

### DeltaPull

`server[r]` is a version and `updated_at`, the time its transaction began (`began[w]`),
seen only after `CommitWrite`. A change of barcodes alone leaves `updated_at` as it was,
so `CommitWrite` stamps any subset of what it changes. A pull reads the cursor, asks for
a page of the rows after it, stores the page in one batch and writes the cursor in
another; `_pullInFlight` lets a second caller join; `ForceFullResync` clears the cursor
and does not wait. `Fail` and `Crash` may end a pull anywhere. `excused` has the rows
that the four known gaps have put out of reach.

### OrderReview and Reports

A session reads the rows it decides by, reads the level (after a flush, which
locks the rows written so far), and commits the columns that differ from what it
read. One product at a price of one; order `o` is `Total(o)` of it. Abstracted:
several lines and products; points and coupons (see `Loyalty`); uploads of
one store take turns at the row of the order sequence.

`Reports` adds the reports as operators on that state: `Summary`, `DailySeries`,
`HourlyHeatmap`, `WeekdayPattern`, `PaymentMix`, `StoreComparison`, `AovDistribution`,
`TopProducts`, `CategoryMix`, `DiscountStats`, `PriorPeriod`, with a tenant's time zone
and stores that are deleted. Times are ticks of a clock finer than a second (`Second` of
them make one), because the tills' clocks are and `prior_period` ends a whole second
before the period begins: a sale of that second is in neither (`Between`). The last
bucket of `AovDistribution` ends at `Ceiling`, as the code's does. `Kept(o)` is the
reference: what the till took for `o` less what approved refunds gave back.

### PrintJobs

`job[j]` is the row with `claimed_at` as null, fresh or older than five minutes;
`session[a]` is what the server has read for agent `a`'s request; `held[a]` and
`report[a]` are the agent. `PollRead`/`PollCommit` are `poll_pending_jobs` up to,
and from, its locking query; `Requeued` and `Claimed` write what the session
believes has changed. `ReportRead`/`ReportCommit` are complete and fail. The two
kinds of agents differ when a report of failure fails too, and `Errs` has both.
`Tills` are the agents whose printers can be switched off (`off[a]`, `Switch`), which they
are at first: `Dispatch` then sends nothing to the printer, the job is reported as
complete, and `skipped` remembers it. The browsers' agent has no such switch.
Not modelled: reports that reach the server after the agent gave up on them.

### StoreStock

`onHand[s][p]` is a level, or None without a row; `booked[x][p]` the movements that
refer to document `x`. `Ask(w)` reads the document, `ReadLevel(w)` the levels, and one
`Commit...` writes both. Products whose stock is not kept (`Untracked`) have no
movements. `RecordMovements` is the till's batch: ids that have a row are passed
over. Quantities are small integers, negative where the code takes any.

### Catalog and Storefront

`category[c]` is a row of the tree; a request about one reads the whole tree, checks
cycle and depth (`MayHold`) and commits, so two moves may overlap. Products and one
group of options with two choices change in one step. `OnMenu` and `ShownPrice` are
the public menu, `Confirms` the dialogue of the customer's page, `Orderable`, `Price`
and `Accepts` the checks of the order: two readings of the same rows that the property
compares. `Storefront` adds the tenant's modules, listings with their review,
business hours (a Boolean), feed categories with the aliases of a tenant's own, `Listed`
and `Card`, what the button of a card puts in the cart (`Adds`), and `Takes`, the checks of
the market's order. `ordering[s]` is `online_ordering_json`, patched by `SetOnlineOrdering`
through `Normalised`; the shopping pages are `OnPicker`, `ShoppingMenu`, the way of delivery
picked first (`PickedWay`), the buttons of the checkout (`Sends`, `SentMethod`) and the option
sheet (`SheetConfirms`), and `TakesShopping` is the server's check of their order.
Distance, search, sorting, pages and least sums are left out.

The property excuses two kinds of groups of options, on which page and server
disagree whatever the order of requests: one that asks for choices and shows none
(`Answerable`), and, on the shopping pages, one whose `min_selections` is more than
`required` says, since `OptionSheet.vue` does not read that column and
`validate_line_options` does: the customer confirms, and the order is refused.
Outside the model is also a customer who changes the way of delivery by hand to one
for which the store has no payment.

### GuestOrders

`guest[g]` is the row, `order[o]` the till's order and the guest order it names,
`qr[s]` a QR session. `Load` and `CommitStatus` are accept, ready, cancel, complete and
delivery; `Merge` and `Upload` are the two ways into an order of the till. Orders come
from tables, the shopping pages (`SubmitShopping`) and the market place, there one by
one or as a batch (`SubmitBatch`): several carts in one transaction, each priced against
the member's whole balance of points, which only the settlement lessens. `Capture` is
the gateway (external). A notification reads (`NotifyRead`), claims by its conditional
UPDATE (`NotifyClaim`) and settles the points (`CommitSettle`); `settled` is the mark that
the points are settled. `posted[g]` counts settlements. Lines of an order are left out.

### Loyalty

An upload reads order and member, then waits for the row of its day
(`FindSequence`, `Locks`), inserts it if there is none (`InsertSequence`, which may meet
the unique key), and commits the order, its number, the points and the coupon
together. The other handlers that move points (by hand, refunds, voids, expiry,
birthdays, coupons, levels) read and commit. `entries[o]` is the ledger of order `o`.

### Members

`account[a][p]` is the alliance's account of a phone, `local[t][p]` the tenant's member,
`link[t][p]` the row that joins them; `enrolled[t]` the active rows of a tenant's alliances.
`code[k]` is a login code with its scope; `credit[p]` the entries of the ledger, those
for a friend, for one's own registration and all others. An account's points are
written by what a request has read (`Paid`, `CommitPoints`); besides referrals they
move by a sale at the till (`Sale`), by an order in the market place, which takes what it
redeems and no more than is left (`Settle`; `owed` is what was no longer there), and by
the birthday job (`Greet`). `crossed` has the accounts that two requests were writing
at once. Login at the market, at a table and by LINE, registration with and without a
referral, `ApplyReferral`, `JoinAlliance` and `ApproveListing` are as in the code, with
their unique keys. `Known` are phones that have an account and its referral code from the
start. Profile data, addresses, passwords and messages are left out.

### Accounts

`user[u]` has counters and locks, `token[j]` a refresh token and what became of it,
`session[c]` and `key[c]` what till `c` keeps, `waiting[c]` the calls that wait for the one
refresh of a till. `CommitRefresh` revokes the old token and makes a new one, and
its answer may get lost (`GiveUp`). A token expires at any time (`Expire`), which stands for
`JWT_REFRESH_TTL_DAYS`. `cause[c]` records a reason to sign a till out: somebody signed
out, an answer was lost or the till killed, the token it kept was revoked or had expired, the
account closed. An access
token may be refused at any time. Passwords, PINs and codes are right or wrong.

### Shifts

`shift` is the sequence of rows, `rung[o]` the till that rang order `o` up, `sale[o]` the
order at the server with its `shift_id` and `created_at`, `drawer[c]` the cash that is really
there. `OrdersOf` is the query of `_compute_summary`.

### Tenants

`app`, `otp` and `tenant` are sequences of rows. `CodesOf(a)` is the query of `verify_otp`
with `related_id`; wrong attempts are rolled back with the refused request, as in the
code. `Provision` makes a tenant of an application. Subscriptions are counted per
plan, usage per month, and `CommitSettings` writes the one JSON column.

### Books

`ReceiveBook` and `ImportBooks` take a sequence of codes through one session that sees
its own writes (`Lives`, `Existing`) and commits at the end, where unique keys are met
(`Unique`). `told` is what the answers said was received. TAAZE's site
(`Resolved`) is external: it knows each code's product. Sales, refunds, reviews
and voids of one book follow, and `Settlement` is the report of shares.

### Events

`event`, `ticket[t]`, and `admitted[t]`, how often the door let the guests of `t` in.
`excuses` has the overlaps and changes after which the hall may be overfull.

## 3. Runs

Every property of a passing run is also run against a mutant of the code that
breaks it.

| run | instance | states | what it shows |
|---|---|---|---|
| `BookstoreStock` | 2 checkouts for the last copy of one book (one also wants 2 of 3 copies of another), 2 requests at a time, 1 payment attempt | 50,858 | holds, stock and orders agree in every interleaving; refinement of `StockHold` |
| `BookstorePayment` | 1 checkout, 2 payment attempts, 2 requests | 3,428 | one settlement, matched by a capture; one admission; captured payments settle |
| `PosSyncOverlap` | 1 sale, 2 cashiers (1 manager), 2 ticks and the counter, 2 requests, 1 fault; the sale may be refused | 854,884 | stock moves once; an invoice that the till holds for issued is; refinement of `SaleOnce` |
| `PosSyncDelivery` | 1 sale, which may be refused, 1 cashier, 1 tick, 2 requests, 2 faults | 49,590 | no sale is lost but one that the server refused; each is booked or refused; uploads and refunds are settled |
| `PosSyncShiftChange` | 2 cashiers, no fault, no other refusal | violated | a sale is lost at a change of cashier |
| `PrintJobsSettle` | 2 jobs, 1 agent, a till, 3 tries, 2 faults | 253,928 | done means printed or skipped with the printer off; given up only after all tries; each job ends |
| `PrintJobsClaim` | 1 job, 2 agents, no fault | violated | two agents hold one job |
| `OrderReviewTwice` | 1 refund, 2 requests | violated | a refund is booked twice |
| `GuestOrders` | 2 guest orders (one may be on file, accepted; by a table, the market place or the shopping pages), 1 order of the till, 1 QR session, 2 requests at a time, 3 in all | 95,309 | payments settle once, outlive stale writes, and are recorded in the end |
| `BackOffice` | the fourteen parts below, 2 requests at a time | 680,982 | seventeen properties, below |
| `MemberAlliances` | 1 tenant, 2 alliances | violated | a tenant gets two alliances, and its members' sales fail |
| `ShiftDrawer` | 2 orders, 1 till | violated | a drawer counted right shows a difference |

`BackOffice` is one run over the parts of the server that keep rows of their own.
They share no variable, so a behaviour of their composition is one of each,
interleaved, and no property here relates two: `part`, chosen in the first state,
says which of them the behaviour is about, the others keep their first values.
`BackOffice` has that for any values of the constants, and `MCBackOffice` is its
instance. It restricts what need not be met twice (`MCInit`, `MCNext`): a part that
is not looked at keeps one first state, of the three kinds of groups of options one
is met with an empty shelf, and the requests of "orders" are about order `o1`.

| part | instance | properties |
|---|---|---|
| orders | order `o1` of two pieces, a refund of all and one of a piece, a void | `NothingBookedWhilePaid`, `ApprovedIsBooked` |
| reports | two orders three seconds apart, two ticks to a second, periods that begin within a second after a sale, a last bucket that the larger order is beyond; two stores, two time zones, requests one at a time | `TakingsAreReportedOneAtATime` |
| stock | one purchase order, transfer, stocktake; a tracked and an untracked product; two movements of a till; 3 requests | `StockIsBooked` |
| storefront | three categories (a chain of two), one product, two choices in a group of one of three kinds, one store with its listing and its settings of online orders, two modules, requests one at a time; 3 changes | `ShownCanBeOrdered` |
| loyalty | five sales of two days, three levels, a coupon; 3 requests | `SaleIsNumberedAndPosted` |
| members | three phones, one of them registered, one tenant, two alliances, one code; orders that redeem a point or none; 4 requests | `ReferralPaidOnce` |
| accounts | one user, one till, 2 wrong tries; 5 requests | `SignedOutForCause` |
| shifts | two orders, one till; 5 requests | (types; see `ShiftDrawer`) |
| tenants | one address, one tenant code, two plans; 4 requests | `TenantWasVerified` |
| books | two products of one title, a copy of it, one of no title, two files; 4 requests | `AnsweredIsBooked`, `SettlementIsNetSales` |
| pulls | two rows, pages of one, two writes (of the rows or of barcodes only), two pulls, 2 ticks of the clock | `MissedForCause` |
| shop | one basket of two books, three settings, two door codes; 3 requests | `DoorCodeKept`, `InvoiceItemsMakeTotal`, `InvoiceOutlivesSaleForCause` |
| events | one event of 0, 2 or 3 places, two tickets of 1 or 2; 5 requests | `FullForCause` |
| printing | one job, two tills, 3 tries, 2 faults | (types; see `PrintJobsSettle`) |

`BackOfficeTypeOK` is the type invariant of each of them. The two workers are
interchangeable and symmetry is used for them.

Bounds. Two requests at a time are enough to place any step between the read
and the write of another, and the races here are between pairs. The number of
requests in all is the least that reaches every action and the cases the
property is about: two friends of one member need to register and to apply, which is
four requests and three phones, a tenant needs an application, its review and
what follows (4), a rotated token needs a sign-in, two refused calls and a refresh
(4 or 5).
Two checkouts and one contended copy give each of them the chance to win, lose,
expire and be paid late. Faults are lost messages, restarts and slow agents.
`MaxAttempts`, `MaxFails` and `MaxRetries` are the limits of the code
(`MAX_PAYMENT_ATTEMPTS`, `ACCOUNT_LOCK_THRESHOLD`, `_MAX_RETRIES`), made smaller;
the page of the delta pull is one row instead of five hundred, so that full pages
happen. A single sale suffices in `PosSync` because rows, entries and requests of
different sales share nothing but the ticks that carry them. Reports and
storefront take requests one at a time: overlapping refunds lose an amount in
`refunded_cents` (section 4), and overlapping moves of categories can make a cycle,
so neither property holds beyond that; overlapping refunds and voids are the part
"orders". Deadlock is not checked: all systems here may come to rest with
everything paid, printed, synchronised or reviewed, or with no requests left.

Fairness. `BookstoreCheckout`: a request that has begun ends, and the gateway
repeats a notification until it is acknowledged; nothing is assumed of customers
and staff, nor of clocks. `PosSync`: the worker's timer starts ticks, a backoff
ends, a caller makes its next call and the server answers what it receives;
nothing is assumed of sales or logins, and faults are finitely many. `PrintJobs`: the clock
runs (a claim lapses), agents poll every few seconds and work through what they
hold. All of that is weak fairness. `GuestOrders`: a request that has begun ends,
by its commit or by an error (weak fairness), and a notification that can be read,
claimed or settled again and again is so at last (strong fairness): the
gateway repeats it until it reads `1|OK`, workers are busy with other requests in
between, and the server does not fail every single time.

Where a property stops. `OversoldOnlyByLatePayment` allows overselling by late payments
because `mark_paid` honours them. `NoSaleLost`, which a document states, is violated by
two cashiers, and by one whose sale a rule of the server refuses; `LostOnlyIfRefused` is
what the code keeps of it. `DoneWasPrinted` leaves out the jobs that a till completes
with its printer off, which is the default of its settings. `EntryIsSettled` leaves
invoices out: two lost answers can leave an order with two invoice rows, after which
`issue_invoice` fails for ever. `JobIsSettled` is true of one agent: with two, a poll
acts on a stale read of what the other did, and a job can remain `printing` with no
claim to lapse. `MissedForCause`, `FullForCause`, `InvoiceOutlivesSaleForCause` and
`SignedOutForCause` name the gaps that the code has and say that there is no other:
among them the expiry of a token and a change of barcodes alone. `ReferralPaidOnce` is
about the ledger for every member, and about points for those whom no two requests were
changing at once, less what an order redeemed and was no longer there: the two lose an
update. `InvoiceItemsMakeTotal` says of an invoice that staff issue that its items
exceed its total by the discount. `TakingsAreReportedOneAtATime` leaves out orders whose
void was approved, which a refund filed earlier brings back into the reports, and says
what is between a period and the one before it and beyond the last bucket.
`SettlementIsNetSales` leaves out orders that are refunded in full or voided and refunds
that are pending or rejected, which the settlement deducts all the same.
`ShownCanBeOrdered` leaves out a required group all of whose choices are hidden, and on
the shopping pages a group whose least number of choices the option sheet does not
count.

## 4. Findings

Five runs show the code doing other than what a document or comment says; each is
quoted in `PROJECT.json`.

1. `PosSyncShiftChange`: a sale not yet uploaded when another cashier logs in is
   refused with 403 and deleted from the queue.
2. `OrderReviewTwice`: overlapping approvals of a refund apply its effects twice.
3. `PrintJobsClaim`: a job that becomes pending between the two queries of a poll is
   handed out without being marked, and again to the next agent.
4. `MemberAlliances`: the approval of a listing enrolls a tenant in the marketplace's
   alliance although it is in another, and `tenant_alliance`, which expects one row,
   then fails every upload of a member's sale.
5. `ShiftDrawer`: a cash sale that is in the drawer and not yet uploaded makes a
   difference when the shift closes.

Behaviour of the same kind that the models have and no run is about:

- Bookstore: an invoice that staff issue has the items before the discount beside a
  total after it; a payment page in flight while cash is selected hands out a form
  (`models/bookstore.py:48` says the method is "locked once cash is selected"); two
  pages loaded at once use one trade number; the limit of pending checkouts is counted
  before the insert; a lapsed hold waits for the tenant's next checkout; a crash after
  `mark_paid` leaves a sale without an invoice; two patches of the settings at once keep
  the last.
- Orders and stock: two sessions that read one level lose an update, so `on_hand` is not
  the sum of the movements (`docs/sync_protocol.md:81` says the server reduces them to
  it); overlapping refunds lose one in `refunded_cents`; an approved refund of a voided
  order books it again and brings it back into the reports; a transfer's status is
  written without a look at the old one; overlapping receipts book more than was
  ordered; setting a level to what it reads as when there is no row commits nothing.
- Till: an upload that is answered with 400, 402, 403 or 409 is deleted from the queue,
  so a sale over the plan's quota, with a changed price or with a spent coupon stays at
  the till; a refund sent before its upload is dropped; a crash leaves a pending invoice
  unqueued; a refresh in flight signs the till in again after a sign-out; a network
  error of a refresh signs it out. A print job that a till takes up with its printer off
  is completed with nothing printed.
- Reports: the last second before a period is in neither it nor the one it is compared
  with; totals of 10^9 cents and more are in no bucket.
- Guest orders: the merge by `upload_order` leaves the table's QR sessions open, though
  `models/table_session.py` says that photographed codes cannot be reused after
  checkout; a notification repeated after its commit is answered `0|FAIL`; an order is
  cancelled whatever its payment.
- Catalogue: overlapping moves make a cycle of categories; a parent's depth is checked
  and not that of what moves with it; the menu omits a required group without visible
  choices that the order demands; the shopping pages' option sheet confirms fewer
  choices than `min_selections` and the order is refused; a product under a hidden
  grandparent is off the menu and in the market's feed; a page of favourites lists
  deleted stores.
- Loyalty and members: overlapping uploads of one member lose points, as do two
  referrals of one member, or a referral and a purchase, that meet; redeeming over the
  cap is a 400 after which the till drops the sale; expiry and birthday jobs that
  overlap take or give twice; a wallet's top-ups lose one; a second unconsumed login
  code makes `verify_otp` fail; `create_member` does not retry a number that is taken
  although `member_no.py` says callers do.
- Tenants: a rejected application's subdomain stays taken; a code verified while the
  application is rejected brings it back; wrong codes are rolled back with their
  request, so their limit is not reached; overlapping plan changes leave two active
  subscriptions, which `get_active_plan` refuses; limits are checked before use.
- Books: two first receipts at once make two categories, after which new titles fail; a
  deleted book's sku cannot be received again; the settlement deducts refunds of orders
  it has left out.
- Delta pull: a change of a product's barcodes alone is never sent to a till that has
  the product; rows of one transaction are skipped across a page, a transaction may
  commit behind the cursor, and a pull that overlaps a resync writes an old cursor.
- Events: places are oversold by overlapping registrations, two doors admit one ticket,
  and a capacity may be set below what is sold.

## 5. Proofs

Eight modules hold theorems. All of them are for arbitrary constants: any number of
checkouts, sales, orders, documents, members, jobs, agents, workers and requests
that overlap. Every safety property that a run checks is one of them, but for the
types of the back office as a whole.

| module | theorem | property |
|---|---|---|
| `BookstoreCheckoutProofs` | `TypeCorrect` | `TypeOK` |
| | `ReservationsExact` | `ReservedMatchesHolds` |
| | `StockExact` | `StockLedger` |
| | `NoOversell` | `OversoldOnlyByLatePayment` |
| | `SettlesOnce` | `OneOrderPerSettledCheckout` |
| | `OnlineSalesCaptured` | `OnlineOrderIsCaptured` |
| | `OneExitPerSale` | `DoorAdmitsOnce` |
| | `SettlementFinal` | `SettlementIsFinal`, an action property |
| | `StockPromiseKept` | `KeepsStockPromise`: refinement of `StockHold` |
| `PosSyncProofs` | `PosSyncTypes` | `TypeOK` |
| | `StockMovedOnceAlways` | `StockMovedOnce` |
| | `SalePromiseKept` | `KeepsSalePromise`: refinement of `SaleOnce` |
| | `SyncedIsStoredAlways` | `SyncedIsStored`, a part of `SyncInv` |
| | `LocalInvoiceIsRealAlways` | `LocalInvoiceIsReal` |
| | `LostOnlyIfRefusedAlways` | `LostOnlyIfRefused` |
| `GuestOrdersProofs` | `GuestOrdersTypes` | `TypeOK` |
| | `SettledOnceAlways` | `SettledOnce` |
| | `PaymentSurvivesAlways` | `PaymentSurvives`, an action property |
| `OrderReviewProofs` | `OrderReviewTypes` | `TypeOK` |
| | `NothingBookedWhilePaidAlways` | `NothingBookedWhilePaid` |
| | `ApprovedIsBookedAlways` | `ApprovedIsBooked` |
| | `BookedOnceInTurn` | `BookedOnce`, for one request at a time |
| `PrintJobsProofs` | `PrintJobsTypes` | `TypeOK` |
| | `DoneWasPrintedAlways` | `DoneWasPrinted` |
| | `GivenUpAfterTriesAlways` | `GivenUpAfterTries` |

The parts of the back office are proved twice: of the part by itself, as
`X!Spec => []P` under the assumptions on its parameters, and of `BackOfficeSpec`,
whose run checks the property. The second follows from the first's inductive
invariant, since a step of the composition is one of the part that is looked at.

| module | of the back office | property | of the part by itself |
|---|---|---|---|
| `OrderReviewProofs` | `TakingsAreReportedAlways` | `TakingsAreReportedOneAtATime` | `TakingsAreReportedInTurn` |
| | `InvoiceItemsMakeTotalAlways` | `InvoiceItemsMakeTotal` | `InvoicesAlways` |
| `SalesProofs` | `SaleIsNumberedAndPostedAlways` | `SaleIsNumberedAndPosted` | `LoyaltyAlways` |
| | `AnsweredIsBookedAlways` | `AnsweredIsBooked` | `BooksAlways` |
| | `SettlementIsNetSalesAlways` | `SettlementIsNetSales` | `SettlementAlways` |
| | `FullForCauseAlways` | `FullForCause` | `HallAlways` |
| `AccountsProofs` | `ReferralPaidOnceAlways` | `ReferralPaidOnce` | `MembersAlways`, with the types of accounts and links |
| | `SignedOutForCauseAlways` | `SignedOutForCause` | `AccountsAlways` |
| | `TenantWasVerifiedAlways` | `TenantWasVerified` | `TenantsAlways`, with `TenantsTypeOK` |
| `StoresProofs` | `StockIsBookedAlways` | `StockIsBooked` | `StockAlways`, with the types of purchase orders |
| | `DoorCodeKeptAlways` | `DoorCodeKept` | `ShopAlways` |
| | `InvoiceOutlivesSaleForCauseAlways` | `InvoiceOutlivesSaleForCause` | `ShopAlways` |
| | `MissedForCauseAlways` | `MissedForCause` | `DeltaAlways`, with `DeltaTypeOK` |
| | `ShownCanBeOrderedAlways` | `ShownCanBeOrdered` | `StorefrontAlways` |

`NothingBookedWhilePaid` and `ApprovedIsBooked`, which that run checks too, are
theorems of `OrderReview`, whose module `BackOffice` extends.

Each part is laid out the same way: the inductive invariant as a conjunction of
named parts, lemmas on what a request has read, one lemma or step per action,
one step per part that the action can disturb, and the theorems last. TLC checked
each inductive invariant before it was proved.

One theorem has a hypothesis on the instance, and a run shows that it is needed:
`BookedOnceInTurn` assumes one worker, and `OrderReviewTwice` books a refund twice with two.

### Assumptions

- `BookstoreCheckout`: the checkouts are a finite set (an instance has finitely many in
  its lifetime), quantities and stock are natural numbers, `Owner` is a function to
  customers, limits and totals are natural numbers. Nothing is assumed of the number of
  workers or customers.
- `PosSync`: the administrators are among the cashiers, and the sales that may be
  refused (`Disputed`, any of them) among the sales; the checkout screen (`Counter`) is
  not a tick of the worker, and the value for "nobody waits any more" (`NobodyCalls`) is
  none of them.
- `GuestOrders`: what is on file at first are rows (`OnFileType`), and no row is the
  value that stands for its absence (`NoneIsNoRow`); a price is positive and what points
  may pay is less (`max_redeem` is a share of the total).
- `OrderReview`: a refund is not an order (`RefundsAreNotOrders`: the rows are of two
  tables, and `booked` has one entry for each of either), is of an order and of at most
  its total.
- `PrintJobs`: agents are finitely many (`AgentsFinite`, since the argument counts
  them), tills are among them, and they serve jobs (`ServesJobs`: a poll asks by store
  and printer).
- The parts of the back office: each module that is instantiated has its assumptions as
  a definition (`StockParameters`, `LoyaltyParameters`, ...), which is a hypothesis of
  its theorems. `BackOffice` assumes them of its instances (`StockParametersHold` and
  the others), so that the theorems on `BackOfficeSpec` need no more and TLC evaluates
  them in the run. They say: orders, refunds, phones, tickets, rows, writers, categories
  and options are finitely many; quantities, prices, rewards and bounds are natural
  numbers; `None` is none of the values it stands beside.
- Beyond that: times and zones are integers, a second and a day have a length, a period
  ends no earlier than it begins, the classes of totals begin at zero and the last ends
  anywhere (`Reports`); a line of a stock document has a quantity, and no id is of two
  kinds of documents, because a movement's `ref_type` tells them apart (`StoreStock`); a
  sale is of a day and may name a coupon (`Loyalty`); the market is an alliance, and
  what an order redeems is a natural number (`Members`); a share is at most a hundred
  percent (`Books`); a page of the pull has room for a row, the till taking the default
  `limit` of 500 (`DeltaPull`); a patch of the settings has its percentages in the range
  that `bookstore.py` demands, and a cart whole copies at natural prices
  (`BookstoreShop`); a registration is of one place at least (`Events`); groups of
  options and settings of online orders are what the schemas admit, and of the ways of
  delivery one that needs no address is there (`Storefront`).

### BookstoreCheckout

`Demand(S, p)` is a cardinality rather than a recursive sum, so
the lemmas on it (`DemandUnion`, `DemandMinus`, `DemandOne`) follow from the library's
facts on finite sets. `Books` is the inductive invariant of stock. The four properties
in it are not inductive by themselves: `ReservedMatchesHolds` speaks of `active`
and the handlers branch on `status`, so `RowsAgree` ties `active`, `gate` and
`late` to the status. With it `UnreserveHeld` shows that the floor at zero of
`_unreserve` is never met, since what is released was reserved; `ClosePendingBooks`,
`CreateBooks`, `MarkPaidBooks` and `RefundBooks` treat the four kinds of steps that
move copies, and `BooksFrame` all others at once. `Sales` is the invariant of money
and the door: a request at the door that read a settled checkout may find it
refunded or verified when it writes, so it keeps only that the checkout has a gate
(`DoorReadSettled`), that cash is handed over at the counter (`CashIsHandedOver`),
and that an admission is of a verified online sale (`AdmittedOnce`). `FinalStep` is the
action property. For the refinement, `HoldInit` and `HoldStep` map the initial states
and each step; a step that moves no copies is a stutter.

### PosSync

`SyncInv`. `StockMovedOnce` needs no more than the types: the handler checks the key and
inserts under it in one commit. `LocalInvoiceIsReal` is the hard one. `issue_invoice`
has no unique key, so that two calls make two rows, and the till believes the answer
`issued`. What saves it is who calls: the checkout asks first, one call at
a time and only after its upload is answered (`CounterCalls`), for one sale
(`CounterSells`), and the entry for the queue is written when it has given up,
so that until then no tick has one (`CounterAlone`) and the server has no
row (`FirstInvoice`). That a request which heard `issued` is of an invoice that the
platform has (`IssuedAtGateway`) ties the three places together.

The refinement of `SaleOnce` needs that the server acts on nothing the till did not do:
`RungFirst` says of every entry that is queued, every call still to be made, every
request under way and every order that the sale was rung up, and of a refund
that the till took the sale back first. `SaleHeard` says which answers take an entry
from the queue or mark a sale; an upload that commits is `Book`, with the
answer in the same step or not, one answered `ok` later is `Learn`, a refused one
`TurnDown`, whether its answer is heard or lost, and the first refund that commits `Unbook`.
`LostOnlyIfRefusedAlways` is the same fact seen at one moment: an entry `uploadOrder` is
dropped only by an answer to it (`UploadHeard`), a refusal leaves its mark in the same step,
and an order at the server is never deleted (`OrdersStay`). Nothing is assumed of who
logs in or of what the server accepts.

### GuestOrders

`GuestInv`. Between the claim and its commit no row shows that a notification is being
settled, so `ClaimIsAlone` says it of the sessions: a claimed order is not yet paid
and no other session has claimed it, which holds because the row is locked by the
conditional UPDATE. A session's rows, order and points are of their types
(`SessionsAreRequests`) and money is taken only for orders that have a row
(`CapturedHasARow`). `PaymentSurvives` then follows step by step: no commit writes the
columns `paid` and `settled` but the settlement.

### OrderReview

`ReviewInv`. `NothingBookedWhilePaid` is about a status that several sessions write by
what each has read. It holds because a session that read the order in another
state than paid finds it so ever after (`NotPaidAgain`), and only a sale of an order
that is not stored makes it paid, one at a time (`SellsTheNew`). What is under review
is of an order that is stored (`ReviewIsOfStored`). For one worker
`DecidedByWhatIs` says that what a session decided by is still so.

### PrintJobs

`PrintInv`. A report adds one to the retries its request has read, which may be fewer
than the row has by then; several agents may report one job. So `RetriesWereTries`
bounds by the tries not the retries but the retries plus the agents that are yet to
be told that the server knows (`Telling`), and the same with the row that each
session has read. A job that a poll is about to give up had its tries by the
time it was read (`SpentWereTries`). `ReportedWasPrinted` says of what
is reported as complete that it came out of a printer or was skipped by a till.

### Reports

`MoneyInv` is `ReviewInv` with what holds of requests one at a time: one session is open
(`OneOpen`), what it has read is so (`Informed`), an order counts as given back what
its approved refunds gave back (`RefundedIsApproved`), and its status is that of the
amount unless a void was approved (`StatusFits`). The figures of a report follow
from that by algebra of sums. A sum over a finite set is a fold in the model; the
proof needs that it can be taken apart, which is `TotalOver` and its lemmas: a sum
over two sets or by a key (`TotalOfUnion`, `TotalByKey`), of two functions
(`TotalOfSum`), after one of its terms has changed (`TotalOfChanged`). `DaysAddUp`,
`HoursAddUp`, `MeansAddUp` and the others apply them to the figures of a page. The
library states induction with an operator as a parameter, which the provers cannot use;
so induction is done in first-order form, by taking a least counterexample of a
well-founded relation (`LeastOfNaturals`, `NaturalsInduct`, `SubsetsInduct`).

### The invoice

`CheckoutInv`: the percentages of the settings, those that a request is about to write
included, are in their range (`WritesPercents`); the checkout's subtotal is the sum of
its lines, its discount is within it, and the total is the rest (`IsPriced`). That is
enough for the redemption and its cap. `SharesMakeDiscount` is about the largest
remainders: each line gets its share of the discount rounded down and the lines of
the greatest remainders one more, as many as are left over. Ranks are distinct
because equal remainders go by amount and then by position (`PrecedesIsTotal`), so the
lines that get one more are as many as that (`RanksAreNumbers`), and what is left
over is fewer than the lines.
`FlattenedAddsUp` then says that a line's items, whole copies at one of two whole
prices, make up the line, and that appending them makes up the invoice.

What is issued was computed earlier, by another transaction than the one that paid.
`InvoicesOfSale` follows it: a request that looks or issues is of a sale that is over, its
items are those of the sale's lines and its discount (`ItemsBy`, for the sale and for the
staff), and neither changes once a sale is paid (`SaleKeepsItems`). The staff's items
add up to the subtotal (`OrderItemsAddUp`), which is the total and the discount.

### Loyalty

`LoyaltyInv`. `NumbersHaveNoGap` ties the sequence to the set of stored orders through a
cardinality. An upload that has its number (`"numbered"`) has the row of its day
locked, so there is one of a day at a time and the number is still the next when it
commits (`Fits`, `RequestsFit`); refunds and voids write a row they read and keep its
number. Entries are of stored orders only (`EntriesOfStored`), so that the commit of
an upload finds none.

### Books

`BooksInv` is that what a session under way would answer is what it would book
(`ReportsItsMoves`), through every way a code of a file can fail, and that the answers
so far are the movements. `SettleInv` has the settlement as an equality of two sums:
what approved refunds come to over all places of the lists of refunds, and what the
orders have been given back. One refund changes one place and one order by the same
amount. Shares and net sales then differ by the orders that are left out.

### Events

`HallInv`: while no cause has come, a ticket has been let in once if it is checked in,
and otherwise not (`LetInOnce`). `FullForCause` is itself a part of it, since a
registration decides by the places that are taken, and both sides of it are sums over
the tickets, of which a step changes one.

### Accounts

`AccountsInv`. A rotated token that a till holds has a cause, and a refresh under way is
awaited by its till, or is of another token than the till holds, or has a cause
(`RotatedForCause`); a till awaits one answer at a time (`OneInFlight`). No two tills keep
one token (`TokenOfOneTill`), so that nobody else can have rotated it. A till may hold an
expired or revoked token for long and not be signed out: that cause comes with the
refusal, which is awaited for it (`RefusedForCause`).

### Tenants

`TenantsInv`: an application that is verified, provisioned or has a tenant has a code of its
own that was entered (`OwnCodeEntered`). The code that a request found right belongs
to the application it read (`IsTenantRequest`), and a used code stays used. Rejecting
and approving overlap, so the status alone would not do.

### StoreStock

`StockInv`. A receipt writes the whole `received_qty` it computed from the row it had
read, while another may have committed since, so what is received can go
down but what is booked cannot: `IsReceipt` keeps, of each receipt under way, that
the row it read was booked and that what it takes was missing there. The ids of a
batch are distinct and without a row when their insert succeeds, which gives
`MovementBookedOnce`. The levels have no part in it: overlapping writes lose updates.

### BookstoreShop

`ShopInv`. Every writer of the settings writes the whole column, so what matters is what
each has read: `WritesDoor` says of a request that both what it read and what it is to
write have the door's part whole, with a content that is of its code, and that its
code is no earlier than the one it read. A column with an older code than the newest
means that two writes overlapped (`undone`).
`InvoiceIsLookedFor` follows a refund through its transactions: it is still to look, or
no row is issued, or a refund that has looked is about to void the first row and no
other is issued; everything else that can happen in between is a cause.

### Members

`MembersInv` is about the ledger. The rewards are counted per member, so the proof counts
who was referred (`FiniteSetTheorems`). A commit that sets `referred` from None enters
both rewards, by the unique key of the referral's ledger rows; a request writes to
accounts that are there (`IsRequest`), since none is ever deleted and links point to
accounts (`AccountsAreRows`). `PointsInv` is about the points, which every request writes
by what it had read. For a member who is not in `crossed` at most one request is writing,
what it read is still so, and so the points stay those of the ledger and of what the
orders redeemed in vain (`owed`). A request that begins puts those it writes to into
`crossed` if another is at them; nothing is entered for a phone before it has
an account, which is made with the reward of its own referral.

### DeltaPull

`DeltaInv`. Whether the till misses a change is decided when the cursor is written, long
after the page was chosen, and rows are committed in between. `NothingLeftOut` says
it at each point: of what is behind the cursor, or behind the one that comes with an
answer, the till has the latest version or will have it when the page is stored. It
is established when the page is chosen (`NextSincePasses`: what a page leaves out is
past its cursor or as old as a row of the page, for which `GreatestOfBounded` shows
that there is a greatest time), provided the page was asked from the cursor that is there
(`AskedFromHere`); a later commit is ahead of both cursors, whether it stamps
the row or leaves the stamp it has, or excused. Two pulls at
once happen at a full resync only, which excuses every row (`OnePull`), and the resync
itself starts from the epoch, before which there is no version (`StampsAreTimes`).
That versions keep their type takes a count of the transactions under way
(`WritesCounted`).

### Storefront

Pages and server read the same rows in different ways, so most of the proof is about
one state: `MenuFollows`, `CardsFollow` and `ShoppingFollows`, for the three kinds of
pages. The tree of categories may have any shape, cycles included: what a page
walks up is shown to contain what the order's check looks at (`OwnAncestor`). Of the
rows themselves `FrontInv` needs that a group is a row of options, and that a store
that takes orders has a way of delivery and one of payment, which
`Normalised` sees to (`NormalisedFits`).

### Only model-checked

Liveness, with the fairness it needs, and ENABLED are beyond the prover:
`CapturedPaymentSettles`, `SaleReachesServer`, `EntryIsSettled`, `JobIsSettled`,
`CapturedIsPaid`. `BackOfficeTypeOK`, the types of all the parts at once, is checked by TLC in
full; the types that a theorem needs are proved with it, of `OrderReview`, `Tenants` and
`DeltaPull` all of them. No module declares a RECURSIVE operator.

## 6. Plan

Worth having next: an abstract specification of a payment that `GuestOrders` implements,
as `StockHold` is of the checkout and `SaleOnce` of the till, with its refinement
proved; and a model of promotions, as functions against a reference definition.

## 7. Not modelled

Promotions and the cart: arithmetic over one cart, without state that overlaps.
Uploads, audit and webhooks: files and output that no handler decides by. The Vue
front ends but for the option dialogues, the product card, the shopping pages' checkout
buttons and the print agent; the
printer plugin. Of the components that are modelled in part, `PROJECT.json` says
what each leaves out: mostly fields no handler decides by, pages and sorting of
lists, notifications to other sites, and plain create-and-edit forms.

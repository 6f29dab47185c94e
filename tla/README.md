# A formal model of g4h-pos

TLA+ specifications of the g4h point-of-sale backend: modules that model its
components, TLC configurations that check them on small instances, and proofs,
checked by TLAPS, of what holds for every size of the system.

The program is a Go HTTP server over PostgreSQL. It has no scheduler and keeps
almost no state in memory: nearly every piece of state is a row, every operation
is a request, and any number of requests run at the same time, in one process or
several. PostgreSQL runs at its default isolation level, READ COMMITTED, and no
code asks for another one. So the unit of the models is the *SQL statement* (or the
transaction, where a row lock taken first makes it behave like one), and the
interesting behaviours are those of requests that read in one statement and write
in a later one.

## 1. Inventory

### 1.1 The components, their state and their operations

| component | state | operations | what makes it correct |
|---|---|---|---|
| **sale carts** `repository/salecart` | `sale_carts`, `sale_cart_items`, `handoff_cart_sessions` | open (Scan & Go session, till cart), read, add / update / remove a line, request hand-off, claim by code or QR, release, cancel, checkout, delete, lazy expiry, `SweepExpired` | a cart follows its state machine; it is charged at most once, by the seller who holds it; what is charged is what it holds and what it showed; its token is usable while it waits |
| **shift journals** `repository/journals` | `journals` (one per branch and day), the `transactions` rows whose `journal_id` points at it | open, close, reopen, add / update / delete operation | the total is the sum of the operations; a closed shift does not change; reopening undoes exactly what closing did |
| **ledger** `repository/ledger`, **transactions**, **sales**, **suppliers**, **finance** | `transactions`, balances of `branch_finance` and `suppliers` | record a sale or a supplier transaction, delete a sale, update a transaction, create a branch | every balance is the sum of the transactions it was derived from |
| **inventory** `repository/inventory`, **stock income** `repository/products` | `product_stock`, `product_income_history` | decrement at checkout, restore on a void, `AddIncome` | goods are conserved; no deadlock between checkouts |
| **buy now pay later** `repository/bnpl`, **customers** | `bnpls` (total, paid, status), `customers` | create a debt, credit a payment, delete; create, rename, delete a customer | paid is the sum of the payments; a settled debt stays settled; nobody who owes is deleted |
| **catalog**, **products** | categories (a tree), brands, products, their links, image lists | create, edit, delete, relink, add and remove an image | the lists of a product are those asked for; no link leads nowhere |
| **arrivals** `repository/arrivals` | `proposals`, and a directory of pictures | create, edit, fulfil, upload a picture, delete | file and row agree |
| **storefront** `repository/store/*` | `store_customers`, `addresses`, `carts`, `wishlists`, `orders`, `promotions`, `reviews`, `review_votes` | register, log in, address book, cart, wish list, coupon, order and cancel, review and vote, lists of products | one default address; a cart adds up; an order that was shipped is not cancelled; figures match rows; pages of a list are complete |
| **users, authentication, capabilities**, **routes**, **activity log** | `users`, tokens, the order of the routes, `activities` | register, log in, refresh, every request through its guards | a request is served with the rights of its token, and only those |
| **analytics** `controllers/analytics` | the branches read at start | three dashboards over the journals | two charts of the same journals tell the same story |
| **migration** `cmd/etl` | the target tables, the run's memory | nineteen steps, a report, a reconciliation | everything arrives once, or the report says so |
| **platform** | connections | configuration, logging, cache, S3 | (external) |

### 1.2 How they interact

```
  customer phone --session token--+
  seller        --cart id, code---+--> salecart --checkout--> journals.AddOperationTx --> ledger.ApplySalesTransaction
  till          --cart id---------+        |                        |                            |
                                           +--> inventory (stock)   +--> journals.total          +--> branch_finance
  manager --> journals (close, reopen, operations) --> ledger, inventory
  office  --> sales, transactions, suppliers, bnpl, products ---------> ledger, inventory
  office  --> catalog, products, arrivals            dashboards --> journals, branches
  shopper --> store: catalogue lists, reviews, account (cart, orders, wish list, addresses: repository only)
  every request --> guards (token, customer token, capability) --> handler --> activity log
```

Checkout is the one place where everything meets: a single transaction locks the
cart header, re-reads state, seller and key under the lock, records a journal
operation (which records a transaction and moves the branch balance), decrements
the stock and completes the cart. Nothing else locks before it reads.

### 1.3 What is hard here

* **Stale reads.** Nearly every handler loads rows, decides, then writes in a
  separate statement. What protects the write is sometimes a compared state
  (`UPDATE ... WHERE id = ? AND state = ?`), sometimes nothing but the id.
* **Ignored row counts.** `transition` does not look at `RowsAffected`: a
  conditional update that matched nothing is reported as a success.
* **Lazy expiry.** Reading a cart may write it: in up to two statements, each
  committed on its own, on the strength of rows read earlier.
* **Retries.** A checkout whose answer is lost is sent again; the idempotency key
  stored on the completed cart is what recognises it.
* **Several writers of one number.** The total of a journal, a branch balance, a
  stock quantity, a debt, a rating are adjusted by different handlers, some with
  `x = x + ?`, some with an absolute value computed from an earlier read.
* **Locks in different orders.** Checkouts, voids and deliveries update the same
  rows of stock and balances in the order of their own statements.
* **Two stores for one thing.** A proposal's picture is a file beside a row.
* **Best-effort steps.** Aggregates, cart items and activities are read or written
  by statements whose errors are dropped.
* **Batches that commit one by one**, and a migration that may stop between two.
* **Nobody schedules the janitor.** `SweepExpired` exists and no code calls it.

`PROJECT.json` lists every hazard at its line, with the properties that cover it
or the reason why none does.

## 2. The modules

| module | what it is |
|---|---|
| `CartStates` | the state machine of `sale_cart_models.go`: states, whitelist of moves per kind of cart, edit rights. No variables |
| `CartLifecycle` | the abstract specification: what a cart promises, with no request, token, clock or janitor |
| `SaleCart` | `salecart_repository.go`: every statement that writes a cart, run by concurrent requests and the janitor |
| `JournalLedger` | `journals_repository.go` with its middleware, `ledger.go`, and the endpoints of sales, suppliers and transactions that write the same rows |
| `PosSystem` | carts with prices, a shift, the till and the stock composed: checkout, void, reopening, stock income |
| `StockRows` | the same transactions below the grain of `PosSystem`: one UPDATE at a time, with PostgreSQL's row locks, deadlock detector and rollback |
| `CoinSums` | the sums that the properties of money and stock are about |
| `Handlers` | what the modules below share: slots of requests in flight |
| `Bnpl` | customers, their debts and payments |
| `Accounts` | customers of the store, and their address books |
| `Purchases` | the store's carts, wish lists, coupons and orders |
| `Reviews` | reviews, votes and the figures of a product |
| `Proposals` | proposals of goods to order, and their pictures |
| `Catalog` | categories, brands, products, their links, images and stock rows |
| `Storefront` | what the store lists of the `Catalog`: filters, order, pages. No variables of its own |
| `Access` | staff and store accounts, tokens, the guards, the order of the routes, the activity log |
| `Analytics` | the dashboards, as functions of the journals and of the branches read at start |
| `Migration` | `cmd/etl`: every step, its batches, its report and its reconciliation |
| `MCSaleCart`, `MCJournalLedger`, `MCPosSystem`, `MCStockRows`, `MCMigration` | these modules for TLC: constants, symmetry, scopes |
| `MCShop`, `MCOffice` | compositions for TLC: the customers' side and the back office |
| `SaleCartProofs`, `JournalLedgerProofs`, `PosSystemProofs`, `StockRowsProofs`, `MigrationProofs`, `ShopProofs` (of `Accounts`, `Purchases`, `Reviews`, `Bnpl`), `OfficeProofs` (of `Proposals`, `Catalog`, `Storefront`, `Access`, `Analytics`), `CoinSumsProofs` | the proofs |

### 2.1 SaleCart and the code

| variable | code |
|---|---|
| `cart[c]` | the row of `sale_carts`: `state`, `seller_id`, `idempotency_key`, `updated_at` (`touched`), and the lines of `sale_cart_items` as a function from products to quantities |
| `session[c]` | the row of `handoff_cart_sessions`: the token (`code`, its expiry), `failed_claim_attempts`, `claim_locked_until`, whether `claimed_at` is set, the end of the session day |
| `sold[c]`, `shipped[c]` | what checkouts recorded for the cart outside the cart: the journal operations, and the stock moved |
| `now` | the wall clock |
| `req[r]` | a request in flight: which statement comes next, the call, and the columns it keeps from its earlier reads |
| `sweep` | a run of `SweepExpired`: which of its four statements is next and the time it began |
| `told[c]` | history: which answers callers received ("cancelled", "charged") |

Every handler is a path through stages. `BeginBySession` (a request that comes
with a session token reads the session row) or `BeginById` starts it; `LoadAgain`
is `loadCart`; `ExpireOnRead`, `RevertOnRead` and `WipeToken` are the statements
of `lazilyExpire`, each of which may fail, which the code ignores; `AttachItems` is the
later statement that reads the items, for the operations that work on them, and that
shows none if it fails; then the handler's own work, on what it read: `SaveItems`,
`RequestHandoff`, `Move` (cancel, release, cancel of a claim), or the refusals.
`ClaimByToken` is one conditional update; when it matches no row the request goes
on to `ExplainClaim` and perhaps `RegisterFailedClaim`. `Checkout` is one step,
because the transaction takes the row lock before it reads. `SweepRevert`,
`SweepTokens`, `SweepSessions` and `SweepTills` are the janitor's statements.

Abstractions. A token is a value of `Code`; the typed code and the QR reference
are two columns that go through the same code. A line is identified by its
product, which is how `addItem` merges lines. NULL times are 0. Prices are
`PosSystem`'s, and so is the journal a checkout names: the checkout's other conditions
(the journal exists, is open and of the cart's branch) only make it refuse more.
A read by cart id of the header and of its session row is one step (`Loaded`), and the
session row may be unreadable, in which case the cart is not judged (`Known`); a
request that comes with a token reads them in two, because the code reads the session
row first to find the cart. Where the code looks at an error, a failed statement
leaves the state alone, as does a request that stops for ever (no fairness is needed
for safety), so a crash between two statements is a behaviour of the model.

### 2.2 What the abstract specification says

`CartLifecycle` keeps three things per cart: its state, who may charge it, and how
many sales were recorded. A step gives each cart at most one legal move: it opens,
is claimed by a seller while nobody holds it, is released, is charged by its
holder (and only then is a sale recorded), advances along the whitelist without
changing hands, or is deleted. `SaleCart` is shown to implement it with the
mapping `life <- state`, `holder <- seller_id`, `sold <- sold`. The content is
that stale requests never take a cart off the whitelist, never charge it twice and
never move a claim from one seller to another.

### 2.3 JournalLedger and the code

| variable | code |
|---|---|
| `journal[j]` | the row of `journals`: open or closed, `cash_left`, `terminal_income`, `total` |
| `tx[t]` | the row of `transactions`: initiator type, amount, payment method, credit or debit, and its journal and supplier references |
| `built` | the last `created_at` given out. It is taken when the Go record is built, before the commit, so it orders a journal's operations differently from the order in which they appear |
| `balance[b]`, `debt[b]` | the columns of `branch_finance` |
| `supplier[s]` | the columns of `suppliers` |
| `req[r]` | a request in flight: the call, and what it holds of its reads |
| `disturbed`, `unbalanced` | history: the journals on which a request acted on rows that had changed since it read them (or that an endpoint which does not know journals wrote behind their back), and the branches one of whose transactions was rewritten or removed without its money |

A request behind `ShiftIsOpenMiddleware` begins with `Admit`, which reads the journal
and its operations outside the handler's transaction. `Build` and `AddOperation` are
`AddOperationTx`; `UpdateOperation` and `DeleteOperation` work on the row that the
middleware loaded; `ReadForClose` and `Close` are the read and the writes of `Close`
(the total is written as an absolute value); `ReadForReopen`, `ListForReopen` and
`ReOpen` those of `ReOpen`, which has no middleware. `RecordSale`, `RecordPayment`
(a supplier payment, or a delivery, which is also what an income of goods records),
`DeleteTransaction` and `UpdateTransaction` are the other endpoints; their
transactions write relative values only, so each is one step. `Fail` rolls back.
`Uint32` is the arithmetic of `Close` and `ReOpen`, which add and subtract in the type of
the Go field and write the result whole; `Fits` is the narrower column, which refuses
what it cannot hold.

Abstractions. A transaction's id stands for its `created_at`. A supplier's `balance`
column is its income less its expenses, moved by the same statement. A row that is
deleted is read by the statement before; the two are one step, because a
rewriting of its amount in between would have left the branch unbalanced anyway. A
checkout adds its operation through `AddOperationTx` too, having checked the shift
inside its own transaction: in this module it is an "add". Stock is not in it.
Credit payments of `bnpl` move the cash balance as well; their transactions are of
their own type and are `Bnpl`'s.

What is true of these totals is conditional, and the history variables say on what.
As long as no request acted on rows that had changed since it read them, and no total
wrapped, a total is the sum of its operations; as long as no transaction of the branch was
rewritten, or removed, by a handler that leaves the balances alone, a balance is the
sum of the transactions. One of the ways to lose the condition is contradicted by the
documentation and is a run of its own, `LateOperation`; another, the deletion of an
operation, is `HalfVoid`, on `PosSystem`.

### 2.4 PosSystem and StockRows

`PosSystem` puts together what `SaleCart` and `JournalLedger` model apart, adds the
stock and the prices, and forgets what they own: of the cart's states it keeps
whether items may be edited, whether it can be charged, and whether it was; of the
shift, its operations in their order.

| variable | code |
|---|---|
| `basket[c]` | `sale_carts` with its lines: quantity and unit price as added, and the `subtotal` of the header |
| `shift`, `sale[t]`, `till` | the journal, the transactions, the branch's balance |
| `shelf[p]`, `delivery[i]`, `owed` | `product_stock`, `product_income_history`, the suppliers' columns |
| `job[r]` | a request in flight: an edit between its load and `saveItems`, a checkout between the prices it reads and its writes, a deletion or a rewriting of an operation between the middleware's read and its transaction |
| `loose` | history: carts that no longer hold what their sale sold, or that two sales name |
| `rewritten`, `adrift` | history: transactions whose amount was rewritten; what the till has more than the transactions since then, from those and from operations deleted without their money |

`RoundLineTotal` and `LineTotals` are the arithmetic of the code, to the width of its
integers; `CommitCheckout` reprices the lines, records the sale and moves the stock;
`VoidSale`, `DeleteOperation` and `ReopenShift` are the three ways of removing a sale,
with what each puts back; `UpdateOperation` and `UpdateTransaction` are the two ways of
rewriting the amount of one (`Amend`), which neither the till nor the cart hears of, and
of which the second accepts a negative number, after which the shift cannot be loaded
(`ShiftReadable`); `AddIncome` may change the price of the shelf between a
cart's last edit and its charge.

`StockRows` takes the transactions of `PosSystem` apart. A transaction is the sequence
of rows it updates (`Path`: a checkout writes the balances, the journal and then the
lines; a void restores the stock first); a `Statement` waits while another
transaction holds the row; a row that is inserted and not committed is not seen
(`Sees`); `Refuse`, `Crash` and `BreakDeadlock` roll back. Row
locks, rollback and the deadlock detector are PostgreSQL's and marked external.

### 2.5 The customers' side: Bnpl, Accounts, Purchases, Reviews

Each keeps the rows of its tables (`debt`, `payment`, `customer`, `coffer`; `account`,
`address`; `trolley`, `wish`, `order`; `article`, `review`, `vote`), one variable for
the requests that are between two statements (`desk`, `choosing`, `clerk`, `pen`), and
the history variables that say when a request was overtaken. The pairs of statements
are those of the code: `BeginCredit` / `Credit` is the unlocked read of the debt and the
transaction that writes `paid` as an absolute value; `BeginSetDefault` / `SetDefault` the
clearing and the setting of the flag; `BeginChange`, `AttachItems`, `SaveCart` the read
of a cart's header, of its items (with the failure that is taken for an empty cart) and
the write of the whole; `BeginCancel` / `CancelOrder` the read of the status and the
update by id; `CountReviews` / `WriteRating` the two best-effort statements after a
review changed. `VoidPayment` and `RewritePayment` are the endpoints of transactions
reaching the payment of a debt behind its back.

The repositories of the store's carts, orders, wish lists and addresses are complete,
and their handlers answer 501 so far: what may call them in the models is what they
offer, and their races are not hazards of the program as it runs.

### 2.6 The back office: Proposals, Catalog, Storefront, Access, Analytics

`Proposals` has the rows, the `files` of the directory, and `errand`s: an upload is the
read of the row (`BeginUpload`), the removal of the old file, the save of the new one
and the update of the row; a deletion reads, deletes the row and removes the file.
`DropErrand` stops one anywhere; `RemoveFile` may fail, which is only logged.

`Catalog` has categories with their parents, brands, products, `product_categories`
(`link`), the image lists and the stock rows. `BeginRelink` / `Relink` is an edit of a
product that replaces its categories, one transaction of several statements, whose
DELETE removes the rows it saw: of two that overlap the second does not see what the
first inserted (`Overtaken`), and ends in the union of both lists, or is refused because a
link is there already;
`BeginImage` / `WriteImages` the read-modify-write of the image list. Deletions do what
the foreign keys of the schema say (cascade, set null, or nothing since migration 00002).
`Storefront` adds, as operators on that state, what the store lists: `Matches`
(the filters), `List` (the order, in which products with the same key are in one of
several orders), `Page`, `Related`, `Availability`.

`Access` has `Registered`, the guards and routes in the order in which `SetupRoutes` mounts
them; a guard on a path stands before every route registered later below it, and
`Guards` is what stands before each group. A request passes its guards one at a time, in
the order of their places (`IsNext`, `PassGuard`), each with a query of its own, while
accounts change. A token is what it decrypts to.

`Analytics` has the branches, the journals, and the variable in which the handler keeps
the branches it read at start (`branches`, refreshed by `Restart` only). A shift has a
total, cash and a number of operations that are independent of one another, and may
have operations that cannot be read back (a negative amount): such a branch is left out
(`CanRead`, `Fetched`). `Growth` is the rate the code computes, first half against second,
newest first. `GeneralPage`,
`DaysPage` and `ComparisonPage` are the three pages, built from operators named after
the functions of `charts.go`; the property compares what they compute from the same
journals along different ways.

### 2.7 Migration

| variable | code |
|---|---|
| `mongo` | the old database, by collection |
| `target` | the committed rows of PostgreSQL, in the order of insertion |
| `draft` | the rows as the open transaction sees them |
| `program` | where the run is: its step, document, loop over what is embedded, and statement |
| `memo` | the Migrator's maps: `supplierTxn`, `bnplTxn`, `embeddedSupplierTxns`, `categoryIDs`, and `inserted` |
| `counted`, `report` | the counters of the loops; the expected counts of the report |
| `started`, `base` | history: runs started; the rows that this run found |

Every `migrate*` function is an operator that turns a document into the statements it
executes: one list for the document, then one for each loop over what is embedded in it.
`Execute` executes one of them; `Refuse` is the statement the database does not accept,
which rolls the batch back and ends the run; `NextLoop`, `NextDocument` (which commits at
the end of a batch, or of a collection) and `NextStep` (which writes the report's lines)
move on; `Stop` kills the program anywhere; `Start` begins again, on what is left or on
an empty target. Embedded transactions that are not in the collection of transactions
are a step of their own, in any order, since the code ranges over a Go map. A row is
its table, its unique keys and the rows its foreign keys need, so collisions and missing
references fail as they do in PostgreSQL (and a day without a branch, NULL, collides with
none). `Mismatches` and `JournalSum` are the
reconciliation the program prints.

## 3. The runs

| run | shows | bounds |
|---|---|---|
| `Race` | two requests on one cart of either kind, interleaved at every statement, and the janitor's statements between those of one: `TypeOK`, `ChargedOnce`, `SellerMatchesState`, `ChargeIsFinal`, and the refinement | 1 cart, 2 requests, 2 sellers, 1 code, quantities to 1, time 1..4; `RaceScope` |
| `Serial` | one request at a time, time passing between its statements: `ItemsAreWhatWasSold`, `ReadyHasToken`, `CancelIsFinal`, `FrozenOnceClaimed`, `ReleasedByHolder` | 1 cart of each kind, 2 sellers, quantities to 2 |
| `Ledger` | every endpoint that moves money, and a shift opened, sold in, closed, reopened and closed again: `TypeOK`, `TotalIsSumOfOperations`, `ClosedByItsPair`, `BalancesMatchTransactions` | 1 journal, 1 branch, 1 supplier, 2 methods, 2 requests, 3 transactions; shifts without suppliers, in cash, to 4 |
| `Pos` | from the cart to the ledger: `StockMatchesBooks`, `TillMatchesSales`, `SubtotalIsTheSale`, `ChargedAsShown` | 2 requests; 2 carts with one product, or 1 cart with two; 2 sales, 2 deliveries, 2 prices; amounts rewritten to -1 or 2 where there is one cart and one product |
| `Stock` | locks, refusals, deadlocks and lost connections: `CommittedStockAddsUp`, `CheckoutsDoNotDeadlock`, `TransactionsEnd` | 3 transactions of any kind, 2 products in either order |
| `Migrate` | the import, stopped anywhere and run twice: `FreshRunIsFaithful`, `ReportIsTruthful`, `MoneyDiffIsExplained` | databases that differ where the program distinguishes, batches of 2, 2 runs |
| `Shop` | debts, accounts, purchases, reviews: `PaidIsWhatWasPaid`, `PaymentsAreInTheTill`, `SettledStaysSettled`, `OwingCustomersStay`, `OneDefaultAddress`, `CartAddsUp`, `NothingAskedIsLost`, `ShippedIsNotCancelled`, `FiguresAreTheReviews` | 2 requests each; 2 customers, 1 debt and 2 payments, 2 addresses; 2 goods; 1 order; 2 reviews |
| `Office` | proposals, catalogue and lists, access, dashboards: `PicturesMatchRows`, `ProductListsAreKept`, `ListsKeepTheirPromise`, `ServedAsThemselves`, `DashboardsAgree` | 2 requests each; 1 proposal and 2 pictures; 2 categories, 2 products, 2 places; 1 member of staff and 1 customer with 3 tokens; 2 branches, 3 days and 3 shifts |
| `StaleEdit` | *violated*: `FrozenOnceClaimed`, when two requests overlap | 1 cart, 2 requests |
| `LateOperation` | *violated*: `ClosedShiftIsFrozen` | 1 journal, 2 requests, 3 transactions |
| `Unswept` | *violated*: `StaleCartsAreReaped`, with fair handlers and a clock that goes on | 1 till cart, 1 request |
| `HalfVoid` | *violated*: `StockAndMoneyReverseTogether` | as `Pos` |

**Bounds.** Two requests are enough for every hazard found in this code: each is a
read by one request, a write by another and a late write by the first. In `SaleCart`
rows of different carts meet only in the claim's bulk update and in the unique index
on codes, which the abstract lifecycle does not mention. Two sellers are needed for a
cart to change hands. A day of four ticks and tokens that live one tick make a token
lapse, and a till cart go idle, while requests are in flight. In `Ledger`, four transactions are
two operations and a closing pair, or two closing pairs with a reopening between them:
the shortest histories in which a reopening can take the wrong pair; and three are an
operation and two that correct or remove it, or two that meet. Totals do not reach
`MaxInt` there: what wraps is proved, not run. The second method, `online_payment`, is one whose income and outflow touch different columns; the
amounts 1 and 2 tell the cash of a closing from its terminal income. In `Pos`, a unit
has two parts and the word is 6, so that a line rounds and a sum wraps. In `Stock`,
two products are the least that two transactions can lock in opposite orders, and the
third transaction is the one that voids or delivers between them. In `Shop`, `MaxInt`
is 3: two payments of 2 overflow. In `Office`, a week has two days, the ceiling of
the charts is below the largest taking, and a comparison reads fewer journals than there
can be.

**Scopes.** Five MC modules bound the search beyond the constants, by a CONSTRAINT or
(`MCOffice`) by taking no step out of the scope.
`MCSaleCart` has, in `Race`, one cart; of two requests in flight at most one adds a line, one
hands off and one explains a claim; a removal runs alone; a request that can only be
refused is not followed, because a refusal changes nothing; and a sweep meets one
request that is not an edit, within a tick. `Serial` has none of these bounds.
`MCJournalLedger` stops at states of whose only journal (or branch) nothing is
claimed any more, because `disturbed` and `unbalanced` only grow; and it follows shifts
further than the rest, in cash and without suppliers. `MCPosSystem` stops once
a cart is loose, for the same reason, and has either several carts with one product or
one cart with several, and rewrites amounts where there is one of each. `MCShop` and `MCOffice` compose modules none of whose
statements writes a row that another's statements read or write: a behaviour moves one
of them, the `focus`, and an interleaving of two would show each property the same
states of its own variables. Within a focus, parts that do not touch (the tree of
categories and the images of a product; an order and a cart) are followed apart. What
a scope leaves out is a combination of two histories that have no row in common.

`CHECK_DEADLOCK` is off where a bound on transactions, ids or runs lets a behaviour end.

**What `Serial` does and does not say.** Its five properties are what the comments
of the code promise: a claimed cart is frozen, a completed cart holds what was
sold, a waiting cart has a token, a cancellation reported to the caller happened,
a claim is released by its holder. They hold when each request ends before the next
arrives, and none of them holds when requests overlap: `saveItems` writes by id
alone, `transition` ignores the row count, `lazilyExpire` wipes a token in a
second statement. `StaleEdit` exhibits the first of these as a run of its own,
because the promise it breaks is quoted from the documentation.

**What the conditional properties say.** Many properties hold except for what a
history variable names: `doubtful` debts, `raced` address books, `unsure` carts,
`outdated` products, `shaky` proposals, `crossed` lists. Each of these sets has a
definition as narrow as the hazard (a request wrote on rows that had changed since it
read them; a best-effort step failed), so the property says two things: without the
race the rows agree, and no other order of operations, failure or deletion can
make them disagree. Where the code repairs itself the set shrinks again: the next
choice of a default address, the next recount of a rating, the next relinking.

**Fairness.** Safety needs none. `Unswept` assumes weak fairness of the next step
of each request in flight (the server runs a handler to its end) and of the clock, and
strong fairness of an expiry on read (it does not fail for ever). It assumes nothing of the
janitor's statements, since nothing in the program starts them: `SweepScheduled` is
FALSE there. In `Race` it is TRUE, so that the sweep's statements are checked for safety
should something ever start them. Clients
promise nothing: no request is required to arrive. `Stock` assumes weak fairness of
each transaction's progress: a handler that has begun goes on, and PostgreSQL's
detector, which runs after `deadlock_timeout`, breaks a cycle. That a transaction ends
then depends on the locks being released by every way of ending.

### 3.1 Where code and documentation disagree

Four disagreements are runs:

1. `StaleEdit`: "a handoff cart freezes the moment a seller claims it"; an edit that
   loaded the cart before the claim lands after it.
2. `LateOperation`: "operations may only be mutated while the shift is open"; the
   middleware looks before the handler's transaction and nothing looks again, so an
   operation that was admitted first lands in a shift that has closed.
3. `HalfVoid`: "stock and money reverse together or not at all"; deleting the operation
   of a checkout puts the goods back and leaves `branch_finance` as it was. Only the
   journal's total moves, and correcting an operation (`UpdateOperation`) does likewise.
4. `Unswept`: "`posCartTTL` bounds how long an abandoned till cart lingers before the
   janitor reaps it", and `SweepExpired` "replaces the Redis TTL"; nothing calls it, so such
   a cart stays active until somebody loads it.

Others were met while modelling and are recorded here:

* the customer's cancel is documented for active and ready carts; the whitelist it
  consults also lets a claimed cart be cancelled;
* codes are "unambiguous among carts currently awaiting handoff"; `claimed_at` survives
  a release, so a released cart that mints again is outside the partial unique index;
* `EditProposal` does not check the branch, which creation and fulfilment do: a proposal
  may move to a branch that no fulfilment accepts;
* `UpdateCategory` cannot clear a parent and does not look for cycles;
* `Register` of staff takes the role from the body and is public, under a comment that
  says it is disabled; an access token lives `TokenExpiryHours` minutes; a refresh does
  not revoke the token it was given; tokens name the user, so whoever registers a name
  again inherits those of the last one;
* `Credit` adds every payment to the cash balance whatever its method, while the
  deletion of the transaction takes it from the balance of the method;
* the dashboards ignore the date range they are given (only a number of journals is
  kept), so the comparison shows the same newest journals for every period; the branches are read once, at
  start; the growth of a branch compares a first half with a second although journals
  come newest first, so its sign is reversed;
* the image endpoints are unreachable: the routes name the parameter `id`, the handlers
  read `product_id`, and nothing sets the S3 client;
* `Availability` truncates a fractional quantity to an integer.

## 4. The proofs

The theorems hold for every size of the system: every set of carts, sellers, products,
journals, branches, customers, proposals, concurrent requests or database
transactions, every bound. They rest on the named assumptions of the modules, which TLC
evaluates in every run: NULLs are not values, ids are not empty, amounts and prices are naturals, the lines
of a cart are of different products, a word has more than one value, and what a client
may order adds up to a number of its type (`BasketsHaveTotals`), and a database to migrate has the
shape that the program reads, with MongoDB's `_id` unique in a collection. Five theorems about
`SaleCart` have one more hypothesis, `OneAtATime`: the setting of the run `Serial`,
outside which their properties are false.

| theorem | says |
|---|---|
| `SaleCartProofs!TypeCorrect` | `Spec => []TypeOK` |
| `SafetyHolds` | `Spec => []SafetyInv` |
| `ChargedAtMostOnce` | `Spec => []ChargedOnce` |
| `SellerAlwaysMatches` | `Spec => []SellerMatchesState` |
| `ChargeStands` | `Spec => []ChargeIsFinal` |
| `Refinement` | `Spec => ImplementsLifecycle` |
| `SoldIsShipped` | `OneAtATime`: `Spec => []ItemsAreWhatWasSold` |
| `ReadyIsClaimable` | `OneAtATime`: `Spec => []ReadyHasToken` |
| `CancelStands` | `OneAtATime`: `Spec => []CancelIsFinal` |
| `ClaimFreezes` | `OneAtATime`: `Spec => FrozenOnceClaimed` |
| `HolderReleases` | `OneAtATime`: `Spec => ReleasedByHolder` |
| `JournalLedgerProofs!TypeCorrect` | `Spec => []TypeOK` of `JournalLedger` |
| `LedgerIsConsistent` | `Spec => []LedgerInv` |
| `BalancesAreTransactions` | `Spec => []BalancesMatchTransactions` |
| `TotalsAreOperations` | `Spec => []TotalIsSumOfOperations` |
| `ClosingPairIsFound` | `Spec => []ClosedByItsPair` |
| `PosIsConsistent` | `PosSpec => []PosInv` |
| `TillIsItsSales` | `PosSpec => []TillMatchesSales` |
| `GoodsAreConserved` | `PosSpec => []StockMatchesBooks` |
| `ChargedCartIsTheSale` | `PosSpec => []SubtotalIsTheSale` |
| `ChargesAreShown` | `PosSpec => ChargedAsShown` |
| `CheckoutsNeverDeadlock` | `StockSpec => []CheckoutsDoNotDeadlock` |
| `StockAddsUp` | `StockSpec => []CommittedStockAddsUp` |
| `PaidIsPaid` | `BnplSpec => []PaidIsWhatWasPaid` |
| `TillHoldsThePayments` | `BnplSpec => []PaymentsAreInTheTill` |
| `SettledStays` | `BnplSpec => SettledStaysSettled` |
| `DebtorsStay` | `BnplSpec => OwingCustomersStay` |
| `OneDefault` | `AccountsSpec => []OneDefaultAddress` |
| `NothingIsLost` | `PurchasesSpec => []NothingAskedIsLost` |
| `CartsAddUp` | `PurchasesSpec => []CartAddsUp` |
| `ShippedStays` | `PurchasesSpec => ShippedIsNotCancelled` |
| `FiguresAreKept` | `ReviewsSpec => []FiguresAreTheReviews` |
| `PicturesAgree` | `ProposalsSpec => []PicturesMatchRows` |
| `ProposalsAreTyped` | `ProposalsSpec => []ProposalsTypeOK` |
| `ListsAreKept` | `CatalogSpec => []ProductListsAreKept` |
| `ListsKeepPromise` | `CatalogSpec => []ListsKeepTheirPromise` |
| `StaffAreThemselves` | `AccessSpec => []ServedAsThemselves` |
| `PagesAgree` | `AnalyticsSpec => []DashboardsAgree` |
| `MigrationInvariant` | `Spec => []IInv` of `Migration` |
| `FreshRunsAreFaithful` | `Spec => []FreshRunIsFaithful` |
| `ReportsAreTruthful` | `Spec => []ReportIsTruthful` |
| `MoneyDiffsAreExplained` | `Spec => []MoneyDiffIsExplained` |

**Sums.** Half of the properties compare sums over sets of rows: a balance and its
transactions, a shelf and its deliveries, a debt and its payments. A fold says nothing to
the prover without induction over the set. `CoinSums` counts instead: an amount of n is n
coins, a sum is the cardinality of the set of all coins, and the library's facts about
finite sets (disjoint unions, surjections, subsets) do the work of induction. `CoinStep`,
to which all of these proofs come down, says that when one row changes, the sum changes
by what that row is worth; `CoinStepTwo` says it of two rows. Only rows that exist
are counted, and that those are finitely many is an invariant of its own. `CoinsOfParts` says that a sum may be taken in
parts: the i-th coin of a part is the i-th coin of that part in the whole.

**SaleCart.** None of the safety properties is inductive alone: whether a
stale write is harmless depends on what the request may still hold. `SafetyInv`
adds two facts. `RowsAreConsistent`: a row that is not there has no seller and no
sale, and a till cart never enters the hand-off. `RequestsAreSound`: a request
about to expire a cart has read a state from which expiry is legal, and only a
Scan & Go cart can be minted a token. With them, `StepMoves` shows, action by action,
that every step gives every cart one of seven legal moves (or none), in the
conditional updates because the state compared is the state the decision was made
on; `MovesKeep` shows that such moves keep the invariants, once for all actions; `RequestStep`
shows that requests stay sound. The refinement reuses `StepMoves`: a
legal move of every cart *is* a step of `CartLifecycle`.

**SaleCart, one request at a time.** `SerialInv` adds `SeenIsSo` to the safety invariant:
the state and the seller a request holds of its cart are what the row says, because
nobody else has written since (the items it holds need no such fact: it may have failed to
read them, and what matters is that it replaces those of a cart still open). So the write
by id alone writes on the cart it was decided on, and `RowIsWhole` follows for every row
(shipped and sold agree, a waiting cart has its token and the time when it lapses, a
reported cancellation is in the row). `SeenIsSo` is exactly what a second
request breaks, as `StaleEdit` shows.

**JournalLedger.** `TypeOK` holds with one fact added: a transaction a request has
built carries an id that was counted (`IdsAreCounted`). It is needed because ids are
given out in one step and stored in a later one. The sums need more of the requests in
flight, and `Knows` says it stage by stage: the id a request has built is nobody else's and
has no row; the ids that a reopening or an edit names were given out, so no row can
appear under them later, and they can only be found in the journal where the request
found them; the operations that a closing has added up are older than its pair. With
this every action changes one or two rows whose worth is known, and `CoinStep` closes the
three sums. The closing pair is the last two operations because the pair's ids are above
those the closing saw, and a later one would have been admitted, or built, before the
closing: that is when `disturbed` is set. A total that wrapped is not the sum, which
`disturbed` records too, so the proof holds for every `MaxInt`.

**PosSystem.** The till is compared with a net sum, since amounts may become negative:
`NetStep` is `CoinStep` for the positive and the negative parts. A rewriting moves that sum and
`adrift` against each other and leaves the till. `PosInv` ties a request to its cart (`Charging`: the cart is open, the prices
it holds are those of its lines, and no other checkout is that far), a removal to its sale
(`Removing`), a header to its lines (`Shown`), and a cart to its sale (`OneSale`). Then a
commit, a void, a deletion, a closing and a reopening each change the goods of one
cart, or of none, and the equation of each product (shelf + sold = delivered) changes by the
quantity of one line on both sides. `ChargesAreShown` uses only that the total of the
header and the total of the charge are the same function of lines and prices, with the
rounding and wrap-around it has.

**StockRows.** Absence of deadlock is a statement about sets of transactions; the
invariant is about one. `BalancesFirst`: a row is locked only by a transaction that
runs and has made a statement, and a checkout that has made one holds the balances of
the branch, since they are the first row on its path. In a cycle of checkouts,
whoever is waited for holds a row, so it holds the balances; but it waits for another
in turn, which would hold them as well. For the sums, `SumsInv` says what the holder of a row
adds to the committed quantity (`StockIsMoves`): a row holds the committed moves plus the
uncommitted one of whoever holds it, so that a commit moves one from the second to the
first, and a rollback, wherever it happens, takes it back. It needs that a transaction
holds exactly the rows of the statements it has made and makes no two on one row.

**Bnpl.** Every step leaves a debt and its payments alone, or adds one payment to it and to
`paid`, or removes the debt with its links (`BnplSteps`, `DebtMoves`), as long as the
debt is not `doubtful`. `paid` is an int32, so the equation is about the sum modulo 2^32,
and only at the end about the number. `RemovalsSawNone`: a deletion under way has seen no
open debt of its customer. If the customer has one when the deletion writes, the debts
are not those it saw, and that is what `doubtful` records. `CustomersAreRows` says that
customers are records, so that a new number is not a disappearance.

**Accounts.** "At most one default" is broken in the middle of a choice by any other
choice. `AccountsInv` says what holds in between for a customer who is not `raced`:
while a request is between its two statements it is alone, and no address is the
default. That an e-mail and a password let one customer in follows from `MailsAreUnique`,
the unique index.

**Purchases.** `PurchasesInv`: in each cart the header is the sum of the lines, and so it is
in what a request is about to save; a cancellation has read a status that may be
cancelled. Who was overtaken is what the history variables record, so each save of a
cart that nobody overtook is the change that was asked for, on the lines it was asked of.

**Reviews.** The recount is two best-effort statements after the change, so figures and
rows disagree most of the time. `OwesCount` names who will repair it: a request that has
changed a review and not counted yet, or has counted and not written, or edits a
review that another has deleted meanwhile. `ReviewsInv` says that the figures agree, or
somebody owes the product a count, or it is `outdated`. Votes are
counted in the statement's own transaction, so the number of helpful votes is exact.

**Proposals.** Row and file disagree during an errand, in a way that its stage tells:
`InStep` lists the four situations (`read` or `found`: they agree; `cleared`: no file;
`saved`: the new file and the old row; `deleted`: the old file and no row). `InOrder` says
that a proposal not in doubt has at most one errand, in step with it, and agrees when
it has none. Every action of one errand leaves the other proposals alone
(`ErrandKeeps`), so each of the six needs only its own stage.

**Catalog.** An edit that nobody crossed has seen the links that are there, so what it
deletes is all of them. `CatalogInv` adds to the property what the foreign keys do: links lead from a
product that is there to a category that is, and a product that is not there yet has no
list anybody asked for (`NewAreBare`), so that creating it starts from agreement.

**Storefront.** The lists are read from the catalogue as it stands, so the invariant is short:
the products that are there are finitely many (`OneMore`: a step adds at most one),
and a shelf is empty or has a natural price and a quantity (`ShelvesInv`). The rest is
arithmetic: a product whose place does not depend on how the database breaks ties has one
place k below the length of the list (`PlaceInList`), k is on exactly one page of c
products (`OnePage`), and that page is one of those the answer counts (`PagesEnough`).

**Access.** Half of the argument is about the order of registration: `GuardsStand` reads off
`Registered` which guards stand before which group, and that none stands before logging
in and the public pages. The other half is an invariant about each request: whatever
guards it has met, it has what they leave (`IsVisit`): behind the guard of the staff its token is
an access token of a member of the staff; behind the capability the seat is the account as it was then,
and still is unless the account changed. A token's bearer signed in, and an access token
cannot be older than the last time (`IsIssued`); both stay true because signing in only
moves forward.

**Analytics.** The invariant is that shifts are finitely many and their figures are numbers, of
which cash is a part. Everything a page shows is then a statement about one finite set of
journals: split by day, by weekday or by branch it comes to the same (`CoinsOfParts`);
each place of the ranking has a branch, because the least of the better ones ends
where the next begins (`PlacesAreTaken`); and of the journals of one branch, which are
on different days, the n newest are n (`NewestAreMany`), so that each half of them is divided by
its own size and its average stays between the worst and the best shift. Growth
compares two averages over a common denominator; if takings never fell, no shift of the older
half is above one of the newer.

**Migration.** What a run does is a function of a whole database, which suggests an
induction over the database; the proof goes around it. The statements of a run,
transactions apart, are a function of the documents alone (`Plan`), because by the time
products ask for categories all of them are known. So what is to be shown about data is
shown about single statements of the plan, without induction: it is *sound*
(`IsSound`: a statement brings something expected, under the keys that say whose it is)
and *complete* (`HasStatement`, the lemmas `Complete...`: everything expected has a
statement). What remains is an invariant of the run, step by step:
`PlanInv`, every statement that the run has passed (`Executed`) has its row, or one
with its key if it may skip; `SerialInv`, rows that have no key come from different
statements; `LinkInv`, the operations that were linked have a journal; `TxnInv`, the transactions
that were passed are there, and in the step of the embedded ones the order still to come
holds all that are missing; `MemoInv`, what the lookup tables say of a transaction,
some document says; `SyncInv`, nothing is uncommitted between steps. They need of the rows
(`RowsInv`) that keys are distinct, references are satisfied by earlier rows, and every row comes from
a statement (`Sourced`): this holds across stops, because a rollback returns to rows
of which it was shown before. `FreshRunIsFaithful` follows when the plan is over. For
`ReportIsTruthful`: a run that ends on rows of an earlier one was not stopped by a
collision; so there was no row of a root table (`RootTables`), nor, by the references, of anything embedded
in one, and what can be left is activities, links and skipped rows
(`NoRootIsLeft`); activities have no key and come once more, which the count shows
(`ActivitiesAreLeft`). `MoneyDiffIsExplained` compares two sums over the same
transactions: they are the same function, so no induction over the fold is needed.

**Model-checked only**: liveness (`TransactionsEnd`; `StaleCartsAreReaped` is a
counterexample), which is out of the prover's reach, as are ENABLED and what a recursive
definition computes for every input.

## 5. Not modelled

* **platform**: configuration, logging, cache, S3, connection set-up. Its consequences
  (isolation, locks, rollback, foreign keys) are external definitions of the models.
* **suppliers**: create, edit and delete write one row that no property relates to
  another; their payments are modelled.
* **sales sessions**: the handlers answer 501 and their routes are commented out; likewise
  the cart hand-off feature router is not called and the internal expenses have no
  route.
* Search texts, names, slugs, layouts, colours, float rounding of charts, rate limits of
  the hand-off code (modelled in `SaleCart` as the lockout it writes, without a property),
  generated API documentation (`docs/`), and tests.
* Dead code: the write functions of the store's catalogue, and the chart builders that
  nothing calls.
* **ForwardProxy** as an HTTP exchange; who may reach it is in `Access`.

## 6. Plan

1. Done: carts and their proofs, shifts and ledger, the composition `PosSystem` with the
   stock under it, the customers' side, the back office, the migration.
2. Done: a theorem for every safety and action property that a passing run checks.
3. An abstract account book, which `JournalLedger` and `Bnpl` implement while nothing is
   disturbed.

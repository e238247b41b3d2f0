# SMARTA: verification of the inventory and order backend

TLA+ models of the concurrent parts of the SMARTA backend (FastAPI, SQLAlchemy
on PostgreSQL, Redis), the TLC configurations that check them on small
instances, and TLAPS proofs of the main results for every instance. Paths below
are relative to the repository.

All hard behaviour of this program comes from requests that overlap. A handler
is short and sequential, keeps nothing in memory between requests, and talks to
two stores: one PostgreSQL transaction per request at READ COMMITTED (the
default; `app/core/database.py` sets no other level), and Redis calls that are
no part of that transaction. So the models take a request as the process and a
database statement or a Redis call as the step.

## Inventory

| component | state | operations | modelled |
|---|---|---|---|
| Order status (`services/order_service.py`, `api/v1/orders.py`) | `orders.status`, row locks | `update_status`, `confirm_order` | `OrderStock` |
| Benchmark harness (`api/v1/benchmark_sync/products_sync.py`) | the same rows, through a synchronous session | `update_order_status_sync`; the other harness operations only read | `OrderStock` |
| Stock adjustment (`services/product_service.py`) | `products.quantity`, `stock_movements` | `adjust_stock` | `OrderStock` |
| Product cache (`services/cache_service.py`, `core/cache_keys.py`, reads in `product_service.py`) | Redis keys `products:*` | get, set with a TTL, delete, `invalidate_pattern` | `CacheAside`, keys in `ListPages` |
| Sales report (`api/v1/reports.py`) | Redis key `reports:sales:*` | `sales_report` | entry and invalidation in `CacheAside` |
| Product catalogue (`product_service.py`) | `products` rows, the index of `uq_business_sku` | `create_product`, `update_product`, `delete_product` | `Catalogue` |
| Order creation (`order_service.py`) | `orders`, `order_items`, key-share locks | `create_order` | `Catalogue` |
| Authentication (`services/auth_service.py`, `api/v1/auth.py`, `dependencies.py`) | `users`, `businesses`, Redis `blacklist:*`, `user:*`, issued tokens | register, login, refresh, logout, `get_current_user` | `Sessions` |
| Businesses and their owners | tables | created by `register` | `Sessions` |
| Customers | table only | none | no |
| Admin statistics, settings, routing, response schemas | none of their own | read, format | no |
| Migration (`alembic/`) | constraints of the tables | creates them | its unique constraints, in `Catalogue` and `Sessions` |
| Load tests, tests | clients | | read for the workloads |

### How the components interact

* Status updates, harness updates and adjustments meet on rows of `orders` and
  `products`. They wait for each other only through row locks
  (`SELECT ... FOR UPDATE` and the lock every `UPDATE` takes).
* `update_status` reads the order without a lock. `confirm_order` locks it
  afterwards, but the session already holds the object: SQLAlchemy keeps the
  attributes of the first read. The products are first loaded by their own
  `FOR UPDATE`, so their quantity is the current one.
* The harness reads the order with the lock, and decides on what it read.
* Creations and edits of products meet in the unique index on business and
  SKU: an insertion waits for an uncommitted row with its key.
* Creating an order takes a key-share lock on every product it lists, through
  the foreign key of its items. That lock waits for the `FOR UPDATE` of a
  confirmation and for an `UPDATE` of the SKU (a key column), and they for it.
* Every mutation of a product, and every confirmation, sends deletes to Redis
  after its commit. Readers ask Redis, then the database, then store the
  answer. Nothing orders one request's Redis calls against another's.
* `CacheService` catches every exception of Redis. The token blacklist in
  `dependencies.py` does not go through it, and is not guarded.

### Where it is hard, and what correctness means

* **Orders and stock.** A confirmation takes all of its items or none, never
  more than there is, from the quantities that are committed when it commits;
  no lock outlives its transaction; opposite lock orders end in an abort and not
  in a hang; an order is confirmed once, and a final status is final; the
  movements account for the quantity.
* **Cache.** An entry is stale only for a reason one can name, and not for ever.
* **Catalogue and order creation.** SKUs are unique in a business whatever
  races, and the constraint is met only by what the check could not see; an edit
  does not undo another one or a deletion; an order that fails leaves nothing,
  and one that is created has every item at a price that was offered.
* **Sessions.** A token that was revoked or has expired is refused; a token
  belongs to an owner that exists; owners who share an email can log in.

The list of what can go wrong at which line, with the property that would
notice, is `hazards` in `PROJECT.json`.

## Modules

| module | content |
|---|---|
| `OrderStock` | concurrent status updates (both handlers) and adjustments, statement by statement |
| `OrderLifecycle` | what they promise together: atomic steps on status and stock |
| `OrderStockProofs` | inductive invariant, safety theorems, refinement |
| `CacheAside` | readers, writers, lost calls, crashes and expiry around Redis |
| `CacheAsideProofs` | type correctness and the staleness theorem |
| `Catalogue` | concurrent creations, edits, orders and the locks of confirmations |
| `SkuRegistry` | what the product endpoints promise together: atomic changes that respect SKUs in use |
| `CatalogueProofs` | inductive invariant, safety theorems, refinement |
| `Sessions` | registration, login, refresh, logout and the check of a token, with clock and blacklist |
| `SessionsProofs` | inductive invariant, safety theorems |
| `ListPages` | which cache entry a product list is stored under |
| `ListPagesProofs` | for which requests the keys of lists are unambiguous |
| `WaitCycles` | a lemma about finite sets for the deadlock theorems of both proof modules: requests that all wait wait in a circle |
| `MCOrderStock`, `MCCacheAside`, `MCCatalogue`, `MCSessions`, `MCListPages` | rows, bodies, demands, queries, symmetry and the order of writers of the instances |

### OrderStock

`status` and `stock` are the committed rows; `draft` is the newest version of a
quantity, committed or written by the transaction that holds `productLock`.
`pc` says which statement a request executes next: a request at `item` has
chosen the row `next` and waits for it if it is locked. `ledger` sums the
`quantity_change` of the committed movements.

Three variables are pure histories. `confirms` counts the commits of a
confirmation. `raced` collects the orders of which two updates have overlapped:
a request is in progress (`InProgress`) from the step that accepts its status
change to its commit or rollback, and the accepting steps (`ReadOrder`,
`SyncLockOrder`) note the order if another update of it is in progress
(`NoteOverlap`). `overtaken` collects the adjustments of a product that another
request committed between their unlocked read and their write
(`NoteOvertaken`, part of `Publish`). No action reads any of them.

| action | code |
|---|---|
| `ReadOrder` | `get_order` and the if/elif chain of `update_status`: refuse, confirm, or set the status |
| `LockOrder` | `confirm_order`: `SELECT order FOR UPDATE`, whose row does not replace the loaded one |
| `DeductItem`, `InsufficientStock` | one round of its loop; 409 rolls everything back |
| `WriteStatus` | the `UPDATE orders` of the flush, for cancelled and fulfilled |
| `CommitUpdate` | the commit |
| `SyncLockOrder`, `SyncRefuse` | the harness: lock, then test |
| `ReadProduct`, `WriteQuantity`, `CommitAdjust` | `adjust_stock`: unlocked read and 422, absolute write, commit |
| `Fail` | any exception before the commit: a lost connection, a killed worker, a 404, an unknown status |
| `DeadlockAbort` | PostgreSQL's deadlock detector (external) |

Choices a reader should know:

* Two items of one order that name the same product are merged in `Demand`. The
  code locks that row twice in one transaction and sees its own decrement, so
  the outcome is that of one item with the sum.
* A `quantity_change` of 0 is left out: SQLAlchemy writes no row for it.
* `item` and `commit` start only with the order's row lock, taken in the same
  step as the choice of the first item, since no statement lies between.
* Cancelling a confirmed order puts nothing back, as in the code.
* The `CHECK (quantity >= 0)` of `products` is not in the model. What it would
  refuse does not occur: `StockNonNegative` holds without it.

### OrderLifecycle

`Confirm`, `Cancel`, `Fulfil` and `SetQuantity` are atomic. The refinement is the
identity on `status`, `stock` and `confirms`; the abstract `raced` is `Excused`,
the raced orders that some request of the asynchronous handler names. It starts
empty and grows by `Overlap`, and only for its members does the abstract
specification give up that transitions are legal. So an order that is updated by
one request after the other keeps to them, failures and other orders
notwithstanding, and so does an order that only the harness updates, even where
its requests overlap, because the harness decides under its lock. For all orders
it promises the whole deduction in one step and nothing handed over that was not
deducted.

### CacheAside

An answer is abstracted to a pair: the number of commits that had changed it
when its first and when its last statement read the database. `version[k]`
counts those commits, `cache[k]` is the pair Redis holds, and `current[k]`
remembers whether the entry was up to date when it was stored: it tells an entry
that went stale later from one that was stored stale.

| action | code |
|---|---|
| `Query`, `QueryItems`, `Store`, `StoreLost` | a miss in `list_products`, `get_product` or `sales_report`: the database read, for a list the count and then the items, and `cache.set` |
| `Mutate` | the commit of `create_product`, `update_product`, `delete_product`, `adjust_stock` or `update_status`; a confirmation changes the products of its order |
| `DeleteDetail`, `Scan`, `DeleteScanned`, `DeleteReport` | the calls that follow it, in the order of the endpoint; `Scan` is one call of the cursor of `scan_iter`, which returns the keys present among those it comes to, in any order and grouping |
| `CallLost` | a Redis call raises and is logged |
| `Crash` | the worker dies after the commit |
| `Expire` | the TTL ends, or Redis evicts the key (`allkeys-lru` in `docker-compose.yml`) |

The miss and the query are one step: what the cache holds between them does not
change what the reader does. Because a list is built from two statements, its
total and its items may belong to different states of the database; such an
entry counts as stale, and is never `current`. A key that is stored after the
cursor has passed it is not among those the scan returns. The
mutations left out of the kinds (cancellations) touch no key the readers fill.

### Catalogue

`row` holds the committed rows of `products` as SKU, price and activity; the
price stands for every column that an edit may set and no key depends on. What a
transaction has written and not committed is in `write`, the columns it changes,
and in `pc`: a writer at `commit` has its row version and its index entry.
`rowLock` and `keyShare` are the two lock strengths that matter. `overtaken` and
`offered` are histories: the rows that got their SKU since a writer's check, and
the products and prices on sale since an order arrived.

| action | code |
|---|---|
| `CheckSku` | the SELECT of `create_product` and `update_product`, and its 409 |
| `ReadProduct` | `_get_product_db` of an edit, and which attributes then differ |
| `WriteRow` | the `UPDATE products` of the flush, for edits and deletions |
| `InsertKey`, `UniqueViolation` | the index insertion of that flush: it waits, then succeeds or raises an `IntegrityError` that nothing handles |
| `CommitWrite` | the commit |
| `StartOrder` | `create_order` up to its loop: the flush of the order |
| `SelectProduct`, `ProductMissing` | the SELECT of an active product, which fixes the price, or 404 |
| `InsertItem` | the `INSERT order_items`, flushed before the next SELECT or at the end |
| `CommitOrder` | the last flush and the commit |
| `StartConfirm`, `LockProduct`, `UpdateProduct`, `CommitConfirm` | the row locks of `confirm_order` and the `UPDATE` that the next statement flushes, without quantities, which are in `OrderStock` |
| `Fail`, `DeadlockAbort` | as in `OrderStock`; `Fail` is also the 404 for a customer and a value the tables refuse |

Choices a reader should know:

* SQLAlchemy writes the attributes that differ from what it loaded, nothing
  else. An edit therefore overwrites only the columns it changes, and a body
  with the SKU the product already had writes no SKU and makes no check.
* The session keeps an object only as long as something refers to it. In the loop
  of `create_order` that is the product of the item before, so two neighbouring
  items of one product share the price loaded for the first. `SelectProduct`
  copies it; `MCBaskets` has such a pair.
* An `UPDATE` that leaves the SKU alone does not conflict with key-share locks,
  one that changes it does (`Renames`).
* An index insertion waits for rows that are about to be replaced, not for rows
  that are only locked: between its `FOR UPDATE` and its `UPDATE` a confirmation
  holds nobody at the index (`OnlyLocked`).
* The check sees deleted products, and so does the constraint: a SKU is never
  free again.
* `update_product` finds inactive products: it edits them and leaves them
  inactive.

`SkuRegistry` has two atomic steps, `Add` and `Change`. The refinement is the
identity on `row`: no step changes two products, takes a SKU in use, revives a
deleted product or removes one.

### Sessions

A registration that commits is a business and its owner in one; `registered`
collects them. `issuedAt` dates the pair of tokens a request issues (both carry
an expiry of their own from the same second), `token` is the one a bearer
presents, and `until` is the second in which its blacklist entry ends.
`loggedOut` and `lost` are histories: tokens whose logout was answered with
success, and those of them whose entry Redis dropped.

| action | code |
|---|---|
| `CheckEmail`, `InsertBusiness`, `EmailViolation`, `CommitRegistration` | `register`: the check and its 409, the first flush against the unique index, the flush of the owner and the commit |
| `FindUser`, `LoginFails` | `login`; two users with one email make `scalar_one_or_none` raise |
| `DecodeRefresh`, `RefreshUser` | `refresh`: the token's own expiry, then the user |
| `IssueTokens` | the answer of these three |
| `DecodeLogout` | the token and the `ttl` computed from it; an expired token is a success without an entry |
| `StoreRevocation`, `StoreUnanswered`, `StoreRefused` | `setex`: done, done without its answer arriving (500), refused because the `ttl` is 0 (500) |
| `DecodeCall`, `CheckBlacklist`, `FindCaller` | `get_current_user` |
| `Fail` | a registration fails after its first flush |
| `Expire`, `Lose`, `Tick` | the TTL, eviction or a restart of Redis, the clock (external) |

Choices a reader should know:

* The clock counts seconds, as `exp` does. A token is accepted in the second of
  its expiry, as `jose` does. Redis counts milliseconds from the moment of the
  call, so an entry may end anywhere in its last second.
* A call to Redis is executed when it arrives: `second` may have advanced since
  `ttl` was computed, and a second logout may replace the entry of the first.
* A request that holds no lock and fails is a request that takes no further step,
  so failures are explicit only where a transaction is open. A lookup
  or a logout whose Redis call is not executed, or a login whose query raises,
  answers 500 and changes nothing.
* Access and refresh tokens are told apart by their type, so a bearer is given
  the right kind; a wrong kind is refused like an expired one.
* Nothing in the code deactivates a user, so users stay.
* `logout` and `get_current_user` have a branch for `redis is None`. Requests are
  served after the lifespan has created the pool and before it closes it, so
  those branches are not reached and the module leaves them out.

### ListPages

One action per Redis or database call of `list_products`, on a shelf that does
not change: what mutations do to entries is in `CacheAside`. Names, searches and
categories are sequences of characters because the property is about how they
are joined and matched: a search is a pattern of `ILIKE`, which ignores case and
keeps `%` and `_` as wildcards (`Like`). `Key` is the key of the code, `Answer`
what the database would say.

## Runs

| run | instance | what it shows |
|---|---|---|
| `order_requests` | two API requests, one of the harness, one adjustment by +1 or -1, two orders, two products | every interleaving with failures and deadlocks: `StockNonNegative`, `SoldImpliesDeducted`, `LedgerBalances`, `ConfirmDeductsDemand`, `DoubleOnlyIfRaced` and `TerminalUnlessRaced` (what the violations below can do takes two overlapping updates), the refinement `ImplementsLifecycle`, and the inductive invariant of the proofs |
| `order_harness` | two harness requests beside one of the API | `HarnessConfirmsOnce`; `ImplementsLifecycle` where two harness requests race for one order; `NobodyHangs`; `EveryRequestAnswered` under fairness |
| `cache_entries` | one reader for ever, two mutations, one product, one list, the report | `ProductStalenessExplained`: deletes reach every product entry a commit outdated; the inductive invariant; `EventuallyFresh`, whatever was lost |
| `catalogue` | a creation, two edits, an order and a confirmation on two products | every interleaving with failures and deadlocks: `SkuUnique`, `ViolationOnlyByRace`, `ItemsOffered`, `NobodyHangs`, the refinement `ImplementsRegistry`, the inductive invariant, and `EveryRequestAnswered` under fairness |
| `sessions` | two registrations with two business and two owner emails to choose from, a login, a refresh, a logout, a call, four seconds | `BusinessEmailsUnique`, `TokensBelongToUsers`, `RevokedRefused`, the inductive invariant |
| `order_terminal`, `order_twice`, `order_oversell`, `cache_race`, `cache_report`, `list_keys`, `login_shared` | the smallest instance of each | the disagreements below |

**Bounds.** A request of the models ends; only readers of the cache go on for
ever. One counter is bounded by a guard: the clock of `Sessions`, by
`MaxSeconds`. Nothing else is cut off. Three status updates and an adjustment
are enough for what can meet on a row: two confirmations of one order, a third
update behind the lock, a cycle of lock waits, and an adjustment on either side
of a commit. `MCDemand` makes both orders take both products (so that they can
deadlock), and the stock of the second product is one unit short for both (so
that the later one is refused after it has deducted the first). In
`cache_entries` two writers let one invalidation run inside another; a reader
fills one key after the other, before, between and after their calls, and one
product and one list are two keys that a scan may come to apart. A second reader
would add fills that race each other, and a second product confirmations of two;
each takes a run with liveness beyond five minutes. The safety theorems cover
both; `EventuallyFresh` is checked for this instance only. In `catalogue` an
edit may be a rename to the SKU the creation wants, of one product or of the
other, a new price sent with the SKU the product had, which leaves a SKU set
meanwhile, or a deletion of what the order lists; there is one creation, so two
creations of one SKU are covered by the theorems alone. The order names one
product twice and then the other, and the confirmation locks the same two in
either order, which is the shortest cycle of key-share and exclusive locks. In
`sessions` tokens live two seconds, refresh tokens one and the clock stops at
three: a logout can compute its `ttl` in each second of a token's life, the last
one (where it is 0) included, store it one or two seconds later, and be followed
by a call after the expiry; two registrations can agree in both emails, in
either of them, or in none, and the login has the email of one, of both or of
neither. One logout is run; several for one token are covered by the theorem.
Requests of the API, and in `sessions` registrations and emails, are
interchangeable, and symmetry is used only in runs without liveness. In
`catalogue` and `cache_entries`, which have liveness, the edits and the writers
are interchangeable too; `OrderedInit` keeps the initial states in which the
first comes before the second in a list of bodies or kinds.

**Fairness.** Each handler's next statement is weakly fair: the event loop or
the thread pool schedules a ready handler, and a statement that does not wait
for a lock is answered or raises. The deadlock detector is weakly fair. A
failure is never fair, so `EveryRequestAnswered` does not lean on crashes. It
needs no strong fairness because the requests are finite in number. In
`CacheAside` only expiry is fair, because every `set` in the code carries a TTL;
readers and writers may stop anywhere. `Catalogue` assumes less than
`OrderStock`: some request or the deadlock detector proceeds while one can
(`Progress`), whichever it is, since every request ends after finitely many
steps of its own. A request can fail as long as it is not answered, so TLC's own
deadlock check cannot fail here; `NobodyHangs` says what it would have said of
requests that do not fail. `Sessions` states safety only and assumes no
fairness: none of its requests waits for anything but another registration.

**Mutants.** Definitions commented "Mutant of X" are plausible mistakes in X: a
missing `FOR UPDATE`, a dropped quantity test, a rollback that keeps what was
written, an answer with the transaction left open, a confirmation that forgets
the product keys, an entry without a TTL, a table without its unique index, a
check that overlooks deleted products, a confirmed order that may be confirmed
again, a cancelled one that may be confirmed, an edit that revives a deleted
product, a blacklist that counts an error as not revoked. Each property of a
passing run is violated when its mutant takes the place of the original.

## Disagreements between the code and what is said of it

1. `order_terminal`: `update_status` answers 400 for a cancelled order ("Cannot
   update a cancelled order"), but tests an unlocked read. A confirmation
   overlapping a cancellation makes the cancelled order confirmed.
2. `order_twice`: the README says the harness mirrors the locking strategy. The
   harness tests under the lock; `confirm_order` does not test again, and two
   overlapping confirmations deduct one order twice. (Same cause as 1, other
   consequence.)
3. `order_oversell`: the README says row locks prevent overselling.
   `adjust_stock` takes none and overwrites a sale committed after its read;
   the units are sold again.
4. `cache_race`: the README says stale data needs a missed invalidation. A fill
   read before a commit and stored after its deletes needs none.
5. `cache_report`: the README says every order mutation triggers deletion.
   Fulfilment, which alone changes the sales report, deletes nothing;
   confirmation deletes a report it does not change.

6. `list_keys`: the README's key of a list has the offset (`o{offset}`); the code
   uses the page, the offset divided by the limit. With a limit of 2, the offsets
   0 and 1 share an entry, and the second reader gets the first reader's items.
   Search and category are joined with a colon that both may contain, which lets
   other pairs of queries meet in the same way.
7. `login_shared`: the README allows one email in two businesses ("same email OK
   across businesses"), and so does the constraint on users. `login` asks by email
   alone and takes the result with `scalar_one_or_none`, which raises if there are
   two: both owners are answered 500, whatever their password (`LoginFails`).

Three more were seen while modelling and have no run, since they are read off the
code directly. The README (line 82) calls the refresh endpoint "Rotate refresh
token": it issues a second pair and the first refresh token stays valid, also
after a logout, which revokes the access token only. Its "immediate revocation"
(line 282) has the limits `RevokedRefused` names: a logout in the last second of
a token answers 500, and an entry may be evicted before its end. It says of the
cached profile "On logout" (line 220): nothing deletes that key.

Seen while reading, outside the models: `api/v1/auth.py` uses
`HTTPAuthorizationCredentials` at line 51 without importing it, which fails when
the module is loaded, and some response schemas declare `id: str` for UUID values,
which turns the answer of a committed request into a 500. The models take the
name as imported and end at the commit, so neither changes them.

## Proofs

For every set of requests, orders, products, keys, and every demand, stock and
change, every catalogue, body and basket, every lifetime and length of time.
Assumptions: `RequestAssumption` of each module (the kinds of request are
disjoint, `None` is none of them), `RowAssumption` (demands and initial
quantities are naturals, by the CHECK constraints; in `Catalogue` the initial
rows respect the unique constraint), `ChangeAssumption` (changes are nonzero
integers), `KeyAssumption` (the keys are distinct), `BodyAssumption` (bodies are
what the request schemas admit: a creation is complete, only DELETE resets the
activity), `TimeAssumption` (times are naturals), `FiniteAssumption` (there are
finitely many requests; of the theorems only `HangsCorrect` uses it).

| theorem | statement |
|---|---|
| `OrderStockProofs!TypeCorrect` | `Spec => []TypeOK` |
| `InductiveCorrect` | `Spec => []Inductive` |
| `StockNeverNegative` | `Spec => []StockNonNegative` |
| `SoldWasDeducted` | `Spec => []SoldImpliesDeducted` |
| `LedgerCorrect` | `Spec => []LedgerBalances` |
| `HarnessCorrect` | `Spec => []HarnessConfirmsOnce` |
| `ConfirmCorrect` | `Spec => ConfirmDeductsDemand` |
| `DoubleCorrect` | `Spec => []DoubleOnlyIfRaced` |
| `TerminalCorrect` | `Spec => TerminalUnlessRaced` |
| `NotOversoldUnlessOvertaken` | `NoOverselling` for the products whose adjustments were never overtaken |
| `HangsCorrect` | `Spec => []NobodyHangs` |
| `LifecycleImplemented` | `Spec => ImplementsLifecycle` |
| `CacheAsideProofs!TypeCorrect` | `Spec => []TypeOK` |
| `InductiveCorrect` | `Spec => []Inductive` |
| `StalenessCorrect` | `Spec => []ProductStalenessExplained` |
| `CatalogueProofs!TypeCorrect`, `InductiveCorrect` | `Spec => []TypeOK`, `Spec => []Inductive` |
| `SkuCorrect` | `Spec => []SkuUnique` |
| `ViolationCorrect` | `Spec => []ViolationOnlyByRace` |
| `ItemsCorrect` | `Spec => []ItemsOffered` |
| `HangsCorrect` | `Spec => []NobodyHangs` |
| `RegistryCorrect` | `Spec => ImplementsRegistry` |
| `ListPagesProofs!KeyInjective` | different requests for whole pages, without colons in their filters, have different keys |
| `WholePagesAnswered` | for such requests `Spec => []HitAnswersQuery` |
| `SessionsProofs!TypeCorrect`, `InductiveCorrect` | `Spec => []TypeOK`, `Spec => []Inductive` |
| `EmailsCorrect` | `Spec => []BusinessEmailsUnique` |
| `TokensCorrect` | `Spec => []TokensBelongToUsers` |
| `RevokedCorrect` | `Spec => RevokedRefused` |

**The argument for OrderStock.** None of the properties is inductive. That a
commit deducts the demand depends on the draft it publishes, which is right
because the row has been locked since it was read. So `Inductive` adds

* `ProgressInv`: what `pc` says about `todo`, `next` and the target;
* `LockInv`: a lock is held by exactly the request whose progress needs it (an
  equivalence: this is also "no lock outlives its transaction");
* `DraftInv`: an unlocked draft is the committed quantity, a locked one is what
  its writer made of it, and both are naturals. `StockNonNegative` follows;
* `PlannedInv`: what an adjustment writes is the committed quantity plus its
  change as long as it was not overtaken. `LedgerBalances` follows;
* `DeductedInv`: a request about to write `fulfilled` saw a confirmed order, and
  `confirms` never decreases;
* `RacedInv`: two updates of one order in progress make it raced; until then the
  decision of a request still holds when it commits, and the order is confirmed
  at most once. An order of the harness alone is never raced: its requests are
  in progress only under the lock of the order.

They are proved one after the other, each from those before it. Lemmas say what
`Rollback`, `Publish` and `NextItem` do, and which steps can change status,
stock or a decision (`StatusFrame`, `StockFrame`, `DecisionFrame`), so that each
proof splits only on steps that matter. In the refinement, `CommitUpdate` is
`Confirm`, `Cancel` or `Fulfil` by its target, `CommitAdjust` is `SetQuantity`,
and every other step stutters or is `Overlap`.

These theorems also bound the disagreements 1 to 3. Requests that follow each
other never confirm an order twice (`DoubleCorrect`) nor revive a cancelled one
(`TerminalCorrect`), whatever fails between them: the overlap is the only cause.
A product is never oversold, even by such an overlap, unless an adjustment of it
was overtaken by another commit (`NotOversoldUnlessOvertaken`), and then only do
the movements not add up to the quantity (`LedgerBalances`): adjustments that no
commit overtakes do no harm, and those that are overtaken are the only cause.

**The argument against hanging**, in `OrderStock` and `Catalogue`. The first
part of `NobodyHangs`, that whoever waits waits for another request which is not
answered yet, comes from the lock invariants: a lock belongs to a request at a
place where it can still end, and nobody asks for a row it holds. The second
part is about the waits-for graph. If every unanswered request waited, choosing
for each one a request it waits for would map a finite set into itself;
`CycleExists` (a lemma of `WaitCycles`) finds a nonempty part which that choice
permutes, and this is what the deadlock detector looks for (`InCycle`). The part
is a smallest set the function maps into itself, which exists since strict
inclusion of finite sets is well-founded. So a statement is always ready or an
abort due, which is the safety half of `EveryRequestAnswered`.

**The argument for CacheAside.** `ProductStalenessExplained` speaks of writers
that are under way; a writer past its scan may no longer delete the key it
outdated. `Inductive` is exact: for each entry that went stale some writer
*owes* a delete, because the key is among those its scan has not come to
(`unscanned`) or has returned (`scanned`), or it lost a call. A key that was not
there when the cursor came to it had no entry; one stored since was stale at
once, or is outdated by a later commit, whose writer owes its delete.

**The argument for Catalogue.** That a commit publishes a SKU no one has does not
follow from the check, which is long past, but from the index: since the
insertion no other request can have inserted it. `Inductive` says so:

* `EditsHoldRow`: an edit past its `UPDATE` holds the row, so `Written` combines
  its columns with the row as it will be replaced;
* `WritesFresh`: a SKU about to be committed is in no other row;
* `WritesDiffer`: no two requests are about to commit one SKU. A rename claims it
  in the index (`Claimants`), and an insertion waits for claimants;
* `CreationsPending`: a creation has no row until it commits;
* `InsertsNamed`, `ChecksHold`: who reaches the index has a SKU, and since the
  check every row that took it is in `overtaken`. `ViolationOnlyByRace` follows;
* `CartsOffered`: the items copied so far were on sale, and what is on sale now
  is in `offered` while the order runs. `ItemsOffered` follows;
* `Places`, `LocksHeld`: which kind of request is at which statement, and that a
  row is locked only by an edit past its `UPDATE`, a confirmation that has no more
  to lock it, or an order that has inserted an item. `NobodyHangs` follows.

In the refinement `CommitWrite` is `Add` or `Change`, by `WritesFresh`; every
other step leaves `row` alone.

**The argument for Sessions.** `EmailsClaimed`: a registration that has inserted
its email shares it with no committed one and no other that inserted it.
`IssuersKnown`: a request about to issue tokens has its owner, and only answered
requests have issued. `TokensIssued`: what a bearer presents was issued.
`EntriesLast`: a `ttl` on its way to Redis reaches at least the expiry, whenever it
arrives, and the entry of a token whose logout succeeded lasts to the expiry
unless it was dropped. The clock cannot pass an entry that has not expired, so
`RevokedRefused` follows for each lookup.

**The argument for ListPages.** `list_keys` shows the lists that collide; the
theorems say that there are no others. A request asks for a whole page if its
offset is the first of the page it falls on; then page and limit give back the
offset. Filters free of colons can be read off the joined text: if the first
search were shorter, the other text would have a colon at its end. The bound of
the endpoint on the limit is a hypothesis, as is the alphabet, which may be any set
of characters without the colon. No run repeats the result: the instance of
`list_keys` violates both hypotheses on purpose, and with aligned offsets and
filters without colons in `MCQueries` TLC finds no violation.

**Only model-checked.** The liveness properties `EveryRequestAnswered` (of
`OrderStock` and of `Catalogue`) and `EventuallyFresh`: liveness under fairness is
not within reach of the installed prover. And the violations.

## Not modelled

* `api/v1/admin.py`, the hit and miss counters of `CacheService`, `list_orders`,
  the reading operations of the harness: they read or count, and nothing else
  depends on what they return.
* The profile that `/auth/me` caches: no operation changes a user, so the cached
  copy cannot differ from the row.
* The aggregation of the sales report: one query, a version number in
  `CacheAside`. Its figures would be a model of SQL's sums and joins.
* The migration, start-up, settings, routing and response schemas: they run
  before any request, or format an answer after its commit. The unique
  constraints of the migration are steps of `Catalogue` and `Sessions`.
* `blacklist_token` and `is_token_blacklisted` of `CacheService`: nothing calls
  them. The endpoints use Redis directly.
* Sums of prices: `create_order` adds up what it copied within one request, so
  `ItemsOffered` is about the copies. Quantities are in `OrderStock`.

# A TLA+ model of the e-commerce API

The repository is a NestJS server (`src/src`) over PostgreSQL (TypeORM) and
Redis. This directory holds TLA+ modules for the services whose state is shared
by concurrent requests, the TLC configurations that check them on small
instances, and TLAPS proofs of their main invariants for every instance.

What goes wrong in such a program goes wrong between two `await`s: each service
method is a sequence of statements, every `await` lets other requests in, and
only a transaction with `FOR UPDATE` keeps a row still. The modules therefore
have one action for each statement (or group of statements) that other requests
can tell apart, a program counter per request, and explicit row locks.

## 1. The system

| component | state | operations | talks to |
|---|---|---|---|
| inventory (`inventory/`) | rows `inventory` (available, reserved, committed), `inventory_transactions`; `products.soldQuantity` | `reserve`, `adjust`, `commitReservation`, `cancelReservation`, `getInventory`, `getLowStockReport` | called by orders inside their transactions, on connections of its own |
| orders (`orders/`) | rows `orders`, `order_items` | `createOrder`, `updateStatus`, `findAll`, `findOne`, statistics | products (`findOne`), inventory, cart (`clearCart`) |
| payments (`payments/`) | rows `payments`; Redis `idempotency:<key>` | `createPaymentIntent`, `confirmPayment`, `handleWebhook` | orders (`updateStatus`) from inside its transaction |
| database connections | the pool, row-lock queues | begin, nested begin, commit | every service |
| products (`products/`) | rows `products`, `product_images` | create, update, remove, search, images | inventory writes its `soldQuantity` |
| cart (`cart/`) | Redis `cart:<user>` (24 h), rows `carts` | get, add, update, remove, clear | products; cleared by orders |
| coupons (`coupons/`) | rows `coupons`, `coupon_usages` | create, apply, recordUsage, delete | nobody calls `recordUsage` yet |
| reviews (`reviews/`) | rows `reviews`, `review_moderations` | create, delete, approve, reject, queries | orders (was the product bought), products |
| auth and users (`auth/`, `users/`) | rows `users`; Redis `rtbl:<refresh token>` | register, login, refresh, logout; roles, deactivation | - |
| rate limiting (`common/security`, `common/guards`) | a Redis sorted set per key | `checkLimit` | `BruteForceGuard` and the login handler |
| cache and reports (`cache/`, `admin/`) | a process-local map and Redis | get, set, getOrSet, invalidate | the reports of `admin.service.ts` go through `getOrSet`; nobody calls `invalidate`, and no handler uses `CacheInterceptor` |
| categories (`categories/`) | rows `categories` | create, update, remove | products (`findOne`) |
| audit, tracking, UI, scripts | - | logging, static pages | - |

What is hard in it:

* **Interleaving.** `reserveInventory` and `adjustInventory` read a row, compute
  and save; `createPaymentIntent` checks that there is no payment and inserts
  one; `updateStatus` decides on the status it loaded. Row locks are to order
  them, but `FOR UPDATE` locks nothing when there is no row yet.
* **Transactions that nest in name only.** `createOrder` and `confirmPayment`
  call services that open transactions of their own on other connections. What
  the inner one commits survives a rollback of the outer one.
* **Redis inside a transaction.** `clearCart` and the idempotency cache are
  written before the COMMIT and are not undone with it.
* **Retries and repeated deliveries.** Webhooks are delivered at least once,
  clients repeat requests under one idempotency key, and the key expires.
* **Waiting.** Requests wait for row locks, for a unique key another
  transaction is inserting, and for connections of a pool without a timeout,
  some of them while they hold one.
* **No transaction at all.** Cart, reviews, coupons, users, images, the rate
  limit and the cache read, wait and write without a lock: what a check found may
  be false by the time of the write, a second write may fail after the first, and
  the save of an entity loaded before a deletion writes its empty `deletedAt` back.
* **Time.** Redis drops carts, tokens, limits and reports; the cache gives a
  value a second life in memory.

`PROJECT.json` lists each hazard at its line, with the properties aimed at it.

What makes each component correct: inventory loses no update and no unit; an
order's stock is reserved once and nothing else takes stock, and its status
follows `validTransitions`; an order is charged at most once and only if it is paid, and
a settled payment stays settled; a cart is emptied only for an order; requests
never wait for each other for ever. A cart never outgrows the stock, and its two
copies agree; a user has one review of a product, and no review is approved
unlogged; what is deleted stays deleted, and images keep their order. A coupon's
uses are counted and stay near its limits; a client keeps a refresh token it can
exchange, and an account is what administrators made of it; a window holds few
attempts more than its limit and a refused client is let in again; a report is
not served much beyond its life. Many of these the code keeps only as long as
requests do not overlap, or nothing fails. The properties say exactly how long.

## 2. The modules

| module | models | state and actions |
|---|---|---|
| `StockAccount` | what the inventory service promises of a product | `account`; `Reserve`, `Receive`, `Sell`, each atomic |
| `Inventory` | `inventory.service.ts`, with `update` and `remove` of `products.service.ts` | the tables, a row lock, the row each request's query picked and the entity it loaded (`held`, `seen`, `seenSold`); one action per statement |
| `OrderStatus` | the enum and `validTransitions` | definitions shared by `Orders` and `Payments` |
| `OrderLife` | what the orders table promises of an order | `status`; `Place`, `Move`, each atomic |
| `Charges` | what the payment service promises about an order and its charge | `OrderLife`'s, `paid`, `charge`; `Open`, `Decline`, `Succeed`, each atomic |
| `Orders` | `createOrder`, `updateStatus` and the calls they make | orders, carts, the order's row lock; inventory calls are steps of `StockAccount` |
| `Payments` | `payments.service.ts`, `idempotency.service.ts`, and `updateStatus` where `confirmPayment` calls it | payments, order statuses, cache, both row locks |
| `ConnectionPool` | connections and row locks that requests of `Orders` and `Payments` hold while they wait | program counters; connections in use are a function of them |
| `Requests`, `Storefront` | what the modules below share: requests; the products on offer, with the stock that `findOne` reads | `offer`; `Reoffer`, whatever changes a product's stock or existence |
| `Cart` | `cart.service.ts` | the Redis value and the rows of a user's cart, the copy each call works on; one action per await |
| `Reviews` | `create`, `approveReview`, `delete` of `reviews.service.ts` | reviews, moderation rows |
| `Catalog` | what `products.service.ts`, its images and `categories.service.ts` write, and the save of the product in a sale of `inventory.service.ts` | rows that are absent, live or deleted, owners, images with their `sortOrder` |
| `Coupons` | `coupons.service.ts` | coupons, recorded uses, valid replies not yet recorded |
| `Accounts` | `auth.service.ts`, `users.service.ts` | accounts, the keys `rtbl:<token>`, the one session each client keeps, what signing has yielded in the current second; `NextSecond` |
| `LoginLimit` | `rate-limit.service.ts`, `BruteForceGuard`, the login handler | ages of the attempts in each sorted set; `Tick` |
| `Cache` | `cache.service.ts`, with the reports of `admin.service.ts` | both levels; an entry is its age and what is left of its life; `CacheTick`, `Restart` |
| `Shop` | `Cart`, `Reviews` and `Catalog` side by side, over one offer | a turn of each: `CartTurn`, `ReviewsTurn`, `CatalogTurn` |
| `Services` | `Coupons`, `Accounts`, `LoginLimit` and `Cache` side by side | a turn of each |
| `Sums` | sums over finite sets, for the properties that count units | `SumOver` |
| `SumsTheorems` | facts about sums and the sizes of finite sets, for the proofs | - |
| `InventoryProofs`, `OrdersProofs`, `PaymentsProofs`, `ConnectionPoolProofs`, `CouponsProofs` | theorems about the module in the name | - |
| `ShopProofs`, `ServicesProofs` | theorems about the parts of `Shop` and of `Services` (coupons apart) and about the whole | - |
| `MC*` | finite instances | - |

Composition: `Orders` takes the inventory as `StockAccount`
(`Stock == INSTANCE StockAccount`), and run `inventory_stock` checks that
`Inventory`, with all its locks and partial steps, implements `StockAccount`.
That is why one step of `Orders` may stand for a whole inventory transaction.
Both sides are proved: `InventoryImplementsAccounts` for a table with at most one
row for a product, and `OrdersUseAccounts`, that `Orders` changes its accounts by
nothing else. `Orders` and `Payments` both change orders: `Orders` implements
`OrderLife` (run `orders_as_committed`, theorem `OrdersFollowOrderLife`), and
`Payments` implements `Charges` (run `payments`, theorem
`PaymentsImplementCharges`), which extends `OrderLife` and implies it
(`PaymentsFollowOrderLife`). So the short `updateStatus` of `Payments` does to
orders nothing but what the full one of `Orders` is proved to do.
`Cart` and `Reviews` share `Storefront`. `Shop` and `Services` run
the seven modules from `Cart` to `Cache` in full interleaving. They write nothing
that another of them reads, but for the offer, which changes by itself. Hence
`ShopIsItsServices` and `EachServiceAsSpecified`: in the whole, each behaves as
its own specification says. This is why the instances of `MCShop` and
`MCServices` may draw one service at the start and hold its requests only.

How code becomes actions:

* The writes of a transaction become visible in the one action that commits it
  (`ReserveCommit`, `CreateCommit`, `ConfirmCommit`...). PostgreSQL runs at READ
  COMMITTED: a statement sees committed rows and its own transaction's inserts
  (`Visible`, `Drafts` in `Inventory`).
* `FOR UPDATE` is a guard on a lock variable, held until `Commit` or `Rollback`.
  In `Inventory`, where a product may have two rows, the query first picks one
  (`LIMIT 1`) and then waits for that one, whoever has it (`Pick`, `Lock`).
* Saving an entity writes back what it was loaded with where the row differs by
  now: its `deletedAt`, hence `Revived`, `SaveChange` and `ProfileSave`.
* `INSERT` of a key of a unique index waits for another transaction that is
  inserting it and fails once that one commits (`KeyInserting`, `KeyCommitted`).
* An exception is an action of its own (`...Refuse`, `...NotFound`) that rolls
  back; in `Orders` and `Payments` rolling back leaves alone what inner
  transactions and Redis already have.
* `Fail` is a failed statement or COMMIT, or the end of the process, anywhere in
  a call. In `Orders` and `Payments` `MaxFailures` bounds it; elsewhere it is
  unbounded. Where the code catches a failure (a token that cannot be stored or
  deleted), that is a disjunct of the action.
* A call's locals are a record of the call. `NoRequest`, `NoReview`... is the
  record of an idle worker.
* Clocks are kept as ages and remaining lives, which a tick advances, so that no
  bound on time is needed. Ticks of `Cache` do not outlast `Delay`, the bound on
  a Redis command or a report's queries.
* uuids are values no row and no call has (`Fresh`, `FreshOrders`,
  `FreshIntents`). Prices, amounts, addresses and texts are left out. A check
  on them is a choice that may go either way, as is the mock payment outcome.
* Variables and fields marked "history" (`opening`, `placed`, `wasPaid`,
  `stranded`, `parted`, `contested`, `crossed`, `lapsed`...) are never read by a
  guard; they are there for properties. Several record the overlap or failure that
  a property excuses.

`Orders` has no items, and no action for the loop in `updateStatus` that returns
the stock of a cancelled order (`orders.service.ts:200`). `Order.items` is a
relation without cascade (`order.entity.ts:61`) and `createOrder` saves only the
order, so no row of `order_items` is ever written and the loop has nothing to
visit: `UpdateLock` stands for it. `placed`, the lines an order was placed with,
is history.

A refresh token in `Accounts` is what its payload makes it: the user's id and the
whole second it was signed in (`auth.service.ts:161`, no `jti`). Signing again for
a user within the second yields the same token (`Signable`); `NextSecond` moves
the clock on.

## 3. Runs

Every bound is a constant of the `.cfg`. Two concurrent requests suffice for a
race between any two calls; three are used where a third call (a webhook next to
a client's confirmation and an administrator's update) adds something.

| run | instance | shows |
|---|---|---|
| `inventory_stock` | 2 products with one row each, 1 unit, quantities 1-2, adjustments of -1 and 1, at most 1 unit received per row, 2 workers | `LedgerExplainsStock`: no lost update. `ImplementsStockAccount`: refinement |
| `inventory_create` | 1 product without a row, 2 row ids, every entry point, fair | `LockProtectsEntity`, `SoldWasCommitted`, `UnitsNeverVanish`, `EveryCallReturns`, row-creation races included |
| `inventory_two_rows` (violation) | reservations only | `OneRowPerProduct` fails |
| `orders_stock` | 2 products of 2 units, 1 user, two-line orders that visit the products in both orders, 2 orders, 2 workers, 1 failure, fair | non-negative stock (`TypeOK`), `EveryCallReturns` |
| `orders_as_committed` | 2 products of 2 units, 2 users, the same orders, 1 removal, 1 failure | `StockIsWhatOrdersTook`, `ReservedCoversOrders`, `NoOversell`, `CartClearedForOrder`. `ImplementsOrderLife`: refinement |
| `orders_partial` (violation) | two-line orders, 1 unit each | `StockIsWhatOrdersLeave` fails |
| `payments` | 2 orders, 2 intents, 2 keys, 3 workers, 1 failure; administrators cancel or ship | `OneActivePayment`, `PaymentsLostByFailureOnly`, `CachedIntentsExist`, `NeverStuck`, `SettledIsFinal`. `ImplementsCharges`: refinement |
| `payments_lost_payment` (violation) | 1 order, 2 workers, 1 failure | `PaidOrderHasPayment` fails |
| `pool` | 3 connections, 3 requests of which 2 may nest, 2 orders, 1 or 3 nested calls, fair | `NeverStuck`, `EveryCallReturns` |
| `shop` | 2 workers. Cart: 1 user, 1 product, stock and quantities 1 or 2. Reviews: 3 reviews of one product by one user who bought it. Catalog: 1 product, 1 category, 2 images, 2 sellers, sales among the calls | `CartWithinStock`, `QuietWritesAgree`, `OneReviewUnlessContested`, `ApprovedWasModerated`, `BuriedStaysBuried`, `ImagesInOrder` |
| `shop_persistent_cart` (violation) | the same | `PersistentCart` fails |
| `services` | 2 workers. Coupons: 1 coupon of 2 uses and 1 per user, 2 users who ask for at most 2 at once. Accounts: 1 email, 2 roles. Sessions: 1 email, 2 clients, 2 tokens, with seconds that pass. Limits: windows of 3 and 5 ticks that hold 2 and 3 attempts. Reports: 1 key, a life of 2 ticks, a delay of 1; fair where `RefusalIsTemporary` needs it | `UsesAreCounted`, `PerUserLimit`, `SessionsLostByFailureOnly`, `AccountAsDecided`, `OvershootBounded`, `AgeBounded`, `InvalidatedIsGone`, `RefusalIsTemporary` |

Why the bounds are enough. A stock of one or two units makes the last unit
contested by two callers, and refusals, sales that empty the row and receipts
that refill it all occur. Row creation needs two racing creators, so two row
ids; a third would only repeat the race. Two orders and two intents give both
two intents of one order and two orders sharing a key; a third worker lets an
update overtake a confirmation while an intent waits. Symmetry is used only in
runs without liveness, over ids that the instance treats alike (`Orders` and
`Workers`; `Intents`, `Workers` and `Keys`; `Workers` and `Reviews`).

In `shop` and `services` two requests give every race the modules have: each
race is between one call's read and its write, and one other call. One user, one
product, one account or one key is where calls meet. Two users are there for the
coupon only, whose count they share and whose personal limit they do not. Three
reviews allow two submissions after a deletion. The uses a coupon's rows record,
`usages`, are bounded by the limits themselves, but for overlaps: a use needs a
valid reply, and replies stop when its user has had its share. The accounts are
drawn in two parts: registrations and deletions are in both, changes of a profile
or a role in `accounts` only and tokens in `sessions` only, because neither of
these reads what the other writes. Two clients are enough for one to end the session
of the other, and two tokens for one that is exchanged and the next. Two ticks of
life make an entry that is fresh, one that is near its end and one that is gone.

`SoldWasCommitted` is an upper bound on purpose: `ProductsService.update` saves
the product with the `soldQuantity` it loaded, so sales that commit in between
are forgotten, and the exact count does not hold. `CartClearedForOrder`,
`PaymentsLostByFailureOnly` and `CachedIntentsExist` are counted against
`failures` for the same kind of reason: they say that no interleaving, retry or
refusal does the damage, only a failure in the window, and once per failure.
`QuietWritesAgree`, `OneReviewUnlessContested`, `ApprovedWasModerated`,
`BuriedStaysBuried`, `ImagesInOrder`, `UsesAreCounted`,
`SessionsLostByFailureOnly`, `AccountAsDecided` and `InvalidatedIsGone` excuse,
in the same manner, what an overlap or a failure of the named kind has done (for
sessions, a token that two clients share as well), and nothing else: any sequence
of calls, refusals, deletions and retries before and after it keeps them.
`CartWithinStock`, `PerUserLimit`, `OvershootBounded` and `AgeBounded` excuse
nothing, and bound what overlaps can do.
`StockIsWhatOrdersTook` excuses the products of which a call that threw had
reserved units (`stranded`); the units of a cancelled order it counts as missing,
which they are. `StockIsWhatOrdersLeave`, which would have them back, is what
`orders_partial` refutes.
`payments` leaves out administrators who mark an order PAID by hand, since such
an order has no payment by intention; the theorems cover them.

Deadlock is checked in every run: with clients free to call again there is
always a next step, so the properties that matter for waiting are `NeverStuck`
and `EveryCallReturns`, which look at the requests under way.

Fairness: only steps of requests already under way are fair. Nothing obliges a
client to call, an administrator to cancel, or a transaction to fail. A step that
waits for nobody is weakly fair (the event loop runs every ready callback). A
step that waits for a row lock or a connection is strongly fair: PostgreSQL
queues waiters for a row and `pg.Pool` queues requests first come, first served,
so one that is free again and again is granted. The one exception to clients
that need not call is `RefusalIsTemporary`, which is about a client that keeps
trying: `Attempt` is weakly fair there, and so is time (`LoginFairness`).

## 4. What the model found

Four disagreements between what the repository says and what it does are runs
that end in a counterexample:

* `inventory_two_rows`: two first reservations of a product both find no row
  and both insert one; the index on `productId` is not unique, and the product
  has its stock twice (`inventory.service.ts:140-163`).
* `orders_partial`: an order of several items that is refused half-way leaves
  the stock of its first items reserved for good (`orders.service.ts:59`).
* `payments_lost_payment`: a failure after `updateStatus` leaves a PAID order
  with a PENDING payment that can never be confirmed, because PAID to PAID is not
  a transition (`payments.service.ts:147`).
* `shop_persistent_cart`: the README's persistent cart is a row that nothing
  reads. `getCart` looks at Redis alone (`cart.service.ts:52`), so after 24 hours
  the user has an empty cart, the row still has the items, active, and the next
  `addItem` overwrites them.

Others follow from the same modules and are recorded here without a run:

* `getInventory` creates a missing row with nothing available, so that a first
  reservation after a mere read is refused, whatever `stockQuantity` says
  (`GetCreate`, `inventory.service.ts:48`).
* Cancelling returns no stock, for want of saved items (section 2): the units of a
  cancelled order stay missing (`StockIsWhatOrdersTook`). `cancelReservation` is a
  receipt, and would leave `reservedQuantity` as it was.
* Two logins of a user in one second get one refresh token between them. The first
  of the two clients to refresh deletes it, and the other's session is gone, with
  no failure and no expiry (`auth.service.ts:161-177`). Without the excuse for a
  shared token `SessionsLostByFailureOnly` fails.
* A sale saves the product it loaded, so that it can bring back one that was
  deleted meanwhile (`inventory.service.ts:113-123`), as an update can.
* The cart is gone when `createOrder` fails after `clearCart`
  (`orders.service.ts:94`), and a cached intent response outlives a failed COMMIT
  (`payments.service.ts:102`): the `failures` terms above.
* Two calls about one cart, review, coupon, account, product or key that
  overlap can lose a change to a cart, leave a user two reviews or two cart rows,
  count two uses of a coupon as one, undo a role or a deletion, tie two images,
  or put an invalidated report back: without the excuses named in section 3 the
  properties of `shop` and `services` fail. A refresh token presented twice at
  once yields two sessions.
* A coupon's total limit, `maxUses`, is checked against a count that concurrent
  recordings lower, so no bound on the total holds; the limit per user, which
  counts rows, can be passed by the uses a user has asked for at once.
* An image added after a removal takes a position in use (`shuffled`).
* `verifyPurchase` looks for items of orders that are never saved, so that no
  review passes it at this commit; `Bought` gives the orders their items.
* `logout` deletes the key of the access token the header carries
  (`auth.controller.ts:43`), which is no refresh token: it ends no session.
* A report is served for up to twice its life (`AgeBounded`, which is exact).
* With as many `createOrder` or `confirmPayment` requests as connections, each
  holds one and waits for a second that nobody will give back. `PoolSuffices`
  proves that one connection more than such requests is enough. With `PoolSize`
  equal to the number of `Nesters`, TLC finds the standstill.

## 5. Proofs

Checked by TLAPS, for all values of the constants that satisfy the named
`ASSUME`s. These say that quantities are positive, that `None` is nothing else
(no row, review or image either), and that what is counted is finite: the
requests and rows of one server (`WorkersAssumption`, `FiniteAssumption`). A
theorem that needs more says so, in the table and in its `ASSUME`.

| module | theorem | states |
|---|---|---|
| `InventoryProofs` | `TypeCorrect`, `LedgerExplains`, `EntityProtected`, `UnitsKept`, `SoldIsCommitted` | `TypeOK`, `LedgerExplainsStock`, `LockProtectsEntity`, `UnitsNeverVanish`, `SoldWasCommitted` |
| | `InventoryImplementsAccounts` | `ImplementsStockAccount`, when no product starts with two rows (`OneFirstRow`) |
| | `FirstRowsStayAlone` | `OneRowPerProduct`, when every product starts with its row |
| `OrdersProofs` | `TypeCorrect`, `OrdersAreReserved`, `CartsClearedForOrders` | `TypeOK`, `ReservedCoversOrders`, `CartClearedForOrder` |
| | `OrdersFollowOrderLife` | `ImplementsOrderLife`: `Spec => Life!Spec` |
| | `NothingIsReturned`, `NothingOversold` | `NothingReturned`: no call, a cancellation included, returns a unit; `NoOversell` |
| | `StockIsAccountedFor` | `StockIsWhatOrdersTook` |
| | `OrdersUseAccounts` | `Spec => Stock!Spec` |
| `PaymentsProofs` | `PaymentsImplementCharges`, `PaymentsFollowOrderLife` | `ImplementsCharges`; `Spec => Account!Spec`, the `OrderLife` inside `Charges` |
| | `TypeCorrect`, `ChargedOnce`, `SucceededImpliesPaid`, `SettledStays`, `SomeCallGoesOn`, `RetriesFindTheirIntent` | `TypeOK`, `OneActivePayment`, `SucceededWasPaid`, `SettledIsFinal`, `NeverStuck`, `CachedIntentsExist` |
| | `OnlyFailuresLosePayments` | `PaymentsLostByFailureOnly`, when no administrator asks for `PAID` |
| | `PaidOrdersHavePayments` | `PaidOrderHasPayment`, when moreover no transaction fails |
| `ConnectionPoolProofs` | `TypeCorrect`, `PoolSuffices` | `TypeOK`, and `NeverStuck` when fewer requests nest than there are connections |
| `CouponsProofs` | `CouponsTypeCorrect`, `UsesCounted`, `LimitPassedByOverlapOnly` | `CouponsTypeOK`, `UsesAreCounted`, `PerUserLimit` |
| `ShopProofs` | `CartTypeCorrect`, `StockRespected`, `QuietWriteMends` | `CartTypeOK`, `CartWithinStock`, `QuietWritesAgree` |
| | `ReviewsTypesCorrect`, `OneReviewPerPurchase`, `ApprovalsAreLogged` | `ReviewsTypeOK`, `OneReviewUnlessContested`, `ApprovedWasModerated` |
| | `CatalogTypesCorrect`, `DeletedForGood`, `OrderWithoutGaps` | `CatalogTypeOK`, `BuriedStaysBuried`, `ImagesInOrder` |
| | `ShopIsItsServices`, `ShopTypesCorrect`, `ShopKeepsItsPromises` | `ShopSpec` implies the three specifications, `ShopTypeOK`, and the six properties above |
| `ServicesProofs` | `AccountsTypeCorrect`, `SessionsKept`, `DecisionsKept` | `AccountsTypeOK`, `SessionsLostByFailureOnly`, `AccountAsDecided` |
| | `CacheTypeCorrect`, `ServedInTime`, `InvalidatedStaysGone` | `CacheTypeOK`, `AgeBounded`, `InvalidatedIsGone` |
| | `LoginTypesCorrect`, `OvershootIsBounded` | `LoginTypeOK`, `OvershootBounded` |
| | `EachServiceAsSpecified`, `ServicesTypesCorrect`, `ServicesKeepTheirPromises` | `ServicesSpec` implies the four specifications, `ServicesTypeOK`, and the seven properties, the coupons' included |

Each module states its inductive invariant (`IInv`, `CartIInv`...) next to its properties. The
proof module shows `Init => IInv` and that every action preserves it, in lemmas
grouped by operation, and the theorems follow with `PTL`.

* *Inventory.* Even `TypeOK` is not inductive: a row stays non-negative only
  because the entity a request checked is still the row when it saves. Hence
  `LockProtectsEntity` (holder, lock and loaded entity agree) is part of `IInv`,
  with `ArgumentsOK`, which carries the check of a sale over its second read, and
  `PickedIsVisible`: the row a call waits for is committed or its own.
  `LedgerExplainsStock` follows because row and ledger change in one commit.
  `SoldWasCommitted` is a sum over the rows of a product: a sale raises one term
  in the commit that adds to `soldQuantity`, and no commit lowers any. It needs
  the same bound for what a call has loaded and will save back, however stale
  (`SeenSoldWasCommitted`, `HeldIsTheProducts`).
* *The refinement.* The account of a product is its row. `FirstRowsOnly` says
  that a product that starts with its row has no other, and no call is about to
  insert one: whoever looks for a row finds it. A commit is then one step of
  `StockAccount`, on the row its call owns, and everything else is a stutter.
  `FirstRowsStayAlone` follows, so that the run `inventory_two_rows` shows the only
  way to a second row: two first calls that race.
* *Sums* (`Sums`). A sum over a set is the number of its units, pairs of an
  element and a number, so what the proofs need (one term changed, one element
  added, a part of the whole) follows from the library's theorems about
  cardinality, where a fold would have needed induction over data.
* *Orders.* A step that changes the orders table is one `Place` or one `Move`
  of `OrderLife`, all others stutter. It takes that the status an update checked
  stands until its save, `LockProtectsStatus`, and that an order being created is
  nobody else's, `CreatedIsUnknown`. Failures and any items list are included.
  `ReservedCoversOrders` moves units from a call to an order: what a creation has
  reserved is counted as its own until its commit, and as the order's after.
  `NothingDoneYet` keeps a call from having units before its loop. With nothing
  ever returned (`NothingReturned`), available and reserved units add up to what
  they were, which bounds the standing orders: `NoOversell`. `CartsAtRisk`
  counts a cleared cart unless its user has an order or a creation past its loop:
  one that is still reserving may be refused, and then protects no cart that
  another has cleared. `StockIsWhatOrdersTook` is an equality: a line moves from the
  stock to the call that reserved it, and with the call's commit to the order. A
  call that throws takes its lines out of the sum, and their products into
  `stranded`, in one step; for every other product it had nothing (`SumOfZeros`).
* *Payments.* From its check to its commit an intent owns the row of the order
  and the order has no active payment (`IntentOwnsOrder`): an intent reads
  payments without locking them, so no other intent may insert and no payment
  may turn active meanwhile. A confirmation owns its payment, still PENDING, and
  before it commits the order is in `wasPaid` (`ConfirmOwnsPayment`).
  `NeverStuck`: every row that is held is held by a call inside its transaction
  (`RowsHaveHolders`), and following who waits for whom from a payment's row to an
  order's row to a key ends at a call that waits for nothing. The two properties
  that count failures add one element at most to a set (`DanglingKeys`,
  `PaidForNothing`) in a step that fails, and none in any other; an administrator
  who writes `PAID` adds to the second, hence its assumption. With no failure the
  set stays empty: `PaidOrderHasPayment`, which `payments_lost_payment` refutes
  with one.
* *Charges.* The charge of an order is what its rows amount to: SUCCEEDED or
  PENDING if a row is, else none. `OneActivePayment` makes this a single row, so
  a commit changes the charge of one order and of no other. That an intent finds
  the order still PENDING when it commits, and that an update's transition is
  still allowed when it saves, is `UpdateOwnsOrder`: who checked the order's
  status holds its row, through the confirmation's inner transaction too.
* *Connection pool.* `LockOwners` says that who holds an order's row waits for
  nothing, and who holds a payment's row is past it. If all were to wait, every
  holder of a connection would be a nester that wants another, so `InUse` would
  be at most the number of nesters, less than `PoolSize`, and `Free` would hold.
* *Cart.* A copy that a call is about to store was within the peak when it was
  made, and peaks only rise (`CallWithinStock`, `PeakIsHighest`). The stock that
  `addItem` read is no more than the peak, which is why a stale read does no harm.
  `QuietWritesAgree` follows from `Undisturbed`: a call that is alone is its
  user's only one, so Redis and the rows are as it left or found them, and only a
  call between its two writes keeps them apart (`QuietIInv`).
* *Coupons.* `usedCount` stays behind the rows because a recording that is
  about to save has seen a count at least one less (`SeenIsRecorded`). It is
  exact because a recording that is alone has seen what the row still says
  (`OneRecorder`, `LastIsCounted`). `PerUserLimit` counts with a user's rows the
  uses found valid that a call is about to record (`WithinApprovals`).
* *Accounts.* A token out of Redis and in a client's hands belongs to the one
  exchange that took it; while a session has not lapsed no other client has its
  token, and no call of another client is about it (`NoTwin`); who alone has loaded an account holds it as it is
  (`OneChanger`).
* *Cache.* An entry's age and what is left of its life add up to no more than a
  bound that depends on the level and, for a value on its way, on how long its
  call has waited (`StagesBounded`). `AgeBounded` is its end.
  `InvalidatedIsGone` needs the calls too: a call that asks Redis holds nothing
  old, and for a key that did not slip neither does one that holds a value of it
  (`FreshIInv`); while an invalidation is on, Redis may still have the old value
  and whoever fetches it makes the key slip.

* *Reviews.* While a pair of user and product is not contested, at most one call
  is about it, so what a creation or an approval found is still there when it
  writes. The moderation row is a step of its own: `unlogged` has the reviews
  whose step failed.
* *Catalog.* No update and no sale is about to save a row that was deleted while nobody had
  loaded it (`NobodySavesBuried`). A product's images are finitely many, and until
  their order is lost, one at most is being added, as the next.
* *Limits on logging in.* The attempts in the window and those about to be added
  are bounded together. A request joins the latter only when it has counted fewer
  than the limit in the window, and no more than all requests can be about to add;
  adding moves an attempt from one number to the other; time only removes some.
* *The whole.* A turn of one service leaves the others' variables alone, or
  changes the offer as their own `Reoffer` does.

Model-checked only: liveness (`EveryCallReturns`, `RefusalIsTemporary`) and
everything about fairness, which TLAPS cannot treat. Every safety property of a
passing run is stated by a theorem. `StockIsWhatOrdersLeave` is refuted
by `orders_partial`; what holds in its place is `StockIsWhatOrdersTook`.
`OneRowPerProduct` and
`PaidOrderHasPayment` are refuted by runs in general and proved where their
theorems say. `PersistentCart` is refuted.

## 6. What is not modelled

* The layer above the services: controllers, guards, validation pipes, JWT.
  Inputs are what a service method accepts. Facts of libraries that would stop a
  call before the modelled statements are left out as well: PostgreSQL's
  restriction on `FOR UPDATE` over outer joins that TypeORM relations produce
  (`updateStatus`, `confirmPayment`), what saving a product that was
  loaded with its `images` does to, or refuses because of, images added since
  (`ImagesInOrder` therefore says nothing of an update that overlaps an addition),
  and column types an argument may not fit.
  The modules say what the statements do when they run.
* Overflow of the 32-bit quantity columns; prices and amounts.
* In `Orders`, the life of a cart apart from its clearing, which `Cart` has.
* Reads that decide nothing: listings, searches, statistics, averages. The
  ratings of a product are computed and logged, never saved. The numbers in a
  report: each is a query of its own, so one report may count an order in one and
  not in another, and its age says nothing about that.
* A change of an account's email; `isActive` columns, which no service sets to
  false except the cart's. An access token lives on after its account is
  deleted, until it expires; nothing the services keep says otherwise.
* Client addresses that share or change their limits, a Redis that does not
  answer while an attempt is counted, and the limits `signup` and `api`, which
  have no caller.
* The levels and the compression of the cache, which no caller asks for.
* In `Payments`, the items of an order that is cancelled, which are not saved; the
  reply of `confirmPayment`, which nothing reads back.
* The number of nested calls of a `createOrder` in `ConnectionPool` is any of
  `NestedCalls` (2n + 1 for n items, fewer when refused); a request there may
  be turned into any kind by the client that sends it.
* Audit log, tracking, middleware, `CacheInterceptor`, `SecurityService`,
  start-up, scripts and pages: they keep no state that a service reads. The
  reasons are in `PROJECT.json`.

## 7. What could come next

`Orders` could clear the cart of `Cart` in place of its own, and `Inventory`,
`Orders` and `Payments` could be composed in one specification, as `Shop` and
`Services` are, with the refinements proved here as the link between them.

------------------------------ MODULE Inventory ------------------------------
(***************************************************************************)
(* The inventory service against a shared database: concurrent calls of    *)
(* reserveInventory, adjustInventory and getInventory, and the two calls   *)
(* of the product service that touch the same product row (update and      *)
(* remove).  One action per statement that can interleave; the writes of a *)
(* transaction become visible in the single step that commits it.          *)
(***************************************************************************)
EXTENDS Integers, FiniteSets, Sums

CONSTANTS
  Products,
  Rows,            \* ids the inventory table can generate
  ProductOf,       \* [Rows -> Products]: the productId column
  FirstRows,       \* rows already in the table
  StockQuantity,   \* [Products -> Nat]: products.stockQuantity
  Workers,         \* requests being served at the same time
  Operations,      \* the entry points the workers call
  Quantities,      \* quantities asked of reserve
  Deltas,          \* quantities passed to adjust, of either sign
  MaxReceipts,     \* bound: no receipt starts that takes a row's receipts past it
  None

EntryPoints == {"reserve", "adjust", "get", "update", "remove"}

ASSUME RowsAssumption == FirstRows \subseteq Rows /\ ProductOf \in [Rows -> Products]
ASSUME FiniteAssumption == IsFiniteSet(Rows)
ASSUME StockAssumption == StockQuantity \in [Products -> Nat]
ASSUME QuantityAssumption ==
  Quantities \subseteq Nat \ {0} /\ Deltas \subseteq Int /\ MaxReceipts \in Nat
ASSUME OperationAssumption == Operations \subseteq EntryPoints
ASSUME NoneAssumption == None \notin Workers \cup Rows \cup Products

VARIABLES
  table,      \* committed rows of "inventory"
  stock,      \* [Rows -> Account]: the columns of each row
  opening,    \* available when the row was created (history)
  ledger,     \* sums of the "inventory_transactions" of each row, by kind
  lock,       \* [Rows -> Workers \cup {None}]: FOR UPDATE and uncommitted inserts
  live,       \* products that are not soft-deleted
  sold,       \* products.soldQuantity
  pc,         \* where each worker is
  product,    \* its productId argument
  qty,        \* its quantity argument
  held,       \* the row its query picked, and its entity is loaded from
  seen,       \* the entity it loaded
  seenSold    \* soldQuantity of the product entity it loaded

database == <<table, stock, opening, ledger, lock, live, sold>>
locals   == <<pc, product, qty, held, seen, seenSold>>
vars     == <<database, locals>>

Account == [available : Nat, reserved : Nat, committed : Nat]
Ledger  == [reservations : Nat, receipts : Nat, sales : Nat]

Columns(a, r, c) == [available |-> a, reserved |-> r, committed |-> c]
Empty            == Columns(0, 0, 0)
Holding(n)       == Columns(n, 0, 0)
NoEntries        == [reservations |-> 0, receipts |-> 0, sales |-> 0]

Reserving == {"reserve", "reserve_relock", "reserve_wait", "reserve_locked"}
Adjusting == {"adjust", "adjust_wait", "adjust_locked", "adjust_selling"}
Labels    == Reserving \cup Adjusting
               \cup {"idle", "get", "get_creating", "update", "update_saving", "remove"}

(* The labels at which a worker has a transaction open.                    *)
InTransaction == Reserving \cup Adjusting

-----------------------------------------------------------------------------
(* Reading and locking rows.                                               *)

RowsOf(p) == {r \in Rows : ProductOf[r] = p}
Drafts(w) == {r \in Rows \ table : lock[r] = w}

(* READ COMMITTED: committed rows and the transaction's own inserts.       *)
Visible(w, p) == RowsOf(p) \cap (table \cup Drafts(w))

(* FOR UPDATE is granted when no other transaction holds the row.          *)
LockIgnored(w, r) == TRUE
Lockable(w, r)    == lock[r] \in {None, w}

(* A row id no transaction has used: uuid_generate_v4.                     *)
Fresh(p) == {r \in RowsOf(p) \ table : lock[r] = None}

KeptLocks(w) == lock
Unlocked(w)  == [r \in Rows |-> IF lock[r] = w THEN None ELSE lock[r]]

(* What the three kinds of write do to the columns of a row.               *)
AfterReserve(s, q) == Columns(s.available - q, s.reserved + q, s.committed)

ForgetsSale(s, q) == Columns(s.available + q, s.reserved, s.committed)
AfterAdjust(s, q) ==
  Columns(s.available + q, s.reserved, s.committed + IF q < 0 THEN -q ELSE 0)

(* The ledger row inserted in the same transaction.                        *)
LedgerReserve(l, q) == [l EXCEPT !.reservations = @ + q]
LedgerAdjust(l, q) ==
  IF q < 0 THEN [l EXCEPT !.sales = @ - q] ELSE [l EXCEPT !.receipts = @ + q]

-----------------------------------------------------------------------------

Init ==
  /\ table = FirstRows
  /\ stock = [r \in Rows |-> Holding(StockQuantity[ProductOf[r]])]
  /\ opening = [r \in Rows |-> StockQuantity[ProductOf[r]]]
  /\ ledger = [r \in Rows |-> NoEntries]
  /\ lock = [r \in Rows |-> None]
  /\ live = Products
  /\ sold = [p \in Products |-> 0]
  /\ pc = [w \in Workers |-> "idle"]
  /\ product = [w \in Workers |-> None]
  /\ qty = [w \in Workers |-> 0]
  /\ held = [w \in Workers |-> None]
  /\ seen = [w \in Workers |-> Empty]
  /\ seenSold = [w \in Workers |-> 0]

Goto(w, label) == pc' = [pc EXCEPT ![w] = label]

(* The call returns or throws: its locals are gone.                        *)
Return(w) ==
  /\ Goto(w, "idle")
  /\ product' = [product EXCEPT ![w] = None]
  /\ qty' = [qty EXCEPT ![w] = 0]
  /\ held' = [held EXCEPT ![w] = None]
  /\ seen' = [seen EXCEPT ![w] = Empty]
  /\ seenSold' = [seenSold EXCEPT ![w] = 0]

Call(w, op, p, q) ==
  /\ pc[w] = "idle"
  /\ Goto(w, op)
  /\ product' = [product EXCEPT ![w] = p]
  /\ qty' = [qty EXCEPT ![w] = q]
  /\ UNCHANGED <<database, held, seen, seenSold>>

(* FOR UPDATE with LIMIT 1: the query picks one of the visible rows, and   *)
(* waits for that one.                                                     *)
Pick(w) ==
  /\ \E r \in Visible(w, product[w]) : held' = [held EXCEPT ![w] = r]
  /\ UNCHANGED <<database, product, qty, seen, seenSold>>

Lock(w) ==
  /\ Lockable(w, held[w])
  /\ lock' = [lock EXCEPT ![held[w]] = w]
  /\ seen' = [seen EXCEPT ![w] = stock[held[w]]]
  /\ UNCHANGED <<table, stock, opening, ledger, live, sold,
                 product, qty, held, seenSold>>

(* COMMIT publishes the inserts of w and releases its locks.               *)
Commit(w) ==
  /\ table' = table \cup Drafts(w)
  /\ lock' = Unlocked(w)
  /\ UNCHANGED opening
  /\ Return(w)

(* ROLLBACK: the inserts of w were never visible, its locks are released.  *)
Rollback(w) ==
  /\ lock' = Unlocked(w)
  /\ UNCHANGED <<table, stock, opening, ledger, live, sold>>
  /\ Return(w)

Insert(r, n) ==
  /\ stock' = [stock EXCEPT ![r] = Holding(n)]
  /\ opening' = [opening EXCEPT ![r] = n]
  /\ ledger' = [ledger EXCEPT ![r] = NoEntries]

-----------------------------------------------------------------------------
(* reserveInventory                                                        *)

ReserveFind(w) ==
  /\ pc[w] = "reserve"
  /\ Pick(w)
  /\ Goto(w, "reserve_wait")

ReserveLock(w) ==
  /\ pc[w] = "reserve_wait"
  /\ Lock(w)
  /\ Goto(w, "reserve_locked")

(* No row: insert one, uncommitted, from the product's stock quantity.     *)
ReserveCreate(w) ==
  /\ pc[w] = "reserve"
  /\ Visible(w, product[w]) = {}
  /\ product[w] \in live
  /\ \E r \in Fresh(product[w]) :
       /\ Insert(r, StockQuantity[product[w]])
       /\ lock' = [lock EXCEPT ![r] = w]
  /\ Goto(w, "reserve_relock")
  /\ UNCHANGED <<table, live, sold, product, qty, held, seen, seenSold>>

ReserveNotFound(w) ==
  /\ pc[w] = "reserve"
  /\ Visible(w, product[w]) = {}
  /\ product[w] \notin live
  /\ Rollback(w)

(* The second query may pick the new row or one committed meanwhile.       *)
ReserveRefind(w) ==
  /\ pc[w] = "reserve_relock"
  /\ Pick(w)
  /\ Goto(w, "reserve_wait")

ReserveRefuse(w) ==
  /\ pc[w] = "reserve_locked"
  /\ seen[w].available < qty[w]
  /\ Rollback(w)

NeverRefused(w) == TRUE
EnoughToReserve(w) == seen[w].available >= qty[w]

ReserveCommit(w) ==
  /\ pc[w] = "reserve_locked"
  /\ EnoughToReserve(w)
  /\ stock' = [stock EXCEPT ![held[w]] = AfterReserve(seen[w], qty[w])]
  /\ ledger' = [ledger EXCEPT ![held[w]] = LedgerReserve(@, qty[w])]
  /\ UNCHANGED <<live, sold>>
  /\ Commit(w)

-----------------------------------------------------------------------------
(* adjustInventory; commitReservation and cancelReservation are calls of   *)
(* it with a negative and a positive quantity.                             *)

AdjustFind(w) ==
  /\ pc[w] = "adjust"
  /\ Pick(w)
  /\ Goto(w, "adjust_wait")

AdjustLock(w) ==
  /\ pc[w] = "adjust_wait"
  /\ Lock(w)
  /\ Goto(w, "adjust_locked")

AdjustNotFound(w) ==
  /\ pc[w] = "adjust"
  /\ Visible(w, product[w]) = {}
  /\ Rollback(w)

Covers(s, q) == q >= 0 \/ -q <= s.available

AdjustRefuse(w) ==
  /\ pc[w] = "adjust_locked"
  /\ ~Covers(seen[w], qty[w])
  /\ Rollback(w)

AdjustReceive(w) ==
  /\ pc[w] = "adjust_locked"
  /\ qty[w] >= 0
  /\ stock' = [stock EXCEPT ![held[w]] = AfterAdjust(seen[w], qty[w])]
  /\ ledger' = [ledger EXCEPT ![held[w]] = LedgerAdjust(@, qty[w])]
  /\ UNCHANGED <<live, sold>>
  /\ Commit(w)

(* A sale also loads the product, without a lock, to count what was sold.  *)
AdjustReadProduct(w) ==
  /\ pc[w] = "adjust_locked"
  /\ qty[w] < 0
  /\ Covers(seen[w], qty[w])
  /\ product[w] \in live
  /\ seenSold' = [seenSold EXCEPT ![w] = sold[product[w]]]
  /\ Goto(w, "adjust_selling")
  /\ UNCHANGED <<database, product, qty, held, seen>>

AdjustProductGone(w) ==
  /\ pc[w] = "adjust_locked"
  /\ qty[w] < 0
  /\ Covers(seen[w], qty[w])
  /\ product[w] \notin live
  /\ Rollback(w)

(* The product is saved whole: with the soldQuantity it was loaded with,   *)
(* and with the empty deletedAt, which undoes a removal since.             *)
Revived(w) == live \cup {product[w]}

AdjustSell(w) ==
  /\ pc[w] = "adjust_selling"
  /\ stock' = [stock EXCEPT ![held[w]] = AfterAdjust(seen[w], qty[w])]
  /\ ledger' = [ledger EXCEPT ![held[w]] = LedgerAdjust(@, qty[w])]
  /\ sold' = [sold EXCEPT ![product[w]] = seenSold[w] - qty[w]]
  /\ live' = Revived(w)
  /\ Commit(w)

-----------------------------------------------------------------------------
(* getInventory: no transaction; a miss creates an empty row.              *)

GetHit(w) ==
  /\ pc[w] = "get"
  /\ Visible(w, product[w]) # {}
  /\ Return(w)
  /\ UNCHANGED database

GetMiss(w) ==
  /\ pc[w] = "get"
  /\ Visible(w, product[w]) = {}
  /\ product[w] \in live
  /\ Goto(w, "get_creating")
  /\ UNCHANGED <<database, product, qty, held, seen, seenSold>>

GetNotFound(w) ==
  /\ pc[w] = "get"
  /\ Visible(w, product[w]) = {}
  /\ product[w] \notin live
  /\ Return(w)
  /\ UNCHANGED database

GetCreate(w) ==
  /\ pc[w] = "get_creating"
  /\ \E r \in Fresh(product[w]) :
       /\ Insert(r, 0)
       /\ table' = table \cup {r}
  /\ Return(w)
  /\ UNCHANGED <<lock, live, sold>>

-----------------------------------------------------------------------------
(* The product service: update loads the whole product and saves it, its   *)
(* soldQuantity and its deletedAt included; remove is a soft delete.       *)

UpdateRead(w) ==
  /\ pc[w] = "update"
  /\ product[w] \in live
  /\ seenSold' = [seenSold EXCEPT ![w] = sold[product[w]]]
  /\ Goto(w, "update_saving")
  /\ UNCHANGED <<database, product, qty, held, seen>>

ProductNotFound(w) ==
  /\ pc[w] \in {"update", "remove"}
  /\ product[w] \notin live
  /\ Return(w)
  /\ UNCHANGED database

UpdateSave(w) ==
  /\ pc[w] = "update_saving"
  /\ sold' = [sold EXCEPT ![product[w]] = seenSold[w]]
  /\ live' = Revived(w)
  /\ Return(w)
  /\ UNCHANGED <<table, stock, opening, ledger, lock>>

Remove(w) ==
  /\ pc[w] = "remove"
  /\ product[w] \in live
  /\ live' = live \ {product[w]}
  /\ Return(w)
  /\ UNCHANGED <<table, stock, opening, ledger, lock, sold>>

-----------------------------------------------------------------------------

(* A statement fails or the process dies inside a transaction.             *)
Fail(w) == pc[w] \in InTransaction /\ Rollback(w)

LockStep(w) == ReserveLock(w) \/ AdjustLock(w)

PickStep(w) == ReserveFind(w) \/ ReserveRefind(w) \/ AdjustFind(w)

Step(w) ==
  \/ PickStep(w) \/ ReserveCreate(w) \/ ReserveNotFound(w) \/ ReserveRefuse(w) \/ ReserveCommit(w)
  \/ AdjustNotFound(w) \/ AdjustRefuse(w) \/ AdjustReceive(w)
  \/ AdjustReadProduct(w) \/ AdjustProductGone(w) \/ AdjustSell(w)
  \/ GetHit(w) \/ GetMiss(w) \/ GetNotFound(w) \/ GetCreate(w)
  \/ UpdateRead(w) \/ ProductNotFound(w) \/ UpdateSave(w) \/ Remove(w)

WithinBound(p, q) ==
  q > 0 => \A r \in RowsOf(p) : ledger[r].receipts + q <= MaxReceipts

(* Requests start with any argument of the right kind.                     *)
Start(w) ==
  \E p \in Products :
    \/ "reserve" \in Operations /\ \E q \in Quantities : Call(w, "reserve", p, q)
    \/ /\ "adjust" \in Operations
       /\ \E q \in Deltas : WithinBound(p, q) /\ Call(w, "adjust", p, q)
    \/ \E op \in Operations \cap {"get", "update", "remove"} : Call(w, op, p, 0)

Next == \E w \in Workers : Start(w) \/ LockStep(w) \/ Step(w) \/ Fail(w)

(* The event loop runs every enabled callback, and a row lock is granted   *)
(* to its waiters in turn; nothing obliges a client to send a request.     *)
Fairness == \A w \in Workers : WF_vars(Step(w)) /\ SF_vars(LockStep(w))

Spec     == Init /\ [][Next]_vars
FairSpec == Spec /\ Fairness

-----------------------------------------------------------------------------

TypeOK ==
  /\ table \subseteq Rows
  /\ stock \in [Rows -> Account]
  /\ opening \in [Rows -> Nat]
  /\ ledger \in [Rows -> Ledger]
  /\ lock \in [Rows -> Workers \cup {None}]
  /\ live \subseteq Products
  /\ sold \in [Products -> Nat]
  /\ pc \in [Workers -> Labels]
  /\ product \in [Workers -> Products \cup {None}]
  /\ qty \in [Workers -> Int]
  /\ held \in [Workers -> Rows \cup {None}]
  /\ seen \in [Workers -> Account]
  /\ seenSold \in [Workers -> Nat]

(* Every unit a row holds is explained by its opening stock and the ledger *)
(* rows written with it: no reservation, receipt or sale is lost between   *)
(* the SELECT ... FOR UPDATE and the save of two concurrent calls.         *)
LedgerExplainsStock ==
  \A r \in Rows :
    /\ stock[r].available =
         opening[r] + ledger[r].receipts - ledger[r].sales - ledger[r].reservations
    /\ stock[r].reserved = ledger[r].reservations
    /\ stock[r].committed = ledger[r].sales

(* The row a worker loaded under FOR UPDATE is locked by it and still is   *)
(* what it loaded; an uncommitted row belongs to the one who inserted it.  *)
HoldingLock == {"reserve_locked", "adjust_locked", "adjust_selling"}
LockProtectsEntity ==
  \A w \in Workers :
    pc[w] \in HoldingLock =>
      /\ held[w] \in Rows
      /\ lock[held[w]] = w
      /\ seen[w] = stock[held[w]]

(* What the arguments of a call in progress satisfy, and the check a sale  *)
(* passed before it loaded the product.                                    *)
ArgumentsOK ==
  \A w \in Workers :
    /\ pc[w] # "idle" => product[w] \in Products
    /\ pc[w] \in Reserving => qty[w] \in Nat
    /\ pc[w] = "adjust_selling" => qty[w] < 0 /\ Covers(seen[w], qty[w])

(* A row that a call waits for is one it can see.                          *)
PickedIsVisible ==
  \A w \in Workers :
    pc[w] \in {"reserve_wait", "adjust_wait"} => held[w] \in Visible(w, product[w])

(* The inductive invariant behind TypeOK and LedgerExplainsStock.          *)
IInv == /\ TypeOK /\ ArgumentsOK /\ PickedIsVisible
        /\ LockProtectsEntity /\ LedgerExplainsStock

(* The comment at inventory.service.ts:145 creates the record only "if     *)
(* inventory record doesn't exist": at most one row per product.           *)
OneRowPerProduct ==
  \A r, s \in table : ProductOf[r] = ProductOf[s] => r = s

(* products.soldQuantity never counts a unit that no inventory row of the  *)
(* product committed, however sales, product updates and the creation of   *)
(* rows interleave (inventory.service.ts:113, products.service.ts:145).    *)
CommittedUnits(p) == SumOver([r \in Rows |-> stock[r].committed], RowsOf(p) \cap table)
SoldWasCommitted  == \A p \in Products : sold[p] <= CommittedUnits(p)

(* What its proof keeps: a loaded soldQuantity counted committed units      *)
(* too, and the row a call holds is one of its product's.                  *)
SeenSoldWasCommitted ==
  \A w \in Workers :
    pc[w] \in {"adjust_selling", "update_saving"} => seenSold[w] <= CommittedUnits(product[w])
HeldIsTheProducts ==
  \A w \in Workers : pc[w] \in HoldingLock => held[w] \in RowsOf(product[w])
SoldIInv == IInv /\ HeldIsTheProducts /\ SoldWasCommitted /\ SeenSoldWasCommitted

(* Every call returns or throws.                                           *)
EveryCallReturns == \A w \in Workers : pc[w] # "idle" ~> pc[w] = "idle"

(* Stock never vanishes: a step may move units between columns and bring   *)
(* units in, but it never lowers what a committed row accounts for, and    *)
(* never takes back what was sold or reserved.                             *)
UnitsNeverVanish ==
  [][\A r \in table :
       /\ r \in table'
       /\ stock'[r].reserved >= stock[r].reserved
       /\ stock'[r].committed >= stock[r].committed
       /\ stock'[r].available + stock'[r].reserved + stock'[r].committed
            >= stock[r].available + stock[r].reserved + stock[r].committed]_vars

(* The accounts that the calls are about: those of the products that start *)
(* with a row, which hold what that row holds.                             *)
FirstProducts == {ProductOf[r] : r \in FirstRows}
RowOf(p)      == CHOOSE r \in FirstRows : ProductOf[r] = p
Amounts       == Quantities \cup (Deltas \cap Nat) \cup {-d : d \in Deltas \ Nat}
Books == INSTANCE StockAccount WITH
           Products <- FirstProducts,
           Quantities <- Amounts,
           Opening <- [p \in FirstProducts |-> Holding(StockQuantity[p])],
           account <- [p \in FirstProducts |-> stock[RowOf(p)]]

(* The transactions of concurrent calls implement the atomic operations of *)
(* StockAccount: each committed reserve, receipt and sale happens once and *)
(* whole, in some order (inventory.service.ts:113, 175).                   *)
ImplementsStockAccount == Books!Spec

(* What its proof keeps, of a table that starts with at most one row for a *)
(* product: those products have no other row, and no call is about to      *)
(* insert one.                                                             *)
OneFirstRow == \A r, s \in FirstRows : ProductOf[r] = ProductOf[s] => r = s
FirstRowsOnly ==
  \A p \in FirstProducts :
    /\ RowsOf(p) \cap table = {RowOf(p)}
    /\ \A r \in RowsOf(p) \ table : lock[r] = None
    /\ \A w \in Workers : product[w] = p => pc[w] \notin {"reserve_relock", "get_creating"}
AmountsOK ==
  \A w \in Workers :
    /\ pc[w] \in Reserving => qty[w] \in Quantities
    /\ pc[w] \in Adjusting => qty[w] \in Deltas
RefinesIInv == IInv /\ HeldIsTheProducts /\ FirstRowsOnly /\ AmountsOK
=============================================================================

-------------------------------- MODULE Orders --------------------------------
(***************************************************************************)
(* The order service: createOrder and updateStatus, called concurrently.   *)
(* Each runs in a transaction of its own, and inside it calls the          *)
(* inventory service, whose reserve and cancelReservation run and commit   *)
(* in transactions of THEIR own, and the cart service, which writes Redis  *)
(* and the carts table outside any transaction.  The inventory is          *)
(* StockAccount, which module Inventory implements.                        *)
(***************************************************************************)
EXTENDS Integers, Sequences, FiniteSets, OrderStatus, Sums

CONSTANTS
  Products,
  Opening,       \* [Products -> Account]: the inventory before the first order
  Users,
  Requests,      \* the items lists that clients post: non-empty, by ArrayMinSize(1)
  Orders,        \* ids the orders table can generate
  Workers,       \* requests being served at the same time
  MaxRemovals,   \* bound: products that stop being live during a behaviour
  MaxFailures,   \* bound: transactions that die half-way during a behaviour
  None

Lines == [product : Products, quantity : Nat \ {0}]

ASSUME RequestsAssumption == Requests \subseteq Seq(Lines) \ {<<>>}
ASSUME BoundsAssumption   == MaxRemovals \in Nat /\ MaxFailures \in Nat
ASSUME NoneAssumption     == None \notin Workers \cup Orders \cup Statuses \cup Users
ASSUME FiniteAssumption   == IsFiniteSet(Workers) /\ IsFiniteSet(Orders)

VARIABLES
  account,     \* the committed inventory rows
  live,        \* products that findOne finds: active and not deleted
  status,      \* [Orders -> Statuses \cup {None}]: committed rows of "orders"
  owner,       \* [Orders -> Users \cup {None}]: orders.userId
  placed,      \* the lines each order was placed with (history)
  redisCart,   \* users with a cart in Redis
  dbCart,      \* users with an active row in "carts"
  lock,        \* [Orders -> Workers \cup {None}]: FOR UPDATE on the orders row
  pc, user, order, wanted,
  todo,        \* lines the loop of the call has still to visit
  done,        \* lines whose inventory call has committed
  stranded,    \* products of which a call that threw had reserved units (history)
  failures

database == <<account, live, status, owner, placed, redisCart, dbCart, lock>>
locals   == <<pc, user, order, wanted, todo, done>>
vars     == <<database, locals, stranded, failures>>

Stock == INSTANCE StockAccount WITH Quantities <- Nat \ {0}

(* The life of an order that the service promises.                         *)
Life == INSTANCE OrderLife

ASSUME OpeningAssumption == Opening \in [Products -> Stock!Account]

Labels   == {"idle", "reserving", "clear_redis", "clear_db", "inserting",
             "lock_order", "saving"}
Creating == {"reserving", "clear_redis", "clear_db", "inserting"}

-----------------------------------------------------------------------------

Init ==
  /\ account = Opening
  /\ live = Products
  /\ status = [o \in Orders |-> None]
  /\ owner = [o \in Orders |-> None]
  /\ placed = [o \in Orders |-> <<>>]
  /\ redisCart = Users
  /\ dbCart = Users
  /\ lock = [o \in Orders |-> None]
  /\ pc = [w \in Workers |-> "idle"]
  /\ user = [w \in Workers |-> None]
  /\ order = [w \in Workers |-> None]
  /\ wanted = [w \in Workers |-> None]
  /\ todo = [w \in Workers |-> <<>>]
  /\ done = [w \in Workers |-> <<>>]
  /\ stranded = {}
  /\ failures = 0

Goto(w, label) == pc' = [pc EXCEPT ![w] = label]

Return(w) ==
  /\ Goto(w, "idle")
  /\ user' = [user EXCEPT ![w] = None]
  /\ order' = [order EXCEPT ![w] = None]
  /\ wanted' = [wanted EXCEPT ![w] = None]
  /\ todo' = [todo EXCEPT ![w] = <<>>]
  /\ done' = [done EXCEPT ![w] = <<>>]

Released(w) == [o \in Orders |-> IF lock[o] = w THEN None ELSE lock[o]]

(* The outer transaction rolls back.  What the inventory and the cart      *)
(* service committed on their own connections stays.                       *)
Rollback(w) ==
  /\ lock' = Released(w)
  /\ stranded' = stranded \cup {done[w][k].product : k \in DOMAIN done[w]}
  /\ UNCHANGED <<account, live, status, owner, placed, redisCart, dbCart>>
  /\ Return(w)

(* The loop of the call moves past its first line.                         *)
Advance(w) ==
  /\ todo' = [todo EXCEPT ![w] = Tail(@)]
  /\ done' = [done EXCEPT ![w] = Append(@, Head(todo[w]))]

-----------------------------------------------------------------------------
(* createOrder                                                             *)

(* The id is the uuid the insert will generate: no other call has it.      *)
FreshOrders == {o \in Orders : status[o] = None /\ \A w \in Workers : order[w] # o}

Create(w) ==
  /\ pc[w] = "idle"
  /\ \E u \in Users, ls \in Requests, o \in FreshOrders :
       /\ user' = [user EXCEPT ![w] = u]
       /\ todo' = [todo EXCEPT ![w] = ls]
       /\ order' = [order EXCEPT ![w] = o]
  /\ Goto(w, "reserving")
  /\ UNCHANGED <<database, wanted, done, stranded, failures>>

(* inventoryService.reserve commits whatever becomes of the order.         *)
ReserveOne(w, line) == Stock!Reserve(line.product, 1)
ReserveUnchecked(w, line) ==
  account' = [account EXCEPT ![line.product] = Stock!AfterReserve(@, line.quantity)]
ReserveLine(w, line) == Stock!Reserve(line.product, line.quantity)

CreateReserve(w) ==
  /\ pc[w] = "reserving"
  /\ todo[w] # <<>>
  /\ Head(todo[w]).product \in live
  /\ ReserveLine(w, Head(todo[w]))
  /\ Advance(w)
  /\ UNCHANGED <<live, status, owner, placed, redisCart, dbCart, lock,
                 pc, user, order, wanted, stranded, failures>>

(* Product not found, or insufficient inventory: the exception leaves the  *)
(* transaction, and nothing undoes the lines reserved before.              *)
RetriesForever(w) ==
  /\ pc[w] = "reserving"
  /\ todo[w] # <<>>
  /\ account[Head(todo[w]).product].available < Head(todo[w]).quantity
  /\ UNCHANGED vars
CreateRefuse(w) ==
  /\ pc[w] = "reserving"
  /\ todo[w] # <<>>
  /\ LET line == Head(todo[w]) IN
       \/ line.product \notin live
       \/ account[line.product].available < line.quantity
  /\ Rollback(w)
  /\ UNCHANGED failures

CreateLoopDone(w) ==
  /\ pc[w] = "reserving"
  /\ todo[w] = <<>>
  /\ Goto(w, "clear_redis")
  /\ UNCHANGED <<database, user, order, wanted, todo, done, stranded, failures>>

ClearBeforeReserving(w) ==
  /\ pc[w] = "reserving" /\ user[w] \in redisCart
  /\ redisCart' = redisCart \ {user[w]}
  /\ UNCHANGED <<account, live, status, owner, placed, dbCart, lock,
                 pc, user, order, wanted, todo, done, stranded, failures>>
CreateClearRedis(w) ==
  /\ pc[w] = "clear_redis"
  /\ redisCart' = redisCart \ {user[w]}
  /\ Goto(w, "clear_db")
  /\ UNCHANGED <<account, live, status, owner, placed, dbCart, lock,
                 user, order, wanted, todo, done, stranded, failures>>

CreateClearDb(w) ==
  /\ pc[w] = "clear_db"
  /\ dbCart' = dbCart \ {user[w]}
  /\ Goto(w, "inserting")
  /\ UNCHANGED <<account, live, status, owner, placed, redisCart, lock,
                 user, order, wanted, todo, done, stranded, failures>>

(* The order's row alone is written: Order.items declares no cascade, so   *)
(* the save passes over the items, which have no rows of their own.        *)
CreateCommit(w) ==
  /\ pc[w] = "inserting"
  /\ status' = [status EXCEPT ![order[w]] = "PENDING"]
  /\ owner' = [owner EXCEPT ![order[w]] = user[w]]
  /\ placed' = [placed EXCEPT ![order[w]] = done[w]]
  /\ Return(w)
  /\ UNCHANGED <<account, live, redisCart, dbCart, lock, stranded, failures>>

-----------------------------------------------------------------------------
(* updateStatus                                                            *)

Update(w) ==
  /\ pc[w] = "idle"
  /\ \E o \in Orders, s \in Statuses :
       /\ status[o] # None
       /\ order' = [order EXCEPT ![w] = o]
       /\ wanted' = [wanted EXCEPT ![w] = s]
  /\ Goto(w, "lock_order")
  /\ UNCHANGED <<database, user, todo, done, stranded, failures>>

UnlockedIgnored(o) == TRUE
Unlocked(o)        == lock[o] = None

Valid(from, to) == to \in ValidTransitions[from]

(* FOR UPDATE and the check against validTransitions.  A cancellation then *)
(* goes through the items that were loaded with the order to give their    *)
(* units back (cancelReservation); no order has any row in order_items, so *)
(* the loop has nothing to visit and the call goes on to its save.         *)
UpdateLock(w) ==
  /\ pc[w] = "lock_order"
  /\ Unlocked(order[w])
  /\ Valid(status[order[w]], wanted[w])
  /\ lock' = [lock EXCEPT ![order[w]] = w]
  /\ Goto(w, "saving")
  /\ UNCHANGED <<account, live, status, owner, placed, redisCart, dbCart,
                 user, order, wanted, todo, done, stranded, failures>>

UpdateRefuse(w) ==
  /\ pc[w] = "lock_order"
  /\ Unlocked(order[w])
  /\ ~Valid(status[order[w]], wanted[w])
  /\ Rollback(w)
  /\ UNCHANGED failures

UpdateCommit(w) ==
  /\ pc[w] = "saving"
  /\ status' = [status EXCEPT ![order[w]] = wanted[w]]
  /\ lock' = Released(w)
  /\ Return(w)
  /\ UNCHANGED <<account, live, owner, placed, redisCart, dbCart, stranded, failures>>

-----------------------------------------------------------------------------
(* The rest of the system.                                                 *)

(* A seller deactivates or deletes a product.                              *)
RemoveProduct(p) ==
  /\ p \in live
  /\ Cardinality(Products \ live) < MaxRemovals
  /\ live' = live \ {p}
  /\ UNCHANGED <<account, status, owner, placed, redisCart, dbCart, lock, locals, stranded, failures>>

(* A user with no cart starts another.                                     *)
FillCart(u) ==
  /\ u \notin redisCart
  /\ redisCart' = redisCart \cup {u}
  /\ dbCart' = dbCart \cup {u}
  /\ UNCHANGED <<account, live, status, owner, placed, lock, locals, stranded, failures>>

(* A statement or the COMMIT fails, or the process dies: the outer         *)
(* transaction is rolled back wherever the call was.                       *)
Fail(w) ==
  /\ pc[w] # "idle"
  /\ failures < MaxFailures
  /\ failures' = failures + 1
  /\ Rollback(w)

Step(w) ==
  \/ CreateReserve(w) \/ CreateRefuse(w) \/ CreateLoopDone(w)
  \/ CreateClearRedis(w) \/ CreateClearDb(w) \/ CreateCommit(w)
  \/ UpdateCommit(w)

LockStep(w) == UpdateLock(w) \/ UpdateRefuse(w)

Next ==
  \/ \E w \in Workers : Create(w) \/ Update(w) \/ LockStep(w) \/ Step(w) \/ Fail(w)
  \/ \E p \in Products : RemoveProduct(p)
  \/ \E u \in Users : FillCart(u)

Fairness == \A w \in Workers : WF_vars(Step(w)) /\ SF_vars(LockStep(w))

Spec     == Init /\ [][Next]_vars
FairSpec == Spec /\ Fairness
-----------------------------------------------------------------------------

TypeOK ==
  /\ account \in [Products -> Stock!Account]
  /\ live \subseteq Products
  /\ status \in [Orders -> Statuses \cup {None}]
  /\ owner \in [Orders -> Users \cup {None}]
  /\ placed \in [Orders -> Seq(Lines)]
  /\ redisCart \subseteq Users
  /\ dbCart \subseteq Users
  /\ lock \in [Orders -> Workers \cup {None}]
  /\ pc \in [Workers -> Labels]
  /\ user \in [Workers -> Users \cup {None}]
  /\ order \in [Workers -> Orders \cup {None}]
  /\ wanted \in [Workers -> Statuses \cup {None}]
  /\ todo \in [Workers -> Seq(Lines)]
  /\ done \in [Workers -> Seq(Lines)]
  /\ stranded \subseteq Products
  /\ failures \in Nat

(* An update past its lock owns the order's row, whose status still allows *)
(* the transition; an order being created is nobody else's.                *)
LockProtectsStatus ==
  \A w \in Workers :
    pc[w] = "saving" =>
      /\ order[w] \in Orders
      /\ lock[order[w]] = w
      /\ status[order[w]] # None
      /\ wanted[w] \in ValidTransitions[status[order[w]]]

CreatedIsUnknown ==
  \A w \in Workers :
    /\ pc[w] = "idle" => order[w] = None
    /\ pc[w] # "idle" => order[w] \in Orders
    /\ pc[w] = "lock_order" => wanted[w] \in Statuses /\ status[order[w]] # None
    /\ pc[w] \in Creating =>
         /\ status[order[w]] = None
         /\ user[w] \in Users
         /\ \A v \in Workers : order[v] = order[w] => v = w

(* The inductive invariant behind TypeOK and ImplementsOrderLife.          *)
IInv == TypeOK /\ LockProtectsStatus /\ CreatedIsUnknown

(* Units of p in a list of lines; in the lists that ids have; in the lines  *)
(* of a set of orders; and in those that calls under way have behind them. *)
UnitsOfLine(line, p) == IF line.product = p THEN line.quantity ELSE 0
Quantity(ls, p)      == SumOver([k \in DOMAIN ls |-> UnitsOfLine(ls[k], p)], DOMAIN ls)
UnitsIn(lists, ids, p) == SumOver([x \in ids |-> Quantity(lists[x], p)], ids)
UnitsOrdered(os, p) == UnitsIn(placed, os, p)
UnitsDone(ws, p)    == UnitsIn(done, ws, p)

PlacedOrders == {o \in Orders : status[o] # None}
ActiveOrders == {o \in Orders : status[o] \notin {None, "CANCELLED"}}
Creators     == {w \in Workers : pc[w] \in Creating}

(* The stock that is available is the opening stock less what the orders   *)
(* that stand, and the calls that are placing one, have of it: an order    *)
(* that was never placed, or was cancelled, holds nothing                  *)
(* (orders.service.ts:39, 196-207).                                        *)
StockIsWhatOrdersLeave ==
  \A p \in Products :
    account[p].available =
      Opening[p].available - UnitsOrdered(ActiveOrders, p) - UnitsDone(Creators, p)

(* What the code keeps of it.  However calls interleave and fail, the      *)
(* stock of a product is short of exactly the units that orders were       *)
(* placed with and that calls under way have reserved, unless a call threw *)
(* after it had reserved some (orders.service.ts:59).  The units of an     *)
(* order that was cancelled are still missing: none comes back (line 200). *)
StockIsWhatOrdersTook ==
  \A p \in Products \ stranded :
    account[p].available =
      Opening[p].available - UnitsOrdered(PlacedOrders, p) - UnitsDone(Creators, p)

(* No unit is promised to two orders: the orders that stand fit in the     *)
(* opening stock.                                                          *)
NoOversell ==
  \A p \in Products : UnitsOrdered(ActiveOrders, p) <= Opening[p].available

(* Every unit of an order that stands, or is being placed, was reserved.   *)
ReservedCoversOrders ==
  \A p \in Products :
    UnitsOrdered(ActiveOrders, p) + UnitsDone(Creators, p)
      <= account[p].reserved - Opening[p].reserved

(* Users whose cart was cleared, with no order to show for it: they have   *)
(* none and are not placing one.                                           *)
CartsLost ==
  {u \in Users \ redisCart :
     /\ \A o \in Orders : owner[o] # u
     /\ \A w \in Creators : user[w] # u}

(* createOrder clears a cart only for an order, but for one user for each  *)
(* transaction that failed after it (orders.service.ts:94): no refused     *)
(* item costs a cart.  Carts that their users empty, or that expire, are   *)
(* not part of this module.                                                *)
CartClearedForOrder == Cardinality(CartsLost) <= failures

(* What the proofs about units keep: only a creation has lines behind it.  *)
NothingDoneYet == \A w \in Workers : pc[w] \notin Creating => done[w] = <<>>
ReservedIInv   == IInv /\ NothingDoneYet /\ ReservedCoversOrders
StockIInv      == IInv /\ NothingDoneYet /\ StockIsWhatOrdersTook

(* No unit ever comes back: what is not available any more is reserved.    *)
NothingReturned ==
  \A p \in Products : account[p].available + account[p].reserved
                         = Opening[p].available + Opening[p].reserved

(* What the proof about carts keeps.  A call that is still reserving may   *)
(* be refused, so it protects no cart that another cleared.                *)
CartsAtRisk ==
  {u \in Users \ redisCart :
     /\ \A o \in Orders : owner[o] # u
     /\ \A w \in Workers : pc[w] \in Creating \ {"reserving"} => user[w] # u}
OwnersHaveOrders == \A o \in Orders : status[o] = None => owner[o] = None
CartsIInv ==
  /\ IInv /\ OwnersHaveOrders
  /\ IsFiniteSet(CartsAtRisk) /\ Cardinality(CartsAtRisk) <= failures

(* Concurrent calls, wherever they fail, place an order once and move its  *)
(* status only along validTransitions, one whole update at a time;         *)
(* COMPLETED and CANCELLED are final (orders.service.ts:175-192).          *)
ImplementsOrderLife == Life!Spec

(* Every call returns or throws.                                           *)
EveryCallReturns == \A w \in Workers : pc[w] # "idle" ~> pc[w] = "idle"
=============================================================================

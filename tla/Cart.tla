-------------------------------- MODULE Cart --------------------------------
(***************************************************************************)
(* The cart service: each user's cart is a value in Redis, read and        *)
(* written back whole, and a row of the carts table, written after it.     *)
(* Neither is locked, so a user's requests interleave at every await.      *)
(***************************************************************************)
EXTENDS Storefront

CONSTANT Amounts     \* quantities that clients ask for

ASSUME AmountsAssumption == Amounts \subseteq Nat \ {0}     \* IsInt, Min(1)
ASSUME NoCartAssumption  == None \notin [Products -> Nat]

VARIABLES
  redisCart,   \* [Users -> Items \cup {None}]: the value of cart:<userId>
  cartRows,    \* [Users -> Seq(CartRow)]: the rows of "carts"
  cartCalls,   \* [Workers -> CartCall]
  parted       \* users whose two carts may disagree (history)

cartData == <<redisCart, cartRows>>
cartVars == <<storefront, cartData, cartCalls, parted>>

Items    == [Products -> Nat]       \* 0: no line for the product
CartRow  == [items : Items, active : BOOLEAN]
CartCall == [at : {"idle", "add", "add_read", "update", "update_check", "remove",
                   "store", "persist", "insert", "save", "clear", "clear_rows"},
             user : Users \cup {None}, product : Products \cup {None}, quantity : Nat,
             stock : Nat,           \* product.stockQuantity as findOne returned it
             cart : Items,          \* the call's copy of the cart
             row : Nat,             \* the entity persistCartToDatabase loaded
             alone : BOOLEAN]       \* neither another call of its user nor expiry
                                    \* since it began (history)

Nothing   == [p \in Products |-> 0]
NoRequest == [at |-> "idle", user |-> None, product |-> None, quantity |-> 0,
              stock |-> 0, cart |-> Nothing, row |-> 0, alone |-> TRUE]

CartInit ==
  /\ StorefrontInit
  /\ redisCart = [u \in Users |-> None]
  /\ cartRows = [u \in Users |-> <<>>]
  /\ cartCalls = [w \in Workers |-> NoRequest]
  /\ parted = {}

At(w, label) == cartCalls[w].at = label
CallsOf(u)   == {w \in Workers : cartCalls[w].user = u}

Disturbed(u)  == [v \in Workers |->
                    [cartCalls[v] EXCEPT !.alone = @ /\ cartCalls[v].user # u]]

(* The call goes on with some of its locals changed.                       *)
Continue(w, call) == cartCalls' = [cartCalls EXCEPT ![w] = call] /\ UNCHANGED parted

LeaveCart(w) == cartCalls' = [cartCalls EXCEPT ![w] = NoRequest]

(* A write that ran alone, on a user with one row, leaves the two carts    *)
(* equal; the rows it left are rows.                                       *)
FinishWrite(w, rows) ==
  /\ LeaveCart(w)
  /\ parted' = IF cartCalls[w].alone /\ Len(rows) <= 1
               THEN parted \ {cartCalls[w].user} ELSE parted

HasLine(u, p)     == redisCart[u] # None /\ redisCart[u][p] > 0
Available(p, q)   == offer[p] # None /\ q <= offer[p]
CartOrEmpty(u)    == IF redisCart[u] = None THEN Nothing ELSE redisCart[u]

-----------------------------------------------------------------------------

CartRequest(w, entry, u, p, q) ==
  /\ At(w, "idle")
  /\ cartCalls' = [Disturbed(u) EXCEPT ![w] =
       [NoRequest EXCEPT !.at = entry, !.user = u, !.product = p, !.quantity = q,
                         !.alone = (CallsOf(u) = {})]]
  /\ parted' = IF CallsOf(u) = {} THEN parted ELSE parted \cup {u}
  /\ UNCHANGED <<storefront, cartData>>

(* The new quantity of the line is checked against the stock read before.  *)
FitsUnchecked(c, old) == TRUE
Fits(c, old)          == old[c.product] + c.quantity <= c.stock

(* The call throws, or, removing from no cart, returns.                    *)
CartRefuse(w) ==
  LET c == cartCalls[w] IN
  /\ CASE c.at \in {"add", "update_check"} -> ~Available(c.product, c.quantity)
       [] c.at = "add_read"               -> ~Fits(c, CartOrEmpty(c.user))
       [] c.at = "update"                 -> ~HasLine(c.user, c.product)
       [] c.at = "remove"                 -> redisCart[c.user] = None
       [] OTHER                           -> FALSE
  /\ LeaveCart(w)
  /\ UNCHANGED <<storefront, cartData, parted>>

AddFindProduct(w) ==
  LET c == cartCalls[w] IN
  /\ At(w, "add")
  /\ Available(c.product, c.quantity)
  /\ Continue(w, [c EXCEPT !.at = "add_read", !.stock = offer[c.product]])
  /\ UNCHANGED <<storefront, cartData>>

AddReadCart(w) ==
  LET c == cartCalls[w] IN
  /\ At(w, "add_read")
  /\ Fits(c, CartOrEmpty(c.user))
  /\ Continue(w, [c EXCEPT !.at = "store",
       !.cart = [CartOrEmpty(c.user) EXCEPT ![c.product] = @ + c.quantity]])
  /\ UNCHANGED <<storefront, cartData>>

UpdateReadCart(w) ==
  LET c == cartCalls[w] IN
  /\ At(w, "update")
  /\ HasLine(c.user, c.product)
  /\ Continue(w, [c EXCEPT !.at = "update_check", !.cart = redisCart[c.user]])
  /\ UNCHANGED <<storefront, cartData>>

UpdateCheckStock(w) ==
  LET c == cartCalls[w] IN
  /\ At(w, "update_check")
  /\ Available(c.product, c.quantity)
  /\ Continue(w, [c EXCEPT !.at = "store", !.cart[c.product] = c.quantity])
  /\ UNCHANGED <<storefront, cartData>>

RemoveReadCart(w) ==
  LET c == cartCalls[w] IN
  /\ At(w, "remove")
  /\ redisCart[c.user] # None
  /\ Continue(w, [c EXCEPT !.at = "store",
                           !.cart = [redisCart[c.user] EXCEPT ![c.product] = 0]])
  /\ UNCHANGED <<storefront, cartData>>

(* SETEX                                                                   *)
Store(w) ==
  LET c == cartCalls[w] IN
  /\ At(w, "store")
  /\ redisCart' = [redisCart EXCEPT ![c.user] = c.cart]
  /\ Continue(w, [c EXCEPT !.at = "persist"])
  /\ UNCHANGED <<storefront, cartRows>>

(* persistCartToDatabase finds a row, any of them, or none.                *)
FindRow(w) ==
  LET c == cartCalls[w] IN
  /\ At(w, "persist")
  /\ IF cartRows[c.user] = <<>>
     THEN Continue(w, [c EXCEPT !.at = "insert"])
     ELSE \E i \in DOMAIN cartRows[c.user] :
            Continue(w, [c EXCEPT !.at = "save", !.row = i])
  /\ UNCHANGED <<storefront, cartData>>

KeepsInactive(old, cart) == [items |-> cart, active |-> old.active]
Persisted(old, cart)     == [items |-> cart, active |-> TRUE]

InsertRow(w) ==
  LET c == cartCalls[w] IN
  /\ At(w, "insert")
  /\ cartRows' = [cartRows EXCEPT ![c.user] = Append(@, [items |-> c.cart, active |-> TRUE])]
  /\ FinishWrite(w, cartRows'[c.user])
  /\ UNCHANGED <<storefront, redisCart>>

SaveRow(w) ==
  LET c == cartCalls[w] IN
  /\ At(w, "save")
  /\ cartRows' = [cartRows EXCEPT ![c.user][c.row] = Persisted(@, c.cart)]
  /\ FinishWrite(w, cartRows'[c.user])
  /\ UNCHANGED <<storefront, redisCart>>

ClearRedis(w) ==
  LET c == cartCalls[w] IN
  /\ At(w, "clear")
  /\ redisCart' = [redisCart EXCEPT ![c.user] = None]
  /\ Continue(w, [c EXCEPT !.at = "clear_rows"])
  /\ UNCHANGED <<storefront, cartRows>>

ClearRows(w) ==
  LET u == cartCalls[w].user IN
  /\ At(w, "clear_rows")
  /\ cartRows' = [cartRows EXCEPT ![u] =
                    [i \in DOMAIN @ |-> [@[i] EXCEPT !.active = FALSE]]]
  /\ FinishWrite(w, cartRows'[u])
  /\ UNCHANGED <<storefront, redisCart>>

(* A statement fails or the process dies: the call goes no further.        *)
CartFail(w) ==
  /\ ~At(w, "idle")
  /\ LeaveCart(w)
  /\ parted' = IF cartCalls[w].at \in {"persist", "insert", "save", "clear_rows"}
               THEN parted \cup {cartCalls[w].user} ELSE parted
  /\ UNCHANGED <<storefront, cartData>>

(* Redis drops a cart that was not used for cartTTL.                       *)
Expire(u) ==
  /\ redisCart[u] # None
  /\ redisCart' = [redisCart EXCEPT ![u] = None]
  /\ cartCalls' = Disturbed(u)
  /\ parted' = parted \cup {u}
  /\ UNCHANGED <<storefront, cartRows>>

CartStep(w) ==
  \/ CartRefuse(w)
  \/ AddFindProduct(w) \/ AddReadCart(w)
  \/ UpdateReadCart(w) \/ UpdateCheckStock(w) \/ RemoveReadCart(w)
  \/ Store(w) \/ FindRow(w) \/ InsertRow(w) \/ SaveRow(w)
  \/ ClearRedis(w) \/ ClearRows(w) \/ CartFail(w)

CartBegin(w) ==
  \E u \in Users :
    \/ \E p \in Products, q \in Amounts :
         CartRequest(w, "add", u, p, q) \/ CartRequest(w, "update", u, p, q)
    \/ \E p \in Products : CartRequest(w, "remove", u, p, 0)
    \/ CartRequest(w, "clear", u, None, 0)

CartNext ==
  \/ \E w \in Workers : CartBegin(w) \/ CartStep(w)
  \/ \E u \in Users : Expire(u)
  \/ \E p \in Products : Reoffer(p) /\ UNCHANGED <<cartData, cartCalls, parted>>

CartSpec == CartInit /\ [][CartNext]_cartVars
-----------------------------------------------------------------------------

CartTypeOK ==
  /\ StorefrontTypeOK
  /\ redisCart \in [Users -> Items \cup {None}]
  /\ cartRows \in [Users -> Seq(CartRow)]
  /\ cartCalls \in [Workers -> CartCall]
  /\ parted \subseteq Users

(* Adding to a line again and again, from several requests at once and     *)
(* while the seller changes the stock, never takes it past a stock the     *)
(* product has had, in Redis or in the database (cart.service.ts:78, 97,   *)
(* 137).                                                                   *)
WithinPeak(cart) == \A p \in Products : cart[p] <= peak[p]
CartWithinStock ==
  \A u \in Users :
    /\ redisCart[u] # None => WithinPeak(redisCart[u])
    /\ \A i \in DOMAIN cartRows[u] : WithinPeak(cartRows[u][i].items)

(* What the proofs keep: a call has seen no more stock than the peak, and  *)
(* the copy it is about to store stays within it.                          *)
CallAddressed(c) ==
  /\ c.at # "idle" => c.user \in Users
  /\ c.at \in {"add", "add_read", "update", "update_check", "remove"} => c.product \in Products
  /\ c.at = "save" => c.row \in DOMAIN cartRows[c.user]
CallWithinStock(c) ==
  /\ c.at = "add_read" => c.stock <= peak[c.product]
  /\ WithinPeak(c.cart)

CartIInv ==
  /\ CartTypeOK
  /\ PeakIsHighest
  /\ \A w \in Workers : CallAddressed(cartCalls[w]) /\ CallWithinStock(cartCalls[w])
  /\ CartWithinStock

ActiveCarts(u) == {cartRows[u][i].items : i \in {j \in DOMAIN cartRows[u] : cartRows[u][j].active}}

(* The database holds the cart that Redis holds, or neither holds any.     *)
CartsAgree(u) == ActiveCarts(u) = IF redisCart[u] = None THEN {} ELSE {redisCart[u]}

(* Once a user's last write ran alone and to its end, the database holds   *)
(* the cart that Redis holds, and no cart when Redis holds none: whatever  *)
(* overlaps, failures and expiry came before (cart.service.ts:112, 168,    *)
(* 187).                                                                   *)
QuietWritesAgree ==
  \A u \in Users \ parted : CallsOf(u) = {} => CartsAgree(u)

(* What its proof keeps: a call that is alone is its user's only one, and  *)
(* Redis and the rows are as it left or found them; while no call parts    *)
(* them, all of a user's calls are alone, there is one row at most, and    *)
(* only a call between its two writes keeps the carts from agreeing.       *)
AsItLeft(c) ==
  /\ c.at \in {"persist", "insert", "save"} => redisCart[c.user] = c.cart
  /\ c.at = "insert" => cartRows[c.user] = <<>>
  /\ c.at = "clear_rows" => redisCart[c.user] = None
BetweenWrites(w) == cartCalls[w].at \in {"persist", "insert", "save", "clear_rows"}
Undisturbed(u) ==
  /\ \A w \in CallsOf(u) : cartCalls[w].alone => CallsOf(u) = {w} /\ AsItLeft(cartCalls[w])
  /\ u \notin parted =>
       /\ \A w \in CallsOf(u) : cartCalls[w].alone
       /\ Len(cartRows[u]) <= 1
       /\ (\A w \in CallsOf(u) : ~BetweenWrites(w)) => CartsAgree(u)
IdleForNobody == \A w \in Workers : At(w, "idle") => cartCalls[w].user = None

QuietIInv == CartIInv /\ IdleForNobody /\ \A u \in Users : Undisturbed(u)

(* The cart is persistent (README.md:12): what the database still holds as *)
(* the user's active cart is the cart that getCart shows.                  *)
PersistentCart ==
  \A u \in Users :
    CallsOf(u) = {} /\ ActiveCarts(u) # {} => redisCart[u] # None
=============================================================================

------------------------------ MODULE ShopProofs -----------------------------
(***************************************************************************)
(* Proofs about the cart, the reviews and the catalog services, for any    *)
(* users, products, stock levels, categories, sellers and requests.        *)
(*                                                                         *)
(* Cart: the quantity a call is about to store was checked against a stock *)
(* the product had, so it is within the peak, which only grows; whatever   *)
(* is stored and read back afterwards is such a copy.  The second part is  *)
(* about a call that is alone: Redis and the rows stay as it left them     *)
(* until it returns.                                                       *)
(*                                                                         *)
(* Reviews: while no two calls about a user and a product overlap, a call  *)
(* writes what it decided on: a creation that found no review adds one, an *)
(* approval saves one that is there.                                       *)
(*                                                                         *)
(* Catalog: nobody is about to save a row deleted while nobody had loaded  *)
(* it; until the order of a product's images is lost, an image that is     *)
(* being added goes after the ones that are there.                         *)
(*                                                                         *)
(* Shop: a step of one service is a step of its own specification and,     *)
(* for the other two, a step of theirs or a stutter.                       *)
(***************************************************************************)
EXTENDS Shop, SequenceTheorems, FiniteSetTheorems, TLAPS

-----------------------------------------------------------------------------
(* Cart.                                                                   *)

LEMMA ConstantsTyped ==
  /\ None \notin Users /\ None \notin Products /\ None \notin StockLevels
  /\ \A n \in StockLevels : n \in Nat
  /\ \A q \in Amounts : q \in Nat
BY NoneAssumption, StockLevelsAssumption, LevelsAssumption, AmountsAssumption

LEMMA PeakTyped ==
  ASSUME StorefrontTypeOK
  PROVE  \A p \in Products : peak[p] \in Nat
BY ConstantsTyped DEF StorefrontTypeOK

LEMMA NoRequestFine ==
  ASSUME StorefrontTypeOK
  PROVE  NoRequest \in CartCall /\ CallAddressed(NoRequest) /\ CallWithinStock(NoRequest)
<1>1. Nothing \in Items
  BY DEF Nothing, Items
<1>2. NoRequest \in CartCall
  BY <1>1 DEF NoRequest, CartCall
<1>3. NoRequest.at = "idle" /\ NoRequest.cart = Nothing
  BY DEF NoRequest
<1>4. CallAddressed(NoRequest)
  BY <1>3 DEF CallAddressed
<1>5. CallWithinStock(NoRequest)
  BY <1>3, PeakTyped DEF CallWithinStock, WithinPeak, Nothing
<1> QED BY <1>2, <1>4, <1>5

LEMMA CartInitIInv == CartInit => CartIInv
<1> SUFFICES ASSUME CartInit PROVE CartIInv
  OBVIOUS
<1>1. StorefrontTypeOK /\ PeakIsHighest
  BY ConstantsTyped DEF CartInit, StorefrontInit, StorefrontTypeOK, PeakIsHighest
<1>2. /\ redisCart \in [Users -> Items \cup {None}]
      /\ cartRows \in [Users -> Seq(CartRow)]
      /\ parted \subseteq Users
  BY DEF CartInit
<1>3. CartTypeOK
  BY <1>1, <1>2, NoRequestFine DEF CartInit, CartTypeOK
<1>4. CartWithinStock
  BY DEF CartInit, CartWithinStock
<1>5. \A w \in Workers : CallAddressed(cartCalls[w]) /\ CallWithinStock(cartCalls[w])
  BY <1>1, NoRequestFine DEF CartInit
<1> QED BY <1>1, <1>3, <1>4, <1>5 DEF CartIInv

-----------------------------------------------------------------------------
(* The steps that change only calls.                                       *)

LEMMA CallsKeepIInv ==
  ASSUME CartIInv, UNCHANGED <<storefront, cartData>>,
         parted' \subseteq Users, cartCalls' \in [Workers -> CartCall],
         \A w \in Workers : CallAddressed(cartCalls'[w]) /\ CallWithinStock(cartCalls'[w])
  PROVE  CartIInv'
<1>1. UNCHANGED <<offer, peak, redisCart, cartRows>>
  BY DEF storefront, cartData
<1>2. CartTypeOK' /\ PeakIsHighest' /\ CartWithinStock'
  BY <1>1 DEF CartIInv, CartTypeOK, StorefrontTypeOK, PeakIsHighest, CartWithinStock, WithinPeak
<1>3. \A w \in Workers : CallAddressed(cartCalls[w])' /\ CallWithinStock(cartCalls[w])'
  BY <1>1 DEF CallAddressed, CallWithinStock, WithinPeak
<1> QED BY <1>2, <1>3 DEF CartIInv

LEMMA CallKeepsIInv ==
  ASSUME CartIInv, UNCHANGED <<storefront, cartData>>, NEW w \in Workers, NEW c \in CartCall,
         cartCalls' = [cartCalls EXCEPT ![w] = c], parted' \subseteq Users,
         CallAddressed(c), CallWithinStock(c)
  PROVE  CartIInv'
<1>1. cartCalls' \in [Workers -> CartCall]
  BY DEF CartIInv, CartTypeOK
<1>2. \A v \in Workers : CallAddressed(cartCalls'[v]) /\ CallWithinStock(cartCalls'[v])
  BY DEF CartIInv, CartTypeOK
<1> QED BY <1>1, <1>2, CallsKeepIInv

(* A call that only forgets that it is alone.                              *)
LEMMA DisturbedFine ==
  ASSUME CartIInv, NEW u, NEW v \in Workers
  PROVE  /\ Disturbed(u)[v] \in CartCall
         /\ CallAddressed(Disturbed(u)[v]) /\ CallWithinStock(Disturbed(u)[v])
<1> DEFINE c == cartCalls[v]
           b == c.alone /\ c.user # u
           d == [c EXCEPT !.alone = b]
<1>1. c \in CartCall /\ CallAddressed(c) /\ CallWithinStock(c)
  BY DEF CartIInv, CartTypeOK
<1>2. Disturbed(u)[v] = d
  BY DEF Disturbed
<1>3. b \in BOOLEAN
  OBVIOUS
<1> HIDE DEF b, c
<1>4. /\ d \in CartCall /\ d.at = c.at /\ d.user = c.user /\ d.product = c.product
      /\ d.row = c.row /\ d.stock = c.stock /\ d.cart = c.cart
  BY <1>1, <1>3 DEF CartCall
<1> HIDE DEF d
<1>5. CallAddressed(d) /\ CallWithinStock(d)
  BY <1>1, <1>4 DEF CallAddressed, CallWithinStock
<1> QED BY <1>2, <1>4, <1>5

LEMMA RequestKeepsIInv ==
  ASSUME CartIInv, NEW w \in Workers, CartBegin(w)
  PROVE  CartIInv'
<1>1. PICK u \in Users, entry \in {"add", "update", "remove", "clear"},
           p \in Products \cup {None}, q \in Nat :
        /\ CartRequest(w, entry, u, p, q)
        /\ entry # "clear" => p \in Products
  BY ConstantsTyped DEF CartBegin
<1> DEFINE b == (CallsOf(u) = {})
           c == [NoRequest EXCEPT !.at = entry, !.user = u, !.product = p, !.quantity = q,
                                  !.alone = b]
<1>2. StorefrontTypeOK /\ parted' \subseteq Users
  BY <1>1 DEF CartIInv, CartTypeOK, CartRequest
<1>3. cartCalls' = [Disturbed(u) EXCEPT ![w] = c] /\ UNCHANGED <<storefront, cartData>>
  BY <1>1 DEF CartRequest
<1>4. b \in BOOLEAN
  OBVIOUS
<1> HIDE DEF b
<1>5. /\ c \in CartCall /\ c.at = entry /\ c.user = u /\ c.product = p
      /\ c.cart = NoRequest.cart
  BY <1>2, <1>4, NoRequestFine DEF CartCall
<1> HIDE DEF c
<1>6. CallAddressed(c)
  BY <1>1, <1>5 DEF CallAddressed
<1>7. CallWithinStock(c)
  BY <1>2, <1>5, NoRequestFine DEF CallWithinStock
<1>8. /\ cartCalls'[w] = c
      /\ \A v \in Workers \ {w} : cartCalls'[v] = Disturbed(u)[v]
      /\ cartCalls' = [v \in Workers |-> cartCalls'[v]]
  BY <1>3 DEF Disturbed
<1>9. /\ cartCalls' \in [Workers -> CartCall]
      /\ \A v \in Workers : CallAddressed(cartCalls'[v]) /\ CallWithinStock(cartCalls'[v])
  BY <1>5, <1>6, <1>7, <1>8, DisturbedFine
<1> QED BY <1>2, <1>3, <1>9, CallsKeepIInv

LEMMA LeaveKeepsIInv ==
  ASSUME CartIInv, NEW w \in Workers, CartRefuse(w) \/ CartFail(w)
  PROVE  CartIInv'
<1>1. cartCalls[w].at # "idle" => cartCalls[w].user \in Users
  BY DEF CartIInv, CallAddressed
<1>2. StorefrontTypeOK /\ parted' \subseteq Users
  BY <1>1 DEF CartIInv, CartTypeOK, CartRefuse, CartFail, At
<1>3. cartCalls' = [cartCalls EXCEPT ![w] = NoRequest] /\ UNCHANGED <<storefront, cartData>>
  BY DEF CartRefuse, CartFail, LeaveCart
<1> QED BY <1>2, <1>3, NoRequestFine, CallKeepsIInv

(* What a step of w's call starts from.                                    *)
LEMMA CallTyped ==
  ASSUME CartIInv, NEW w \in Workers
  PROVE  /\ cartCalls[w] \in CartCall
         /\ cartCalls[w].quantity \in Nat /\ cartCalls[w].stock \in Nat
         /\ cartCalls[w].cart \in Items
         /\ CallAddressed(cartCalls[w]) /\ CallWithinStock(cartCalls[w])
         /\ StorefrontTypeOK /\ parted \subseteq Users
         /\ cartRows \in [Users -> Seq(CartRow)]
BY DEF CartIInv, CartTypeOK, CartCall

LEMMA CartOfUser ==
  ASSUME CartIInv, NEW u \in Users
  PROVE  /\ CartOrEmpty(u) \in Items /\ WithinPeak(CartOrEmpty(u))
         /\ redisCart[u] # None => CartOrEmpty(u) = redisCart[u]
<1>1. CASE redisCart[u] = None
  <2>1. CartOrEmpty(u) = Nothing
    BY <1>1 DEF CartOrEmpty
  <2> QED BY <1>1, <2>1, PeakTyped DEF CartIInv, CartTypeOK, Nothing, Items, WithinPeak
<1>2. CASE redisCart[u] # None
  <2>1. CartOrEmpty(u) = redisCart[u]
    BY <1>2 DEF CartOrEmpty
  <2> QED BY <1>2, <2>1 DEF CartIInv, CartTypeOK, CartWithinStock
<1> QED BY <1>1, <1>2

(* Changing one line of a cart to a quantity within the peak.              *)
LEMMA LineTyped ==
  ASSUME StorefrontTypeOK, NEW cart \in Items, WithinPeak(cart), NEW p \in Products,
         NEW q \in Nat, q <= peak[p]
  PROVE  /\ [cart EXCEPT ![p] = q] \in Items
         /\ WithinPeak([cart EXCEPT ![p] = q])
BY PeakTyped DEF Items, WithinPeak

(* A step that goes on to a label with another copy of the cart.           *)
LEMMA CopyKeepsIInv ==
  ASSUME CartIInv, NEW w \in Workers, NEW cart \in Items, WithinPeak(cart),
         NEW label \in {"store", "update_check"},
         cartCalls[w].at # "idle", label = "update_check" => cartCalls[w].product \in Products,
         Continue(w, [cartCalls[w] EXCEPT !.at = label, !.cart = cart]),
         UNCHANGED <<storefront, cartData>>
  PROVE  CartIInv'
<1> DEFINE c == [cartCalls[w] EXCEPT !.at = label, !.cart = cart]
<1>1. /\ c \in CartCall /\ c.at = label /\ c.cart = cart
      /\ c.user = cartCalls[w].user /\ c.product = cartCalls[w].product
  BY CallTyped DEF CartCall
<1>2. cartCalls' = [cartCalls EXCEPT ![w] = c] /\ parted' = parted
  BY DEF Continue
<1> HIDE DEF c
<1>3. CallAddressed(c) /\ CallWithinStock(c)
  BY <1>1, CallTyped DEF CallAddressed, CallWithinStock
<1> QED BY <1>1, <1>2, <1>3, CallTyped, CallKeepsIInv

LEMMA FindKeepsIInv ==
  ASSUME CartIInv, NEW w \in Workers, AddFindProduct(w)
  PROVE  CartIInv'
<1> DEFINE n == offer[cartCalls[w].product]
           c == [cartCalls[w] EXCEPT !.at = "add_read", !.stock = n]
<1>1. /\ cartCalls[w].at = "add" /\ cartCalls[w].product \in Products
      /\ cartCalls[w].user \in Users
  BY CallTyped DEF AddFindProduct, At, CallAddressed
<1>2. n \in Nat /\ n <= peak[cartCalls[w].product]
  BY <1>1, ConstantsTyped DEF AddFindProduct, Available, CartIInv, CartTypeOK, StorefrontTypeOK,
                             PeakIsHighest
<1>3. /\ cartCalls' = [cartCalls EXCEPT ![w] = c] /\ parted' = parted
      /\ UNCHANGED <<storefront, cartData>>
  BY DEF AddFindProduct, Continue
<1> HIDE DEF n
<1>4. /\ c \in CartCall /\ c.at = "add_read" /\ c.stock = n /\ c.cart = cartCalls[w].cart
      /\ c.user = cartCalls[w].user /\ c.product = cartCalls[w].product
  BY <1>2, CallTyped DEF CartCall
<1> HIDE DEF c
<1>5. CallAddressed(c) /\ CallWithinStock(c)
  BY <1>1, <1>2, <1>4, CallTyped DEF CallAddressed, CallWithinStock
<1> QED BY <1>3, <1>4, <1>5, CallTyped, CallKeepsIInv

LEMMA CopiesKeepIInv ==
  ASSUME CartIInv, NEW w \in Workers,
         AddReadCart(w) \/ UpdateReadCart(w) \/ UpdateCheckStock(w) \/ RemoveReadCart(w)
  PROVE  CartIInv'
<1> DEFINE c == cartCalls[w]
           p == c.product
           cart == CartOrEmpty(c.user)
<1>1. /\ c.at # "idle" /\ c.user \in Users /\ p \in Products
      /\ UNCHANGED <<storefront, cartData>>
  BY CallTyped DEF AddReadCart, UpdateReadCart, UpdateCheckStock, RemoveReadCart, At, CallAddressed
<1>2. cart \in Items /\ WithinPeak(cart)
  BY <1>1, CartOfUser
<1>3. CASE AddReadCart(w)
  <2> DEFINE q == cart[p] + c.quantity
  <2>1. c.stock <= peak[p]
    BY <1>3, CallTyped DEF AddReadCart, At, CallWithinStock
  <2>2. q <= c.stock
    BY <1>3 DEF AddReadCart, Fits
  <2>3. q \in Nat /\ q <= peak[p]
    BY <1>1, <1>2, <2>1, <2>2, CallTyped, PeakTyped DEF Items
  <2>4. Continue(w, [c EXCEPT !.at = "store", !.cart = [cart EXCEPT ![p] = q]])
    BY <1>3 DEF AddReadCart
  <2> HIDE DEF q
  <2> DEFINE after == [cart EXCEPT ![p] = q]
  <2>5. after \in Items /\ WithinPeak(after)
    BY <1>1, <1>2, <2>3, LineTyped, CallTyped
  <2> HIDE DEF after, cart
  <2> QED BY <1>1, <2>4, <2>5, CopyKeepsIInv DEF after
<1>4. CASE UpdateReadCart(w)
  <2>1. /\ Continue(w, [c EXCEPT !.at = "update_check", !.cart = redisCart[c.user]])
        /\ redisCart[c.user] = cart
    BY <1>1, <1>4, CartOfUser DEF UpdateReadCart, HasLine
  <2> QED BY <1>1, <1>2, <2>1, CopyKeepsIInv
<1>5. CASE UpdateCheckStock(w)
  <2> DEFINE after == [c.cart EXCEPT ![p] = c.quantity]
  <2>1. c.quantity <= peak[p]
    BY <1>1, <1>5, CallTyped, PeakTyped, ConstantsTyped
       DEF UpdateCheckStock, Available, CartIInv, StorefrontTypeOK, PeakIsHighest
  <2>2. after \in Items /\ WithinPeak(after)
    BY <1>1, <2>1, CallTyped, LineTyped DEF CallWithinStock
  <2>3. Continue(w, [c EXCEPT !.at = "store", !.cart = after])
    BY <1>5, CallTyped DEF UpdateCheckStock, CartCall
  <2> HIDE DEF after
  <2> QED BY <1>1, <2>2, <2>3, CopyKeepsIInv
<1>6. CASE RemoveReadCart(w)
  <2> DEFINE after == [cart EXCEPT ![p] = 0]
  <2>1. redisCart[c.user] = cart
    BY <1>1, <1>6, CartOfUser DEF RemoveReadCart
  <2>2. 0 <= peak[p]
    BY <1>1, CallTyped, PeakTyped
  <2>3. after \in Items /\ WithinPeak(after)
    BY <1>1, <1>2, <2>2, CallTyped, LineTyped
  <2>4. Continue(w, [c EXCEPT !.at = "store", !.cart = [redisCart[c.user] EXCEPT ![p] = 0]])
    BY <1>6 DEF RemoveReadCart
  <2> HIDE DEF cart
  <2>5. Continue(w, [c EXCEPT !.at = "store", !.cart = after])
    BY <2>1, <2>4
  <2> HIDE DEF after
  <2> QED BY <1>1, <2>3, <2>5, CopyKeepsIInv
<1> QED BY <1>3, <1>4, <1>5, <1>6

LEMMA FindRowKeepsIInv ==
  ASSUME CartIInv, NEW w \in Workers, FindRow(w)
  PROVE  CartIInv'
<1> DEFINE u == cartCalls[w].user
<1>1. u \in Users /\ UNCHANGED <<storefront, cartData>>
  BY CallTyped DEF FindRow, At, CallAddressed
<1>2. CASE cartRows[u] = <<>>
  <2> DEFINE c == [cartCalls[w] EXCEPT !.at = "insert"]
  <2>1. c \in CartCall /\ c.at = "insert" /\ c.user = u /\ c.cart = cartCalls[w].cart
    BY CallTyped DEF CartCall
  <2>2. cartCalls' = [cartCalls EXCEPT ![w] = c] /\ parted' = parted
    BY <1>2 DEF FindRow, Continue
  <2> HIDE DEF c
  <2>3. CallAddressed(c) /\ CallWithinStock(c)
    BY <1>1, <2>1, CallTyped DEF CallAddressed, CallWithinStock
  <2> QED BY <1>1, <2>1, <2>2, <2>3, CallTyped, CallKeepsIInv
<1>3. CASE cartRows[u] # <<>>
  <2>1. PICK i \in DOMAIN cartRows[u] :
          Continue(w, [cartCalls[w] EXCEPT !.at = "save", !.row = i])
    BY <1>3 DEF FindRow
  <2> DEFINE c == [cartCalls[w] EXCEPT !.at = "save", !.row = i]
  <2>2. i \in Nat
    BY <1>1, CallTyped
  <2>3. /\ c \in CartCall /\ c.at = "save" /\ c.row = i /\ c.user = u
        /\ c.cart = cartCalls[w].cart
    BY <2>2, CallTyped DEF CartCall
  <2>4. cartCalls' = [cartCalls EXCEPT ![w] = c] /\ parted' = parted
    BY <2>1 DEF Continue
  <2> HIDE DEF c
  <2>5. CallAddressed(c) /\ CallWithinStock(c)
    BY <1>1, <2>3, CallTyped DEF CallAddressed, CallWithinStock
  <2> QED BY <1>1, <2>3, <2>4, <2>5, CallTyped, CallKeepsIInv
<1> QED BY <1>2, <1>3
-----------------------------------------------------------------------------
(* The steps that change the carts.                                        *)

(* The carts written stay within the peak; the calls and their rows stay   *)
(* what they may be.                                                       *)
LEMMA WritesKeepIInv ==
  ASSUME CartIInv, UNCHANGED storefront, parted' \subseteq Users,
         redisCart' \in [Users -> Items \cup {None}],
         \A u \in Users : redisCart'[u] # None => WithinPeak(redisCart'[u]),
         cartRows' \in [Users -> Seq(CartRow)],
         \A u \in Users : /\ DOMAIN cartRows[u] \subseteq DOMAIN cartRows'[u]
                          /\ \A i \in DOMAIN cartRows'[u] : WithinPeak(cartRows'[u][i].items),
         cartCalls' \in [Workers -> CartCall],
         \A w \in Workers : CallAddressed(cartCalls'[w]) /\ CallWithinStock(cartCalls'[w])
  PROVE  CartIInv'
<1>1. UNCHANGED <<offer, peak>>
  BY DEF storefront
<1>2. CartTypeOK' /\ PeakIsHighest'
  BY <1>1 DEF CartIInv, CartTypeOK, StorefrontTypeOK, PeakIsHighest
<1>3. CartWithinStock'
  BY <1>1 DEF CartWithinStock, WithinPeak
<1>4. ASSUME NEW w \in Workers
      PROVE  CallAddressed(cartCalls[w])' /\ CallWithinStock(cartCalls[w])'
  <2>1. CallWithinStock(cartCalls[w])'
    BY <1>1 DEF CallWithinStock, WithinPeak
  <2>2. CallAddressed(cartCalls[w])'
    BY DEF CallAddressed
  <2> QED BY <2>1, <2>2
<1> QED BY <1>2, <1>3, <1>4 DEF CartIInv

(* The calls after a step that ends w's call, or moves it to a label from  *)
(* which it needs nothing but its user.                                    *)
LEMMA CallsAfterWrite ==
  ASSUME CartIInv, NEW w \in Workers,
         \/ LeaveCart(w)
         \/ /\ cartCalls[w].at # "idle"
            /\ \/ Continue(w, [cartCalls[w] EXCEPT !.at = "persist"])
               \/ Continue(w, [cartCalls[w] EXCEPT !.at = "clear_rows"])
  PROVE  /\ cartCalls' \in [Workers -> CartCall]
         /\ \A v \in Workers : CallAddressed(cartCalls'[v]) /\ CallWithinStock(cartCalls'[v])
<1>1. \A v \in Workers : /\ cartCalls[v] \in CartCall
                         /\ CallAddressed(cartCalls[v]) /\ CallWithinStock(cartCalls[v])
  BY CallTyped
<1>2. CASE LeaveCart(w)
  BY <1>1, <1>2, CallTyped, NoRequestFine DEF LeaveCart, CartIInv, CartTypeOK
<1>3. ASSUME NEW label \in {"persist", "clear_rows"}, cartCalls[w].at # "idle",
             Continue(w, [cartCalls[w] EXCEPT !.at = label])
      PROVE  /\ cartCalls' \in [Workers -> CartCall]
             /\ \A v \in Workers : CallAddressed(cartCalls'[v]) /\ CallWithinStock(cartCalls'[v])
  <2> DEFINE c == [cartCalls[w] EXCEPT !.at = label]
  <2>1. c \in CartCall /\ c.at = label /\ c.user = cartCalls[w].user /\ c.cart = cartCalls[w].cart
    BY <1>1, <1>3 DEF CartCall
  <2>2. cartCalls' = [cartCalls EXCEPT ![w] = c]
    BY <1>3 DEF Continue
  <2> HIDE DEF c
  <2>3. CallAddressed(c) /\ CallWithinStock(c)
    BY <1>1, <1>3, <2>1 DEF CallAddressed, CallWithinStock
  <2> QED BY <1>1, <2>1, <2>2, <2>3 DEF CartIInv, CartTypeOK
<1> QED BY <1>2, <1>3

LEMMA RedisKeepsIInv ==
  ASSUME CartIInv, NEW w \in Workers, Store(w) \/ ClearRedis(w)
  PROVE  CartIInv'
<1> DEFINE u == cartCalls[w].user
<1>1. /\ u \in Users /\ cartCalls[w].at # "idle"
      /\ UNCHANGED <<storefront, cartRows, parted>>
  BY CallTyped DEF Store, ClearRedis, At, CallAddressed, Continue
<1>2. PICK v \in Items \cup {None} :
        /\ redisCart' = [redisCart EXCEPT ![u] = v]
        /\ v # None => WithinPeak(v)
  BY CallTyped DEF Store, ClearRedis, CallWithinStock
<1>3. /\ redisCart' \in [Users -> Items \cup {None}]
      /\ \A x \in Users : redisCart'[x] # None => WithinPeak(redisCart'[x])
  BY <1>1, <1>2 DEF CartIInv, CartTypeOK, CartWithinStock
<1>4. /\ cartCalls' \in [Workers -> CartCall]
      /\ \A x \in Workers : CallAddressed(cartCalls'[x]) /\ CallWithinStock(cartCalls'[x])
  BY <1>1, CallsAfterWrite DEF Store, ClearRedis
<1>5. \A x \in Users : \A i \in DOMAIN cartRows[x] : WithinPeak(cartRows[x][i].items)
  BY DEF CartIInv, CartWithinStock
<1> QED BY <1>1, <1>3, <1>4, <1>5, CallTyped, WritesKeepIInv

(* Writing a user's rows.                                                  *)
LEMMA RowsKeepIInv ==
  ASSUME CartIInv, NEW w \in Workers, NEW rows \in Seq(CartRow),
         cartCalls[w].at # "idle",
         cartRows' = [cartRows EXCEPT ![cartCalls[w].user] = rows],
         DOMAIN cartRows[cartCalls[w].user] \subseteq DOMAIN rows,
         \A i \in DOMAIN rows : WithinPeak(rows[i].items),
         FinishWrite(w, cartRows'[cartCalls[w].user]),
         UNCHANGED <<storefront, redisCart>>
  PROVE  CartIInv'
<1> DEFINE u == cartCalls[w].user
<1>1. u \in Users /\ parted' \subseteq Users
  BY CallTyped DEF CallAddressed, FinishWrite
<1>2. /\ cartRows' \in [Users -> Seq(CartRow)]
      /\ \A x \in Users : cartRows'[x] = IF x = u THEN rows ELSE cartRows[x]
  BY <1>1, CallTyped
<1>3. \A x \in Users : /\ DOMAIN cartRows[x] \subseteq DOMAIN cartRows'[x]
                       /\ \A i \in DOMAIN cartRows'[x] : WithinPeak(cartRows'[x][i].items)
  BY <1>2 DEF CartIInv, CartWithinStock
<1>4. /\ cartCalls' \in [Workers -> CartCall]
      /\ \A x \in Workers : CallAddressed(cartCalls'[x]) /\ CallWithinStock(cartCalls'[x])
  BY CallsAfterWrite DEF FinishWrite
<1>5. /\ redisCart \in [Users -> Items \cup {None}]
      /\ \A x \in Users : redisCart[x] # None => WithinPeak(redisCart[x])
  BY DEF CartIInv, CartTypeOK, CartWithinStock
<1> QED BY <1>1, <1>2, <1>3, <1>4, <1>5, WritesKeepIInv

LEMMA InsertKeepsIInv ==
  ASSUME CartIInv, NEW w \in Workers, InsertRow(w)
  PROVE  CartIInv'
<1> DEFINE c == cartCalls[w]
           kept == [items |-> c.cart, active |-> TRUE]
           rows == Append(cartRows[c.user], kept)
<1>1. c.at = "insert" /\ c.user \in Users
  BY CallTyped DEF InsertRow, At, CallAddressed
<1>2. kept \in CartRow /\ WithinPeak(kept.items)
  BY CallTyped DEF CartRow, CallWithinStock
<1>3. cartRows[c.user] \in Seq(CartRow)
  BY <1>1, CallTyped
<1>4. \A i \in DOMAIN cartRows[c.user] : WithinPeak(cartRows[c.user][i].items)
  BY <1>1 DEF CartIInv, CartWithinStock
<1>5. /\ cartRows' = [cartRows EXCEPT ![c.user] = rows]
      /\ FinishWrite(w, cartRows'[c.user])
      /\ UNCHANGED <<storefront, redisCart>>
  BY DEF InsertRow
<1> HIDE DEF kept
<1>6. /\ rows \in Seq(CartRow) /\ DOMAIN cartRows[c.user] \subseteq DOMAIN rows
      /\ \A i \in DOMAIN rows : \/ rows[i] = kept
                                \/ i \in DOMAIN cartRows[c.user] /\ rows[i] = cartRows[c.user][i]
  <2> DEFINE old == cartRows[c.user]
  <2>1. /\ rows \in Seq(CartRow) /\ DOMAIN old \subseteq DOMAIN rows
        /\ \A i \in DOMAIN rows : rows[i] = kept \/ (i \in DOMAIN old /\ rows[i] = old[i])
    <3> HIDE DEF old
    <3> QED BY <1>2, <1>3, AppendProperties DEF old
  <2> QED BY <2>1
<1>7. \A i \in DOMAIN rows : WithinPeak(rows[i].items)
  BY <1>2, <1>4, <1>6
<1> HIDE DEF rows
<1> QED BY <1>1, <1>5, <1>6, <1>7, RowsKeepIInv

LEMMA SaveKeepsIInv ==
  ASSUME CartIInv, NEW w \in Workers, SaveRow(w)
  PROVE  CartIInv'
<1> DEFINE c == cartCalls[w]
           old == cartRows[c.user]
           kept == Persisted(old[c.row], c.cart)
           rows == [old EXCEPT ![c.row] = kept]
<1>1. c.at = "save" /\ c.user \in Users /\ c.row \in DOMAIN old
  BY CallTyped DEF SaveRow, At, CallAddressed
<1>2. kept \in CartRow /\ WithinPeak(kept.items)
  BY CallTyped DEF Persisted, CartRow, CallWithinStock
<1>3. old \in Seq(CartRow)
  BY <1>1, CallTyped
<1>4. \A i \in DOMAIN old : WithinPeak(old[i].items)
  BY <1>1 DEF CartIInv, CartWithinStock
<1>5. /\ cartRows' = [cartRows EXCEPT ![c.user] = rows]
      /\ FinishWrite(w, cartRows'[c.user])
      /\ UNCHANGED <<storefront, redisCart>>
  BY DEF SaveRow
<1> HIDE DEF kept
<1>6. /\ rows \in Seq(CartRow) /\ DOMAIN rows = DOMAIN old
      /\ \A i \in DOMAIN rows : rows[i] = kept \/ rows[i] = old[i]
  <2>1. rows \in Seq(CartRow) /\ DOMAIN rows = DOMAIN old
    BY <1>1, <1>2, <1>3, ExceptSeq
  <2>2. \A i \in DOMAIN old : rows[i] = kept \/ rows[i] = old[i]
    BY <1>1
  <2> QED BY <2>1, <2>2
<1>7. \A i \in DOMAIN rows : WithinPeak(rows[i].items)
  BY <1>2, <1>4, <1>6
<1> HIDE DEF rows
<1> QED BY <1>1, <1>5, <1>6, <1>7, RowsKeepIInv

LEMMA ClearRowsKeepIInv ==
  ASSUME CartIInv, NEW w \in Workers, ClearRows(w)
  PROVE  CartIInv'
<1> DEFINE u == cartCalls[w].user
           old == cartRows[u]
           rows == [i \in DOMAIN old |-> [old[i] EXCEPT !.active = FALSE]]
<1>1. cartCalls[w].at = "clear_rows" /\ u \in Users
  BY CallTyped DEF ClearRows, At, CallAddressed
<1>2. old \in Seq(CartRow)
  BY <1>1, CallTyped
<1>3. \A i \in DOMAIN old : /\ [old[i] EXCEPT !.active = FALSE] \in CartRow
                            /\ [old[i] EXCEPT !.active = FALSE].items = old[i].items
  <2>1. \A i \in DOMAIN old : old[i] \in CartRow
    BY <1>2, ElementOfSeq
  <2>2. \A kept \in CartRow : /\ [kept EXCEPT !.active = FALSE] \in CartRow
                             /\ [kept EXCEPT !.active = FALSE].items = kept.items
    BY DEF CartRow
  <2> QED BY <2>1, <2>2
<1>4. rows \in Seq(CartRow) /\ DOMAIN rows = DOMAIN old
  <2>1. DOMAIN rows = DOMAIN old /\ \A i \in DOMAIN old : rows[i] \in CartRow
    BY <1>3
  <2>2. Len(old) \in Nat /\ DOMAIN old = 1 .. Len(old)
    BY <1>2
  <2>3. rows = [i \in 1 .. Len(old) |-> rows[i]]
    BY <2>2
  <2> HIDE DEF rows
  <2>4. \A i \in 1 .. Len(old) : rows[i] \in CartRow
    BY <2>1, <2>2
  <2> QED BY <2>1, <2>2, <2>3, <2>4, IsASeq
<1>5. \A i \in DOMAIN rows : WithinPeak(rows[i].items)
  BY <1>1, <1>3 DEF CartIInv, CartWithinStock
<1>6. /\ cartRows' = [cartRows EXCEPT ![u] = rows]
      /\ FinishWrite(w, cartRows'[u])
      /\ UNCHANGED <<storefront, redisCart>>
  BY DEF ClearRows
<1> HIDE DEF rows
<1> QED BY <1>1, <1>4, <1>5, <1>6, RowsKeepIInv

LEMMA ExpireKeepsIInv ==
  ASSUME CartIInv, NEW u \in Users, Expire(u)
  PROVE  CartIInv'
<1>1. /\ redisCart' = [redisCart EXCEPT ![u] = None]
      /\ UNCHANGED <<storefront, cartRows>>
      /\ cartCalls' = Disturbed(u) /\ parted' \subseteq Users
  BY DEF Expire, CartIInv, CartTypeOK
<1>2. /\ redisCart' \in [Users -> Items \cup {None}]
      /\ \A x \in Users : redisCart'[x] # None => WithinPeak(redisCart'[x])
  BY <1>1 DEF CartIInv, CartTypeOK, CartWithinStock
<1>3. cartCalls' = [v \in Workers |-> cartCalls'[v]]
  BY <1>1 DEF Disturbed
<1>4. /\ cartCalls' \in [Workers -> CartCall]
      /\ \A x \in Workers : CallAddressed(cartCalls'[x]) /\ CallWithinStock(cartCalls'[x])
  BY <1>1, <1>3, DisturbedFine
<1>5. /\ cartRows' \in [Users -> Seq(CartRow)]
      /\ \A x \in Users : /\ DOMAIN cartRows[x] \subseteq DOMAIN cartRows'[x]
                           /\ \A i \in DOMAIN cartRows'[x] : WithinPeak(cartRows'[x][i].items)
  BY <1>1 DEF CartIInv, CartTypeOK, CartWithinStock
<1> QED BY <1>1, <1>2, <1>4, <1>5, WritesKeepIInv

(* The stock changes; the peak only grows, so what was within it stays so. *)
LEMMA ReofferKeepsIInv ==
  ASSUME CartIInv, NEW p \in Products, Reoffer(p), UNCHANGED <<cartData, cartCalls, parted>>
  PROVE  CartIInv'
<1>1. PICK n \in StockLevels \cup {None} :
        /\ offer' = [offer EXCEPT ![p] = n]
        /\ peak' = [peak EXCEPT ![p] = IF n # None /\ n > @ THEN n ELSE @]
  BY DEF Reoffer
<1>2. StorefrontTypeOK
  BY DEF CartIInv, CartTypeOK
<1> DEFINE top == IF n # None /\ n > peak[p] THEN n ELSE peak[p]
<1>3. peak' = [peak EXCEPT ![p] = top] /\ top \in StockLevels
  BY <1>1, <1>2 DEF StorefrontTypeOK
<1>4. top >= peak[p] /\ (n # None => n <= top)
  BY <1>2, ConstantsTyped, PeakTyped
<1> HIDE DEF top
<1>5. StorefrontTypeOK'
  BY <1>1, <1>2, <1>3 DEF StorefrontTypeOK
<1>6. \A x \in Products : peak[x] \in Nat /\ peak'[x] \in Nat /\ peak[x] <= peak'[x]
  BY <1>2, <1>3, <1>4, <1>5, PeakTyped, ConstantsTyped DEF StorefrontTypeOK
<1>7. PeakIsHighest'
  <2> SUFFICES ASSUME NEW x \in Products, offer'[x] # None PROVE offer'[x] <= peak'[x]
    BY DEF PeakIsHighest
  <2>1. CASE x = p
    BY <1>1, <1>2, <1>3, <1>4, <2>1 DEF StorefrontTypeOK
  <2>2. CASE x # p
    BY <1>1, <1>2, <1>3, <2>2 DEF StorefrontTypeOK, CartIInv, PeakIsHighest
  <2> QED BY <2>1, <2>2
<1>8. \A cart \in Items : WithinPeak(cart) => WithinPeak(cart)'
  BY <1>6 DEF WithinPeak, Items
<1>9. UNCHANGED <<redisCart, cartRows, cartCalls, parted>>
  BY DEF cartData
<1>10. CartTypeOK'
  BY <1>5, <1>9 DEF CartIInv, CartTypeOK
<1>11. CartWithinStock'
  <2> SUFFICES ASSUME NEW u \in Users
               PROVE  /\ redisCart[u] # None => WithinPeak(redisCart[u])'
                      /\ \A i \in DOMAIN cartRows[u] : WithinPeak(cartRows[u][i].items)'
    BY <1>9 DEF CartWithinStock
  <2>1. redisCart[u] # None => redisCart[u] \in Items
    BY DEF CartIInv, CartTypeOK
  <2>2. \A i \in DOMAIN cartRows[u] : cartRows[u][i].items \in Items
    <3>1. \A i \in DOMAIN cartRows[u] : cartRows[u][i] \in CartRow
      BY CallTyped, ElementOfSeq DEF CartIInv, CartTypeOK
    <3> QED BY <3>1 DEF CartRow
  <2> QED BY <1>6, <1>9, <2>1, <2>2 DEF CartIInv, CartWithinStock, WithinPeak, Items
<1>12. ASSUME NEW w \in Workers
       PROVE  CallAddressed(cartCalls[w])' /\ CallWithinStock(cartCalls[w])'
  <2> DEFINE c == cartCalls[w]
  <2>1. c.cart \in Items /\ c.stock \in Nat /\ CallAddressed(c) /\ CallWithinStock(c)
    BY CallTyped
  <2>2. CallAddressed(cartCalls[w])'
    BY <1>9, <2>1 DEF CallAddressed
  <2>3. c.at = "add_read" => c.stock <= peak'[c.product]
    BY <1>6, <2>1 DEF CallAddressed, CallWithinStock
  <2>4. \A x \in Products : c.cart[x] <= peak'[x]
    BY <1>6, <2>1 DEF CallWithinStock, WithinPeak, Items
  <2> QED BY <1>9, <2>2, <2>3, <2>4 DEF CallWithinStock, WithinPeak
<1> QED BY <1>7, <1>10, <1>11, <1>12 DEF CartIInv

-----------------------------------------------------------------------------

LEMMA CartStepKeepsIInv == CartIInv /\ [CartNext]_cartVars => CartIInv'
<1> SUFFICES ASSUME CartIInv, [CartNext]_cartVars PROVE CartIInv'
  OBVIOUS
<1>1. ASSUME NEW w \in Workers, CartBegin(w) PROVE CartIInv'
  BY <1>1, RequestKeepsIInv
<1>2. ASSUME NEW w \in Workers, CartStep(w) PROVE CartIInv'
  <2>1. CASE CartRefuse(w) \/ CartFail(w)
    BY <2>1, LeaveKeepsIInv
  <2>2. CASE AddFindProduct(w)
    BY <2>2, FindKeepsIInv
  <2>3. CASE AddReadCart(w) \/ UpdateReadCart(w) \/ UpdateCheckStock(w) \/ RemoveReadCart(w)
    BY <2>3, CopiesKeepIInv
  <2>4. CASE FindRow(w)
    BY <2>4, FindRowKeepsIInv
  <2>5. CASE Store(w) \/ ClearRedis(w)
    BY <2>5, RedisKeepsIInv
  <2>6. CASE InsertRow(w)
    BY <2>6, InsertKeepsIInv
  <2>7. CASE SaveRow(w)
    BY <2>7, SaveKeepsIInv
  <2>8. CASE ClearRows(w)
    BY <2>8, ClearRowsKeepIInv
  <2> QED BY <1>2, <2>1, <2>2, <2>3, <2>4, <2>5, <2>6, <2>7, <2>8 DEF CartStep
<1>3. ASSUME NEW u \in Users, Expire(u) PROVE CartIInv'
  BY <1>3, ExpireKeepsIInv
<1>4. ASSUME NEW p \in Products, Reoffer(p), UNCHANGED <<cartData, cartCalls, parted>>
      PROVE  CartIInv'
  BY <1>4, ReofferKeepsIInv
<1>5. CASE UNCHANGED cartVars
  <2>1. UNCHANGED <<offer, peak, redisCart, cartRows, cartCalls, parted>>
    BY <1>5 DEF cartVars, storefront, cartData
  <2> QED BY <2>1 DEF CartIInv, CartTypeOK, StorefrontTypeOK, PeakIsHighest, CartWithinStock,
                      CallAddressed, CallWithinStock, WithinPeak
<1> QED BY <1>1, <1>2, <1>3, <1>4, <1>5 DEF CartNext

(* The invariant from which the others follow: every copy of a cart, in a  *)
(* request, in Redis or in the database, was checked against a stock the   *)
(* product has had (cart.service.ts:75-151).                               *)
THEOREM CartInvariant == CartSpec => []CartIInv
<1> QED BY CartInitIInv, CartStepKeepsIInv, PTL DEF CartSpec

(* The carts, their rows and the locals of the requests keep their types   *)
(* (cart.service.ts:26-48).                                                *)
THEOREM CartTypeCorrect == CartSpec => []CartTypeOK
<1>1. CartIInv => CartTypeOK
  BY DEF CartIInv
<1> QED BY <1>1, CartInvariant, PTL

(* However the requests of a user interleave and the seller changes the    *)
(* stock, no line of a cart goes past a stock that its product has had     *)
(* (cart.service.ts:78, 97, 137).                                          *)
THEOREM StockRespected == CartSpec => []CartWithinStock
<1>1. CartIInv => CartWithinStock
  BY DEF CartIInv
<1> QED BY <1>1, CartInvariant, PTL

-----------------------------------------------------------------------------
(* QuietWritesAgree: Redis and the rows after a write that ran alone.      *)

LEMMA QuietInit == CartInit => QuietIInv
<1> SUFFICES ASSUME CartInit PROVE QuietIInv
  OBVIOUS
<1>1. \A w \in Workers : cartCalls[w].user = None
  BY DEF CartInit, NoRequest
<1>2. \A u \in Users : CallsOf(u) = {} /\ cartRows[u] = <<>> /\ redisCart[u] = None
  BY <1>1, ConstantsTyped DEF CartInit, CallsOf
<1>3. \A u \in Users : CartsAgree(u)
  BY <1>2 DEF CartsAgree, ActiveCarts
<1> QED BY <1>1, <1>2, <1>3, CartInitIInv DEF QuietIInv, IdleForNobody, Undisturbed

LEMMA QuietTyped ==
  ASSUME QuietIInv
  PROVE  /\ CartIInv /\ cartCalls \in [Workers -> CartCall]
         /\ redisCart \in [Users -> Items \cup {None}]
         /\ cartRows \in [Users -> Seq(CartRow)]
         /\ \A u \in Users : Len(cartRows[u]) \in Nat
BY DEF QuietIInv, CartIInv, CartTypeOK

(* A step of a call touches nothing of other users.                        *)
LEMMA OthersUndisturbed ==
  ASSUME QuietIInv, NEW w \in Workers, NEW u \in Users, NEW c,
         cartCalls' = [cartCalls EXCEPT ![w] = c],
         cartCalls[w].user \in {u, None}, c.user \in {u, None},
         c.at = "idle" => c.user = None,
         \A x \in Users \ {u} : redisCart'[x] = redisCart[x] /\ cartRows'[x] = cartRows[x],
         \A x \in Users \ {u} : x \in parted => x \in parted'
  PROVE  IdleForNobody' /\ \A x \in Users \ {u} : Undisturbed(x)'
<1>1. /\ cartCalls'[w] = c
      /\ \A v \in Workers \ {w} : cartCalls'[v] = cartCalls[v]
  BY QuietTyped
<1>2. IdleForNobody'
  BY <1>1 DEF QuietIInv, IdleForNobody, At
<1>3. ASSUME NEW x \in Users \ {u} PROVE Undisturbed(x)'
  <2>1. Undisturbed(x) /\ x # None
    BY ConstantsTyped DEF QuietIInv
  <2>2. CallsOf(x)' = CallsOf(x)
    BY <1>1, <2>1 DEF CallsOf
  <2>3. \A v \in CallsOf(x) : cartCalls'[v] = cartCalls[v] /\ cartCalls[v].user = x
    BY <1>1, <2>1 DEF CallsOf
  <2>4. \A v \in CallsOf(x) : AsItLeft(cartCalls[v]) => AsItLeft(cartCalls[v])'
    BY <2>3 DEF AsItLeft
  <2>5. CartsAgree(x) => CartsAgree(x)'
    BY DEF CartsAgree, ActiveCarts
  <2> QED BY <2>1, <2>2, <2>3, <2>4, <2>5 DEF Undisturbed, BetweenWrites
<1> QED BY <1>2, <1>3

(* A call goes on: to a step between its two writes, or having changed     *)
(* nothing.                                                                *)
LEMMA GoesOnUndisturbed ==
  ASSUME QuietIInv, NEW w \in Workers, NEW u \in Users, NEW c,
         cartCalls[w].user = u, cartCalls' = [cartCalls EXCEPT ![w] = c],
         c.user = u, c.alone = cartCalls[w].alone, c.at # "idle",
         cartRows' = cartRows, parted' = parted,
         \A x \in Users \ {u} : redisCart'[x] = redisCart[x],
         c.alone => AsItLeft(c)',
         \/ c.at \in {"persist", "insert", "save", "clear_rows"}
         \/ redisCart' = redisCart /\ ~BetweenWrites(w)
  PROVE  IdleForNobody' /\ \A x \in Users : Undisturbed(x)'
<1>1. IdleForNobody' /\ \A x \in Users \ {u} : Undisturbed(x)'
  BY OthersUndisturbed
<1>2. /\ cartCalls'[w] = c
      /\ \A v \in Workers \ {w} : cartCalls'[v] = cartCalls[v]
  BY QuietTyped
<1>3. CallsOf(u)' = CallsOf(u) /\ w \in CallsOf(u)
  BY <1>2 DEF CallsOf
<1>4. Undisturbed(u)
  BY DEF QuietIInv
<1>5. \A v \in CallsOf(u) : cartCalls'[v].alone => v = w
  BY <1>2, <1>3, <1>4 DEF Undisturbed
<1>6. \A v \in CallsOf(u)' : cartCalls'[v].alone => CallsOf(u)' = {v} /\ AsItLeft(cartCalls[v])'
  BY <1>2, <1>3, <1>4, <1>5 DEF Undisturbed
<1>7. u \notin parted' => (\A v \in CallsOf(u)' : cartCalls'[v].alone) /\ Len(cartRows'[u]) <= 1
  BY <1>2, <1>3, <1>4 DEF Undisturbed, CallsOf
<1>8. ASSUME u \notin parted', \A v \in CallsOf(u)' : ~BetweenWrites(v)' PROVE CartsAgree(u)'
  <2>1. redisCart' = redisCart /\ ~BetweenWrites(w)
    BY <1>2, <1>3, <1>8 DEF BetweenWrites
  <2>2. CallsOf(u) = {w}
    BY <1>3, <1>4, <1>8 DEF Undisturbed
  <2>3. CartsAgree(u)
    BY <1>4, <1>8, <2>1, <2>2 DEF Undisturbed
  <2> QED BY <2>1, <2>3 DEF CartsAgree, ActiveCarts
<1>9. Undisturbed(u)'
  BY <1>6, <1>7, <1>8 DEF Undisturbed
<1> QED BY <1>1, <1>9

(* A call ends: either its user's carts are parted, or it was alone and    *)
(* they agree.                                                             *)
LEMMA EndsUndisturbed ==
  ASSUME QuietIInv, NEW w \in Workers, NEW u \in Users,
         cartCalls[w].user = u, LeaveCart(w), redisCart' = redisCart,
         \A x \in Users \ {u} : cartRows'[x] = cartRows[x] /\ (x \in parted => x \in parted'),
         u \notin parted' =>
           cartCalls[w].alone /\ Len(cartRows'[u]) <= 1 /\ CartsAgree(u)'
  PROVE  IdleForNobody' /\ \A x \in Users : Undisturbed(x)'
<1>0. NoRequest.user = None /\ u # None
  BY ConstantsTyped DEF NoRequest
<1>1. IdleForNobody' /\ \A x \in Users \ {u} : Undisturbed(x)'
  BY <1>0, OthersUndisturbed DEF LeaveCart
<1>2. /\ cartCalls'[w] = NoRequest
      /\ \A v \in Workers \ {w} : cartCalls'[v] = cartCalls[v]
  BY QuietTyped DEF LeaveCart
<1>3. CallsOf(u)' = CallsOf(u) \ {w} /\ w \in CallsOf(u)
  BY <1>0, <1>2 DEF CallsOf
<1>4. Undisturbed(u)
  BY DEF QuietIInv
<1>5. \A v \in CallsOf(u)' : ~cartCalls'[v].alone
  BY <1>2, <1>3, <1>4 DEF Undisturbed, CallsOf
<1>6. u \notin parted' => CallsOf(u)' = {}
  BY <1>3, <1>4 DEF Undisturbed
<1>7. Undisturbed(u)'
  BY <1>5, <1>6 DEF Undisturbed
<1> QED BY <1>1, <1>7

-----------------------------------------------------------------------------

LEMMA CopiesUndisturbed ==
  ASSUME QuietIInv, NEW w \in Workers,
         AddFindProduct(w) \/ AddReadCart(w) \/ UpdateReadCart(w) \/ UpdateCheckStock(w)
           \/ RemoveReadCart(w)
  PROVE  IdleForNobody' /\ \A x \in Users : Undisturbed(x)'
<1>1. /\ cartCalls[w] \in CartCall /\ cartCalls[w].at # "idle" /\ ~BetweenWrites(w)
      /\ cartCalls[w].user \in Users /\ UNCHANGED <<redisCart, cartRows, parted>>
  BY QuietTyped, CallTyped DEF AddFindProduct, AddReadCart, UpdateReadCart, UpdateCheckStock,
     RemoveReadCart, At, CallAddressed, BetweenWrites, Continue, cartData
<1>2. PICK c : /\ cartCalls' = [cartCalls EXCEPT ![w] = c]
               /\ c.at \in {"add_read", "store", "update_check"}
               /\ c.user = cartCalls[w].user /\ c.alone = cartCalls[w].alone
  <2>1. CASE AddFindProduct(w)
    <3> DEFINE d == [cartCalls[w] EXCEPT !.at = "add_read", !.stock = offer[cartCalls[w].product]]
    <3>1. d.at = "add_read" /\ d.user = cartCalls[w].user /\ d.alone = cartCalls[w].alone
      BY <1>1 DEF CartCall
    <3>2. cartCalls' = [cartCalls EXCEPT ![w] = d]
      BY <2>1 DEF AddFindProduct, Continue
    <3> HIDE DEF d
    <3> QED BY <3>1, <3>2
  <2>2. CASE AddReadCart(w)
    <3> DEFINE d == [cartCalls[w] EXCEPT !.at = "store",
           !.cart = [CartOrEmpty(cartCalls[w].user) EXCEPT ![cartCalls[w].product] =
                       @ + cartCalls[w].quantity]]
    <3>1. d.at = "store" /\ d.user = cartCalls[w].user /\ d.alone = cartCalls[w].alone
      BY <1>1 DEF CartCall
    <3>2. cartCalls' = [cartCalls EXCEPT ![w] = d]
      BY <2>2 DEF AddReadCart, Continue
    <3> HIDE DEF d
    <3> QED BY <3>1, <3>2
  <2>3. CASE UpdateReadCart(w)
    <3> DEFINE d == [cartCalls[w] EXCEPT !.at = "update_check", !.cart = redisCart[cartCalls[w].user]]
    <3>1. d.at = "update_check" /\ d.user = cartCalls[w].user /\ d.alone = cartCalls[w].alone
      BY <1>1 DEF CartCall
    <3>2. cartCalls' = [cartCalls EXCEPT ![w] = d]
      BY <2>3 DEF UpdateReadCart, Continue
    <3> HIDE DEF d
    <3> QED BY <3>1, <3>2
  <2>4. CASE UpdateCheckStock(w)
    <3> DEFINE d == [cartCalls[w] EXCEPT !.at = "store",
           !.cart[cartCalls[w].product] = cartCalls[w].quantity]
    <3>1. d.at = "store" /\ d.user = cartCalls[w].user /\ d.alone = cartCalls[w].alone
      BY <1>1 DEF CartCall
    <3>2. cartCalls' = [cartCalls EXCEPT ![w] = d]
      BY <2>4 DEF UpdateCheckStock, Continue
    <3> HIDE DEF d
    <3> QED BY <3>1, <3>2
  <2>5. CASE RemoveReadCart(w)
    <3> DEFINE d == [cartCalls[w] EXCEPT !.at = "store",
           !.cart = [redisCart[cartCalls[w].user] EXCEPT ![cartCalls[w].product] = 0]]
    <3>1. d.at = "store" /\ d.user = cartCalls[w].user /\ d.alone = cartCalls[w].alone
      BY <1>1 DEF CartCall
    <3>2. cartCalls' = [cartCalls EXCEPT ![w] = d]
      BY <2>5 DEF RemoveReadCart, Continue
    <3> HIDE DEF d
    <3> QED BY <3>1, <3>2
  <2> QED BY <2>1, <2>2, <2>3, <2>4, <2>5
<1>3. AsItLeft(c)'
  BY <1>2 DEF AsItLeft
<1> QED BY <1>1, <1>2, <1>3, GoesOnUndisturbed

LEMMA MovesUndisturbed ==
  ASSUME QuietIInv, NEW w \in Workers, Store(w) \/ FindRow(w) \/ ClearRedis(w)
  PROVE  IdleForNobody' /\ \A x \in Users : Undisturbed(x)'
<1>1. PICK u \in Users : u = cartCalls[w].user
  BY QuietTyped, CallTyped DEF Store, FindRow, ClearRedis, At, CallAddressed
<1>2. /\ cartCalls[w] \in CartCall /\ parted' = parted /\ cartRows' = cartRows
      /\ \A x \in Users \ {u} : redisCart'[x] = redisCart[x]
  BY <1>1, QuietTyped, CallTyped DEF Store, FindRow, ClearRedis, Continue, cartData
<1>3. cartCalls[w].alone => AsItLeft(cartCalls[w])
  BY <1>1 DEF QuietIInv, Undisturbed, CallsOf
<1>4. PICK c : /\ cartCalls' = [cartCalls EXCEPT ![w] = c]
               /\ c.at \in {"persist", "insert", "save", "clear_rows"}
               /\ c.user = u /\ c.alone = cartCalls[w].alone
               /\ c.alone => AsItLeft(c)'
  <2>1. CASE Store(w)
    <3> DEFINE d == [cartCalls[w] EXCEPT !.at = "persist"]
    <3>1. /\ d.at = "persist" /\ d.user = u /\ d.alone = cartCalls[w].alone
          /\ d.cart = cartCalls[w].cart
      BY <1>1, <1>2 DEF CartCall
    <3>2. cartCalls' = [cartCalls EXCEPT ![w] = d] /\ redisCart' = [redisCart EXCEPT ![u] = d.cart]
      BY <1>1, <2>1, <3>1 DEF Store, Continue
    <3> HIDE DEF d
    <3>3. PICK c : c = d
      OBVIOUS
    <3>4. AsItLeft(c)'
      BY <3>1, <3>2, <3>3, QuietTyped DEF AsItLeft
    <3> QED BY <3>1, <3>2, <3>3, <3>4
  <2>2. CASE FindRow(w) /\ cartRows[u] = <<>>
    <3> DEFINE d == [cartCalls[w] EXCEPT !.at = "insert"]
    <3>1. /\ d.at = "insert" /\ d.user = u /\ d.alone = cartCalls[w].alone
          /\ d.cart = cartCalls[w].cart
      BY <1>1, <1>2 DEF CartCall
    <3>2. /\ cartCalls' = [cartCalls EXCEPT ![w] = d]
          /\ redisCart' = redisCart /\ cartCalls[w].at = "persist"
      BY <1>1, <2>2 DEF FindRow, Continue, cartData, At
    <3> HIDE DEF d
    <3>3. PICK c : c = d
      OBVIOUS
    <3>4. c.alone => AsItLeft(c)'
      BY <1>1, <1>2, <1>3, <2>2, <3>1, <3>2, <3>3 DEF AsItLeft
    <3> QED BY <3>1, <3>2, <3>3, <3>4
  <2>3. CASE FindRow(w) /\ cartRows[u] # <<>>
    <3>0. PICK i \in DOMAIN cartRows[u] :
            Continue(w, [cartCalls[w] EXCEPT !.at = "save", !.row = i])
      BY <1>1, <2>3 DEF FindRow
    <3> DEFINE d == [cartCalls[w] EXCEPT !.at = "save", !.row = i]
    <3>1. /\ d.at = "save" /\ d.user = u /\ d.alone = cartCalls[w].alone
          /\ d.cart = cartCalls[w].cart
      BY <1>1, <1>2 DEF CartCall
    <3>2. /\ cartCalls' = [cartCalls EXCEPT ![w] = d]
          /\ redisCart' = redisCart /\ cartCalls[w].at = "persist"
      BY <2>3, <3>0 DEF FindRow, Continue, cartData, At
    <3> HIDE DEF d
    <3>3. PICK c : c = d
      OBVIOUS
    <3>4. c.alone => AsItLeft(c)'
      BY <1>1, <1>2, <1>3, <3>1, <3>2, <3>3 DEF AsItLeft
    <3> QED BY <3>1, <3>2, <3>3, <3>4
  <2>4. CASE ClearRedis(w)
    <3> DEFINE d == [cartCalls[w] EXCEPT !.at = "clear_rows"]
    <3>1. d.at = "clear_rows" /\ d.user = u /\ d.alone = cartCalls[w].alone
      BY <1>1, <1>2 DEF CartCall
    <3>2. cartCalls' = [cartCalls EXCEPT ![w] = d] /\ redisCart' = [redisCart EXCEPT ![u] = None]
      BY <1>1, <2>4, <3>1 DEF ClearRedis, Continue
    <3> HIDE DEF d
    <3>3. PICK c : c = d
      OBVIOUS
    <3>4. AsItLeft(c)'
      BY <3>1, <3>2, <3>3, QuietTyped DEF AsItLeft
    <3> QED BY <3>1, <3>2, <3>3, <3>4
  <2> QED BY <2>1, <2>2, <2>3, <2>4
<1> QED BY <1>1, <1>2, <1>4, GoesOnUndisturbed

(* What the end of a write leaves, when it ran alone.                      *)
LEMMA WritesUndisturbed ==
  ASSUME QuietIInv, NEW w \in Workers, NEW u \in Users, NEW rows,
         u = cartCalls[w].user,
         cartRows' = [cartRows EXCEPT ![u] = rows], redisCart' = redisCart,
         FinishWrite(w, rows),
         cartCalls[w].alone /\ Len(cartRows[u]) <= 1 => Len(rows) <= 1,
         cartCalls[w].alone /\ Len(rows) <= 1 =>
           {rows[i].items : i \in {j \in DOMAIN rows : rows[j].active}}
             = IF redisCart[u] = None THEN {} ELSE {redisCart[u]}
  PROVE  IdleForNobody' /\ \A x \in Users : Undisturbed(x)'
<1>1. cartRows'[u] = rows /\ \A x \in Users \ {u} : cartRows'[x] = cartRows[x]
  BY QuietTyped
<1>2. w \in CallsOf(u)
  BY DEF CallsOf
<1>3. \A x \in Users \ {u} : x \in parted => x \in parted'
  BY DEF FinishWrite
<1>4. ASSUME u \notin parted'
      PROVE  cartCalls[w].alone /\ Len(cartRows'[u]) <= 1 /\ CartsAgree(u)'
  <2>1. cartCalls[w].alone /\ Len(rows) <= 1
    BY <1>2, <1>4 DEF FinishWrite, QuietIInv, Undisturbed
  <2> QED BY <1>1, <2>1 DEF CartsAgree, ActiveCarts
<1>5. LeaveCart(w)
  BY DEF FinishWrite
<1> QED BY <1>1, <1>3, <1>4, <1>5, EndsUndisturbed

LEMMA InsertUndisturbed ==
  ASSUME QuietIInv, NEW w \in Workers, InsertRow(w)
  PROVE  IdleForNobody' /\ \A x \in Users : Undisturbed(x)'
<1>1. PICK u \in Users : u = cartCalls[w].user
  BY QuietTyped, CallTyped DEF InsertRow, At, CallAddressed
<1> DEFINE kept == [items |-> cartCalls[w].cart, active |-> TRUE]
           rows == Append(cartRows[u], kept)
<1>2. /\ cartRows' = [cartRows EXCEPT ![u] = rows] /\ redisCart' = redisCart
      /\ FinishWrite(w, rows)
  BY <1>1, QuietTyped DEF InsertRow
<1>3. ASSUME cartCalls[w].alone
      PROVE  rows = <<kept>> /\ redisCart[u] = cartCalls[w].cart
  <2>1. AsItLeft(cartCalls[w]) /\ cartCalls[w].at = "insert"
    BY <1>1, <1>3 DEF QuietIInv, Undisturbed, CallsOf, InsertRow, At
  <2>2. cartRows[u] = <<>> /\ redisCart[u] = cartCalls[w].cart
    BY <1>1, <2>1 DEF AsItLeft
  <2> QED BY <2>2
<1>4. redisCart[u] = cartCalls[w].cart => redisCart[u] # None
  BY QuietTyped, CallTyped, NoCartAssumption DEF Items
<1>5. ASSUME rows = <<kept>>
      PROVE  Len(rows) <= 1 /\ {rows[i].items : i \in {j \in DOMAIN rows : rows[j].active}}
                                 = {cartCalls[w].cart}
  <2>1. DOMAIN rows = {1} /\ rows[1] = kept /\ Len(rows) = 1
    BY <1>5
  <2>2. kept.active = TRUE /\ kept.items = cartCalls[w].cart
    OBVIOUS
  <2> HIDE DEF kept, rows
  <2> QED BY <2>1, <2>2
<1> HIDE DEF rows
<1> QED BY <1>1, <1>2, <1>3, <1>4, <1>5, WritesUndisturbed

LEMMA SaveUndisturbed ==
  ASSUME QuietIInv, NEW w \in Workers, SaveRow(w)
  PROVE  IdleForNobody' /\ \A x \in Users : Undisturbed(x)'
<1>1. PICK u \in Users : u = cartCalls[w].user
  BY QuietTyped, CallTyped DEF SaveRow, At, CallAddressed
<1> DEFINE old == cartRows[u]
           n == cartCalls[w].row
           kept == Persisted(old[n], cartCalls[w].cart)
           rows == [old EXCEPT ![n] = kept]
<1>2. /\ cartRows' = [cartRows EXCEPT ![u] = rows] /\ redisCart' = redisCart
      /\ FinishWrite(w, rows)
  BY <1>1, QuietTyped DEF SaveRow
<1>3. n \in DOMAIN old /\ old \in Seq(CartRow)
  BY <1>1, QuietTyped, CallTyped DEF SaveRow, At, CallAddressed
<1>4. cartCalls[w].alone => redisCart[u] = cartCalls[w].cart
  BY <1>1 DEF QuietIInv, Undisturbed, CallsOf, SaveRow, At, AsItLeft
<1>5. DOMAIN rows = DOMAIN old /\ rows[n] = kept /\ Len(rows) = Len(old)
  <2>1. kept \in CartRow
    BY QuietTyped, CallTyped DEF Persisted, CartRow
  <2> HIDE DEF kept
  <2> QED BY <1>3, <2>1, ExceptSeq
<1>6. redisCart[u] = cartCalls[w].cart => redisCart[u] # None
  BY QuietTyped, CallTyped, NoCartAssumption DEF Items
<1>7. ASSUME Len(rows) <= 1
      PROVE  {rows[i].items : i \in {j \in DOMAIN rows : rows[j].active}} = {cartCalls[w].cart}
  <2>1. DOMAIN rows = {n}
    BY <1>3, <1>5, <1>7
  <2>2. kept.active = TRUE /\ kept.items = cartCalls[w].cart
    BY DEF Persisted
  <2> HIDE DEF kept, rows, n
  <2> QED BY <1>5, <2>1, <2>2
<1> HIDE DEF rows
<1> QED BY <1>1, <1>2, <1>4, <1>5, <1>6, <1>7, WritesUndisturbed

LEMMA ClearRowsUndisturbed ==
  ASSUME QuietIInv, NEW w \in Workers, ClearRows(w)
  PROVE  IdleForNobody' /\ \A x \in Users : Undisturbed(x)'
<1>1. PICK u \in Users : u = cartCalls[w].user
  BY QuietTyped, CallTyped DEF ClearRows, At, CallAddressed
<1> DEFINE old == cartRows[u]
           rows == [i \in DOMAIN old |-> [old[i] EXCEPT !.active = FALSE]]
<1>2. /\ cartRows' = [cartRows EXCEPT ![u] = rows] /\ redisCart' = redisCart
      /\ FinishWrite(w, rows)
  BY <1>1, QuietTyped DEF ClearRows
<1>3. cartCalls[w].alone => redisCart[u] = None
  BY <1>1 DEF QuietIInv, Undisturbed, CallsOf, ClearRows, At, AsItLeft
<1>4. old \in Seq(CartRow)
  BY QuietTyped
<1>5. \A i \in DOMAIN rows : rows[i].active = FALSE
  <2>1. \A i \in DOMAIN old : old[i] \in CartRow
    BY <1>4, ElementOfSeq
  <2> QED BY <2>1 DEF CartRow
<1>6. Len(rows) = Len(old)
  <2>1. Len(old) \in Nat /\ DOMAIN rows = 1 .. Len(old)
    BY <1>4
  <2> QED BY <2>1
<1>7. {rows[i].items : i \in {j \in DOMAIN rows : rows[j].active}} = {}
  <2> HIDE DEF rows
  <2> QED BY <1>5
<1> HIDE DEF rows
<1> QED BY <1>1, <1>2, <1>3, <1>6, <1>7, WritesUndisturbed

LEMMA LeaveUndisturbed ==
  ASSUME QuietIInv, NEW w \in Workers, CartRefuse(w) \/ CartFail(w)
  PROVE  IdleForNobody' /\ \A x \in Users : Undisturbed(x)'
<1>1. PICK u \in Users : u = cartCalls[w].user
  BY QuietTyped, CallTyped DEF CartRefuse, CartFail, At, CallAddressed
<1>2. LeaveCart(w) /\ redisCart' = redisCart /\ cartRows' = cartRows /\ w \in CallsOf(u)
  BY <1>1 DEF CartRefuse, CartFail, cartData, CallsOf
<1>3. /\ \A x \in Users : x \in parted => x \in parted'
      /\ u \notin parted' => ~BetweenWrites(w)
  BY <1>1 DEF CartRefuse, CartFail, BetweenWrites
<1>4. ASSUME u \notin parted'
      PROVE  cartCalls[w].alone /\ Len(cartRows'[u]) <= 1 /\ CartsAgree(u)'
  <2>1. Undisturbed(u) /\ u \notin parted
    BY <1>3, <1>4 DEF QuietIInv
  <2>2. cartCalls[w].alone /\ CallsOf(u) = {w}
    BY <1>2, <2>1 DEF Undisturbed
  <2> QED BY <1>2, <1>3, <1>4, <2>1, <2>2 DEF Undisturbed, CartsAgree, ActiveCarts
<1> QED BY <1>1, <1>2, <1>3, <1>4, EndsUndisturbed

LEMMA DisturbedKept ==
  ASSUME QuietIInv, NEW u \in Users, NEW v \in Workers
  PROVE  /\ Disturbed(u)[v].at = cartCalls[v].at /\ Disturbed(u)[v].user = cartCalls[v].user
         /\ cartCalls[v].user = u => Disturbed(u)[v].alone = FALSE
         /\ cartCalls[v].user # u => Disturbed(u)[v] = cartCalls[v]
<1> DEFINE c == cartCalls[v]
           b == c.alone /\ c.user # u
           d == [c EXCEPT !.alone = b]
<1>1. c \in CartCall
  BY QuietTyped
<1>2. Disturbed(u)[v] = d
  BY DEF Disturbed
<1>3. c.alone \in BOOLEAN
  BY <1>1 DEF CartCall
<1>4. (c.user = u => b = FALSE) /\ (c.user # u => b = c.alone)
  BY <1>3
<1> HIDE DEF b, c
<1>5. d.at = c.at /\ d.user = c.user /\ d.alone = b
  BY <1>1 DEF CartCall
<1>6. b = c.alone => d = c
  BY <1>1 DEF CartCall
<1> HIDE DEF d
<1> QED BY <1>2, <1>4, <1>5, <1>6 DEF c

LEMMA RequestUndisturbed ==
  ASSUME QuietIInv, NEW w \in Workers, CartBegin(w)
  PROVE  IdleForNobody' /\ \A x \in Users : Undisturbed(x)'
<1>1. PICK u \in Users, entry \in {"add", "update", "remove", "clear"},
           p \in Products \cup {None}, q \in Amounts \cup {0} :
        CartRequest(w, entry, u, p, q)
  BY DEF CartBegin
<1>2. /\ At(w, "idle") /\ UNCHANGED <<redisCart, cartRows>>
      /\ \A x \in Users \ {u} : x \in parted => x \in parted'
      /\ u \notin parted' => u \notin parted /\ CallsOf(u) = {}
  BY <1>1 DEF CartRequest, cartData
<1> DEFINE b == CallsOf(u) = {}
           d == [NoRequest EXCEPT !.at = entry, !.user = u, !.product = p, !.quantity = q,
                                  !.alone = b]
<1>3. d.at = entry /\ d.user = u /\ d.alone = b
  BY DEF NoRequest
<1>4. /\ cartCalls'[w] = d
      /\ \A v \in Workers \ {w} : cartCalls'[v] = Disturbed(u)[v]
  BY <1>1 DEF CartRequest, Disturbed
<1> HIDE DEF d
<1>5. \A v \in Workers :
        /\ Disturbed(u)[v].at = cartCalls[v].at /\ Disturbed(u)[v].user = cartCalls[v].user
        /\ cartCalls[v].user = u => Disturbed(u)[v].alone = FALSE
        /\ cartCalls[v].user # u => Disturbed(u)[v] = cartCalls[v]
  BY QuietTyped, DisturbedKept
<1>6. IdleForNobody'
  BY <1>3, <1>4, <1>5 DEF QuietIInv, IdleForNobody, At
<1>7. cartCalls[w].user = None /\ u # None
  BY <1>2, ConstantsTyped DEF QuietIInv, IdleForNobody
<1>8. ASSUME NEW x \in Users \ {u} PROVE Undisturbed(x)'
  <2>1. x # None /\ Undisturbed(x)
    BY ConstantsTyped DEF QuietIInv
  <2>2. CallsOf(x)' = CallsOf(x) /\ w \notin CallsOf(x)
    BY <1>3, <1>4, <1>5, <1>7, <2>1 DEF CallsOf
  <2>3. \A v \in CallsOf(x) : cartCalls'[v] = cartCalls[v]
    BY <1>4, <1>5, <2>2 DEF CallsOf
  <2> QED BY <1>2, <2>1, <2>2, <2>3 DEF Undisturbed, AsItLeft, BetweenWrites, CartsAgree, ActiveCarts
<1>9. Undisturbed(u)'
  <2>1. CallsOf(u)' = CallsOf(u) \cup {w} /\ w \notin CallsOf(u)
    BY <1>3, <1>4, <1>5, <1>7 DEF CallsOf
  <2>2. \A v \in CallsOf(u) : ~cartCalls'[v].alone
    BY <1>4, <1>5, <2>1 DEF CallsOf
  <2>3. AsItLeft(cartCalls[w])'
    BY <1>3, <1>4 DEF AsItLeft
  <2>4. \A v \in CallsOf(u)' : cartCalls'[v].alone => CallsOf(u)' = {v} /\ AsItLeft(cartCalls[v])'
    BY <1>3, <1>4, <2>1, <2>2, <2>3
  <2>5. ASSUME u \notin parted'
        PROVE  /\ \A v \in CallsOf(u)' : cartCalls'[v].alone
               /\ Len(cartRows'[u]) <= 1 /\ CartsAgree(u)'
    <3>1. u \notin parted /\ CallsOf(u) = {} /\ Undisturbed(u)
      BY <1>2, <2>5 DEF QuietIInv
    <3>2. CallsOf(u)' = {w} /\ cartCalls'[w].alone
      BY <1>3, <1>4, <2>1, <3>1
    <3>3. Len(cartRows[u]) <= 1 /\ CartsAgree(u)
      BY <3>1 DEF Undisturbed
    <3>4. CartsAgree(u)'
      BY <1>2, <3>3 DEF CartsAgree, ActiveCarts
    <3> QED BY <1>2, <3>2, <3>3, <3>4
  <2> QED BY <2>4, <2>5 DEF Undisturbed
<1> QED BY <1>6, <1>8, <1>9

LEMMA ExpireUndisturbed ==
  ASSUME QuietIInv, NEW u \in Users, Expire(u)
  PROVE  IdleForNobody' /\ \A x \in Users : Undisturbed(x)'
<1>1. /\ cartRows' = cartRows /\ parted' = parted \cup {u}
      /\ \A x \in Users \ {u} : redisCart'[x] = redisCart[x]
  BY QuietTyped DEF Expire
<1>2. \A v \in Workers : cartCalls'[v] = Disturbed(u)[v]
  BY DEF Expire
<1>3. \A v \in Workers :
        /\ Disturbed(u)[v].at = cartCalls[v].at /\ Disturbed(u)[v].user = cartCalls[v].user
        /\ cartCalls[v].user = u => Disturbed(u)[v].alone = FALSE
        /\ cartCalls[v].user # u => Disturbed(u)[v] = cartCalls[v]
  BY QuietTyped, DisturbedKept
<1>4. IdleForNobody'
  BY <1>2, <1>3 DEF QuietIInv, IdleForNobody, At
<1>5. \A x \in Users : CallsOf(x)' = CallsOf(x)
  BY <1>2, <1>3 DEF CallsOf
<1>6. Undisturbed(u)'
  BY <1>1, <1>2, <1>3, <1>5 DEF Undisturbed, CallsOf
<1>7. ASSUME NEW x \in Users \ {u} PROVE Undisturbed(x)'
  <2>1. \A v \in CallsOf(x) : cartCalls'[v] = cartCalls[v] /\ cartCalls[v].user = x
    BY <1>2, <1>3 DEF CallsOf
  <2>2. Undisturbed(x)
    BY DEF QuietIInv
  <2>3. \A v \in CallsOf(x) : AsItLeft(cartCalls[v]) => AsItLeft(cartCalls[v])'
    BY <1>1, <2>1 DEF AsItLeft
  <2>4. CartsAgree(x) => CartsAgree(x)'
    BY <1>1 DEF CartsAgree, ActiveCarts
  <2> QED BY <1>1, <1>5, <2>1, <2>2, <2>3, <2>4 DEF Undisturbed, BetweenWrites
<1> QED BY <1>4, <1>6, <1>7

-----------------------------------------------------------------------------

LEMMA QuietStep == QuietIInv /\ [CartNext]_cartVars => QuietIInv'
<1> SUFFICES ASSUME QuietIInv, [CartNext]_cartVars PROVE QuietIInv'
  OBVIOUS
<1>1. CartIInv'
  BY CartStepKeepsIInv DEF QuietIInv
<1>2. IdleForNobody' /\ \A x \in Users : Undisturbed(x)'
  <2>1. ASSUME NEW w \in Workers, CartBegin(w) \/ CartStep(w)
        PROVE  IdleForNobody' /\ \A x \in Users : Undisturbed(x)'
    BY <2>1, RequestUndisturbed, LeaveUndisturbed, CopiesUndisturbed, MovesUndisturbed,
       InsertUndisturbed, SaveUndisturbed, ClearRowsUndisturbed DEF CartStep
  <2>2. ASSUME NEW u \in Users, Expire(u)
        PROVE  IdleForNobody' /\ \A x \in Users : Undisturbed(x)'
    BY <2>2, ExpireUndisturbed
  <2>3. CASE UNCHANGED <<cartData, cartCalls, parted>>
    BY <2>3 DEF cartData, QuietIInv, IdleForNobody, At, Undisturbed, CallsOf, AsItLeft,
                BetweenWrites, CartsAgree, ActiveCarts
  <2> QED BY <2>1, <2>2, <2>3 DEF CartNext, cartVars
<1> QED BY <1>1, <1>2 DEF QuietIInv

(* Whatever overlaps, failures and expiry came before, a user's last write *)
(* leaves Redis and the database with the same cart if it ran alone and to *)
(* its end (cart.service.ts:112, 168, 187).                                *)
THEOREM QuietWriteMends == CartSpec => []QuietWritesAgree
<1>1. QuietIInv => QuietWritesAgree
  BY DEF QuietIInv, Undisturbed, QuietWritesAgree
<1> QED BY <1>1, QuietInit, QuietStep, PTL DEF CartSpec

-----------------------------------------------------------------------------
(* Reviews: while no two calls about a pair overlap, a call finds its pair *)
(* as it left it.                                                          *)

LEMMA ReviewNames ==
  /\ None \notin Users /\ None \notin Products /\ None \notin Reviews /\ None \notin StockLevels
  /\ None \notin ReviewRow
BY NoneAssumption, ReviewsAssumption, LevelsAssumption, ReviewRowAssumption

LEMMA ReviewCallTyped ==
  ASSUME ReviewsIInv, NEW w \in Workers
  PROVE  /\ reviewCalls[w] \in ReviewCall
         /\ ReviewAddressed(reviewCalls[w]) /\ StillAsFound(reviewCalls[w])
BY DEF ReviewsIInv, ReviewsTypeOK

LEMMA ReviewsInitIInv == ReviewsInit => ReviewsIInv
<1> SUFFICES ASSUME ReviewsInit PROVE ReviewsIInv
  OBVIOUS
<1> USE ReviewNames
<1>1. ReviewsTypeOK
  BY DEF ReviewsInit, StorefrontInit, ReviewsTypeOK, StorefrontTypeOK, ReviewCall, NoReview
<1>2. AloneUnlessContested
  BY DEF ReviewsInit, AloneUnlessContested, Reviewing, NoReview
<1>3. OneLive /\ ApprovedWasModerated
  BY DEF ReviewsInit, OneLive, Live, ApprovedWasModerated
<1>4. \A w \in Workers : ReviewAddressed(reviewCalls[w]) /\ StillAsFound(reviewCalls[w])
  BY DEF ReviewsInit, ReviewAddressed, StillAsFound, NoReview
<1> QED BY <1>1, <1>2, <1>3, <1>4 DEF ReviewsIInv

(* A call goes on, about what it was about, and no row changes.            *)
LEMMA ReviewMovesKeepIInv ==
  ASSUME ReviewsIInv, NEW w \in Workers, NEW label,
         reviewCalls[w].at \notin {"idle", "approve_log"},
         [reviewCalls[w] EXCEPT !.at = label] \in ReviewCall,
         ReviewAddressed([reviewCalls[w] EXCEPT !.at = label]),
         StillAsFound([reviewCalls[w] EXCEPT !.at = label]),
         label \notin {"idle", "approve_log"}, ReviewStep(w, label),
         UNCHANGED <<storefront, review, moderations>>
  PROVE  ReviewsIInv'
<1> DEFINE c == [reviewCalls[w] EXCEPT !.at = label]
<1>1. /\ reviewCalls' = [reviewCalls EXCEPT ![w] = c]
      /\ reviewCalls'[w] = c /\ \A v \in Workers \ {w} : reviewCalls'[v] = reviewCalls[v]
      /\ UNCHANGED <<storefront, review, moderations, contested, unlogged>>
  BY DEF ReviewsIInv, ReviewsTypeOK, ReviewStep
<1>2. c.at = label /\ PairOf(c) = PairOf(reviewCalls[w]) /\ c.review = reviewCalls[w].review
  BY ReviewCallTyped DEF ReviewCall, PairOf
<1>3. c \in ReviewCall /\ ReviewAddressed(c) /\ StillAsFound(c)
  OBVIOUS
<1> HIDE DEF c
<1>4. ReviewsTypeOK'
  BY <1>1, <1>3 DEF ReviewsIInv, ReviewsTypeOK, StorefrontTypeOK, storefront
<1>5. AloneUnlessContested'
  BY <1>1, <1>2 DEF ReviewsIInv, AloneUnlessContested, Reviewing
<1>6. OneLive'
  BY <1>1 DEF ReviewsIInv, OneLive, Live
<1>7. ApprovedWasModerated'
  BY <1>1, <1>2 DEF ReviewsIInv, ApprovedWasModerated, Reviewing
<1>8. \A v \in Workers : ReviewAddressed(reviewCalls'[v]) /\ StillAsFound(reviewCalls'[v])
  BY <1>1, <1>3, ReviewCallTyped
<1>9. \A v \in Workers : ReviewAddressed(reviewCalls[v])' /\ StillAsFound(reviewCalls[v])'
  BY <1>1, <1>8 DEF ReviewAddressed, StillAsFound, LiveReviews, Live
<1> QED BY <1>4, <1>5, <1>6, <1>7, <1>9 DEF ReviewsIInv

(* A call ends; what it changed is accounted for.                          *)
LEMMA ReviewReturnKeepsCalls ==
  ASSUME ReviewsIInv, NEW w \in Workers, ReviewReturn(w), contested' = contested
  PROVE  /\ reviewCalls' \in [Workers -> ReviewCall] /\ AloneUnlessContested'
         /\ reviewCalls'[w] = NoReview /\ \A v \in Workers \ {w} : reviewCalls'[v] = reviewCalls[v]
<1>1. reviewCalls' = [reviewCalls EXCEPT ![w] = NoReview] /\ NoReview \in ReviewCall
  BY DEF ReviewReturn, ReviewCall, NoReview
<1>2. reviewCalls' \in [Workers -> ReviewCall]
      /\ reviewCalls'[w] = NoReview /\ \A v \in Workers \ {w} : reviewCalls'[v] = reviewCalls[v]
  BY <1>1 DEF ReviewsIInv, ReviewsTypeOK
<1>3. ASSUME NEW v \in Workers, NEW x \in Workers, ~Reviewing(v, "idle")',
             PairOf(reviewCalls[v])' = PairOf(reviewCalls[x])'
      PROVE  v = x \/ PairOf(reviewCalls[v])' \in contested'
  <2>1. v # w /\ reviewCalls'[v] = reviewCalls[v] /\ reviewCalls[v].at # "idle"
    BY <1>2, <1>3 DEF Reviewing, NoReview
  <2>2. reviewCalls[v].user \in Users
    BY <2>1, ReviewCallTyped DEF ReviewAddressed
  <2>3. x # w
    BY <1>2, <1>3, <2>1, <2>2, ReviewNames DEF PairOf, NoReview
  <2> QED BY <1>2, <1>3, <2>1, <2>3 DEF ReviewsIInv, AloneUnlessContested, Reviewing
<1> QED BY <1>2, <1>3 DEF AloneUnlessContested

LEMMA NoReviewFine ==
  ReviewAddressed(NoReview) /\ StillAsFound(NoReview)
BY DEF ReviewAddressed, StillAsFound, NoReview

LEMMA ReviewLeaveKeepsIInv ==
  ASSUME ReviewsIInv, NEW w \in Workers, ReviewReturn(w), contested' = contested,
         UNCHANGED <<storefront, review, moderations>>,
         unlogged' = IF Reviewing(w, "approve_log")
                     THEN unlogged \cup {reviewCalls[w].review} ELSE unlogged
  PROVE  ReviewsIInv'
<1>1. /\ reviewCalls' \in [Workers -> ReviewCall] /\ AloneUnlessContested'
      /\ reviewCalls'[w] = NoReview /\ \A v \in Workers \ {w} : reviewCalls'[v] = reviewCalls[v]
  BY ReviewReturnKeepsCalls
<1>2. Reviewing(w, "approve_log") => reviewCalls[w].review \in Reviews
  BY ReviewCallTyped DEF ReviewAddressed, Reviewing
<1>3. ReviewsTypeOK'
  BY <1>1, <1>2 DEF ReviewsIInv, ReviewsTypeOK, StorefrontTypeOK, storefront
<1>4. OneLive'
  BY DEF ReviewsIInv, OneLive, Live
<1>5. ApprovedWasModerated'
  <2> SUFFICES ASSUME NEW r \in Reviews, review[r] # None, review[r].status = "APPROVED"
               PROVE  \/ moderations[r] > 0
                      \/ r \in unlogged'
                      \/ \E v \in Workers : Reviewing(v, "approve_log")' /\ reviewCalls'[v].review = r
    BY DEF ReviewsIInv, ApprovedWasModerated, Reviewing
  <2>1. CASE moderations[r] > 0 \/ r \in unlogged
    BY <2>1
  <2>2. CASE \E v \in Workers : Reviewing(v, "approve_log") /\ reviewCalls[v].review = r
    BY <1>1, <2>2 DEF Reviewing
  <2> QED BY <2>1, <2>2 DEF ReviewsIInv, ApprovedWasModerated
<1>6. \A v \in Workers : ReviewAddressed(reviewCalls'[v]) /\ StillAsFound(reviewCalls'[v])
  BY <1>1, ReviewCallTyped, NoReviewFine
<1>7. \A v \in Workers : ReviewAddressed(reviewCalls[v])' /\ StillAsFound(reviewCalls[v])'
  BY <1>6 DEF ReviewAddressed, StillAsFound, LiveReviews, Live
<1> QED BY <1>1, <1>3, <1>4, <1>5, <1>7 DEF ReviewsIInv

(* A call begins: when another is about the same pair, that is contested.  *)
LEMMA ReviewRequestKeepsIInv ==
  ASSUME ReviewsIInv, NEW w \in Workers, NEW entry \in {"create", "approve", "delete"},
         NEW u \in Users, NEW p \in Products, NEW r \in Reviews \cup {None},
         entry # "create" => /\ r \in Reviews /\ review[r] # None
                             /\ review[r].user = u /\ review[r].product = p,
         ReviewRequest(w, entry, u, p, r)
  PROVE  ReviewsIInv'
<1> USE ReviewNames
<1> DEFINE c == [at |-> entry, user |-> u, product |-> p, review |-> r]
<1>1. c \in ReviewCall /\ c.at = entry /\ PairOf(c) = <<u, p>>
      /\ c.user = u /\ c.product = p /\ c.review = r
  BY DEF ReviewCall, PairOf
<1>2. /\ reviewCalls' = [reviewCalls EXCEPT ![w] = c] /\ reviewCalls[w].at = "idle"
      /\ UNCHANGED <<storefront, review, moderations, unlogged>>
      /\ contested \subseteq contested'
      /\ contested' \subseteq contested \cup {<<u, p>>}
      /\ (\E v \in Workers : PairOf(reviewCalls[v]) = <<u, p>>) => <<u, p>> \in contested'
  BY DEF ReviewRequest, Reviewing, PairOf
<1> HIDE DEF c
<1>3. reviewCalls'[w] = c /\ \A v \in Workers \ {w} : reviewCalls'[v] = reviewCalls[v]
  BY <1>2 DEF ReviewsIInv, ReviewsTypeOK
<1>4. ReviewsTypeOK'
  BY <1>1, <1>2 DEF ReviewsIInv, ReviewsTypeOK, StorefrontTypeOK, storefront
<1>5. AloneUnlessContested'
  BY <1>1, <1>2, <1>3 DEF ReviewsIInv, AloneUnlessContested, Reviewing
<1>6. OneLive'
  BY <1>2 DEF ReviewsIInv, OneLive, Live
<1>7. ApprovedWasModerated'
  BY <1>2, <1>3 DEF ReviewsIInv, ApprovedWasModerated, Reviewing
<1>8. ReviewAddressed(c) /\ StillAsFound(c)
  BY <1>1 DEF ReviewAddressed, StillAsFound
<1>9. \A v \in Workers : ReviewAddressed(reviewCalls'[v]) /\ StillAsFound(reviewCalls'[v])
  BY <1>3, <1>8, ReviewCallTyped
<1>10. \A v \in Workers : ReviewAddressed(reviewCalls[v])' /\ StillAsFound(reviewCalls[v])'
  BY <1>2, <1>9 DEF ReviewAddressed, StillAsFound, LiveReviews, Live
<1> QED BY <1>4, <1>5, <1>6, <1>7, <1>10 DEF ReviewsIInv

(* One row is written, by a call about its pair.                           *)
LEMMA RowWriteKeepsCalls ==
  ASSUME ReviewsIInv, NEW w \in Workers, ~Reviewing(w, "idle"),
         NEW r \in Reviews, NEW new \in ReviewRow, review' = [review EXCEPT ![r] = new],
         PairOf(new) = PairOf(reviewCalls[w]),
         review[r] # None => /\ PairOf(review[r]) = PairOf(new)
                             /\ review[r].status = "APPROVED" => new.status = "APPROVED",
         \A v \in Workers \ {w} : reviewCalls'[v] = reviewCalls[v],
         contested' = contested
  PROVE  \A v \in Workers \ {w} : ReviewAddressed(reviewCalls[v])' /\ StillAsFound(reviewCalls[v])'
<1> TAKE v \in Workers \ {w}
<1> DEFINE c == reviewCalls[v]
<1>1. /\ review'[r] = new /\ new # None
      /\ \A s \in Reviews \ {r} : review'[s] = review[s]
  BY ReviewNames DEF ReviewsIInv, ReviewsTypeOK
<1>2. c \in ReviewCall /\ ReviewAddressed(c) /\ StillAsFound(c)
  BY ReviewCallTyped
<1>3. ReviewAddressed(reviewCalls[v])'
  BY <1>1, <1>2 DEF ReviewAddressed, PairOf
<1>4. CASE PairOf(c) = PairOf(reviewCalls[w])
  <2>1. PairOf(c) \in contested
    BY <1>4 DEF ReviewsIInv, AloneUnlessContested
  <2> QED BY <1>3, <2>1 DEF StillAsFound, PairOf
<1>5. CASE PairOf(c) # PairOf(reviewCalls[w])
  <2>1. PairOf(new) # <<c.user, c.product>>
    BY <1>5 DEF PairOf
  <2>2. ~(new.user = c.user /\ new.product = c.product)
    BY <2>1 DEF PairOf
  <2>3. review[r] # None => ~(review[r].user = c.user /\ review[r].product = c.product)
    BY <2>1 DEF PairOf
  <2>4. \A s \in Reviews : s \in LiveReviews(c.user, c.product)' <=> s \in LiveReviews(c.user, c.product)
    BY <1>1, <2>2, <2>3 DEF LiveReviews, Live
  <2>5. LiveReviews(c.user, c.product)' = LiveReviews(c.user, c.product)
    BY <2>4 DEF LiveReviews
  <2>6. c.at = "approve_save" /\ Live(c.review) => Live(c.review)'
    BY <1>1, <1>2, <2>3 DEF ReviewAddressed, Live
  <2>7. StillAsFound(c)'
    BY <1>2, <2>5, <2>6 DEF StillAsFound, PairOf, LiveReviews
  <2> QED BY <1>3, <2>7
<1> QED BY <1>4, <1>5

LEMMA RowWriteKeepsOneLive ==
  ASSUME ReviewsIInv, NEW r \in Reviews, NEW new \in ReviewRow,
         review' = [review EXCEPT ![r] = new], contested' = contested,
         \/ PairOf(new) \in contested
         \/ new.deleted
         \/ Live(r) /\ PairOf(review[r]) = PairOf(new)
         \/ LiveReviews(new.user, new.product) = {}
  PROVE  OneLive'
<1>1. /\ review'[r] = new
      /\ \A s \in Reviews \ {r} : review'[s] = review[s]
  BY DEF ReviewsIInv, ReviewsTypeOK
<1>2. ASSUME NEW s \in Reviews \ {r}, Live(s)', Live(r)', PairOf(review'[s]) = PairOf(new)
      PROVE  PairOf(new) \in contested
  <2>1. Live(s) /\ PairOf(review[s]) = PairOf(new) /\ ~new.deleted
    BY <1>1, <1>2 DEF Live
  <2>2. s \in LiveReviews(new.user, new.product)
    BY <2>1 DEF LiveReviews, PairOf
  <2>3. CASE Live(r) /\ PairOf(review[r]) = PairOf(new)
    BY <2>1, <2>3 DEF ReviewsIInv, OneLive
  <2> QED BY <2>1, <2>2, <2>3
<1>3. ASSUME NEW s \in Reviews, NEW t \in Reviews, Live(s)', Live(t)',
             PairOf(review'[s]) = PairOf(review'[t])
      PROVE  s = t \/ PairOf(review'[s]) \in contested
  <2>1. CASE s = r \/ t = r
    BY <1>1, <1>2, <1>3, <2>1
  <2>2. CASE s # r /\ t # r
    BY <1>1, <1>3, <2>2 DEF ReviewsIInv, OneLive, Live
  <2> QED BY <2>1, <2>2
<1> QED BY <1>3 DEF OneLive

LEMMA InsertReviewKeepsIInv ==
  ASSUME ReviewsIInv, NEW w \in Workers, InsertReview(w)
  PROVE  ReviewsIInv'
<1> DEFINE c == reviewCalls[w]
<1>1. PICK r \in Reviews :
        /\ review[r] = None
        /\ review' = [review EXCEPT ![r] = [user |-> c.user, product |-> c.product,
                                            status |-> "PENDING", deleted |-> FALSE]]
  BY DEF InsertReview
<1> DEFINE new == [user |-> c.user, product |-> c.product, status |-> "PENDING",
                   deleted |-> FALSE]
<1>2. /\ c.at = "create_insert" /\ ReviewReturn(w)
      /\ UNCHANGED <<storefront, moderations, contested, unlogged>>
  BY DEF InsertReview, Reviewing
<1>3. c \in ReviewCall /\ ReviewAddressed(c) /\ StillAsFound(c)
  BY ReviewCallTyped
<1>4. /\ new \in ReviewRow /\ PairOf(new) = PairOf(c) /\ new.user = c.user
      /\ new.product = c.product /\ new.status = "PENDING"
  BY <1>2, <1>3 DEF ReviewAddressed, ReviewRow, PairOf
<1>5. review' = [review EXCEPT ![r] = new]
  BY <1>1
<1>6. PairOf(new) \in contested \/ LiveReviews(new.user, new.product) = {}
  BY <1>2, <1>3, <1>4 DEF StillAsFound
<1> HIDE DEF new
<1>7. /\ reviewCalls' \in [Workers -> ReviewCall] /\ AloneUnlessContested'
      /\ reviewCalls'[w] = NoReview /\ \A v \in Workers \ {w} : reviewCalls'[v] = reviewCalls[v]
  BY <1>2, ReviewReturnKeepsCalls
<1>8. ~Reviewing(w, "idle")
  BY <1>2 DEF Reviewing
<1>9. \A v \in Workers \ {w} : ReviewAddressed(reviewCalls[v])' /\ StillAsFound(reviewCalls[v])'
  BY <1>1, <1>2, <1>4, <1>5, <1>7, <1>8, RowWriteKeepsCalls
<1>10. ReviewAddressed(reviewCalls[w])' /\ StillAsFound(reviewCalls[w])'
  BY <1>7 DEF ReviewAddressed, StillAsFound, NoReview
<1>11. OneLive'
  BY <1>2, <1>4, <1>5, <1>6, RowWriteKeepsOneLive
<1>12. ReviewsTypeOK'
  BY <1>2, <1>4, <1>5, <1>7 DEF ReviewsIInv, ReviewsTypeOK, StorefrontTypeOK, storefront
<1>13. ApprovedWasModerated'
  BY <1>1, <1>2, <1>4, <1>5, <1>7 DEF ReviewsIInv, ReviewsTypeOK, ApprovedWasModerated, Reviewing
<1> QED BY <1>7, <1>9, <1>10, <1>11, <1>12, <1>13 DEF ReviewsIInv

LEMMA ApproveSaveKeepsIInv ==
  ASSUME ReviewsIInv, NEW w \in Workers, ApproveSave(w)
  PROVE  ReviewsIInv'
<1> DEFINE c == reviewCalls[w]
<1>r. PICK r \in Reviews : r = c.review
  BY ReviewCallTyped DEF ApproveSave, Reviewing, ReviewAddressed
<1> DEFINE new == [review[r] EXCEPT !.status = "APPROVED", !.deleted = FALSE]
           d == [c EXCEPT !.at = "approve_log"]
<1>1. /\ c.at = "approve_save" /\ ReviewStep(w, "approve_log")
      /\ UNCHANGED <<storefront, moderations, contested, unlogged>>
      /\ review' = [review EXCEPT ![r].status = "APPROVED", ![r].deleted = FALSE]
  BY <1>r DEF ApproveSave, Reviewing, ThenLogs, ReviewStep
<1>2. c \in ReviewCall /\ ReviewAddressed(c) /\ StillAsFound(c)
  BY ReviewCallTyped
<1>3. r \in Reviews /\ review[r] \in ReviewRow /\ PairOf(review[r]) = PairOf(c)
  BY <1>r, <1>1, <1>2 DEF ReviewAddressed, ReviewsIInv, ReviewsTypeOK, PairOf
<1>4. review' = [review EXCEPT ![r] = new]
  BY <1>1, <1>3 DEF ReviewsIInv, ReviewsTypeOK
<1>5. new \in ReviewRow /\ PairOf(new) = PairOf(c) /\ new.status = "APPROVED"
      /\ new.user = c.user /\ new.product = c.product
  BY <1>r, <1>1, <1>2, <1>3 DEF ReviewRow, PairOf, ReviewAddressed
<1>6. /\ reviewCalls' = [reviewCalls EXCEPT ![w] = d] /\ d \in ReviewCall
      /\ d.at = "approve_log" /\ PairOf(d) = PairOf(c) /\ d.review = r
      /\ d.user = c.user /\ d.product = c.product
  BY <1>r, <1>1, <1>2 DEF ReviewsIInv, ReviewsTypeOK, ReviewStep, ReviewCall, PairOf
<1>7. PairOf(new) \in contested \/ Live(r)
  BY <1>r, <1>1, <1>2, <1>5 DEF StillAsFound, PairOf
<1> HIDE DEF new, d
<1>8. /\ reviewCalls' \in [Workers -> ReviewCall] /\ reviewCalls'[w] = d
      /\ \A v \in Workers \ {w} : reviewCalls'[v] = reviewCalls[v]
      /\ review'[r] = new /\ \A s \in Reviews \ {r} : review'[s] = review[s]
      /\ new # None
  BY <1>3, <1>4, <1>5, <1>6, ReviewNames DEF ReviewsIInv, ReviewsTypeOK
<1>9. ~Reviewing(w, "idle")
  BY <1>1 DEF Reviewing
<1>10. \A v \in Workers \ {w} : ReviewAddressed(reviewCalls[v])' /\ StillAsFound(reviewCalls[v])'
  <2>1. /\ PairOf(new) = PairOf(reviewCalls[w])
        /\ review[r] # None => /\ PairOf(review[r]) = PairOf(new)
                               /\ review[r].status = "APPROVED" => new.status = "APPROVED"
        /\ contested' = contested
    BY <1>1, <1>3, <1>5
  <2> QED BY <1>4, <1>5, <1>8, <1>9, <2>1, RowWriteKeepsCalls
<1>11. ReviewAddressed(reviewCalls[w])' /\ StillAsFound(reviewCalls[w])'
  BY <1>1, <1>2, <1>3, <1>5, <1>6, <1>8 DEF ReviewAddressed, StillAsFound
<1>12. AloneUnlessContested'
  BY <1>1, <1>6, <1>8 DEF ReviewsIInv, AloneUnlessContested, Reviewing
<1>13. OneLive'
  BY <1>1, <1>3, <1>4, <1>5, <1>7, RowWriteKeepsOneLive
<1>14. ReviewsTypeOK'
  BY <1>1, <1>4, <1>5, <1>8 DEF ReviewsIInv, ReviewsTypeOK, StorefrontTypeOK, storefront
<1>15. ApprovedWasModerated'
  <2>1. ASSUME NEW s \in Reviews \ {r}
        PROVE  IF review'[s] # None /\ review'[s].status = "APPROVED"
               THEN \/ moderations'[s] > 0
                    \/ s \in unlogged'
                    \/ \E v \in Workers : Reviewing(v, "approve_log")' /\ reviewCalls'[v].review = s
               ELSE moderations'[s] = 0
    <3>1. CASE \E v \in Workers : Reviewing(v, "approve_log") /\ reviewCalls[v].review = s
      <4>1. \E v \in Workers : Reviewing(v, "approve_log")' /\ reviewCalls'[v].review = s
        BY <1>1, <1>8, <3>1 DEF Reviewing
      <4> QED BY <1>1, <1>8, <4>1 DEF ReviewsIInv, ApprovedWasModerated
    <3>2. CASE ~\E v \in Workers : Reviewing(v, "approve_log") /\ reviewCalls[v].review = s
      BY <1>1, <1>8, <3>2 DEF ReviewsIInv, ApprovedWasModerated
    <3> QED BY <3>1, <3>2
  <2>2. Reviewing(w, "approve_log")' /\ reviewCalls'[w].review = r
    BY <1>6, <1>8 DEF Reviewing
  <2> QED BY <1>3, <1>5, <1>8, <2>1, <2>2 DEF ApprovedWasModerated
<1> QED BY <1>10, <1>11, <1>12, <1>13, <1>14, <1>15 DEF ReviewsIInv

LEMMA DeleteReviewKeepsIInv ==
  ASSUME ReviewsIInv, NEW w \in Workers, DeleteReview(w)
  PROVE  ReviewsIInv'
<1> DEFINE c == reviewCalls[w]
<1>r. PICK r \in Reviews : r = c.review
  BY ReviewCallTyped DEF DeleteReview, Reviewing, ReviewAddressed
<1> DEFINE new == [review[r] EXCEPT !.deleted = TRUE]
<1>1. /\ c.at = "delete_save" /\ ReviewReturn(w)
      /\ UNCHANGED <<storefront, moderations, contested, unlogged>>
      /\ review' = [review EXCEPT ![r].deleted = TRUE]
  BY <1>r DEF DeleteReview, Reviewing
<1>2. c \in ReviewCall /\ ReviewAddressed(c)
  BY ReviewCallTyped
<1>3. r \in Reviews /\ review[r] # None /\ review[r] \in ReviewRow
      /\ PairOf(review[r]) = PairOf(c)
  BY <1>r, <1>1, <1>2 DEF ReviewAddressed, ReviewsIInv, ReviewsTypeOK, PairOf
<1>4. review' = [review EXCEPT ![r] = new]
  BY <1>1, <1>3 DEF ReviewsIInv, ReviewsTypeOK
<1>5. new \in ReviewRow /\ PairOf(new) = PairOf(c) /\ new.status = review[r].status
      /\ new.deleted
  BY <1>3 DEF ReviewRow, PairOf
<1> HIDE DEF new
<1>6. /\ reviewCalls' \in [Workers -> ReviewCall] /\ AloneUnlessContested'
      /\ reviewCalls'[w] = NoReview /\ \A v \in Workers \ {w} : reviewCalls'[v] = reviewCalls[v]
  BY <1>1, ReviewReturnKeepsCalls
<1>7. ~Reviewing(w, "idle")
  BY <1>1 DEF Reviewing
<1>8. \A v \in Workers \ {w} : ReviewAddressed(reviewCalls[v])' /\ StillAsFound(reviewCalls[v])'
  <2>1. /\ PairOf(new) = PairOf(reviewCalls[w])
        /\ review[r] # None => /\ PairOf(review[r]) = PairOf(new)
                               /\ review[r].status = "APPROVED" => new.status = "APPROVED"
        /\ contested' = contested
    BY <1>1, <1>3, <1>5
  <2> QED BY <1>4, <1>5, <1>6, <1>7, <2>1, RowWriteKeepsCalls
<1>9. ReviewAddressed(reviewCalls[w])' /\ StillAsFound(reviewCalls[w])'
  BY <1>6 DEF ReviewAddressed, StillAsFound, NoReview
<1>10. OneLive'
  BY <1>1, <1>3, <1>4, <1>5, RowWriteKeepsOneLive
<1>11. ReviewsTypeOK'
  BY <1>1, <1>3, <1>4, <1>5, <1>6 DEF ReviewsIInv, ReviewsTypeOK, StorefrontTypeOK, storefront
<1>12. ApprovedWasModerated'
  <2>1. review'[r] = new /\ new # None /\ \A s \in Reviews \ {r} : review'[s] = review[s]
    BY <1>3, <1>4, <1>5, ReviewNames DEF ReviewsIInv, ReviewsTypeOK
  <2>2. \A s \in Reviews : (review'[s] # None /\ review'[s].status = "APPROVED")
                             <=> (review[s] # None /\ review[s].status = "APPROVED")
    BY <1>3, <1>5, <2>1
  <2>3. \A v \in Workers : Reviewing(v, "approve_log") <=> Reviewing(v, "approve_log")'
    BY <1>1, <1>6 DEF Reviewing, NoReview
  <2>4. \A v \in Workers : Reviewing(v, "approve_log") => reviewCalls'[v] = reviewCalls[v]
    BY <1>1, <1>6 DEF Reviewing
  <2> QED BY <1>1, <2>2, <2>3, <2>4 DEF ReviewsIInv, ApprovedWasModerated
<1> QED BY <1>6, <1>8, <1>9, <1>10, <1>11, <1>12 DEF ReviewsIInv

LEMMA ApproveLogKeepsIInv ==
  ASSUME ReviewsIInv, NEW w \in Workers, ApproveLog(w)
  PROVE  ReviewsIInv'
<1> DEFINE r == reviewCalls[w].review
<1>1. /\ reviewCalls[w].at = "approve_log" /\ ReviewReturn(w)
      /\ UNCHANGED <<storefront, review, contested, unlogged>>
      /\ moderations' = [moderations EXCEPT ![r] = @ + 1]
  BY DEF ApproveLog, Reviewing
<1>2. r \in Reviews /\ review[r] # None /\ review[r].status = "APPROVED"
  BY <1>1, ReviewCallTyped DEF ReviewAddressed
<1>3. moderations \in [Reviews -> Nat]
  BY DEF ReviewsIInv, ReviewsTypeOK
<1>4. /\ moderations' \in [Reviews -> Nat] /\ moderations'[r] > 0
      /\ \A s \in Reviews \ {r} : moderations'[s] = moderations[s]
  BY <1>1, <1>2, <1>3
<1>5. /\ reviewCalls' \in [Workers -> ReviewCall] /\ AloneUnlessContested'
      /\ reviewCalls'[w] = NoReview /\ \A v \in Workers \ {w} : reviewCalls'[v] = reviewCalls[v]
  BY <1>1, ReviewReturnKeepsCalls
<1>6. ReviewsTypeOK'
  BY <1>1, <1>4, <1>5 DEF ReviewsIInv, ReviewsTypeOK, StorefrontTypeOK, storefront
<1>7. OneLive'
  BY <1>1 DEF ReviewsIInv, OneLive, Live
<1>8. ApprovedWasModerated'
  <2>1. ASSUME NEW s \in Reviews \ {r}, review[s] # None, review[s].status = "APPROVED"
        PROVE  \/ moderations[s] > 0
               \/ s \in unlogged
               \/ \E v \in Workers : Reviewing(v, "approve_log")' /\ reviewCalls'[v].review = s
    BY <1>5, <2>1 DEF ReviewsIInv, ApprovedWasModerated, Reviewing
  <2>2. ASSUME NEW s \in Reviews \ {r}, ~(review[s] # None /\ review[s].status = "APPROVED")
        PROVE  moderations[s] = 0
    BY <2>2 DEF ReviewsIInv, ApprovedWasModerated
  <2> QED BY <1>1, <1>2, <1>4, <2>1, <2>2 DEF ApprovedWasModerated
<1>9. \A v \in Workers : ReviewAddressed(reviewCalls'[v]) /\ StillAsFound(reviewCalls'[v])
  BY <1>5, ReviewCallTyped, NoReviewFine
<1>10. \A v \in Workers : ReviewAddressed(reviewCalls[v])' /\ StillAsFound(reviewCalls[v])'
  BY <1>1, <1>9 DEF ReviewAddressed, StillAsFound, LiveReviews, Live
<1> QED BY <1>5, <1>6, <1>7, <1>8, <1>10 DEF ReviewsIInv

(* The seller changes the offer, which no row and no call depends on.      *)
LEMMA OfferKeepsIInv ==
  ASSUME ReviewsIInv, NEW p \in Products, Reoffer(p),
         UNCHANGED <<review, moderations, reviewCalls, contested, unlogged>>
  PROVE  ReviewsIInv'
<1>1. PICK n \in StockLevels \cup {None} :
        /\ offer' = [offer EXCEPT ![p] = n]
        /\ peak' = [peak EXCEPT ![p] = IF n # None /\ n > @ THEN n ELSE @]
  BY DEF Reoffer
<1>2. StorefrontTypeOK
  BY DEF ReviewsIInv, ReviewsTypeOK
<1>3. offer' \in [Products -> StockLevels \cup {None}]
  BY <1>1, <1>2 DEF StorefrontTypeOK
<1> DEFINE top == IF n # None /\ n > peak[p] THEN n ELSE peak[p]
<1>4. peak' = [peak EXCEPT ![p] = top] /\ top \in StockLevels
  BY <1>1, <1>2 DEF StorefrontTypeOK
<1>5. peak' \in [Products -> StockLevels]
  BY <1>2, <1>4 DEF StorefrontTypeOK
<1>6. ReviewsTypeOK'
  BY <1>3, <1>5 DEF ReviewsIInv, ReviewsTypeOK, StorefrontTypeOK
<1>7. AloneUnlessContested' /\ OneLive'
  BY DEF ReviewsIInv, AloneUnlessContested, OneLive, Reviewing, Live
<1>8. ApprovedWasModerated'
  BY DEF ReviewsIInv, ApprovedWasModerated, Reviewing
<1>9. \A w \in Workers : ReviewAddressed(reviewCalls[w])' /\ StillAsFound(reviewCalls[w])'
  BY ReviewCallTyped DEF ReviewAddressed, StillAsFound, LiveReviews, Live
<1> QED BY <1>6, <1>7, <1>8, <1>9 DEF ReviewsIInv

LEMMA ReviewStepKeepsIInv == ReviewsIInv /\ [ReviewsNext]_reviewVars => ReviewsIInv'
<1> SUFFICES ASSUME ReviewsIInv, [ReviewsNext]_reviewVars PROVE ReviewsIInv'
  OBVIOUS
<1>1. ASSUME NEW w \in Workers, ReviewBegin(w) PROVE ReviewsIInv'
  <2>1. CASE \E u \in Users, p \in Products : ReviewRequest(w, "create", u, p, None)
    BY <2>1, ReviewRequestKeepsIInv
  <2>2. CASE \E r \in {s \in Reviews : review[s] # None}, entry \in {"approve", "delete"} :
               ReviewRequest(w, entry, review[r].user, review[r].product, r)
    <3>1. PICK r \in Reviews, entry \in {"approve", "delete"} :
            review[r] # None /\ ReviewRequest(w, entry, review[r].user, review[r].product, r)
      BY <2>2
    <3>2. review[r] \in ReviewRow
      BY <3>1 DEF ReviewsIInv, ReviewsTypeOK
    <3>3. PICK u \in Users, p \in Products : review[r].user = u /\ review[r].product = p
      BY <3>2 DEF ReviewRow
    <3> QED BY <3>1, <3>3, ReviewRequestKeepsIInv
  <2> QED BY <1>1, <2>1, <2>2 DEF ReviewBegin
<1>2. ASSUME NEW w \in Workers,
             \/ VerifyPurchase(w) \/ CheckExisting(w) \/ CheckProduct(w)
             \/ ApproveFind(w) \/ DeleteFind(w)
      PROVE  ReviewsIInv'
  <2> DEFINE c == reviewCalls[w]
             Moved(label) == [reviewCalls[w] EXCEPT !.at = label]
  <2>1. c \in ReviewCall /\ ReviewAddressed(c) /\ StillAsFound(c)
    BY ReviewCallTyped
  <2>2. \A label : /\ Moved(label).at = label /\ Moved(label).user = c.user
                   /\ Moved(label).product = c.product /\ Moved(label).review = c.review
    BY <2>1 DEF ReviewCall
  <2>3. \A label \in {"create_check", "create_product", "create_insert", "approve_save",
                      "delete_save"} : Moved(label) \in ReviewCall
    BY <2>1 DEF ReviewCall
  <2>4. CASE VerifyPurchase(w)
    <3>1. c.at = "create"
      BY <2>4 DEF VerifyPurchase, Reviewing
    <3>2. ReviewAddressed(Moved("create_check")) /\ StillAsFound(Moved("create_check"))
      BY <2>1, <2>2, <3>1 DEF ReviewAddressed, StillAsFound
    <3> QED BY <2>3, <2>4, <3>1, <3>2, ReviewMovesKeepIInv DEF VerifyPurchase
  <2>5. CASE CheckExisting(w)
    <3>1. c.at = "create_check" /\ LiveReviews(c.user, c.product) = {}
      BY <2>5 DEF CheckExisting, Reviewing, Earlier
    <3>2. ReviewAddressed(Moved("create_product")) /\ StillAsFound(Moved("create_product"))
      BY <2>1, <2>2, <3>1 DEF ReviewAddressed, StillAsFound
    <3> QED BY <2>3, <2>5, <3>1, <3>2, ReviewMovesKeepIInv DEF CheckExisting
  <2>6. CASE CheckProduct(w)
    <3>1. c.at = "create_product"
      BY <2>6 DEF CheckProduct, Reviewing
    <3>2. ReviewAddressed(Moved("create_insert")) /\ StillAsFound(Moved("create_insert"))
      BY <2>1, <2>2, <3>1 DEF ReviewAddressed, StillAsFound, PairOf
    <3> QED BY <2>3, <2>6, <3>1, <3>2, ReviewMovesKeepIInv DEF CheckProduct
  <2>7. CASE ApproveFind(w)
    <3>1. c.at = "approve" /\ Live(c.review)
      BY <2>7 DEF ApproveFind, Reviewing
    <3>2. ReviewAddressed(Moved("approve_save")) /\ StillAsFound(Moved("approve_save"))
      BY <2>1, <2>2, <3>1 DEF ReviewAddressed, StillAsFound
    <3> QED BY <2>3, <2>7, <3>1, <3>2, ReviewMovesKeepIInv DEF ApproveFind
  <2>8. CASE DeleteFind(w)
    <3>1. c.at = "delete"
      BY <2>8 DEF DeleteFind, Reviewing
    <3>2. ReviewAddressed(Moved("delete_save")) /\ StillAsFound(Moved("delete_save"))
      BY <2>1, <2>2, <3>1 DEF ReviewAddressed, StillAsFound
    <3> QED BY <2>3, <2>8, <3>1, <3>2, ReviewMovesKeepIInv DEF DeleteFind
  <2> QED BY <1>2, <2>4, <2>5, <2>6, <2>7, <2>8
<1>3. ASSUME NEW w \in Workers, InsertReview(w) PROVE ReviewsIInv'
  BY <1>3, InsertReviewKeepsIInv
<1>4. ASSUME NEW w \in Workers, ApproveSave(w) PROVE ReviewsIInv'
  BY <1>4, ApproveSaveKeepsIInv
<1>5. ASSUME NEW w \in Workers, ApproveLog(w) PROVE ReviewsIInv'
  BY <1>5, ApproveLogKeepsIInv
<1>6. ASSUME NEW w \in Workers, DeleteReview(w) PROVE ReviewsIInv'
  BY <1>6, DeleteReviewKeepsIInv
<1>7. ASSUME NEW w \in Workers, ReviewRefuse(w) PROVE ReviewsIInv'
  <2>1. ReviewReturn(w) /\ UNCHANGED <<storefront, review, moderations, contested, unlogged>>
    BY <1>7 DEF ReviewRefuse
  <2>2. ~Reviewing(w, "approve_log")
    BY <1>7 DEF ReviewRefuse, Reviewing
  <2> QED BY <2>1, <2>2, ReviewLeaveKeepsIInv
<1>8. ASSUME NEW w \in Workers, ReviewFail(w) PROVE ReviewsIInv'
  BY <1>8, ReviewLeaveKeepsIInv DEF ReviewFail
<1>9. ASSUME NEW p \in Products, Reoffer(p),
             UNCHANGED <<review, moderations, reviewCalls, contested, unlogged>>
      PROVE  ReviewsIInv'
  BY <1>9, OfferKeepsIInv
<1>10. CASE UNCHANGED reviewVars
  <2>1. UNCHANGED <<offer, peak, review, moderations, reviewCalls, contested, unlogged>>
    BY <1>10 DEF reviewVars, storefront
  <2>2. ReviewsTypeOK' /\ AloneUnlessContested' /\ OneLive'
    BY <2>1 DEF ReviewsIInv, ReviewsTypeOK, StorefrontTypeOK, AloneUnlessContested, OneLive,
                Reviewing, Live
  <2>3. ApprovedWasModerated'
    BY <2>1 DEF ReviewsIInv, ApprovedWasModerated, Reviewing
  <2>4. \A w \in Workers : ReviewAddressed(reviewCalls[w])' /\ StillAsFound(reviewCalls[w])'
    BY <2>1, ReviewCallTyped DEF ReviewAddressed, StillAsFound, LiveReviews, Live
  <2> QED BY <2>2, <2>3, <2>4 DEF ReviewsIInv
<1> QED BY <1>1, <1>2, <1>3, <1>4, <1>5, <1>6, <1>7, <1>8, <1>9, <1>10 DEF ReviewsNext

(* The invariant from which the others follow: while no two calls about a  *)
(* user and a product overlap, what a call found there it still finds when *)
(* it writes (reviews.service.ts:44-69, 169-179).                          *)
THEOREM ReviewsInvariant == ReviewsSpec => []ReviewsIInv
<1> QED BY ReviewsInitIInv, ReviewStepKeepsIInv, PTL DEF ReviewsSpec

(* The reviews, the moderation log and the locals of the calls keep their  *)
(* types (review.entity.ts, reviews.service.ts:44-69).                     *)
THEOREM ReviewsTypesCorrect == ReviewsSpec => []ReviewsTypeOK
<1>1. ReviewsIInv => ReviewsTypeOK
  BY DEF ReviewsIInv
<1> QED BY <1>1, ReviewsInvariant, PTL

(* However creations, approvals and deletions follow one another, a user   *)
(* has two reviews of a product only if two calls about them overlapped:   *)
(* no order of calls one after the other does it (reviews.service.ts:50).  *)
THEOREM OneReviewPerPurchase == ReviewsSpec => []OneReviewUnlessContested
<1>1. ASSUME ReviewsIInv PROVE OneReviewUnlessContested
  <2> SUFFICES ASSUME NEW u \in Users, NEW p \in Products, <<u, p>> \notin contested
               PROVE  Cardinality(LiveReviews(u, p)) <= 1
    BY DEF OneReviewUnlessContested
  <2>1. \A r, s \in LiveReviews(u, p) : r = s
    <3> SUFFICES ASSUME NEW r \in LiveReviews(u, p), NEW s \in LiveReviews(u, p)
                 PROVE  r = s
      OBVIOUS
    <3>1. /\ r \in Reviews /\ s \in Reviews /\ Live(r) /\ Live(s)
          /\ PairOf(review[r]) = <<u, p>> /\ PairOf(review[s]) = <<u, p>>
      BY DEF LiveReviews, PairOf
    <3> QED BY <1>1, <3>1 DEF ReviewsIInv, OneLive
  <2>2. CASE LiveReviews(u, p) = {}
    BY <2>2, FS_EmptySet
  <2>3. CASE LiveReviews(u, p) # {}
    <3>1. PICK r \in LiveReviews(u, p) : TRUE
      BY <2>3
    <3>2. LiveReviews(u, p) = {r}
      BY <2>1, <3>1
    <3>3. Cardinality({r}) = 1
      BY FS_Singleton
    <3> QED BY <3>2, <3>3
  <2> QED BY <2>2, <2>3
<1> QED BY <1>1, ReviewsInvariant, PTL

(* An approved review has a row in the moderation log, unless its approval *)
(* is between its two writes or died there, and no other review has one    *)
(* (reviews.service.ts:169-179).                                           *)
THEOREM ApprovalsAreLogged == ReviewsSpec => []ApprovedWasModerated
<1>1. ReviewsIInv => ApprovedWasModerated
  BY DEF ReviewsIInv
<1> QED BY <1>1, ReviewsInvariant, PTL

-----------------------------------------------------------------------------
(* Catalog: who is about to save a row, and who is adding an image.        *)

LEMMA CatalogNames ==
  /\ None \notin Products /\ None \notin Categories /\ None \notin Images /\ None \notin ImageRow
  /\ \A x \in Categories : x \notin Products
BY NoneAssumption, CatalogNoneAssumption, ImageRowAssumption

LEMMA ChangeTyped ==
  ASSUME CatalogIInv, NEW w \in Workers
  PROVE  catalogCalls[w] \in CatalogCall /\ ChangeAddressed(catalogCalls[w])
BY DEF CatalogIInv, CatalogTypeOK

LEMMA NoChangeFine == NoChange \in CatalogCall /\ ChangeAddressed(NoChange)
BY DEF NoChange, CatalogCall, ChangeAddressed

LEMMA CatalogInitIInv == CatalogInit => CatalogIInv
<1> SUFFICES ASSUME CatalogInit PROVE CatalogIInv
  OBVIOUS
<1>1. CatalogTypeOK
  BY NoChangeFine DEF CatalogInit, CatalogTypeOK
<1>2. \A p \in Products : LiveImages(p) = {} /\ Adders(p) = {}
  BY DEF CatalogInit, LiveImages, Adders, Changing, NoChange
<1>3. IsFiniteSet({}) /\ Cardinality({}) = 0 /\ 1..0 = {}
  BY FS_EmptySet
<1>4. \A p \in Products : IsFiniteSet(LiveImages(p))
  BY <1>2, <1>3
<1>5. ImagesInOrder
  BY <1>2, <1>3 DEF ImagesInOrder
<1>6. OneAdder
  BY <1>2 DEF OneAdder
<1>7. NobodySavesBuried
  BY DEF CatalogInit, NobodySavesBuried
<1>8. \A w \in Workers : ChangeAddressed(catalogCalls[w])
  BY NoChangeFine DEF CatalogInit
<1> QED BY <1>1, <1>4, <1>5, <1>6, <1>7, <1>8 DEF CatalogIInv

(* A call goes from one point to another, and no row changes.              *)
LEMMA ChangesKeepIInv ==
  ASSUME CatalogIInv, NEW w \in Workers, NEW c \in CatalogCall,
         catalogCalls' = [catalogCalls EXCEPT ![w] = c],
         UNCHANGED <<row, ofSeller, image, buried>>, ChangeAddressed(c),
         c.at \in Saving => c.target \notin buried,
         c.at = "add_insert" => \/ c.target \in shuffled'
                                \/ Adders(c.target) = {} /\ c.sortOrder = NextOrder(c.target),
         shuffled \subseteq shuffled', shuffled' \subseteq Products
  PROVE  CatalogIInv'
<1>1. /\ catalogCalls' \in [Workers -> CatalogCall] /\ catalogCalls'[w] = c
      /\ \A v \in Workers \ {w} : catalogCalls'[v] = catalogCalls[v]
  BY DEF CatalogIInv, CatalogTypeOK
<1>2. CatalogTypeOK'
  BY <1>1 DEF CatalogIInv, CatalogTypeOK
<1>3. NobodySavesBuried'
  BY <1>1 DEF CatalogIInv, NobodySavesBuried, Savers, Saving
<1>4. \A p \in Products : LiveImages(p)' = LiveImages(p) /\ NextOrder(p)' = NextOrder(p)
  BY DEF LiveImages, NextOrder
<1>5. ImagesInOrder'
  <2> SUFFICES ASSUME NEW p \in Products \ shuffled'
               PROVE  {image'[i].sortOrder : i \in LiveImages(p)'} = 1..Cardinality(LiveImages(p)')
    BY DEF ImagesInOrder
  <2> QED BY <1>4 DEF CatalogIInv, ImagesInOrder
<1>6. OneAdder'
  <2> SUFFICES ASSUME NEW p \in Products \ shuffled', NEW v \in Adders(p)', NEW x \in Adders(p)'
               PROVE  v = x /\ catalogCalls'[x].sortOrder = NextOrder(p)
    BY <1>4 DEF OneAdder
  <2>1. \A y \in Adders(p)' : /\ y \in Workers
                              /\ y = w \/ (y \in Adders(p) /\ catalogCalls'[y] = catalogCalls[y])
                              /\ y = w => c.at = "add_insert" /\ c.target = p
    <3> SUFFICES ASSUME NEW y \in Adders(p)'
                 PROVE  /\ y \in Workers
                        /\ y = w \/ (y \in Adders(p) /\ catalogCalls'[y] = catalogCalls[y])
                        /\ y = w => c.at = "add_insert" /\ c.target = p
      OBVIOUS
    <3>1. y \in Workers /\ catalogCalls'[y].target = p /\ catalogCalls'[y].at = "add_insert"
      BY DEF Adders, Changing
    <3>2. CASE y = w
      BY <1>1, <3>1, <3>2
    <3>3. CASE y # w
      BY <1>1, <3>1, <3>3 DEF Adders, Changing
    <3> QED BY <3>2, <3>3
  <2> QED BY <1>1, <2>1 DEF CatalogIInv, OneAdder
<1>7. \A v \in Workers : ChangeAddressed(catalogCalls'[v])
  BY <1>1 DEF CatalogIInv
<1>8. \A v \in Workers : ChangeAddressed(catalogCalls[v])'
  BY <1>7 DEF ChangeAddressed
<1>9. \A p \in Products : IsFiniteSet(LiveImages(p)')
  BY <1>4 DEF CatalogIInv
<1> QED BY <1>2, <1>3, <1>5, <1>6, <1>8, <1>9 DEF CatalogIInv

(* A call ends.                                                            *)
LEMMA LeavingChanges ==
  ASSUME CatalogIInv, NEW w \in Workers, CatalogReturn(w)
  PROVE  /\ catalogCalls' \in [Workers -> CatalogCall]
         /\ catalogCalls'[w] = NoChange
         /\ \A v \in Workers \ {w} : catalogCalls'[v] = catalogCalls[v]
         /\ \A x \in Products \cup Categories : Savers(x)' = Savers(x) \ {w}
         /\ \A p \in Products : Adders(p)' = Adders(p) \ {w}
<1>1. /\ catalogCalls' \in [Workers -> CatalogCall]
      /\ catalogCalls'[w] = NoChange
      /\ \A v \in Workers \ {w} : catalogCalls'[v] = catalogCalls[v]
  BY NoChangeFine DEF CatalogIInv, CatalogTypeOK, CatalogReturn
<1>2. \A x \in Products \cup Categories : Savers(x)' = Savers(x) \ {w}
  BY <1>1 DEF Savers, Saving, NoChange
<1>3. \A p \in Products : Adders(p)' = Adders(p) \ {w}
  BY <1>1 DEF Adders, Changing, NoChange
<1> QED BY <1>1, <1>2, <1>3

LEMMA CatalogReturnKeepsIInv ==
  ASSUME CatalogIInv, NEW w \in Workers, CatalogReturn(w),
         UNCHANGED <<row, ofSeller, image, buried, shuffled>>
  PROVE  CatalogIInv'
<1>1. NoChange.at = "idle"
  BY DEF NoChange
<1>2. catalogCalls' = [catalogCalls EXCEPT ![w] = NoChange]
  BY DEF CatalogReturn
<1>3. shuffled' \subseteq Products /\ shuffled \subseteq shuffled'
  BY DEF CatalogIInv, CatalogTypeOK
<1> QED BY <1>1, <1>2, <1>3, NoChangeFine, ChangesKeepIInv DEF Saving

(* A call writes a row of products or categories and ends.                 *)
LEMMA RowSaveKeepsIInv ==
  ASSUME CatalogIInv, NEW w \in Workers, CatalogReturn(w), UNCHANGED <<image, shuffled>>,
         row' \in [Products \cup Categories -> {"none", "live", "deleted"}],
         ofSeller' \in [Products -> Sellers \cup {None}],
         buried' \subseteq Products \cup Categories, NobodySavesBuried'
  PROVE  CatalogIInv'
<1>1. /\ catalogCalls' \in [Workers -> CatalogCall]
      /\ catalogCalls'[w] = NoChange
      /\ \A v \in Workers \ {w} : catalogCalls'[v] = catalogCalls[v]
      /\ \A p \in Products : Adders(p)' = Adders(p) \ {w}
  BY LeavingChanges
<1>2. CatalogTypeOK'
  BY <1>1 DEF CatalogIInv, CatalogTypeOK
<1>3. \A p \in Products : LiveImages(p)' = LiveImages(p) /\ NextOrder(p)' = NextOrder(p)
  BY DEF LiveImages, NextOrder
<1>4. ImagesInOrder'
  <2> SUFFICES ASSUME NEW p \in Products \ shuffled'
               PROVE  {image'[i].sortOrder : i \in LiveImages(p)'} = 1..Cardinality(LiveImages(p)')
    BY DEF ImagesInOrder
  <2> QED BY <1>3 DEF CatalogIInv, ImagesInOrder
<1>5. OneAdder'
  <2> SUFFICES ASSUME NEW p \in Products \ shuffled', NEW v \in Adders(p)', NEW x \in Adders(p)'
               PROVE  v = x /\ catalogCalls'[x].sortOrder = NextOrder(p)
    BY <1>3 DEF OneAdder
  <2>1. x \in Workers \ {w} /\ v \in Adders(p) /\ x \in Adders(p) /\ p \in Products \ shuffled
    BY <1>1 DEF Adders
  <2> QED BY <1>1, <2>1 DEF CatalogIInv, OneAdder
<1>6. \A v \in Workers : ChangeAddressed(catalogCalls'[v])
  BY <1>1, NoChangeFine DEF CatalogIInv
<1>7. \A v \in Workers : ChangeAddressed(catalogCalls[v])'
  BY <1>6 DEF ChangeAddressed
<1>8. \A p \in Products : IsFiniteSet(LiveImages(p)')
  BY <1>3 DEF CatalogIInv
<1> QED BY <1>2, <1>4, <1>5, <1>7, <1>8 DEF CatalogIInv

LEMMA CreateInsertKeepsIInv ==
  ASSUME CatalogIInv, NEW w \in Workers, CreateInsert(w)
  PROVE  CatalogIInv'
<1> DEFINE c == catalogCalls[w]
<1>1. /\ c.at = "create_insert" /\ row[c.target] = "none" /\ CatalogReturn(w)
      /\ row' = [row EXCEPT ![c.target] = "live"] /\ UNCHANGED <<image, buried, shuffled>>
      /\ ofSeller' = IF c.target \in Products
                     THEN [ofSeller EXCEPT ![c.target] = c.seller] ELSE ofSeller
  BY DEF CreateInsert, Changing
<1>2. c.target \in Products \cup Categories /\ (c.target \in Products => c.seller \in Sellers)
  BY <1>1, ChangeTyped DEF ChangeAddressed
<1>3. \A x \in Products \cup Categories : Savers(x)' = Savers(x) \ {w}
  BY <1>1, LeavingChanges
<1>4. c.target \notin buried
  BY <1>1 DEF CatalogIInv, NobodySavesBuried
<1> HIDE DEF c
<1>5. /\ row' \in [Products \cup Categories -> {"none", "live", "deleted"}]
      /\ ofSeller' \in [Products -> Sellers \cup {None}]
      /\ buried' \subseteq Products \cup Categories
  BY <1>1, <1>2 DEF CatalogIInv, CatalogTypeOK
<1>6. NobodySavesBuried'
  <2> SUFFICES ASSUME NEW x \in buried PROVE row'[x] = "deleted" /\ Savers(x)' = {}
    BY <1>1 DEF NobodySavesBuried
  <2> QED BY <1>1, <1>2, <1>3, <1>4 DEF CatalogIInv, CatalogTypeOK, NobodySavesBuried
<1> QED BY <1>1, <1>5, <1>6, RowSaveKeepsIInv

LEMMA SaveChangeKeepsIInv ==
  ASSUME CatalogIInv, NEW w \in Workers, SaveChange(w)
  PROVE  CatalogIInv'
<1> DEFINE c == catalogCalls[w]
<1>1. /\ c.at \in {"update_save", "sell_save"} /\ CatalogReturn(w)
      /\ row' = [row EXCEPT ![c.target] = "live"]
      /\ UNCHANGED <<ofSeller, image, buried, shuffled>>
  BY DEF SaveChange, Changing
<1>2. c.target \in Products \cup Categories
  BY <1>1, ChangeTyped DEF ChangeAddressed
<1>3. \A x \in Products \cup Categories : Savers(x)' = Savers(x) \ {w}
  BY <1>1, LeavingChanges
<1>4. c.target \notin buried
  <2>1. w \in Savers(c.target)
    BY <1>1 DEF Savers, Saving
  <2> QED BY <2>1 DEF CatalogIInv, NobodySavesBuried
<1> HIDE DEF c
<1>5. /\ row' \in [Products \cup Categories -> {"none", "live", "deleted"}]
      /\ ofSeller' \in [Products -> Sellers \cup {None}]
      /\ buried' \subseteq Products \cup Categories
  BY <1>1, <1>2 DEF CatalogIInv, CatalogTypeOK
<1>6. NobodySavesBuried'
  <2> SUFFICES ASSUME NEW x \in buried PROVE row'[x] = "deleted" /\ Savers(x)' = {}
    BY <1>1 DEF NobodySavesBuried
  <2> QED BY <1>1, <1>2, <1>3, <1>4 DEF CatalogIInv, CatalogTypeOK, NobodySavesBuried
<1> QED BY <1>1, <1>5, <1>6, RowSaveKeepsIInv

LEMMA RemoveRowKeepsIInv ==
  ASSUME CatalogIInv, NEW w \in Workers, RemoveRow(w)
  PROVE  CatalogIInv'
<1> DEFINE x == catalogCalls[w].target
<1>1. /\ catalogCalls[w].at = "remove_delete" /\ CatalogReturn(w)
      /\ row' = [row EXCEPT ![x] = IF row[x] = "none" THEN row[x] ELSE "deleted"]
      /\ buried' = IF row[x] # "none" /\ Savers(x) = {} THEN buried \cup {x} ELSE buried
      /\ UNCHANGED <<ofSeller, image, shuffled>>
  BY DEF RemoveRow, Changing
<1>2. x \in Products \cup Categories
  BY <1>1, ChangeTyped DEF ChangeAddressed
<1>3. \A y \in Products \cup Categories : Savers(y)' = Savers(y) \ {w}
  BY <1>1, LeavingChanges
<1> HIDE DEF x
<1>4. row \in [Products \cup Categories -> {"none", "live", "deleted"}]
      /\ buried \subseteq Products \cup Categories
  BY DEF CatalogIInv, CatalogTypeOK
<1>5. /\ row' \in [Products \cup Categories -> {"none", "live", "deleted"}]
      /\ ofSeller' \in [Products -> Sellers \cup {None}]
      /\ buried' \subseteq Products \cup Categories
  BY <1>1, <1>2, <1>4 DEF CatalogIInv, CatalogTypeOK
<1>6. NobodySavesBuried'
  <2> SUFFICES ASSUME NEW y \in buried' PROVE row'[y] = "deleted" /\ Savers(y)' = {}
    BY DEF NobodySavesBuried
  <2>1. CASE y \in buried
    <3>1. row[y] = "deleted" /\ Savers(y) = {}
      BY <2>1 DEF CatalogIInv, NobodySavesBuried
    <3> QED BY <1>1, <1>3, <1>4, <2>1, <3>1
  <2>2. CASE y \notin buried
    <3>1. y = x /\ row[x] # "none" /\ Savers(x) = {}
      BY <1>1, <2>2
    <3> QED BY <1>1, <1>2, <1>3, <1>4, <3>1
  <2> QED BY <2>1, <2>2
<1> QED BY <1>1, <1>5, <1>6, RowSaveKeepsIInv

(* An image is inserted, after the ones that were counted: until the order *)
(* of its product is lost, those are the ones that are there.              *)
LEMMA AddImageKeepsIInv ==
  ASSUME CatalogIInv, NEW w \in Workers, AddImageInsert(w)
  PROVE  CatalogIInv'
<1> DEFINE c == catalogCalls[w]
<1>1. PICK i \in Images :
        /\ image[i] = None
        /\ image' = [image EXCEPT ![i] = [product |-> c.target, sortOrder |-> c.sortOrder,
                                          deleted |-> FALSE]]
  BY DEF AddImageInsert
<1> DEFINE new == [product |-> c.target, sortOrder |-> c.sortOrder, deleted |-> FALSE]
<1>2. /\ c.at = "add_insert" /\ CatalogReturn(w)
      /\ UNCHANGED <<row, ofSeller, buried, shuffled>>
  BY DEF AddImageInsert, Changing
<1>3. c \in CatalogCall /\ ChangeAddressed(c)
  BY ChangeTyped
<1>4. /\ new \in ImageRow /\ new.product = c.target /\ new.sortOrder = c.sortOrder
      /\ ~new.deleted /\ c.target \in Products
  BY <1>2, <1>3 DEF ChangeAddressed, CatalogCall, ImageRow
<1>5. PICK p \in Products : p = c.target
  BY <1>4
<1> HIDE DEF new
<1>6. /\ image' = [image EXCEPT ![i] = new] /\ image'[i] = new /\ new # None
      /\ \A j \in Images \ {i} : image'[j] = image[j]
  BY <1>1, <1>4, CatalogNames DEF new, CatalogIInv, CatalogTypeOK
<1>7. /\ catalogCalls' \in [Workers -> CatalogCall]
      /\ catalogCalls'[w] = NoChange
      /\ \A v \in Workers \ {w} : catalogCalls'[v] = catalogCalls[v]
      /\ \A x \in Products \cup Categories : Savers(x)' = Savers(x) \ {w}
      /\ \A q \in Products : Adders(q)' = Adders(q) \ {w}
  BY <1>2, LeavingChanges
<1>8. LiveImages(p)' = LiveImages(p) \cup {i} /\ i \notin LiveImages(p)
  <2>1. \A j \in Images \ {i} : j \in LiveImages(p)' <=> j \in LiveImages(p)
    BY <1>6 DEF LiveImages
  <2>2. i \in LiveImages(p)' /\ i \notin LiveImages(p)
    BY <1>1, <1>4, <1>5, <1>6 DEF LiveImages
  <2> QED BY <2>1, <2>2 DEF LiveImages
<1>9. \A q \in Products \ {p} : LiveImages(q)' = LiveImages(q)
  <2> SUFFICES ASSUME NEW q \in Products \ {p} PROVE LiveImages(q)' = LiveImages(q)
    OBVIOUS
  <2>1. \A j \in Images : j \in LiveImages(q)' <=> j \in LiveImages(q)
    BY <1>1, <1>4, <1>5, <1>6 DEF LiveImages
  <2> QED BY <2>1 DEF LiveImages
<1>10. /\ IsFiniteSet(LiveImages(p)) /\ IsFiniteSet(LiveImages(p)')
       /\ Cardinality(LiveImages(p)') = Cardinality(LiveImages(p)) + 1
       /\ Cardinality(LiveImages(p)) \in Nat
  BY <1>8, FS_AddElement, FS_CardinalityType DEF CatalogIInv
<1>11. w \in Adders(p)
  BY <1>2, <1>5 DEF Adders, Changing
<1>12. CatalogTypeOK'
  BY <1>2, <1>4, <1>6, <1>7 DEF CatalogIInv, CatalogTypeOK
<1>13. NobodySavesBuried'
  <2>1. buried \subseteq Products \cup Categories
    BY DEF CatalogIInv, CatalogTypeOK
  <2> QED BY <1>2, <1>7, <2>1 DEF CatalogIInv, NobodySavesBuried
<1>14. ImagesInOrder'
  <2> SUFFICES ASSUME NEW q \in Products \ shuffled
               PROVE  {image'[j].sortOrder : j \in LiveImages(q)'} = 1..Cardinality(LiveImages(q)')
    BY <1>2 DEF ImagesInOrder
  <2>1. {image[j].sortOrder : j \in LiveImages(q)} = 1..Cardinality(LiveImages(q))
    BY DEF CatalogIInv, ImagesInOrder
  <2>2. CASE q = p
    <3>1. new.sortOrder = Cardinality(LiveImages(p)) + 1
      BY <1>4, <1>5, <1>11, <2>2 DEF CatalogIInv, OneAdder, NextOrder
    <3>2. {image'[j].sortOrder : j \in LiveImages(p)'}
            = {image[j].sortOrder : j \in LiveImages(p)} \cup {new.sortOrder}
      <4>1. \A j \in LiveImages(p) : image'[j] = image[j]
        BY <1>6, <1>8 DEF LiveImages
      <4> QED BY <1>6, <1>8, <4>1
    <3>3. \A n \in Nat : (1..n) \cup {n + 1} = 1..(n + 1)
      OBVIOUS
    <3> QED BY <1>10, <2>1, <2>2, <3>1, <3>2, <3>3
  <2>3. CASE q # p
    <3>1. \A j \in LiveImages(q) : image'[j] = image[j]
      BY <1>1, <1>6 DEF LiveImages
    <3> QED BY <1>9, <2>1, <2>3, <3>1
  <2> QED BY <2>2, <2>3
<1>15. OneAdder'
  <2> SUFFICES ASSUME NEW q \in Products \ shuffled, NEW v \in Adders(q)', NEW x \in Adders(q)'
               PROVE  v = x /\ catalogCalls'[x].sortOrder = NextOrder(q)'
    BY <1>2 DEF OneAdder
  <2>1. v \in Adders(q) /\ x \in Adders(q) /\ v # w /\ x # w /\ x \in Workers
    BY <1>7 DEF Adders
  <2>2. q # p
    BY <1>11, <2>1 DEF CatalogIInv, OneAdder
  <2>3. NextOrder(q)' = NextOrder(q)
    BY <1>9, <2>2 DEF NextOrder
  <2> QED BY <1>7, <2>1, <2>3 DEF CatalogIInv, OneAdder
<1>16. \A v \in Workers : ChangeAddressed(catalogCalls[v])'
  BY <1>6, <1>7, ChangeTyped, NoChangeFine DEF ChangeAddressed, NoChange
<1>17. \A q \in Products : IsFiniteSet(LiveImages(q)')
  BY <1>9, <1>10 DEF CatalogIInv
<1> QED BY <1>12, <1>13, <1>14, <1>15, <1>16, <1>17 DEF CatalogIInv

(* An image is removed, and the order of its product lost.                 *)
LEMMA RemoveImageKeepsIInv ==
  ASSUME CatalogIInv, NEW w \in Workers, RemoveImage(w)
  PROVE  CatalogIInv'
<1> DEFINE c == catalogCalls[w]
<1>1. /\ c.at = "remove_image_delete" /\ CatalogReturn(w)
      /\ shuffled' = shuffled \cup {c.target}
      /\ image' = IF image[c.image].product = c.target
                  THEN [image EXCEPT ![c.image].deleted = TRUE] ELSE image
      /\ UNCHANGED <<row, ofSeller, buried>>
  BY DEF RemoveImage, Changing
<1>2. /\ c.target \in Products /\ c.image \in Images /\ image[c.image] # None
  BY <1>1, ChangeTyped DEF ChangeAddressed
<1>3. PICK p \in Products, i \in Images : p = c.target /\ i = c.image /\ image[i] # None
  BY <1>2
<1>4. image[i] \in ImageRow
  BY <1>3 DEF CatalogIInv, CatalogTypeOK
<1> DEFINE new == IF image[i].product = p THEN [image[i] EXCEPT !.deleted = TRUE] ELSE image[i]
<1>5. /\ new \in ImageRow /\ new.product = image[i].product
      /\ image[i].product # p => new = image[i]
      /\ image[i].product = p => new.deleted
  BY <1>4 DEF ImageRow
<1>6. image' = [image EXCEPT ![i] = new]
  BY <1>1, <1>3 DEF CatalogIInv, CatalogTypeOK
<1> HIDE DEF new
<1>7. /\ image' \in [Images -> ImageRow \cup {None}] /\ image'[i] = new /\ new # None
      /\ \A j \in Images \ {i} : image'[j] = image[j]
  BY <1>5, <1>6, CatalogNames DEF CatalogIInv, CatalogTypeOK
<1>8. /\ catalogCalls' \in [Workers -> CatalogCall]
      /\ catalogCalls'[w] = NoChange
      /\ \A v \in Workers \ {w} : catalogCalls'[v] = catalogCalls[v]
      /\ \A x \in Products \cup Categories : Savers(x)' = Savers(x) \ {w}
      /\ \A q \in Products : Adders(q)' = Adders(q) \ {w}
  BY <1>1, LeavingChanges
<1>9. shuffled' = shuffled \cup {p} /\ UNCHANGED <<row, ofSeller, buried>>
  BY <1>1, <1>3
<1>10. LiveImages(p)' \subseteq LiveImages(p)
  BY <1>3, <1>5, <1>7 DEF LiveImages
<1>11. \A q \in Products \ {p} : /\ LiveImages(q)' = LiveImages(q)
                                /\ \A j \in LiveImages(q) : image'[j] = image[j]
  BY <1>3, <1>5, <1>7 DEF LiveImages
<1>12. CatalogTypeOK'
  BY <1>7, <1>8, <1>9 DEF CatalogIInv, CatalogTypeOK
<1>13. NobodySavesBuried'
  <2>1. buried \subseteq Products \cup Categories
    BY DEF CatalogIInv, CatalogTypeOK
  <2> QED BY <1>8, <1>9, <2>1 DEF CatalogIInv, NobodySavesBuried
<1>14. ImagesInOrder'
  <2> SUFFICES ASSUME NEW q \in Products \ shuffled, q # p
               PROVE  {image'[j].sortOrder : j \in LiveImages(q)'} = 1..Cardinality(LiveImages(q)')
    BY <1>9 DEF ImagesInOrder
  <2>1. {image[j].sortOrder : j \in LiveImages(q)} = 1..Cardinality(LiveImages(q))
    BY DEF CatalogIInv, ImagesInOrder
  <2> QED BY <1>11, <2>1
<1>15. OneAdder'
  <2> SUFFICES ASSUME NEW q \in Products \ shuffled, q # p,
                      NEW v \in Adders(q)', NEW x \in Adders(q)'
               PROVE  v = x /\ catalogCalls'[x].sortOrder = NextOrder(q)'
    BY <1>9 DEF OneAdder
  <2>1. v \in Adders(q) /\ x \in Adders(q) /\ v # w /\ x # w /\ x \in Workers
    BY <1>8 DEF Adders
  <2>2. NextOrder(q)' = NextOrder(q)
    BY <1>11 DEF NextOrder
  <2> QED BY <1>8, <2>1, <2>2 DEF CatalogIInv, OneAdder
<1>16. \A v \in Workers : ChangeAddressed(catalogCalls[v])'
  BY <1>7, <1>8, ChangeTyped, NoChangeFine DEF ChangeAddressed, NoChange
<1>17. \A q \in Products : IsFiniteSet(LiveImages(q)')
  BY <1>10, <1>11, FS_Subset DEF CatalogIInv
<1> QED BY <1>12, <1>13, <1>14, <1>15, <1>16, <1>17 DEF CatalogIInv

(* A call begins, or goes on after it found what it looked for.            *)
LEMMA CatalogRequestKeepsIInv ==
  ASSUME CatalogIInv, NEW w \in Workers, CatalogBegin(w)
  PROVE  CatalogIInv'
<1>1. PICK c \in CatalogCall :
        /\ CatalogRequest(w, c) /\ ChangeAddressed(c)
        /\ c.at \notin Saving \cup {"add_insert"}
  <2>1. ASSUME NEW x \in Categories, NEW entry \in {"create", "update", "remove"}
        PROVE  LET c == [NoChange EXCEPT !.at = entry, !.target = x] IN
               /\ c \in CatalogCall /\ ChangeAddressed(c)
               /\ c.at \notin Saving \cup {"add_insert"}
    BY CatalogNames DEF NoChange, CatalogCall, ChangeAddressed, Saving
  <2>2. ASSUME NEW p \in Products, NEW s \in Sellers,
               NEW entry \in {"create", "update"}, NEW k \in Categories
        PROVE  LET c == [NoChange EXCEPT !.at = entry, !.target = p, !.seller = s,
                                         !.category = k] IN
               /\ c \in CatalogCall /\ ChangeAddressed(c)
               /\ c.at \notin Saving \cup {"add_insert"}
    BY DEF NoChange, CatalogCall, ChangeAddressed, Saving
  <2>3. ASSUME NEW p \in Products, NEW s \in Sellers, NEW i \in Images, image[i] # None
        PROVE  LET c == [NoChange EXCEPT !.at = "remove_image", !.target = p, !.seller = s,
                                         !.image = i] IN
               /\ c \in CatalogCall /\ ChangeAddressed(c)
               /\ c.at \notin Saving \cup {"add_insert"}
    BY <2>3 DEF NoChange, CatalogCall, ChangeAddressed, Saving
  <2> DEFINE Product(p, s, entry) ==
               [NoChange EXCEPT !.at = entry, !.target = p, !.seller = s]
  <2>4. CASE \E x \in Categories, entry \in {"create", "update", "remove"} :
               CatalogRequest(w, [NoChange EXCEPT !.at = entry, !.target = x])
    BY <2>1, <2>4
  <2>5. CASE \E p \in Products, s \in Sellers : \E entry \in {"update", "remove", "add_image"} :
               CatalogRequest(w, Product(p, s, entry))
    <3>1. PICK p \in Products, s \in Sellers, entry \in {"update", "remove", "add_image"} :
            CatalogRequest(w, Product(p, s, entry))
      BY <2>5
    <3>2. /\ Product(p, s, entry) \in CatalogCall /\ ChangeAddressed(Product(p, s, entry))
          /\ Product(p, s, entry).at \notin Saving \cup {"add_insert"}
      BY DEF NoChange, CatalogCall, ChangeAddressed, Saving
    <3> QED BY <3>1, <3>2
  <2>6. CASE \E p \in Products, s \in Sellers :
               \E entry \in {"create", "update"}, k \in Categories :
                 CatalogRequest(w, [Product(p, s, entry) EXCEPT !.category = k])
    <3>1. PICK p \in Products, s \in Sellers, entry \in {"create", "update"}, k \in Categories :
            CatalogRequest(w, [Product(p, s, entry) EXCEPT !.category = k])
      BY <2>6
    <3>2. [Product(p, s, entry) EXCEPT !.category = k]
            = [NoChange EXCEPT !.at = entry, !.target = p, !.seller = s, !.category = k]
      BY DEF NoChange
    <3> QED BY <2>2, <3>1, <3>2
  <2>7. CASE \E p \in Products, s \in Sellers : \E i \in {j \in Images : image[j] # None} :
               CatalogRequest(w, [Product(p, s, "remove_image") EXCEPT !.image = i])
    <3>1. PICK p \in Products, s \in Sellers, i \in Images :
            /\ image[i] # None
            /\ CatalogRequest(w, [Product(p, s, "remove_image") EXCEPT !.image = i])
      BY <2>7
    <3>2. [Product(p, s, "remove_image") EXCEPT !.image = i]
            = [NoChange EXCEPT !.at = "remove_image", !.target = p, !.seller = s, !.image = i]
      BY DEF NoChange
    <3> QED BY <2>3, <3>1, <3>2
  <2>8. CASE \E p \in Products :
               CatalogRequest(w, [NoChange EXCEPT !.at = "sell", !.target = p])
    <3>1. PICK p \in Products : CatalogRequest(w, [NoChange EXCEPT !.at = "sell", !.target = p])
      BY <2>8
    <3>2. LET d == [NoChange EXCEPT !.at = "sell", !.target = p] IN
          /\ d \in CatalogCall /\ ChangeAddressed(d)
          /\ d.at \notin Saving \cup {"add_insert"}
      BY DEF NoChange, CatalogCall, ChangeAddressed, Saving
    <3> QED BY <3>1, <3>2
  <2> QED BY <2>4, <2>5, <2>6, <2>7, <2>8 DEF CatalogBegin
<1>2. shuffled \subseteq shuffled' /\ shuffled' \subseteq Products
  BY <1>1 DEF CatalogRequest, CatalogIInv, CatalogTypeOK
<1> QED BY <1>1, <1>2, ChangesKeepIInv DEF CatalogRequest, CatalogStep

LEMMA CatalogFindsKeepIInv ==
  ASSUME CatalogIInv, NEW w \in Workers,
         \/ CreateFindCategory(w) \/ UpdateFind(w) \/ UpdateFindCategory(w)
         \/ SellFind(w) \/ RemoveFind(w) \/ AddImageFind(w) \/ RemoveImageFind(w)
  PROVE  CatalogIInv'
<1> DEFINE c == catalogCalls[w]
           Moved(label) == [catalogCalls[w] EXCEPT !.at = label]
<1>1. c \in CatalogCall /\ ChangeAddressed(c)
  BY ChangeTyped
<1>2. \A label : /\ Moved(label).at = label /\ Moved(label).target = c.target
                 /\ Moved(label).seller = c.seller /\ Moved(label).image = c.image
  BY <1>1 DEF CatalogCall
<1>3. \A label \in {"create_insert", "update_category", "update_save", "remove_delete",
                    "add_count", "remove_image_delete", "sell_save"} : Moved(label) \in CatalogCall
  BY <1>1 DEF CatalogCall
<1>4. PICK d \in CatalogCall :
        /\ CatalogStep(w, d) /\ UNCHANGED shuffled /\ ChangeAddressed(d)
        /\ d.at # "add_insert"
        /\ d.at \in Saving => d.target \notin buried
  <2>1. CASE CreateFindCategory(w)
    <3>1. c.at = "create" /\ CatalogStep(w, Moved("create_insert")) /\ UNCHANGED shuffled
      BY <2>1 DEF CreateFindCategory, Changing
    <3>2. ChangeAddressed(Moved("create_insert"))
      BY <1>1, <1>2, <3>1 DEF ChangeAddressed
    <3>3. /\ Moved("create_insert") \in CatalogCall
          /\ Moved("create_insert").at = "create_insert" /\ Moved("create_insert").target = c.target
      BY <1>2, <1>3
    <3> HIDE DEF Moved, c
    <3> QED BY <3>1, <3>2, <3>3 DEF Saving
  <2>2. CASE UpdateFind(w)
    <3>1. PICK label \in {"update_category", "update_save"} :
            CatalogStep(w, Moved(label)) /\ UNCHANGED shuffled
      BY <2>2 DEF UpdateFind
    <3>2. c.at = "update" /\ row[c.target] = "live"
      BY <2>2 DEF UpdateFind, Changing, Found
    <3>3. ChangeAddressed(Moved(label))
      BY <1>1, <1>2, <3>2 DEF ChangeAddressed
    <3>4. c.target \notin buried
      BY <3>2 DEF CatalogIInv, NobodySavesBuried
    <3>5. /\ Moved(label) \in CatalogCall
          /\ Moved(label).at = label /\ Moved(label).target = c.target
      BY <1>2, <1>3
    <3> HIDE DEF Moved, c
    <3> QED BY <3>1, <3>3, <3>4, <3>5
  <2>3. CASE UpdateFindCategory(w)
    <3>1. c.at = "update_category" /\ CatalogStep(w, Moved("update_save")) /\ UNCHANGED shuffled
      BY <2>3 DEF UpdateFindCategory, Changing
    <3>2. ChangeAddressed(Moved("update_save"))
      BY <1>1, <1>2, <3>1 DEF ChangeAddressed
    <3>3. w \in Savers(c.target)
      BY <3>1 DEF Savers, Saving
    <3>4. c.target \notin buried
      BY <3>3 DEF CatalogIInv, NobodySavesBuried
    <3>5. /\ Moved("update_save") \in CatalogCall
          /\ Moved("update_save").at = "update_save" /\ Moved("update_save").target = c.target
      BY <1>2, <1>3
    <3> HIDE DEF Moved, c
    <3> QED BY <3>1, <3>2, <3>4, <3>5
  <2>4. CASE RemoveFind(w)
    <3>1. c.at = "remove" /\ CatalogStep(w, Moved("remove_delete")) /\ UNCHANGED shuffled
      BY <2>4 DEF RemoveFind, Changing
    <3>2. ChangeAddressed(Moved("remove_delete"))
      BY <1>1, <1>2, <3>1 DEF ChangeAddressed
    <3>3. Moved("remove_delete") \in CatalogCall /\ Moved("remove_delete").at = "remove_delete"
      BY <1>2, <1>3
    <3> HIDE DEF Moved
    <3> QED BY <3>1, <3>2, <3>3 DEF Saving
  <2>5. CASE AddImageFind(w)
    <3>1. c.at = "add_image" /\ CatalogStep(w, Moved("add_count")) /\ UNCHANGED shuffled
      BY <2>5 DEF AddImageFind, Changing
    <3>2. ChangeAddressed(Moved("add_count"))
      BY <1>1, <1>2, <3>1 DEF ChangeAddressed
    <3>3. /\ Moved("add_count") \in CatalogCall
          /\ Moved("add_count").at = "add_count" /\ Moved("add_count").target = c.target
      BY <1>2, <1>3
    <3> HIDE DEF Moved, c
    <3> QED BY <3>1, <3>2, <3>3 DEF Saving
  <2>6. CASE RemoveImageFind(w)
    <3>1. c.at = "remove_image" /\ CatalogStep(w, Moved("remove_image_delete"))
          /\ UNCHANGED shuffled
      BY <2>6 DEF RemoveImageFind, Changing
    <3>2. ChangeAddressed(Moved("remove_image_delete"))
      BY <1>1, <1>2, <3>1 DEF ChangeAddressed
    <3>3. /\ Moved("remove_image_delete") \in CatalogCall
          /\ Moved("remove_image_delete").at = "remove_image_delete" /\ Moved("remove_image_delete").target = c.target
      BY <1>2, <1>3
    <3> HIDE DEF Moved, c
    <3> QED BY <3>1, <3>2, <3>3 DEF Saving
  <2>7. CASE SellFind(w)
    <3>1. c.at = "sell" /\ CatalogStep(w, Moved("sell_save")) /\ UNCHANGED shuffled
      BY <2>7 DEF SellFind, Changing
    <3>2. row[c.target] = "live"
      BY <2>7 DEF SellFind
    <3>3. ChangeAddressed(Moved("sell_save"))
      BY <1>1, <1>2, <3>1 DEF ChangeAddressed
    <3>4. c.target \notin buried
      BY <3>2 DEF CatalogIInv, NobodySavesBuried
    <3>5. /\ Moved("sell_save") \in CatalogCall
          /\ Moved("sell_save").at = "sell_save" /\ Moved("sell_save").target = c.target
      BY <1>2, <1>3
    <3> HIDE DEF Moved, c
    <3> QED BY <3>1, <3>3, <3>4, <3>5
  <2> QED BY <2>1, <2>2, <2>3, <2>4, <2>5, <2>6, <2>7
<1>5. shuffled \subseteq shuffled' /\ shuffled' \subseteq Products
  BY <1>4 DEF CatalogIInv, CatalogTypeOK
<1> QED BY <1>4, <1>5, ChangesKeepIInv DEF CatalogStep

(* The images are counted: another count before the insert is contention.  *)
LEMMA AddImageCountKeepsIInv ==
  ASSUME CatalogIInv, NEW w \in Workers, AddImageCount(w)
  PROVE  CatalogIInv'
<1> DEFINE c == catalogCalls[w]
           d == [c EXCEPT !.at = "add_insert", !.sortOrder = NextOrder(c.target)]
<1>1. /\ c.at = "add_count" /\ CatalogStep(w, d)
      /\ shuffled' = IF Adders(c.target) = {} THEN shuffled ELSE shuffled \cup {c.target}
  BY DEF AddImageCount, Changing
<1>2. c \in CatalogCall /\ ChangeAddressed(c)
  BY ChangeTyped
<1>3. c.target \in Products
  BY <1>1, <1>2 DEF ChangeAddressed
<1>4. NextOrder(c.target) \in Nat
  <2>1. IsFiniteSet(LiveImages(c.target))
    BY <1>3 DEF CatalogIInv
  <2>2. Cardinality(LiveImages(c.target)) \in Nat
    BY <2>1, FS_CardinalityType
  <2> QED BY <2>2 DEF NextOrder
<1>5. /\ d \in CatalogCall /\ d.at = "add_insert" /\ d.target = c.target
      /\ d.seller = c.seller /\ d.sortOrder = NextOrder(c.target)
  BY <1>2, <1>4 DEF CatalogCall
<1> HIDE DEF d
<1>6. ChangeAddressed(d)
  BY <1>1, <1>2, <1>3, <1>5 DEF ChangeAddressed
<1>7. shuffled \subseteq shuffled' /\ shuffled' \subseteq Products
  BY <1>1, <1>3 DEF CatalogIInv, CatalogTypeOK
<1>8. PICK e \in CatalogCall : e = d
  BY <1>5
<1>9. \/ e.target \in shuffled'
      \/ Adders(e.target) = {} /\ e.sortOrder = NextOrder(e.target)
  BY <1>1, <1>5, <1>8
<1> QED BY <1>1, <1>5, <1>6, <1>7, <1>8, <1>9, ChangesKeepIInv DEF CatalogStep, Saving

LEMMA CatalogStepKeepsIInv == CatalogIInv /\ [CatalogNext]_catalogVars => CatalogIInv'
<1> SUFFICES ASSUME CatalogIInv, [CatalogNext]_catalogVars PROVE CatalogIInv'
  OBVIOUS
<1>1. ASSUME NEW w \in Workers, CatalogBegin(w) PROVE CatalogIInv'
  BY <1>1, CatalogRequestKeepsIInv
<1>2. ASSUME NEW w \in Workers,
             \/ CreateFindCategory(w) \/ UpdateFind(w) \/ UpdateFindCategory(w)
             \/ SellFind(w) \/ RemoveFind(w) \/ AddImageFind(w) \/ RemoveImageFind(w)
      PROVE  CatalogIInv'
  BY <1>2, CatalogFindsKeepIInv
<1>3. ASSUME NEW w \in Workers, CreateInsert(w) PROVE CatalogIInv'
  BY <1>3, CreateInsertKeepsIInv
<1>4. ASSUME NEW w \in Workers, SaveChange(w) PROVE CatalogIInv'
  BY <1>4, SaveChangeKeepsIInv
<1>5. ASSUME NEW w \in Workers, RemoveRow(w) PROVE CatalogIInv'
  BY <1>5, RemoveRowKeepsIInv
<1>6. ASSUME NEW w \in Workers, AddImageCount(w) PROVE CatalogIInv'
  BY <1>6, AddImageCountKeepsIInv
<1>7. ASSUME NEW w \in Workers, AddImageInsert(w) PROVE CatalogIInv'
  BY <1>7, AddImageKeepsIInv
<1>8. ASSUME NEW w \in Workers, RemoveImage(w) PROVE CatalogIInv'
  BY <1>8, RemoveImageKeepsIInv
<1>9. ASSUME NEW w \in Workers, CatalogRefuse(w) \/ CatalogFail(w) PROVE CatalogIInv'
  BY <1>9, CatalogReturnKeepsIInv DEF CatalogRefuse, CatalogFail
<1>10. CASE UNCHANGED catalogVars
  <2>1. UNCHANGED <<row, ofSeller, image, catalogCalls, buried, shuffled>>
    BY <1>10 DEF catalogVars
  <2>2. \A p \in Products : LiveImages(p)' = LiveImages(p) /\ Adders(p)' = Adders(p)
    BY <2>1 DEF LiveImages, Adders, Changing
  <2>3. CatalogTypeOK' /\ NobodySavesBuried'
    BY <2>1 DEF CatalogIInv, CatalogTypeOK, NobodySavesBuried, Savers
  <2>4. OneAdder' /\ ImagesInOrder' /\ \A p \in Products : IsFiniteSet(LiveImages(p)')
    BY <2>1, <2>2 DEF CatalogIInv, OneAdder, ImagesInOrder, NextOrder
  <2>5. \A w \in Workers : ChangeAddressed(catalogCalls[w])'
    BY <2>1 DEF CatalogIInv, ChangeAddressed
  <2> QED BY <2>3, <2>4, <2>5 DEF CatalogIInv
<1> QED BY <1>1, <1>2, <1>3, <1>4, <1>5, <1>6, <1>7, <1>8, <1>9, <1>10 DEF CatalogNext

(* The invariant from which the others follow: nobody is about to save a   *)
(* buried row, and until the order of a product is lost, whoever counted   *)
(* its images is the only one to insert (products.service.ts:134-176).     *)
THEOREM CatalogInvariant == CatalogSpec => []CatalogIInv
<1> QED BY CatalogInitIInv, CatalogStepKeepsIInv, PTL DEF CatalogSpec

(* The rows, the images and the locals of the calls keep their types       *)
(* (products.service.ts:101-203, categories.service.ts:20-60).             *)
THEOREM CatalogTypesCorrect == CatalogSpec => []CatalogTypeOK
<1>1. CatalogIInv => CatalogTypeOK
  BY DEF CatalogIInv
<1> QED BY <1>1, CatalogInvariant, PTL

(* A row deleted while no update and no sale had it loaded is never live   *)
(* again, in any interleaving of the later calls (products.service.ts:134, *)
(* 157; inventory.service.ts:114, 123).                                    *)
THEOREM DeletedForGood == CatalogSpec => []BuriedStaysBuried
<1>1. CatalogIInv => BuriedStaysBuried
  BY DEF CatalogIInv, NobodySavesBuried, BuriedStaysBuried
<1> QED BY <1>1, CatalogInvariant, PTL

(* Until an image is removed or two are added at once, the images of a     *)
(* product are ordered 1, 2, ..., n (products.service.ts:173-176).         *)
THEOREM OrderWithoutGaps == CatalogSpec => []ImagesInOrder
<1>1. CatalogIInv => ImagesInOrder
  BY DEF CatalogIInv
<1> QED BY <1>1, CatalogInvariant, PTL

-----------------------------------------------------------------------------
(* Shop: what one service does is, to the others, a change of the offer or *)
(* nothing at all.                                                         *)

(* Only the seller changes the offer.                                      *)
LEMMA CartOfferSteps ==
  ASSUME CartNext
  PROVE  UNCHANGED storefront \/ \E p \in Products : Reoffer(p)
<1>1. ASSUME NEW w \in Workers, CartBegin(w) PROVE UNCHANGED storefront
  BY <1>1 DEF CartBegin, CartRequest
<1>2. ASSUME NEW w \in Workers, CartStep(w) PROVE UNCHANGED storefront
  BY <1>2 DEF CartStep, CartRefuse, AddFindProduct, AddReadCart, UpdateReadCart,
              UpdateCheckStock, RemoveReadCart, Store, FindRow, InsertRow, SaveRow,
              ClearRedis, ClearRows, CartFail
<1>3. ASSUME NEW u \in Users, Expire(u) PROVE UNCHANGED storefront
  BY <1>3 DEF Expire
<1> QED BY <1>1, <1>2, <1>3 DEF CartNext

LEMMA ReviewOfferSteps ==
  ASSUME ReviewsNext
  PROVE  UNCHANGED storefront \/ \E p \in Products : Reoffer(p)
<1>1. ASSUME NEW w \in Workers, ReviewBegin(w) PROVE UNCHANGED storefront
  BY <1>1 DEF ReviewBegin, ReviewRequest
<1>2. ASSUME NEW w \in Workers,
             \/ VerifyPurchase(w) \/ CheckExisting(w) \/ CheckProduct(w) \/ InsertReview(w)
             \/ ApproveFind(w) \/ ApproveSave(w) \/ ApproveLog(w)
             \/ DeleteFind(w) \/ DeleteReview(w) \/ ReviewRefuse(w) \/ ReviewFail(w)
      PROVE  UNCHANGED storefront
  BY <1>2 DEF VerifyPurchase, CheckExisting, CheckProduct, InsertReview, ApproveFind,
              ApproveSave, ApproveLog, DeleteFind, DeleteReview, ReviewRefuse, ReviewFail
<1> QED BY <1>1, <1>2 DEF ReviewsNext

LEMMA ShopStep ==
  [ShopNext]_shopVars =>
    [CartNext]_cartVars /\ [ReviewsNext]_reviewVars /\ [CatalogNext]_catalogVars
<1>1. ASSUME CartTurn
      PROVE  CartNext /\ [ReviewsNext]_reviewVars /\ UNCHANGED catalogVars
  <2>1. CartNext /\ UNCHANGED <<review, moderations, reviewCalls, contested, unlogged>>
        /\ UNCHANGED catalogVars
    BY <1>1 DEF CartTurn, ownReviews
  <2>2. CASE UNCHANGED storefront
    BY <2>1, <2>2 DEF reviewVars
  <2>3. CASE \E p \in Products : Reoffer(p)
    BY <2>1, <2>3 DEF ReviewsNext
  <2> QED BY <2>1, <2>2, <2>3, CartOfferSteps
<1>2. ASSUME ReviewsTurn
      PROVE  ReviewsNext /\ [CartNext]_cartVars /\ UNCHANGED catalogVars
  <2>1. ReviewsNext /\ UNCHANGED <<cartData, cartCalls, parted>> /\ UNCHANGED catalogVars
    BY <1>2 DEF ReviewsTurn, ownCart
  <2>2. CASE UNCHANGED storefront
    BY <2>1, <2>2 DEF cartVars
  <2>3. CASE \E p \in Products : Reoffer(p)
    BY <2>1, <2>3 DEF CartNext
  <2> QED BY <2>1, <2>2, <2>3, ReviewOfferSteps
<1>3. ASSUME CatalogTurn
      PROVE  CatalogNext /\ UNCHANGED cartVars /\ UNCHANGED reviewVars
  BY <1>3 DEF CatalogTurn, ownCart, ownReviews, cartVars, reviewVars
<1>4. ASSUME UNCHANGED shopVars
      PROVE  UNCHANGED cartVars /\ UNCHANGED reviewVars /\ UNCHANGED catalogVars
  BY <1>4 DEF shopVars, ownCart, ownReviews, cartVars, reviewVars
<1> QED BY <1>1, <1>2, <1>3, <1>4 DEF ShopNext

(* Interleaved with the others in any way, each service behaves as its own *)
(* specification says, so all that is proved of it alone holds in the shop *)
(* (app.module.ts:66-71).                                                  *)
THEOREM ShopIsItsServices == ShopSpec => CartSpec /\ ReviewsSpec /\ CatalogSpec
<1>1. ShopInit => CartInit /\ ReviewsInit /\ CatalogInit
  BY DEF ShopInit
<1> QED BY <1>1, ShopStep, PTL DEF ShopSpec, CartSpec, ReviewsSpec, CatalogSpec

(* The variables of the three services keep their types in the shop.       *)
THEOREM ShopTypesCorrect == ShopSpec => []ShopTypeOK
<1>1. CartTypeOK /\ ReviewsTypeOK /\ CatalogTypeOK => ShopTypeOK
  BY DEF ShopTypeOK
<1> QED BY <1>1, ShopIsItsServices, CartTypeCorrect, ReviewsTypesCorrect, CatalogTypesCorrect, PTL

(* Nothing that is promised of the cart, the reviews or the catalog is     *)
(* lost when they run side by side (app.module.ts:66-71).                  *)
THEOREM ShopKeepsItsPromises ==
  ShopSpec => [](/\ CartWithinStock /\ QuietWritesAgree
                 /\ OneReviewUnlessContested /\ ApprovedWasModerated
                 /\ BuriedStaysBuried /\ ImagesInOrder)
<1> QED BY ShopIsItsServices, StockRespected, QuietWriteMends, OneReviewPerPurchase,
           ApprovalsAreLogged, DeletedForGood, OrderWithoutGaps, PTL
=============================================================================

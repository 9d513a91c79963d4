---------------------------- MODULE StockAccount ----------------------------
(***************************************************************************)
(* What the inventory service promises about one product: an account of    *)
(* units that are available, reserved or committed, changed only by whole  *)
(* operations.  Inventory implements it with row locks and transactions;   *)
(* Orders calls it as one committed step, because every reserve and every  *)
(* adjustment runs in a transaction of its own.                            *)
(***************************************************************************)
EXTENDS Integers

CONSTANTS
  Products,
  Quantities,   \* units a call may ask for
  Opening       \* [Products -> Account]: the accounts before the first call

Account == [available : Nat, reserved : Nat, committed : Nat]

VARIABLE account

(* The arithmetic of the three operations on one row.                      *)
Columns(a, r, c)   == [available |-> a, reserved |-> r, committed |-> c]
AfterReserve(a, q) == Columns(a.available - q, a.reserved + q, a.committed)
AfterReceive(a, q) == Columns(a.available + q, a.reserved, a.committed)
AfterSell(a, q)    == Columns(a.available - q, a.reserved, a.committed + q)

-----------------------------------------------------------------------------

Init == account = Opening

(* reserveInventory: refused when fewer than q units are available.        *)
Reserve(p, q) ==
  /\ account[p].available >= q
  /\ account' = [account EXCEPT ![p] = AfterReserve(@, q)]

(* adjustInventory with a positive quantity, cancelReservation included:   *)
(* the units come back to available and reserved is left as it was.        *)
Receive(p, q) ==
  account' = [account EXCEPT ![p] = AfterReceive(@, q)]

(* adjustInventory with a negative quantity, commitReservation included.   *)
Sell(p, q) ==
  /\ account[p].available >= q
  /\ account' = [account EXCEPT ![p] = AfterSell(@, q)]

Next ==
  \E p \in Products, q \in Quantities :
    Reserve(p, q) \/ Receive(p, q) \/ Sell(p, q)

Spec == Init /\ [][Next]_account
=============================================================================

------------------------------- MODULE Charges -------------------------------
(***************************************************************************)
(* What the payment service promises about an order and its charge: a      *)
(* charge is opened while the order is PENDING and has no other, it is     *)
(* declined, which lets another be opened, or it succeeds, once and for    *)
(* all, and then for an order that has been PAID.                          *)
(***************************************************************************)
EXTENDS OrderLife

VARIABLES
  paid,     \* orders that have been PAID
  charge    \* [Orders -> {None, "PENDING", "SUCCEEDED"}]

ChargesInit ==
  /\ Init
  /\ paid = {}
  /\ charge = [o \in Orders |-> None]

(* The order is placed, or its status updated, for whoever asked.          *)
PlaceOrder(o) == Place(o) /\ UNCHANGED <<paid, charge>>
MoveOrder(o, s) ==
  /\ Move(o, s)
  /\ paid' = IF s = "PAID" THEN paid \cup {o} ELSE paid
  /\ UNCHANGED charge

(* createPaymentIntent, as a whole.                                        *)
Open(o) ==
  /\ status[o] = "PENDING"
  /\ charge[o] = None
  /\ charge' = [charge EXCEPT ![o] = "PENDING"]
  /\ UNCHANGED <<status, paid>>

(* The two ends of confirmPayment.                                         *)
Decline(o) ==
  /\ charge[o] = "PENDING"
  /\ charge' = [charge EXCEPT ![o] = None]
  /\ UNCHANGED <<status, paid>>

Succeed(o) ==
  /\ charge[o] = "PENDING"
  /\ o \in paid
  /\ charge' = [charge EXCEPT ![o] = "SUCCEEDED"]
  /\ UNCHANGED <<status, paid>>

ChargesNext ==
  \E o \in Orders :
    \/ PlaceOrder(o) \/ Open(o) \/ Decline(o) \/ Succeed(o)
    \/ \E s \in Statuses : MoveOrder(o, s)

ChargesSpec == ChargesInit /\ [][ChargesNext]_<<status, paid, charge>>
=============================================================================

------------------------------ MODULE OrderLife ------------------------------
(***************************************************************************)
(* What the orders table promises of an order: it is placed once, PENDING, *)
(* and its status then moves along validTransitions, one move at a time.   *)
(* Orders implements it with transactions that fail and row locks, and     *)
(* Payments, whose confirmations move orders too, implements it as well.   *)
(***************************************************************************)
EXTENDS OrderStatus

CONSTANTS Orders, None

VARIABLE status   \* [Orders -> Statuses \cup {None}]

Init == status \in [Orders -> {None, "PENDING"}]

(* createOrder, as a whole.                                                *)
Place(o) ==
  /\ status[o] = None
  /\ status' = [status EXCEPT ![o] = "PENDING"]

(* updateStatus, as a whole: decided and saved in one step.                *)
Move(o, s) ==
  /\ status[o] # None
  /\ s \in ValidTransitions[status[o]]
  /\ status' = [status EXCEPT ![o] = s]

Next == \E o \in Orders : Place(o) \/ \E s \in Statuses : Move(o, s)

Spec == Init /\ [][Next]_status
=============================================================================

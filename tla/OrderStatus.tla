----------------------------- MODULE OrderStatus -----------------------------
(***************************************************************************)
(* The statuses of an order and the transitions updateStatus accepts.      *)
(***************************************************************************)

Statuses == {"PENDING", "PAID", "SHIPPED", "COMPLETED", "CANCELLED"}

ValidTransitions ==
  [s \in Statuses |->
     CASE s = "PENDING" -> {"PAID", "CANCELLED"}
       [] s = "PAID"    -> {"SHIPPED", "CANCELLED"}
       [] s = "SHIPPED" -> {"COMPLETED", "CANCELLED"}
       [] OTHER         -> {}]
=============================================================================

------------------------------ MODULE MCPayments ------------------------------
(* Finite instances of Payments.                                           *)
EXTENDS Payments, TLC

CONSTANTS o1, o2, i1, i2, k1, k2, w1, w2, w3

OneOrder     == {o1}
TwoOrders    == {o1, o2}
TwoIntents   == {i1, i2}
OneKey       == {k1}
TwoKeys      == {k1, k2}
TwoWorkers   == {w1, w2}
ThreeWorkers == {w1, w2, w3}

CancelOrShip == {"CANCELLED", "SHIPPED"}
CancelOnly   == {"CANCELLED"}

IdSymmetry == Permutations(Intents) \cup Permutations(Workers) \cup Permutations(Keys)
=============================================================================

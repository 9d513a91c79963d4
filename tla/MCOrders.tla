------------------------------- MODULE MCOrders -------------------------------
(* Finite instances of Orders.                                             *)
EXTENDS Orders, TLC

CONSTANTS p1, p2, u1, u2, o1, o2, w1, w2

TwoProducts == {p1, p2}
OneUser     == {u1}
TwoUsers    == {u1, u2}
TwoOrders   == {o1, o2}
TwoWorkers  == {w1, w2}

Holding(n) == [available |-> n, reserved |-> 0, committed |-> 0]
OneUnit  == [p \in Products |-> Holding(1)]
TwoUnits == [p \in Products |-> Holding(2)]

Line(p, q) == [product |-> p, quantity |-> q]
TwoLines == {<<Line(p1, 1), Line(p2, 2)>>, <<Line(p2, 1), Line(p1, 1)>>}

OrderSymmetry == Permutations(Orders) \cup Permutations(Workers)
=============================================================================

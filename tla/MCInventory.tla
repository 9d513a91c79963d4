----------------------------- MODULE MCInventory -----------------------------
(* Finite instances of Inventory.                                          *)
EXTENDS Inventory, TLC

CONSTANTS p1, p2, r1, r2, w1, w2

OneProduct  == {p1}
TwoProducts == {p1, p2}
TwoRows     == {r1, r2}
NoRows      == {}
TwoWorkers  == {w1, w2}

AllOfOne    == [r \in Rows |-> p1]
OneEach     == [r \in Rows |-> IF r = r1 THEN p1 ELSE p2]
OneUnit     == [p \in Products |-> 1]
ReserveOnly == {"reserve"}
StockOnly   == {"reserve", "adjust"}

One       == {1}
OneOrTwo  == {1, 2}
EitherWay == {-1, 1}
=============================================================================

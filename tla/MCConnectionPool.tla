--------------------------- MODULE MCConnectionPool ---------------------------
(* Finite instances of ConnectionPool.                                     *)
EXTENDS ConnectionPool, TLC

CONSTANTS r1, r2, r3, o1, o2

TwoRequests   == {r1, r2}
ThreeRequests == {r1, r2, r3}
TwoOrders     == {o1, o2}
OneOrThree    == {1, 3}
=============================================================================

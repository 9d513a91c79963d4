------------------------------- MODULE MCShop -------------------------------
(* A finite instance of the shop.  No service writes what another reads    *)
(* here, so a behaviour holds the requests of one of them: "service" is    *)
(* drawn at the start.                                                     *)
EXTENDS Shop, TLC

CONSTANTS u1, p1, r1, r2, r3, c1, i1, i2, s1, s2, w1, w2

VARIABLE service

OneUser      == {u1}
OneProduct   == {p1}
TwoWorkers   == {w1, w2}
OneOrTwo     == {1, 2}
ThreeReviews == {r1, r2, r3}
AllBought    == {<<u1, p1>>}
OneCategory  == {c1}
TwoImages    == {i1, i2}
TwoSellers   == {s1, s2}

ShopSymmetry == Permutations(Workers) \cup Permutations(Reviews)

OneServiceInit == service \in {"cart", "reviews", "catalog"} /\ ShopInit

OneServiceNext ==
  \/ service = "cart" /\ CartTurn /\ UNCHANGED service
  \/ service = "reviews" /\ ReviewsTurn /\ UNCHANGED service
  \/ service = "catalog" /\ CatalogTurn /\ UNCHANGED service

OneServiceSpec == OneServiceInit /\ [][OneServiceNext]_<<service, shopVars>>
=============================================================================

--------------------------------- MODULE Shop --------------------------------
(***************************************************************************)
(* The cart, the reviews and the catalog services as the application runs  *)
(* them: side by side, each serving its requests, in any interleaving.     *)
(* The cart and the reviews look at one offer; each service writes its own *)
(* tables.                                                                 *)
(***************************************************************************)
EXTENDS Cart, Reviews, Catalog

ownCart    == <<cartData, cartCalls, parted>>
ownReviews == <<review, moderations, reviewCalls, contested, unlogged>>
shopVars   == <<storefront, ownCart, ownReviews, catalogVars>>

ShopInit == CartInit /\ ReviewsInit /\ CatalogInit

CartTurn    == CartNext /\ UNCHANGED <<ownReviews, catalogVars>>
ReviewsTurn == ReviewsNext /\ UNCHANGED <<ownCart, catalogVars>>
CatalogTurn == CatalogNext /\ UNCHANGED <<storefront, ownCart, ownReviews>>

ShopNext == CartTurn \/ ReviewsTurn \/ CatalogTurn

ShopSpec == ShopInit /\ [][ShopNext]_shopVars
-----------------------------------------------------------------------------

(* The variables of the three services have their types.                   *)
ShopTypeOK == CartTypeOK /\ ReviewsTypeOK /\ CatalogTypeOK
=============================================================================

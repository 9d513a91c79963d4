----------------------------- MODULE Storefront -----------------------------
(***************************************************************************)
(* What the cart and the review service share: the products that           *)
(* productsService.findOne finds, with the stock quantity it reads.        *)
(***************************************************************************)
EXTENDS Requests

CONSTANT StockLevels   \* values of products.stockQuantity

ASSUME StockLevelsAssumption == StockLevels \subseteq Nat
ASSUME LevelsAssumption == None \notin StockLevels

VARIABLES
  offer,        \* [Products -> StockLevels \cup {None}]: stockQuantity, None when not found
  peak          \* the highest stockQuantity each product has had (history)

storefront == <<offer, peak>>

StorefrontInit ==
  /\ offer \in [Products -> StockLevels]
  /\ peak = offer

(* productsService.update changes the quantity, remove withdraws the       *)
(* product, and an update that had loaded it before saves it back.         *)
Reoffer(p) ==
  /\ \E n \in (StockLevels \cup {None}) \ {offer[p]} :
       /\ offer' = [offer EXCEPT ![p] = n]
       /\ peak' = [peak EXCEPT ![p] = IF n # None /\ n > @ THEN n ELSE @]

StorefrontTypeOK ==
  /\ offer \in [Products -> StockLevels \cup {None}]
  /\ peak \in [Products -> StockLevels]

(* Nothing is offered beyond its peak.                                     *)
PeakIsHighest == \A p \in Products : offer[p] # None => offer[p] <= peak[p]
=============================================================================

------------------------------- MODULE Catalog ------------------------------
(***************************************************************************)
(* The products, images and categories services.  Each call loads what it  *)
(* changes, checks it, and saves; deletion sets deletedAt.  A sale of the  *)
(* inventory service loads and saves the product too: what that does to    *)
(* its deletion is here, what it counts is in module Inventory.            *)
(***************************************************************************)
EXTENDS Requests

CONSTANTS
  Categories,
  Images,       \* ids the product_images table can generate
  Sellers

ASSUME CatalogNoneAssumption ==
  None \notin Categories \cup Images \cup Sellers /\ Categories \cap Products = {}

VARIABLES
  row,          \* [Products \cup Categories -> {"none", "live", "deleted"}]
  ofSeller,     \* [Products -> Sellers \cup {None}]: products.sellerId
  image,        \* [Images -> ImageRow \cup {None}]
  catalogCalls, \* [Workers -> CatalogCall]
  buried,       \* rows deleted while nobody was about to save them (history)
  shuffled      \* products an image of which was removed, or two of whose
                \* images were added at once (history)

catalogVars == <<row, ofSeller, image, catalogCalls, buried, shuffled>>

ImageRow    == [product : Products, sortOrder : Nat, deleted : BOOLEAN]
ASSUME ImageRowAssumption == None \notin ImageRow
CatalogCall == [at : {"idle", "create", "create_insert", "update", "update_category",
                      "update_save", "remove", "remove_delete", "add_image", "add_count",
                      "add_insert", "remove_image", "remove_image_delete",
                      "sell", "sell_save"},
                target : Products \cup Categories \cup {None},
                seller : Sellers \cup {None},      \* the caller, for a product
                category : Categories \cup {None}, \* dto.categoryId
                image : Images \cup {None}, sortOrder : Nat]
NoChange    == [at |-> "idle", target |-> None, seller |-> None, category |-> None,
                image |-> None, sortOrder |-> 0]

CatalogInit ==
  /\ row = [x \in Products \cup Categories |-> "none"]
  /\ ofSeller = [p \in Products |-> None]
  /\ image = [i \in Images |-> None]
  /\ catalogCalls = [w \in Workers |-> NoChange]
  /\ buried = {}
  /\ shuffled = {}

Changing(w, label)   == catalogCalls[w].at = label
CatalogReturn(w)     == catalogCalls' = [catalogCalls EXCEPT ![w] = NoChange]
CatalogStep(w, call) == /\ catalogCalls' = [catalogCalls EXCEPT ![w] = call]
                        /\ UNCHANGED <<row, ofSeller, image, buried>>

(* No caller is the 'ADMIN' that update and remove would let pass: the     *)
(* controllers hand over the id of a user.                                 *)
Owned(c)      == c.target \in Products => ofSeller[c.target] = c.seller
LiveImages(p) == {i \in Images : image[i] # None /\ image[i].product = p /\ ~image[i].deleted}
Saving        == {"update_category", "update_save", "sell_save"}
Savers(x)     == {w \in Workers : catalogCalls[w].target = x
                                    /\ catalogCalls[w].at \in Saving}
Adders(p)     == {w \in Workers : catalogCalls[w].target = p /\ Changing(w, "add_insert")}

-----------------------------------------------------------------------------

CatalogRequest(w, call) ==
  /\ Changing(w, "idle")
  /\ CatalogStep(w, call)
  /\ UNCHANGED shuffled

(* categoriesService.create is one insert; so is productsService.create    *)
(* once it has found the category.                                         *)
CreateFindCategory(w) ==
  LET c == catalogCalls[w] IN
  /\ Changing(w, "create")
  /\ c.target \in Products => row[c.category] = "live"
  /\ CatalogStep(w, [c EXCEPT !.at = "create_insert"])
  /\ UNCHANGED shuffled

CreateInsert(w) ==
  LET c == catalogCalls[w] IN
  /\ Changing(w, "create_insert")
  /\ row[c.target] = "none"
  /\ row' = [row EXCEPT ![c.target] = "live"]
  /\ ofSeller' = IF c.target \in Products
                 THEN [ofSeller EXCEPT ![c.target] = c.seller] ELSE ofSeller
  /\ CatalogReturn(w)
  /\ UNCHANGED <<image, buried, shuffled>>

(* findOne and the check of the owner, first in every other call.          *)
FoundDeleted(c) == row[c.target] # "none" /\ Owned(c)
Found(c)        == row[c.target] = "live" /\ Owned(c)

UpdateFind(w) ==
  LET c == catalogCalls[w] IN
  /\ Changing(w, "update")
  /\ Found(c)
  /\ CatalogStep(w, [c EXCEPT !.at = IF c.category # None THEN "update_category"
                                     ELSE "update_save"])
  /\ UNCHANGED shuffled

UpdateFindCategory(w) ==
  LET c == catalogCalls[w] IN
  /\ Changing(w, "update_category")
  /\ row[c.category] = "live"
  /\ CatalogStep(w, [c EXCEPT !.at = "update_save"])
  /\ UNCHANGED shuffled

(* adjustInventory with a negative quantity: the product, whoever owns it. *)
SellFind(w) ==
  LET c == catalogCalls[w] IN
  /\ Changing(w, "sell")
  /\ row[c.target] = "live"
  /\ CatalogStep(w, [c EXCEPT !.at = "sell_save"])
  /\ UNCHANGED shuffled

(* Either save writes the empty deletedAt of the entity it loaded.         *)
SaveChange(w) ==
  LET c == catalogCalls[w] IN
  /\ Changing(w, "update_save") \/ Changing(w, "sell_save")
  /\ row' = [row EXCEPT ![c.target] = "live"]
  /\ CatalogReturn(w)
  /\ UNCHANGED <<ofSeller, image, buried, shuffled>>

(* categoriesService.remove does not look the row up first.                *)
RemoveFind(w) ==
  LET c == catalogCalls[w] IN
  /\ Changing(w, "remove")
  /\ c.target \in Products => Found(c)
  /\ CatalogStep(w, [c EXCEPT !.at = "remove_delete"])
  /\ UNCHANGED shuffled

RemoveRow(w) ==
  LET x == catalogCalls[w].target IN
  /\ Changing(w, "remove_delete")
  /\ row' = [row EXCEPT ![x] = IF @ = "none" THEN @ ELSE "deleted"]
  /\ buried' = IF row[x] # "none" /\ Savers(x) = {} THEN buried \cup {x} ELSE buried
  /\ CatalogReturn(w)
  /\ UNCHANGED <<ofSeller, image, shuffled>>

AddImageFind(w) ==
  LET c == catalogCalls[w] IN
  /\ Changing(w, "add_image")
  /\ Found(c)
  /\ CatalogStep(w, [c EXCEPT !.at = "add_count"])
  /\ UNCHANGED shuffled

(* The count does not include deleted images.                              *)
CountFromZero(p) == Cardinality(LiveImages(p))
LastIndex(p)     == Cardinality(LiveImages(p)) - 1
NextOrder(p)     == Cardinality(LiveImages(p)) + 1

AddImageCount(w) ==
  LET c == catalogCalls[w] IN
  /\ Changing(w, "add_count")
  /\ CatalogStep(w, [c EXCEPT !.at = "add_insert", !.sortOrder = NextOrder(c.target)])
  /\ shuffled' = IF Adders(c.target) = {} THEN shuffled ELSE shuffled \cup {c.target}

AddImageInsert(w) ==
  LET c == catalogCalls[w] IN
  /\ Changing(w, "add_insert")
  /\ \E i \in Images :
       /\ image[i] = None
       /\ image' = [image EXCEPT ![i] = [product |-> c.target, sortOrder |-> c.sortOrder,
                                         deleted |-> FALSE]]
  /\ CatalogReturn(w)
  /\ UNCHANGED <<row, ofSeller, buried, shuffled>>

RemoveImageFind(w) ==
  LET c == catalogCalls[w] IN
  /\ Changing(w, "remove_image")
  /\ Found(c)
  /\ CatalogStep(w, [c EXCEPT !.at = "remove_image_delete"])
  /\ UNCHANGED shuffled

RemoveImage(w) ==
  LET c == catalogCalls[w] IN
  /\ Changing(w, "remove_image_delete")
  /\ image' = IF image[c.image].product = c.target
              THEN [image EXCEPT ![c.image].deleted = TRUE] ELSE image
  /\ shuffled' = shuffled \cup {c.target}
  /\ CatalogReturn(w)
  /\ UNCHANGED <<row, ofSeller, buried>>

CatalogRefuse(w) ==
  LET c == catalogCalls[w] IN
  /\ CASE c.at = "create"            -> c.target \in Products /\ row[c.category] # "live"
       [] c.at = "create_insert"     -> row[c.target] # "none"
       [] c.at = "update_category"   -> row[c.category] # "live"
       [] c.at = "sell"              -> row[c.target] # "live"
       [] c.at = "remove"            -> c.target \in Products /\ ~Found(c)
       [] c.at \in {"update", "add_image", "remove_image"} -> ~Found(c)
       [] OTHER                      -> FALSE
  /\ CatalogReturn(w)
  /\ UNCHANGED <<row, ofSeller, image, buried, shuffled>>

CatalogFail(w) ==
  /\ ~Changing(w, "idle")
  /\ CatalogReturn(w)
  /\ UNCHANGED <<row, ofSeller, image, buried, shuffled>>

CatalogBegin(w) ==
  \/ \E x \in Categories, entry \in {"create", "update", "remove"} :
       CatalogRequest(w, [NoChange EXCEPT !.at = entry, !.target = x])
  \/ \E p \in Products : CatalogRequest(w, [NoChange EXCEPT !.at = "sell", !.target = p])
  \/ \E p \in Products, s \in Sellers :
       LET Product(entry) == [NoChange EXCEPT !.at = entry, !.target = p, !.seller = s] IN
       \/ \E entry \in {"update", "remove", "add_image"} : CatalogRequest(w, Product(entry))
       \/ \E entry \in {"create", "update"}, c \in Categories :
            CatalogRequest(w, [Product(entry) EXCEPT !.category = c])
       \/ \E i \in {j \in Images : image[j] # None} :
            CatalogRequest(w, [Product("remove_image") EXCEPT !.image = i])

CatalogNext ==
  \E w \in Workers :
    \/ CatalogBegin(w)
    \/ CreateFindCategory(w) \/ CreateInsert(w)
    \/ UpdateFind(w) \/ UpdateFindCategory(w) \/ SellFind(w) \/ SaveChange(w)
    \/ RemoveFind(w) \/ RemoveRow(w)
    \/ AddImageFind(w) \/ AddImageCount(w) \/ AddImageInsert(w)
    \/ RemoveImageFind(w) \/ RemoveImage(w)
    \/ CatalogRefuse(w) \/ CatalogFail(w)

CatalogSpec == CatalogInit /\ [][CatalogNext]_catalogVars
-----------------------------------------------------------------------------

CatalogTypeOK ==
  /\ row \in [Products \cup Categories -> {"none", "live", "deleted"}]
  /\ ofSeller \in [Products -> Sellers \cup {None}]
  /\ image \in [Images -> ImageRow \cup {None}]
  /\ catalogCalls \in [Workers -> CatalogCall]
  /\ buried \subseteq Products \cup Categories
  /\ shuffled \subseteq Products

(* What is deleted stays deleted, whatever updates and sales start later,  *)
(* unless one had already loaded it (products.service.ts:134, 145, 157;    *)
(* inventory.service.ts:114, 123; categories.service.ts:47, 49, 53).       *)
BuriedStaysBuried == \A x \in buried : row[x] = "deleted"

(* The images of a product are ordered 1, 2, ... without gap or tie, until *)
(* one is removed or two are added at once (products.service.ts:173-176).  *)
ImagesInOrder ==
  \A p \in Products \ shuffled :
    {image[i].sortOrder : i \in LiveImages(p)} = 1..Cardinality(LiveImages(p))

(* What the proofs keep: what a call is about; nobody is about to save a   *)
(* buried row; a product has finitely many images, and until its order is  *)
(* lost, one image at most is being added, as the next one.                *)
ChangeAddressed(c) ==
  /\ c.at # "idle" => c.target \in Products \cup Categories
  /\ c.at \notin {"idle", "sell", "sell_save"} /\ c.target \in Products => c.seller \in Sellers
  /\ c.at \in {"add_image", "add_count", "add_insert", "remove_image", "remove_image_delete"} =>
       c.target \in Products
  /\ c.at \in {"remove_image", "remove_image_delete"} =>
       c.image \in Images /\ image[c.image] # None
NobodySavesBuried == \A x \in buried : row[x] = "deleted" /\ Savers(x) = {}
OneAdder ==
  \A p \in Products \ shuffled :
    \A v, w \in Adders(p) : v = w /\ catalogCalls[w].sortOrder = NextOrder(p)
CatalogIInv ==
  /\ CatalogTypeOK /\ NobodySavesBuried /\ OneAdder /\ ImagesInOrder
  /\ \A p \in Products : IsFiniteSet(LiveImages(p))
  /\ \A w \in Workers : ChangeAddressed(catalogCalls[w])
=============================================================================

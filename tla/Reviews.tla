------------------------------- MODULE Reviews ------------------------------
(***************************************************************************)
(* The review service: create looks for a purchase, for an earlier review  *)
(* and for the product, and then inserts; approveReview saves the review   *)
(* and then its moderation row.  No transaction, and no unique index on    *)
(* the user and the product.                                               *)
(***************************************************************************)
EXTENDS Storefront

CONSTANTS
  Reviews,    \* ids the reviews table can generate
  Bought      \* pairs of a user and a product in the user's orders: what
              \* ordersService.findAll shows verifyPurchase

ASSUME BoughtAssumption == Bought \subseteq Users \X Products
ASSUME ReviewsAssumption == None \notin Reviews

VARIABLES
  review,       \* [Reviews -> ReviewRow \cup {None}]
  moderations,  \* [Reviews -> Nat]: rows of review_moderations
  reviewCalls,  \* [Workers -> ReviewCall]
  contested,    \* pairs of a user and a product about which calls overlapped (history)
  unlogged      \* reviews whose approval died before its moderation row (history)

reviewVars == <<storefront, review, moderations, reviewCalls, contested, unlogged>>

ReviewRow  == [user : Users, product : Products, status : {"PENDING", "APPROVED"},
               deleted : BOOLEAN]
ASSUME ReviewRowAssumption == None \notin ReviewRow
ReviewCall == [at : {"idle", "create", "create_check", "create_product", "create_insert",
                     "approve", "approve_save", "approve_log", "delete", "delete_save"},
               user : Users \cup {None}, product : Products \cup {None},
               review : Reviews \cup {None}]
NoReview   == [at |-> "idle", user |-> None, product |-> None, review |-> None]

ReviewsInit ==
  /\ StorefrontInit
  /\ review = [r \in Reviews |-> None]
  /\ moderations = [r \in Reviews |-> 0]
  /\ reviewCalls = [w \in Workers |-> NoReview]
  /\ contested = {}
  /\ unlogged = {}

Live(r)             == review[r] # None /\ ~review[r].deleted
LiveReviews(u, p)   == {r \in Reviews : Live(r) /\ review[r].user = u /\ review[r].product = p}
Reviewing(w, label) == reviewCalls[w].at = label
ReviewReturn(w)     == reviewCalls' = [reviewCalls EXCEPT ![w] = NoReview]
ReviewStep(w, label) ==
  reviewCalls' = [reviewCalls EXCEPT ![w].at = label] /\ UNCHANGED <<contested, unlogged>>

-----------------------------------------------------------------------------

(* A call about u's review of p begins.                                    *)
ReviewRequest(w, entry, u, p, r) ==
  /\ Reviewing(w, "idle")
  /\ reviewCalls' = [reviewCalls EXCEPT ![w] =
                       [at |-> entry, user |-> u, product |-> p, review |-> r]]
  /\ contested' = IF \E v \in Workers : reviewCalls[v].user = u /\ reviewCalls[v].product = p
                  THEN contested \cup {<<u, p>>} ELSE contested
  /\ UNCHANGED <<storefront, review, moderations, unlogged>>

VerifyPurchase(w) ==
  LET c == reviewCalls[w] IN
  /\ Reviewing(w, "create")
  /\ <<c.user, c.product>> \in Bought
  /\ ReviewStep(w, "create_check")
  /\ UNCHANGED <<storefront, review, moderations>>

(* Both statuses count: the reviews not deleted.                           *)
ApprovedOnly(u, p) == {r \in LiveReviews(u, p) : review[r].status = "APPROVED"}
Earlier(u, p)      == LiveReviews(u, p)

CheckExisting(w) ==
  LET c == reviewCalls[w] IN
  /\ Reviewing(w, "create_check")
  /\ Earlier(c.user, c.product) = {}
  /\ ReviewStep(w, "create_product")
  /\ UNCHANGED <<storefront, review, moderations>>

CheckProduct(w) ==
  /\ Reviewing(w, "create_product")
  /\ offer[reviewCalls[w].product] # None
  /\ ReviewStep(w, "create_insert")
  /\ UNCHANGED <<storefront, review, moderations>>

InsertReview(w) ==
  LET c == reviewCalls[w] IN
  /\ Reviewing(w, "create_insert")
  /\ \E r \in Reviews :
       /\ review[r] = None
       /\ review' = [review EXCEPT ![r] = [user |-> c.user, product |-> c.product,
                                           status |-> "PENDING", deleted |-> FALSE]]
  /\ ReviewReturn(w)
  /\ UNCHANGED <<storefront, moderations, contested, unlogged>>

ApproveFind(w) ==
  LET r == reviewCalls[w].review IN
  /\ Reviewing(w, "approve")
  /\ Live(r) /\ review[r].status = "PENDING"
  /\ ReviewStep(w, "approve_save")
  /\ UNCHANGED <<storefront, review, moderations>>

(* The save of an entity loaded before the review was deleted also writes  *)
(* its empty deletedAt back.                                               *)
ForgetsToLog(w) == ReviewReturn(w) /\ UNCHANGED <<contested, unlogged>>
ThenLogs(w)     == ReviewStep(w, "approve_log")

ApproveSave(w) ==
  LET r == reviewCalls[w].review IN
  /\ Reviewing(w, "approve_save")
  /\ review' = [review EXCEPT ![r].status = "APPROVED", ![r].deleted = FALSE]
  /\ ThenLogs(w)
  /\ UNCHANGED <<storefront, moderations>>

ApproveLog(w) ==
  /\ Reviewing(w, "approve_log")
  /\ moderations' = [moderations EXCEPT ![reviewCalls[w].review] = @ + 1]
  /\ ReviewReturn(w)
  /\ UNCHANGED <<storefront, review, contested, unlogged>>

DeleteFind(w) ==
  /\ Reviewing(w, "delete")
  /\ Live(reviewCalls[w].review)
  /\ ReviewStep(w, "delete_save")
  /\ UNCHANGED <<storefront, review, moderations>>

DeleteReview(w) ==
  /\ Reviewing(w, "delete_save")
  /\ review' = [review EXCEPT ![reviewCalls[w].review].deleted = TRUE]
  /\ ReviewReturn(w)
  /\ UNCHANGED <<storefront, moderations, contested, unlogged>>

ReviewRefuse(w) ==
  LET c == reviewCalls[w] IN
  /\ CASE c.at = "create"         -> <<c.user, c.product>> \notin Bought
       [] c.at = "create_check"   -> Earlier(c.user, c.product) # {}
       [] c.at = "create_product" -> offer[c.product] = None
       [] c.at = "approve"        -> ~Live(c.review) \/ review[c.review].status # "PENDING"
       [] c.at = "delete"         -> ~Live(c.review)
       [] OTHER                   -> FALSE
  /\ ReviewReturn(w)
  /\ UNCHANGED <<storefront, review, moderations, contested, unlogged>>

ReviewFail(w) ==
  /\ ~Reviewing(w, "idle")
  /\ ReviewReturn(w)
  /\ unlogged' = IF Reviewing(w, "approve_log")
                 THEN unlogged \cup {reviewCalls[w].review} ELSE unlogged
  /\ UNCHANGED <<storefront, review, moderations, contested>>

ReviewBegin(w) ==
  \/ \E u \in Users, p \in Products : ReviewRequest(w, "create", u, p, None)
  \/ \E r \in {s \in Reviews : review[s] # None}, entry \in {"approve", "delete"} :
       ReviewRequest(w, entry, review[r].user, review[r].product, r)

ReviewsNext ==
  \/ \E w \in Workers :
       \/ ReviewBegin(w)
       \/ VerifyPurchase(w) \/ CheckExisting(w) \/ CheckProduct(w) \/ InsertReview(w)
       \/ ApproveFind(w) \/ ApproveSave(w) \/ ApproveLog(w)
       \/ DeleteFind(w) \/ DeleteReview(w)
       \/ ReviewRefuse(w) \/ ReviewFail(w)
  \/ \E p \in Products :
       Reoffer(p) /\ UNCHANGED <<review, moderations, reviewCalls, contested, unlogged>>

ReviewsSpec == ReviewsInit /\ [][ReviewsNext]_reviewVars
-----------------------------------------------------------------------------

ReviewsTypeOK ==
  /\ StorefrontTypeOK
  /\ review \in [Reviews -> ReviewRow \cup {None}]
  /\ moderations \in [Reviews -> Nat]
  /\ reviewCalls \in [Workers -> ReviewCall]
  /\ contested \subseteq Users \X Products
  /\ unlogged \subseteq Reviews

(* "User can only submit one review per product" (reviews.service.ts:50):  *)
(* submitting, deleting and submitting again, moderated or not, a user has *)
(* at most one review of a product unless calls about it overlapped.       *)
OneReviewUnlessContested ==
  \A u \in Users, p \in Products :
    <<u, p>> \notin contested => Cardinality(LiveReviews(u, p)) <= 1

(* The moderation log accounts for every approved review, but for those    *)
(* whose approval died between its two writes, and names no other review   *)
(* (reviews.service.ts:169-179).                                           *)
ApprovedWasModerated ==
  \A r \in Reviews :
    IF review[r] # None /\ review[r].status = "APPROVED"
    THEN \/ moderations[r] > 0
         \/ r \in unlogged
         \/ \E w \in Workers : Reviewing(w, "approve_log") /\ reviewCalls[w].review = r
    ELSE moderations[r] = 0

(* What the proofs keep: whom and what a call is about; while no two calls *)
(* about a pair overlapped, there is one at most, so that a creation that  *)
(* found no review still finds none, and an approval that found one saves  *)
(* one that is not deleted.                                                *)
ReviewAddressed(c) ==
  /\ c.at = "idle" <=> c.user = None
  /\ c.at # "idle" => c.user \in Users /\ c.product \in Products
  /\ c.at \in {"approve", "approve_save", "approve_log", "delete", "delete_save"} =>
       /\ c.review \in Reviews /\ review[c.review] # None
       /\ review[c.review].user = c.user /\ review[c.review].product = c.product
  /\ c.at = "approve_log" => review[c.review].status = "APPROVED"
PairOf(c) == <<c.user, c.product>>
AloneUnlessContested ==
  \A v, w \in Workers :
    ~Reviewing(v, "idle") /\ PairOf(reviewCalls[v]) = PairOf(reviewCalls[w])
      => v = w \/ PairOf(reviewCalls[v]) \in contested
StillAsFound(c) ==
  PairOf(c) \in contested \/
    /\ c.at \in {"create_product", "create_insert"} => LiveReviews(c.user, c.product) = {}
    /\ c.at = "approve_save" => Live(c.review)
OneLive ==
  \A r, s \in Reviews :
    Live(r) /\ Live(s) /\ PairOf(review[r]) = PairOf(review[s])
      => r = s \/ PairOf(review[r]) \in contested

ReviewsIInv ==
  /\ ReviewsTypeOK /\ AloneUnlessContested /\ OneLive /\ ApprovedWasModerated
  /\ \A w \in Workers : ReviewAddressed(reviewCalls[w]) /\ StillAsFound(reviewCalls[w])
=============================================================================

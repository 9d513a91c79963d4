------------------------------- MODULE Coupons ------------------------------
(***************************************************************************)
(* The coupon service.  applyCoupon checks the limits and changes nothing; *)
(* recordUsage, which takes the discount that applyCoupon answered with,   *)
(* counts a use without looking at the limits again.  Both read, wait and  *)
(* write without a transaction.                                            *)
(***************************************************************************)
EXTENDS Requests

CONSTANTS
  Coupons,         \* codes, each the code of at most one row: idx_coupons_code is unique
  MaxUses, MaxUsesPerUser,   \* the columns of every coupon
  MaxApprovals     \* bound: uses of a coupon that a user has asked for and not recorded

ASSUME LimitsAssumption == {MaxUses, MaxUsesPerUser, MaxApprovals} \subseteq Nat \ {0}

VARIABLES
  coupon,       \* [Coupons -> CouponRow]
  usages,       \* [Coupons -> Seq(Users)]: the rows of coupon_usages, by their user
  approvals,    \* [Coupons -> [Users -> Nat]]: valid replies not yet recorded
  couponCalls,  \* [Workers -> CouponCall]
  uncounted     \* coupons whose recordings overlapped, or one of them died (history)

couponVars == <<coupon, usages, approvals, couponCalls, uncounted>>

CouponRow  == [state : {"none", "live", "deleted"}, used : Nat, expired : BOOLEAN]
CouponCall == [at : {"idle", "apply", "apply_count", "record", "record_usage", "record_save"},
               coupon : Coupons \cup {None}, user : Users \cup {None},
               used : Nat]      \* usedCount of the entity recordUsage loaded
NoCoupon   == [at |-> "idle", coupon |-> None, user |-> None, used |-> 0]

CouponsInit ==
  /\ coupon = [c \in Coupons |-> [state |-> "none", used |-> 0, expired |-> FALSE]]
  /\ usages = [c \in Coupons |-> <<>>]
  /\ approvals = [c \in Coupons |-> [u \in Users |-> 0]]
  /\ couponCalls = [w \in Workers |-> NoCoupon]
  /\ uncounted = {}

Asking(w, labels)   == couponCalls[w].at \in labels
Recorders(c)        == {w \in Workers : couponCalls[w].coupon = c
                                          /\ Asking(w, {"record_usage", "record_save"})}
UsesBy(c, u)        == Cardinality({i \in DOMAIN usages[c] : usages[c][i] = u})
UnderWay(c, u)      == Cardinality({w \in Workers : couponCalls[w].coupon = c /\ couponCalls[w].user = u})

CouponStep(w, label) == couponCalls' = [couponCalls EXCEPT ![w].at = label]
CouponReturn(w)      == couponCalls' = [couponCalls EXCEPT ![w] = NoCoupon]

-----------------------------------------------------------------------------

(* The check of the code does not see a deleted coupon: the index does.    *)
CreateCoupon(c) ==
  /\ coupon[c].state = "none"
  /\ coupon' = [coupon EXCEPT ![c] = [state |-> "live", used |-> 0, expired |-> FALSE]]
  /\ UNCHANGED <<usages, approvals, couponCalls, uncounted>>

DeleteCoupon(c) ==
  /\ coupon[c].state = "live"
  /\ coupon' = [coupon EXCEPT ![c].state = "deleted"]
  /\ UNCHANGED <<usages, approvals, couponCalls, uncounted>>

(* expiresAt passes.                                                       *)
Lapse(c) ==
  /\ coupon[c].state = "live" /\ ~coupon[c].expired
  /\ coupon' = [coupon EXCEPT ![c].expired = TRUE]
  /\ UNCHANGED <<usages, approvals, couponCalls, uncounted>>

Apply(w, c, u) ==
  /\ Asking(w, {"idle"})
  /\ approvals[c][u] + UnderWay(c, u) < MaxApprovals
  /\ couponCalls' = [couponCalls EXCEPT ![w] =
                       [at |-> "apply", coupon |-> c, user |-> u, used |-> 0]]
  /\ UNCHANGED <<coupon, usages, approvals, uncounted>>

Usable(c) == coupon[c].state = "live" /\ ~coupon[c].expired /\ coupon[c].used < MaxUses

ApplyFind(w) ==
  /\ Asking(w, {"apply"})
  /\ IF Usable(couponCalls[w].coupon) THEN CouponStep(w, "apply_count") ELSE CouponReturn(w)
  /\ UNCHANGED <<coupon, usages, approvals, uncounted>>

NoUserLimit(c, u)    == TRUE
UserMayUse(c, u)     == UsesBy(c, u) < MaxUsesPerUser

ApplyCount(w) ==
  LET call == couponCalls[w] IN
  /\ Asking(w, {"apply_count"})
  /\ approvals' = IF UserMayUse(call.coupon, call.user)
                  THEN [approvals EXCEPT ![call.coupon][call.user] = @ + 1] ELSE approvals
  /\ CouponReturn(w)
  /\ UNCHANGED <<coupon, usages, uncounted>>

(* A checkout records, once, a use that was found valid.                   *)
Record(w, c, u) ==
  /\ Asking(w, {"idle"})
  /\ approvals[c][u] > 0
  /\ approvals' = [approvals EXCEPT ![c][u] = @ - 1]
  /\ couponCalls' = [couponCalls EXCEPT ![w] =
                       [at |-> "record", coupon |-> c, user |-> u, used |-> 0]]
  /\ UNCHANGED <<coupon, usages, uncounted>>

RecordFind(w) ==
  LET c == couponCalls[w].coupon IN
  /\ Asking(w, {"record"})
  /\ coupon[c].state = "live"
  /\ couponCalls' = [couponCalls EXCEPT ![w].at = "record_usage", ![w].used = coupon[c].used]
  /\ uncounted' = IF Recorders(c) = {} THEN uncounted ELSE uncounted \cup {c}
  /\ UNCHANGED <<coupon, usages, approvals>>

RecordNotFound(w) ==
  /\ Asking(w, {"record"})
  /\ coupon[couponCalls[w].coupon].state # "live"
  /\ CouponReturn(w)
  /\ UNCHANGED <<coupon, usages, approvals, uncounted>>

RecordUsage(w) ==
  LET call == couponCalls[w] IN
  /\ Asking(w, {"record_usage"})
  /\ usages' = [usages EXCEPT ![call.coupon] = Append(@, call.user)]
  /\ CouponStep(w, "record_save")
  /\ UNCHANGED <<coupon, approvals, uncounted>>

(* The save writes every column that differs from the row, deletedAt too:  *)
(* it brings back a coupon deleted since it was loaded.                    *)
ForgetsToCount(row, seen) == [row EXCEPT !.used = seen, !.state = "live"]
Counted(row, seen)        == [row EXCEPT !.used = seen + 1, !.state = "live"]

RecordSave(w) ==
  LET call == couponCalls[w] IN
  /\ Asking(w, {"record_save"})
  /\ coupon' = [coupon EXCEPT ![call.coupon] = Counted(@, call.used)]
  /\ CouponReturn(w)
  /\ UNCHANGED <<usages, approvals, uncounted>>

(* A statement fails or the process dies; between the two writes, the use  *)
(* stays recorded and is never counted.                                    *)
CouponFail(w) ==
  /\ ~Asking(w, {"idle"})
  /\ CouponReturn(w)
  /\ uncounted' = IF Asking(w, {"record_save"})
                  THEN uncounted \cup {couponCalls[w].coupon} ELSE uncounted
  /\ UNCHANGED <<coupon, usages, approvals>>

CouponsNext ==
  \/ \E c \in Coupons : CreateCoupon(c) \/ DeleteCoupon(c) \/ Lapse(c)
  \/ \E w \in Workers, c \in Coupons, u \in Users : Apply(w, c, u) \/ Record(w, c, u)
  \/ \E w \in Workers :
       \/ ApplyFind(w) \/ ApplyCount(w)
       \/ RecordFind(w) \/ RecordNotFound(w) \/ RecordUsage(w) \/ RecordSave(w)
       \/ CouponFail(w)

CouponsSpec == CouponsInit /\ [][CouponsNext]_couponVars
-----------------------------------------------------------------------------

CouponsTypeOK ==
  /\ coupon \in [Coupons -> CouponRow]
  /\ usages \in [Coupons -> Seq(Users)]
  /\ approvals \in [Coupons -> [Users -> Nat]]
  /\ couponCalls \in [Workers -> CouponCall]
  /\ uncounted \subseteq Coupons

(* usedCount never runs ahead of the uses recorded, so no coupon is spent  *)
(* early; it falls behind only when recordings of the coupon overlapped or *)
(* one died between its two writes (coupons.service.ts:154-173).           *)
Saving(c) == Cardinality({w \in Recorders(c) : Asking(w, {"record_save"})})
UsedCountNeverAhead == \A c \in Coupons : coupon[c].used <= Len(usages[c])
UsesAreCounted ==
  /\ UsedCountNeverAhead
  /\ \A c \in Coupons \ uncounted : Len(usages[c]) = coupon[c].used + Saving(c)

(* What the proofs keep: a coupon without a row is unused; a recording has *)
(* seen a count no higher than the uses recorded, and one less when it is  *)
(* about to save; while a coupon's recordings do not overlap, the one that *)
(* is under way has seen the count that is still in the row.               *)
UnusedAtFirst == \A c \in Coupons : coupon[c].state = "none" => coupon[c].used = 0
CallsAreAbout ==
  \A w \in Workers :
    ~Asking(w, {"idle"}) => couponCalls[w].coupon \in Coupons /\ couponCalls[w].user \in Users
SeenIsRecorded ==
  \A w \in Workers :
    LET recorded == Len(usages[couponCalls[w].coupon]) IN
    /\ Asking(w, {"record_usage"}) => couponCalls[w].used <= recorded
    /\ Asking(w, {"record_save"}) => couponCalls[w].used + 1 <= recorded
OneRecorder ==
  \A c \in Coupons \ uncounted : \A w \in Recorders(c) :
    /\ \A v \in Recorders(c) : v = w
    /\ couponCalls[w].used = coupon[c].used
LastIsCounted ==
  \A c \in Coupons \ uncounted :
    Len(usages[c]) = coupon[c].used
                       + (IF \E w \in Recorders(c) : Asking(w, {"record_save"}) THEN 1 ELSE 0)

CouponsIInv ==
  /\ CouponsTypeOK
  /\ UnusedAtFirst /\ CallsAreAbout /\ SeenIsRecorded
  /\ UsedCountNeverAhead /\ OneRecorder /\ LastIsCounted

(* The limits are not checked again when a use is recorded, so a user can  *)
(* pass maxUsesPerUser, but by no more than the uses it had asked for at   *)
(* once; one that asks one at a time keeps to it, whatever usedCount says  *)
(* (coupons.service.ts:105-114).                                           *)
PerUserLimit ==
  \A c \in Coupons, u \in Users :
    UsesBy(c, u) + approvals[c][u] < MaxUsesPerUser + MaxApprovals

(* What its proof keeps: a use that was found valid, whether a call is     *)
(* about to record it or none is yet, was asked for within MaxApprovals.   *)
CallsFor(c, u)  == {w \in Workers : couponCalls[w].coupon = c /\ couponCalls[w].user = u}
ToRecord(c, u)  == {w \in CallsFor(c, u) : Asking(w, {"record", "record_usage"})}
AskersOnly      == \A w \in Workers : Asking(w, {"idle"}) => couponCalls[w].user = None
WithinApprovals(c, u) ==
  /\ IsFiniteSet(CallsFor(c, u))
  /\ approvals[c][u] + UnderWay(c, u) <= MaxApprovals
  /\ UsesBy(c, u) + approvals[c][u] + Cardinality(ToRecord(c, u))
       < MaxUsesPerUser + MaxApprovals

LimitIInv ==
  CouponsIInv /\ AskersOnly /\ \A c \in Coupons, u \in Users : WithinApprovals(c, u)
=============================================================================

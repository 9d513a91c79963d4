---------------------------- MODULE CouponsProofs ----------------------------
(***************************************************************************)
(* Proofs about Coupons for any number of coupons, users, requests and any *)
(* limits.  The argument: a recording inserts its use before it writes the *)
(* count, one more than it read, so the count it writes was recorded by    *)
(* then; and while no two recordings of a coupon overlap, what each read   *)
(* is what the row still holds when it writes.  The last part counts a     *)
(* user's uses with those that were found valid and are yet to be written. *)
(***************************************************************************)
EXTENDS Coupons, FiniteSetTheorems, TLAPS

LEMMA NoneIsApart == None \notin Users /\ None \notin Workers
BY NoneAssumption

(* What each step of a call leaves of its record.                          *)
LEMMA StepTyped ==
  ASSUME CouponsTypeOK, NEW w \in Workers, NEW label \in
           {"apply", "apply_count", "record", "record_usage", "record_save"},
         CouponStep(w, label)
  PROVE  couponCalls' \in [Workers -> CouponCall]
BY DEF CouponsTypeOK, CouponStep, CouponCall

LEMMA ReturnTyped ==
  ASSUME CouponsTypeOK, NEW w \in Workers, CouponReturn(w)
  PROVE  couponCalls' \in [Workers -> CouponCall]
BY DEF CouponsTypeOK, CouponReturn, CouponCall, NoCoupon

(* One approval of u for c, more or less, keeps the type of approvals.     *)
LEMMA ApprovalsTyped ==
  ASSUME approvals \in [Coupons -> [Users -> Nat]], NEW c \in Coupons, NEW u \in Users,
         NEW n \in Nat
  PROVE  [approvals EXCEPT ![c][u] = n] \in [Coupons -> [Users -> Nat]]
OBVIOUS

LEMMA RowTyped ==
  ASSUME NEW r \in CouponRow, NEW n \in Nat
  PROVE  [r EXCEPT !.used = n, !.state = "live"] \in CouponRow
BY DEF CouponRow

LEMMA CountedTyped ==
  ASSUME NEW r \in CouponRow, NEW seen \in Nat
  PROVE  /\ Counted(r, seen) \in CouponRow
         /\ Counted(r, seen).used = seen + 1 /\ Counted(r, seen).state = "live"
<1>1. seen + 1 \in Nat
  OBVIOUS
<1>2. Counted(r, seen) \in CouponRow
  BY <1>1, RowTyped DEF Counted
<1>3. Counted(r, seen).used = seen + 1
  BY <1>1 DEF Counted, CouponRow
<1>4. Counted(r, seen).state = "live"
  BY <1>1 DEF Counted, CouponRow
<1> QED BY <1>2, <1>3, <1>4

LEMMA CouponsInitIInv == CouponsInit => CouponsIInv
<1> SUFFICES ASSUME CouponsInit PROVE CouponsIInv
  OBVIOUS
<1> USE NoneIsApart DEF CouponsInit
<1>1. CouponsTypeOK
  BY DEF CouponsTypeOK, CouponRow, CouponCall, NoCoupon
<1>2. /\ UnusedAtFirst /\ UsedCountNeverAhead
      /\ \A w \in Workers : Asking(w, {"idle"})
  BY DEF UnusedAtFirst, UsedCountNeverAhead, Asking, NoCoupon
<1>3. CallsAreAbout /\ SeenIsRecorded
  BY DEF CallsAreAbout, SeenIsRecorded, Asking, NoCoupon
<1>4. \A c \in Coupons : Recorders(c) = {}
  BY DEF Recorders, Asking, NoCoupon
<1>5. OneRecorder /\ LastIsCounted
  BY <1>4 DEF OneRecorder, LastIsCounted
<1> QED BY <1>1, <1>2, <1>3, <1>5 DEF CouponsIInv

-----------------------------------------------------------------------------
(* The steps that touch no call and no usage: the rows change in state,    *)
(* and create finds the coupon unused.                                     *)
LEMMA RowsKeepIInv ==
  ASSUME CouponsIInv, NEW c \in Coupons, CreateCoupon(c) \/ DeleteCoupon(c) \/ Lapse(c)
  PROVE  CouponsIInv'
<1> USE DEF CouponsIInv, CouponsTypeOK, CouponRow
<1>1. /\ UNCHANGED <<usages, approvals, couponCalls, uncounted>>
      /\ \A d \in Coupons \ {c} : coupon'[d] = coupon[d]
      /\ coupon'[c] \in CouponRow /\ coupon'[c].used = coupon[c].used
      /\ coupon'[c].state # "none"
  <2>1. CASE CreateCoupon(c)
    BY <2>1 DEF CreateCoupon, UnusedAtFirst
  <2>2. CASE DeleteCoupon(c)
    BY <2>2 DEF DeleteCoupon
  <2>3. CASE Lapse(c)
    BY <2>3 DEF Lapse
  <2> QED BY <2>1, <2>2, <2>3
<1>2. coupon' \in [Coupons -> CouponRow]
  <2>1. coupon' = [d \in Coupons |-> coupon'[d]]
    BY DEF CreateCoupon, DeleteCoupon, Lapse
  <2> QED BY <1>1, <2>1
<1>3. CouponsTypeOK'
  BY <1>1, <1>2
<1>4. UnusedAtFirst'
  BY <1>1 DEF UnusedAtFirst
<1>5. /\ \A w \in Workers : \A labels : Asking(w, labels)' <=> Asking(w, labels)
      /\ \A d \in Coupons : Recorders(d)' = Recorders(d)
  BY <1>1 DEF Asking, Recorders
<1>6. CallsAreAbout' /\ SeenIsRecorded' /\ UsedCountNeverAhead'
  BY <1>1, <1>5 DEF CouponsIInv, CallsAreAbout, SeenIsRecorded, UsedCountNeverAhead, Asking
<1>7. /\ uncounted' = uncounted /\ couponCalls' = couponCalls /\ usages' = usages
      /\ \A d \in Coupons : coupon'[d].used = coupon[d].used
  BY <1>1
<1>8. OneRecorder'
  BY <1>5, <1>7 DEF OneRecorder, Recorders
<1>9. LastIsCounted'
  BY <1>5, <1>7 DEF LastIsCounted, Recorders, Asking
<1> QED BY <1>3, <1>4, <1>6, <1>8, <1>9 DEF CouponsIInv

(* The steps that leave rows and usages alone and take w into no           *)
(* recording: nothing that is counted changes, and recordings only end.    *)
LEMMA OutsideKeepsIInv ==
  ASSUME CouponsIInv, NEW w \in Workers, CouponsTypeOK',
         UNCHANGED <<coupon, usages>>, uncounted \subseteq uncounted',
         \A v \in Workers \ {w} : couponCalls'[v] = couponCalls[v],
         couponCalls'[w].at \notin {"record_usage", "record_save"},
         couponCalls'[w].at # "idle" =>
           couponCalls'[w].coupon \in Coupons /\ couponCalls'[w].user \in Users,
         Asking(w, {"record_save"}) => couponCalls[w].coupon \in uncounted'
  PROVE  CouponsIInv'
<1>1. UnusedAtFirst' /\ UsedCountNeverAhead'
  BY DEF CouponsIInv, UnusedAtFirst, UsedCountNeverAhead
<1>2. CallsAreAbout' /\ SeenIsRecorded'
  BY DEF CouponsIInv, CallsAreAbout, SeenIsRecorded, Asking
<1>3. \A d \in Coupons : Recorders(d)' = Recorders(d) \ {w}
  BY DEF Recorders, Asking
<1>4. OneRecorder'
  BY <1>3 DEF CouponsIInv, OneRecorder, Recorders
<1>5. LastIsCounted'
  <2> SUFFICES ASSUME NEW d \in Coupons \ uncounted'
               PROVE  (\E v \in Recorders(d) : Asking(v, {"record_save"}))'
                        <=> \E v \in Recorders(d) : Asking(v, {"record_save"})
    BY DEF CouponsIInv, LastIsCounted
  <2>1. \A v \in Recorders(d) : Asking(v, {"record_save"}) => v # w
    BY DEF Recorders, Asking
  <2> QED BY <1>3, <2>1 DEF Recorders, Asking
<1> QED BY <1>1, <1>2, <1>4, <1>5 DEF CouponsIInv

LEMMA CallsKeepIInv ==
  ASSUME CouponsIInv, NEW w \in Workers,
         \/ \E c \in Coupons, u \in Users : Apply(w, c, u) \/ Record(w, c, u)
         \/ ApplyFind(w) \/ ApplyCount(w) \/ RecordNotFound(w) \/ CouponFail(w)
  PROVE  CouponsIInv'
<1> USE DEF CouponsIInv
<1>1. CASE \E c \in Coupons, u \in Users : Apply(w, c, u) \/ Record(w, c, u)
  <2>1. PICK c \in Coupons, u \in Users : Apply(w, c, u) \/ Record(w, c, u)
    BY <1>1
  <2>2. couponCalls' \in [Workers -> CouponCall]
    <3>1. CASE Apply(w, c, u)
      BY <3>1 DEF CouponsTypeOK, Apply, CouponCall
    <3>2. CASE Record(w, c, u)
      BY <3>2 DEF CouponsTypeOK, Record, CouponCall
    <3> QED BY <2>1, <3>1, <3>2
  <2>3. approvals' \in [Coupons -> [Users -> Nat]]
    <3>1. approvals[c][u] \in Nat
      BY DEF CouponsTypeOK
    <3>2. CASE Apply(w, c, u)
      BY <3>2 DEF Apply, CouponsTypeOK
    <3>3. CASE Record(w, c, u)
      <4>1. approvals[c][u] - 1 \in Nat
        BY <3>1, <3>3 DEF Record
      <4>2. approvals' = [approvals EXCEPT ![c][u] = approvals[c][u] - 1]
        BY <3>3 DEF Record
      <4> QED BY <4>1, <4>2, ApprovalsTyped DEF CouponsTypeOK
    <3> QED BY <2>1, <3>2, <3>3
  <2>4. CouponsTypeOK' /\ Asking(w, {"idle"})
    BY <2>1, <2>2, <2>3 DEF CouponsTypeOK, Apply, Record
  <2>5. /\ UNCHANGED <<coupon, usages, uncounted>>
        /\ \A v \in Workers \ {w} : couponCalls'[v] = couponCalls[v]
        /\ couponCalls'[w].at \in {"apply", "record"}
        /\ couponCalls'[w].coupon = c /\ couponCalls'[w].user = u
    BY <2>1 DEF CouponsTypeOK, Apply, Record
  <2> QED BY <2>4, <2>5, OutsideKeepsIInv DEF Asking
<1>2. CASE ApplyFind(w)
  <2>1. CouponsTypeOK'
    BY <1>2, StepTyped, ReturnTyped DEF ApplyFind, CouponsTypeOK
  <2>2. /\ UNCHANGED <<coupon, usages, uncounted>>
        /\ \A v \in Workers \ {w} : couponCalls'[v] = couponCalls[v]
        /\ couponCalls'[w].at \in {"idle", "apply_count"}
        /\ couponCalls'[w].at # "idle" => /\ couponCalls'[w].coupon = couponCalls[w].coupon
                                          /\ couponCalls'[w].user = couponCalls[w].user
    BY <1>2 DEF ApplyFind, CouponsTypeOK, CouponStep, CouponReturn, NoCoupon, CouponCall
  <2>3. Asking(w, {"apply"})
    BY <1>2 DEF ApplyFind
  <2> QED BY <2>1, <2>2, <2>3, OutsideKeepsIInv DEF Asking, CallsAreAbout
<1>3. CASE ApplyCount(w) \/ RecordNotFound(w) \/ CouponFail(w)
  <2>1. CouponReturn(w) /\ UNCHANGED <<coupon, usages>> /\ ~Asking(w, {"idle"})
    BY <1>3 DEF ApplyCount, RecordNotFound, CouponFail, Asking
  <2>2. couponCalls[w].coupon \in Coupons /\ couponCalls[w].user \in Users
    BY <2>1 DEF CallsAreAbout
  <2>3. approvals' \in [Coupons -> [Users -> Nat]]
    <3>1. /\ approvals \in [Coupons -> [Users -> Nat]]
          /\ approvals[couponCalls[w].coupon][couponCalls[w].user] + 1 \in Nat
      BY <2>2 DEF CouponsTypeOK
    <3>2. CASE ApplyCount(w)
      BY <2>2, <3>1, <3>2, ApprovalsTyped DEF ApplyCount
    <3> QED BY <1>3, <3>1, <3>2 DEF RecordNotFound, CouponFail
  <2>4. uncounted \subseteq uncounted' /\ uncounted' \subseteq Coupons
    BY <1>3, <2>2 DEF ApplyCount, RecordNotFound, CouponFail, CouponsTypeOK
  <2>5. CouponsTypeOK'
    BY <2>1, <2>3, <2>4, ReturnTyped DEF CouponsTypeOK
  <2>6. Asking(w, {"record_save"}) => couponCalls[w].coupon \in uncounted'
    BY <1>3 DEF ApplyCount, RecordNotFound, CouponFail, Asking
  <2>7. /\ \A v \in Workers \ {w} : couponCalls'[v] = couponCalls[v]
        /\ couponCalls'[w].at = "idle"
    BY <2>1 DEF CouponReturn, NoCoupon, CouponsTypeOK
  <2> QED BY <2>1, <2>4, <2>5, <2>6, <2>7, OutsideKeepsIInv
<1> QED BY <1>1, <1>2, <1>3

-----------------------------------------------------------------------------
(* recordUsage                                                             *)

LEMMA FindKeepsIInv ==
  ASSUME CouponsIInv, NEW w \in Workers, RecordFind(w)
  PROVE  CouponsIInv'
<1> DEFINE c == couponCalls[w].coupon
<1> USE DEF CouponsIInv
<1>1. /\ Asking(w, {"record"}) /\ c \in Coupons /\ couponCalls[w].user \in Users
      /\ coupon[c].used \in Nat /\ UNCHANGED <<coupon, usages, approvals>>
  BY DEF RecordFind, Asking, CallsAreAbout, CouponsTypeOK, CouponRow
<1>2. /\ couponCalls' \in [Workers -> CouponCall]
      /\ \A v \in Workers \ {w} : couponCalls'[v] = couponCalls[v]
      /\ couponCalls'[w].at = "record_usage" /\ couponCalls'[w].used = coupon[c].used
      /\ couponCalls'[w].coupon = c /\ couponCalls'[w].user = couponCalls[w].user
  BY <1>1 DEF RecordFind, CouponsTypeOK, CouponCall
<1>3. uncounted \subseteq uncounted' /\ uncounted' \subseteq Coupons
  BY <1>1 DEF RecordFind, CouponsTypeOK
<1>4. c \notin uncounted' => Recorders(c) = {}
  BY DEF RecordFind
<1>5. \A d \in Coupons :
        Recorders(d)' = IF d = c THEN Recorders(d) \cup {w} ELSE Recorders(d)
  BY <1>1, <1>2 DEF Recorders, Asking
<1>6. CouponsTypeOK' /\ UnusedAtFirst' /\ UsedCountNeverAhead'
  BY <1>1, <1>2, <1>3 DEF CouponsTypeOK, UnusedAtFirst, UsedCountNeverAhead
<1>7. CallsAreAbout'
  BY <1>1, <1>2 DEF CallsAreAbout, Asking
<1>8. SeenIsRecorded'
  BY <1>1, <1>2 DEF SeenIsRecorded, UsedCountNeverAhead, Asking
<1>9. OneRecorder'
  <2> SUFFICES ASSUME NEW d \in Coupons \ uncounted', NEW v \in Recorders(d)'
               PROVE  /\ \A x \in Recorders(d)' : x = v
                      /\ couponCalls'[v].used = coupon'[d].used
    BY DEF OneRecorder
  <2>1. CASE d = c
    BY <1>1, <1>2, <1>4, <1>5, <2>1
  <2>2. CASE d # c
    <3>1. v \in Recorders(d) /\ v # w
      BY <1>1, <1>5, <2>2 DEF Recorders
    <3> QED BY <1>1, <1>2, <1>3, <1>5, <2>2, <3>1 DEF OneRecorder, Recorders
  <2> QED BY <2>1, <2>2
<1>10. LastIsCounted'
  <2> SUFFICES ASSUME NEW d \in Coupons \ uncounted'
               PROVE  (\E v \in Recorders(d) : Asking(v, {"record_save"}))'
                        <=> \E v \in Recorders(d) : Asking(v, {"record_save"})
    BY <1>1, <1>3 DEF LastIsCounted
  <2>1. ~Asking(w, {"record_save"}) /\ ~Asking(w, {"record_save"})'
    BY <1>1, <1>2 DEF Asking
  <2>2. \A v \in Workers \ {w} : Asking(v, {"record_save"})' <=> Asking(v, {"record_save"})
    BY <1>2 DEF Asking
  <2>3. Recorders(d) \subseteq Workers
    BY DEF Recorders
  <2>4. CASE d = c
    <3>1. Recorders(d) = {} /\ Recorders(d)' = {w}
      BY <1>4, <1>5, <2>4
    <3> QED BY <2>1, <3>1
  <2>5. CASE d # c
    BY <1>5, <2>1, <2>2, <2>3, <2>5
  <2> QED BY <2>4, <2>5
<1> QED BY <1>6, <1>7, <1>8, <1>9, <1>10

LEMMA UsageKeepsIInv ==
  ASSUME CouponsIInv, NEW w \in Workers, RecordUsage(w)
  PROVE  CouponsIInv'
<1> DEFINE c == couponCalls[w].coupon
<1> USE DEF CouponsIInv
<1>1. /\ Asking(w, {"record_usage"}) /\ c \in Coupons /\ couponCalls[w].user \in Users
      /\ UNCHANGED <<coupon, approvals, uncounted>>
  BY DEF RecordUsage, Asking, CallsAreAbout
<1>2. /\ couponCalls' \in [Workers -> CouponCall]
      /\ \A v \in Workers \ {w} : couponCalls'[v] = couponCalls[v]
      /\ couponCalls'[w] = [couponCalls[w] EXCEPT !.at = "record_save"]
  BY StepTyped DEF RecordUsage, CouponStep, CouponsTypeOK
<1>3. /\ couponCalls'[w].at = "record_save" /\ couponCalls'[w].used = couponCalls[w].used
      /\ couponCalls'[w].coupon = c /\ couponCalls'[w].user = couponCalls[w].user
      /\ couponCalls[w].used \in Nat
  BY <1>2 DEF CouponsTypeOK, CouponCall
<1>4. /\ usages' \in [Coupons -> Seq(Users)]
      /\ \A d \in Coupons \ {c} : usages'[d] = usages[d]
      /\ Len(usages'[c]) = Len(usages[c]) + 1
      /\ \A d \in Coupons : Len(usages[d]) \in Nat
  BY <1>1 DEF RecordUsage, CouponsTypeOK
<1>5. \A d \in Coupons : Recorders(d)' = Recorders(d) /\ coupon[d].used \in Nat
  <2>1. \A d \in Coupons : coupon[d].used \in Nat
    BY DEF CouponsTypeOK, CouponRow
  <2>2. \A d \in Coupons : \A v \in Workers : v \in Recorders(d)' <=> v \in Recorders(d)
    BY <1>1, <1>2, <1>3 DEF Recorders, Asking
  <2>3. \A d \in Coupons : Recorders(d) \subseteq Workers /\ Recorders(d)' \subseteq Workers
    BY DEF Recorders
  <2> QED BY <2>1, <2>2, <2>3
<1>6. CouponsTypeOK' /\ UnusedAtFirst' /\ UsedCountNeverAhead'
  <2>1. CouponsTypeOK' /\ UnusedAtFirst'
    BY <1>1, <1>2, <1>4 DEF CouponsTypeOK, UnusedAtFirst
  <2>2. UsedCountNeverAhead'
    BY <1>1, <1>4, <1>5 DEF UsedCountNeverAhead
  <2> QED BY <2>1, <2>2
<1>7. CallsAreAbout'
  BY <1>1, <1>2, <1>3 DEF CallsAreAbout, Asking
<1>8. SeenIsRecorded'
  <2> SUFFICES ASSUME NEW v \in Workers
               PROVE  LET recorded == Len(usages'[couponCalls'[v].coupon]) IN
                      /\ Asking(v, {"record_usage"})' => couponCalls'[v].used <= recorded
                      /\ Asking(v, {"record_save"})' => couponCalls'[v].used + 1 <= recorded
    BY DEF SeenIsRecorded
  <2>1. CASE v = w
    BY <1>1, <1>3, <1>4, <2>1 DEF SeenIsRecorded, Asking
  <2>2. CASE v # w
    <3>1. couponCalls'[v] = couponCalls[v]
      BY <1>2, <2>2
    <3>2. ~Asking(v, {"idle"}) => couponCalls[v].coupon \in Coupons
      BY DEF CallsAreAbout
    <3>3. couponCalls[v].used \in Nat
      BY DEF CouponsTypeOK, CouponCall
    <3>4. ~Asking(v, {"idle"}) =>
             /\ Len(usages[couponCalls[v].coupon]) \in Nat
             /\ Len(usages'[couponCalls[v].coupon]) \in Nat
             /\ Len(usages[couponCalls[v].coupon]) <= Len(usages'[couponCalls[v].coupon])
      BY <1>1, <1>4, <3>2
    <3>5. CASE Asking(v, {"record_usage", "record_save"})
      <4>1. ~Asking(v, {"idle"})
        BY <3>5 DEF Asking
      <4> QED BY <3>1, <3>3, <3>4, <4>1 DEF SeenIsRecorded, Asking
    <3> QED BY <3>1, <3>5 DEF Asking
  <2> QED BY <2>1, <2>2
<1>9. OneRecorder'
  <2>1. \A v \in Workers : couponCalls'[v].used = couponCalls[v].used
    BY <1>2, <1>3
  <2> QED BY <1>1, <1>5, <2>1 DEF OneRecorder, Recorders
<1>10. LastIsCounted'
  <2> SUFFICES ASSUME NEW d \in Coupons \ uncounted
               PROVE  Len(usages'[d]) = coupon[d].used
                        + (IF \E v \in Recorders(d) : Asking(v, {"record_save"})' THEN 1 ELSE 0)
    BY <1>1, <1>5 DEF LastIsCounted
  <2>1. \A v \in Recorders(d) \ {w} : Asking(v, {"record_save"})' <=> Asking(v, {"record_save"})
    BY <1>2 DEF Asking, Recorders
  <2>2. ~Asking(w, {"record_save"}) /\ Asking(w, {"record_save"})'
    BY <1>1, <1>3 DEF Asking
  <2>3. CASE d = c
    <3>1. w \in Recorders(d)
      BY <1>1, <2>3 DEF Recorders, Asking
    <3>2. \A v \in Recorders(d) : v = w
      BY <3>1 DEF OneRecorder
    <3>3. Len(usages[d]) = coupon[d].used
      BY <1>5, <2>2, <3>2 DEF LastIsCounted
    <3> QED BY <1>4, <1>5, <2>2, <2>3, <3>1, <3>3
  <2>4. CASE d # c
    <3>1. w \notin Recorders(d)
      BY <2>4 DEF Recorders
    <3> QED BY <1>4, <2>1, <2>4, <3>1 DEF LastIsCounted
  <2> QED BY <2>3, <2>4
<1> QED BY <1>6, <1>7, <1>8, <1>9, <1>10

LEMMA SaveKeepsIInv ==
  ASSUME CouponsIInv, NEW w \in Workers, RecordSave(w)
  PROVE  CouponsIInv'
<1> DEFINE c == couponCalls[w].coupon
<1> USE DEF CouponsIInv
<1>1. /\ Asking(w, {"record_save"}) /\ c \in Coupons /\ couponCalls[w].used \in Nat
      /\ UNCHANGED <<usages, approvals, uncounted>>
  BY DEF RecordSave, Asking, CallsAreAbout, CouponsTypeOK, CouponCall
<1>2. couponCalls' \in [Workers -> CouponCall]
  BY ReturnTyped DEF RecordSave
<1>3. /\ \A v \in Workers \ {w} : couponCalls'[v] = couponCalls[v]
      /\ couponCalls'[w].at = "idle"
  BY DEF RecordSave, CouponReturn, NoCoupon, CouponsTypeOK
<1>4. /\ coupon' \in [Coupons -> CouponRow]
      /\ \A d \in Coupons \ {c} : coupon'[d] = coupon[d]
      /\ coupon'[c].used = couponCalls[w].used + 1 /\ coupon'[c].state = "live"
  <2>1. coupon \in [Coupons -> CouponRow] /\ coupon[c] \in CouponRow
    BY <1>1 DEF CouponsTypeOK
  <2>2. coupon' = [coupon EXCEPT ![c] = Counted(coupon[c], couponCalls[w].used)]
    BY DEF RecordSave
  <2> DEFINE saved == Counted(coupon[c], couponCalls[w].used)
  <2>3. saved \in CouponRow /\ saved.used = couponCalls[w].used + 1 /\ saved.state = "live"
    BY <1>1, <2>1, CountedTyped
  <2> HIDE DEF saved
  <2> QED BY <1>1, <2>1, <2>2, <2>3 DEF saved
<1>5. \A d \in Coupons : Recorders(d)' = Recorders(d) \ {w}
  BY <1>3 DEF Recorders, Asking
<1>6. CouponsTypeOK'
  BY <1>1, <1>2, <1>4 DEF CouponsTypeOK
<1>7. UnusedAtFirst' /\ CallsAreAbout'
  BY <1>1, <1>3, <1>4 DEF UnusedAtFirst, CallsAreAbout, Asking
<1>8. SeenIsRecorded' /\ UsedCountNeverAhead'
  <2>1. SeenIsRecorded'
    BY <1>1, <1>3 DEF SeenIsRecorded, Asking
  <2>2. couponCalls[w].used + 1 <= Len(usages[c])
    BY <1>1 DEF SeenIsRecorded
  <2> QED BY <1>1, <1>4, <2>1, <2>2 DEF UsedCountNeverAhead
<1>9. w \in Recorders(c) /\ \A d \in Coupons \ {c} : w \notin Recorders(d)
  BY <1>1 DEF Recorders, Asking
<1>10. OneRecorder'
  <2> SUFFICES ASSUME NEW d \in Coupons \ uncounted, NEW v \in Recorders(d)'
               PROVE  /\ \A x \in Recorders(d)' : x = v
                      /\ couponCalls'[v].used = coupon'[d].used
    BY <1>1 DEF OneRecorder
  <2>1. v \in Recorders(d) /\ v # w /\ v \in Workers
    BY <1>5 DEF Recorders
  <2>2. d # c
    BY <1>9, <2>1 DEF OneRecorder
  <2> QED BY <1>3, <1>4, <1>5, <2>1, <2>2 DEF OneRecorder
<1>11. LastIsCounted'
  <2> SUFFICES ASSUME NEW d \in Coupons \ uncounted
               PROVE  Len(usages[d]) = coupon'[d].used
                        + (IF \E v \in Recorders(d)' : Asking(v, {"record_save"})' THEN 1 ELSE 0)
    BY <1>1 DEF LastIsCounted
  <2>1. \A v \in Recorders(d) \ {w} : Asking(v, {"record_save"})' <=> Asking(v, {"record_save"})
    BY <1>3 DEF Asking, Recorders
  <2>2. CASE d = c
    <3>1. \A v \in Recorders(d) : v = w
      BY <1>9, <2>2 DEF OneRecorder
    <3>2. Len(usages[d]) = coupon[d].used + 1 /\ couponCalls[w].used = coupon[d].used
      BY <1>1, <1>9, <2>2 DEF LastIsCounted, OneRecorder
    <3> QED BY <1>4, <1>5, <2>2, <3>1, <3>2
  <2>3. CASE d # c
    BY <1>4, <1>5, <1>9, <2>1, <2>3 DEF LastIsCounted
  <2> QED BY <2>2, <2>3
<1> QED BY <1>6, <1>7, <1>8, <1>10, <1>11

-----------------------------------------------------------------------------

LEMMA StepKeepsIInv == CouponsIInv /\ [CouponsNext]_couponVars => CouponsIInv'
<1> SUFFICES ASSUME CouponsIInv, [CouponsNext]_couponVars PROVE CouponsIInv'
  OBVIOUS
<1>1. CASE UNCHANGED couponVars
  BY <1>1 DEF couponVars, CouponsIInv, CouponsTypeOK, UnusedAtFirst, CallsAreAbout, SeenIsRecorded,
              UsedCountNeverAhead, OneRecorder, LastIsCounted, Recorders, Asking
<1>2. CASE CouponsNext
  BY <1>2, RowsKeepIInv, CallsKeepIInv, FindKeepsIInv, UsageKeepsIInv, SaveKeepsIInv DEF CouponsNext
<1> QED BY <1>1, <1>2

(* The invariant the others follow from: usedCount stays behind the uses   *)
(* that are recorded (coupons.service.ts:147-174).                         *)
THEOREM CouponsInvariant == CouponsSpec => []CouponsIInv
<1>1. CouponsInit => CouponsIInv
  BY CouponsInitIInv
<1>2. CouponsIInv /\ [CouponsNext]_couponVars => CouponsIInv'
  BY StepKeepsIInv
<1> QED BY <1>1, <1>2, PTL DEF CouponsSpec

(* Rows, usages and calls keep their types, for any coupons and limits.    *)
THEOREM CouponsTypeCorrect == CouponsSpec => []CouponsTypeOK
<1>1. CouponsIInv => CouponsTypeOK
  BY DEF CouponsIInv
<1> QED BY <1>1, CouponsInvariant, PTL

(* Where one recording at a time is about to save, Saving counts it.       *)
LEMMA SavingCounts ==
  ASSUME CouponsIInv, NEW c \in Coupons \ uncounted
  PROVE  Saving(c) = IF \E w \in Recorders(c) : Asking(w, {"record_save"}) THEN 1 ELSE 0
<1> DEFINE S == {w \in Recorders(c) : Asking(w, {"record_save"})}
<1>1. CASE S = {}
  BY <1>1, FS_EmptySet DEF Saving
<1>2. CASE S # {}
  <2>1. PICK w \in Recorders(c) : Asking(w, {"record_save"})
    BY <1>2
  <2>2. S = {w}
    BY <2>1 DEF CouponsIInv, OneRecorder
  <2> QED BY <2>1, <2>2, FS_Singleton DEF Saving
<1> QED BY <1>1, <1>2

(* usedCount never runs ahead of the uses recorded, however many requests  *)
(* record at once and wherever they fail (recordUsage).                    *)
THEOREM UsesCounted == CouponsSpec => []UsesAreCounted
<1>1. CouponsIInv => UsesAreCounted
  BY SavingCounts DEF CouponsIInv, LastIsCounted, UsesAreCounted
<1> QED BY <1>1, CouponsInvariant, PTL

-----------------------------------------------------------------------------
(* PerUserLimit: the uses of a user that were asked for at once.           *)

LEMMA LimitTyped ==
  ASSUME LimitIInv
  PROVE  /\ CouponsIInv /\ couponCalls \in [Workers -> CouponCall]
         /\ usages \in [Coupons -> Seq(Users)] /\ approvals \in [Coupons -> [Users -> Nat]]
         /\ MaxUsesPerUser \in Nat /\ MaxApprovals \in Nat
         /\ MaxUsesPerUser >= 1 /\ MaxApprovals >= 1
BY LimitsAssumption DEF LimitIInv, CouponsIInv, CouponsTypeOK

UsesOf(c, u) == {i \in DOMAIN usages[c] : usages[c][i] = u}

LEMMA UsesFinite ==
  ASSUME usages \in [Coupons -> Seq(Users)], NEW c \in Coupons, NEW u
  PROVE  IsFiniteSet(UsesOf(c, u)) /\ UsesBy(c, u) = Cardinality(UsesOf(c, u)) /\ UsesBy(c, u) \in Nat
<1>1. Len(usages[c]) \in Nat /\ DOMAIN usages[c] = 1 .. Len(usages[c])
  OBVIOUS
<1>2. IsFiniteSet(DOMAIN usages[c])
  BY <1>1, FS_Interval
<1>3. IsFiniteSet(UsesOf(c, u))
  BY <1>2, FS_Subset DEF UsesOf
<1>4. UsesBy(c, u) = Cardinality(UsesOf(c, u))
  BY DEF UsesBy, UsesOf
<1> QED BY <1>3, <1>4, FS_CardinalityType

LEMMA CallsFinite ==
  ASSUME NEW c, NEW u, IsFiniteSet(CallsFor(c, u))
  PROVE  /\ UnderWay(c, u) = Cardinality(CallsFor(c, u)) /\ UnderWay(c, u) \in Nat
         /\ IsFiniteSet(ToRecord(c, u)) /\ Cardinality(ToRecord(c, u)) \in Nat
<1>1. UnderWay(c, u) = Cardinality(CallsFor(c, u))
  BY DEF UnderWay, CallsFor
<1>2. IsFiniteSet(ToRecord(c, u))
  BY FS_Subset DEF ToRecord
<1> QED BY <1>1, <1>2, FS_CardinalityType

LEMMA LimitInit == CouponsInit => LimitIInv
<1> SUFFICES ASSUME CouponsInit PROVE LimitIInv
  OBVIOUS
<1>1. \A w \in Workers : couponCalls[w].user = None
  BY DEF CouponsInit, NoCoupon
<1>2. ASSUME NEW c \in Coupons, NEW u \in Users PROVE WithinApprovals(c, u)
  <2>1. CallsFor(c, u) = {} /\ ToRecord(c, u) = {}
    BY <1>1, NoneIsApart DEF CallsFor, ToRecord
  <2>2. UsesOf(c, u) = {} /\ approvals[c][u] = 0 /\ usages \in [Coupons -> Seq(Users)]
    BY DEF CouponsInit, UsesOf
  <2>3. UnderWay(c, u) = 0 /\ UsesBy(c, u) = 0 /\ Cardinality(ToRecord(c, u)) = 0
        /\ IsFiniteSet(CallsFor(c, u))
    BY <2>1, <2>2, FS_EmptySet, UsesFinite, CallsFinite
  <2> QED BY <2>2, <2>3, LimitsAssumption DEF WithinApprovals
<1> QED BY <1>1, <1>2, CouponsInitIInv DEF LimitIInv, AskersOnly

(* A step that makes nothing more of a user's uses.                        *)
LEMMA NoMoreKeepsWithin ==
  ASSUME LimitIInv, NEW c \in Coupons, NEW u \in Users,
         CallsFor(c, u)' \subseteq CallsFor(c, u), ToRecord(c, u)' \subseteq ToRecord(c, u),
         approvals'[c][u] = approvals[c][u],
         UsesOf(c, u)' \subseteq UsesOf(c, u)
  PROVE  WithinApprovals(c, u)'
<1>1. WithinApprovals(c, u)
  BY DEF LimitIInv
<1>2. /\ IsFiniteSet(CallsFor(c, u)') /\ Cardinality(CallsFor(c, u)') <= Cardinality(CallsFor(c, u))
      /\ Cardinality(CallsFor(c, u)') \in Nat
  BY <1>1, FS_Subset, FS_CardinalityType DEF WithinApprovals
<1>3. UnderWay(c, u) = Cardinality(CallsFor(c, u)) /\ UnderWay(c, u)' = Cardinality(CallsFor(c, u)')
  BY DEF UnderWay, CallsFor
<1>4. /\ IsFiniteSet(ToRecord(c, u)) /\ Cardinality(ToRecord(c, u)) \in Nat
      /\ Cardinality(CallsFor(c, u)) \in Nat
  BY <1>1, <1>3, CallsFinite DEF WithinApprovals
<1>5. /\ Cardinality(ToRecord(c, u)') <= Cardinality(ToRecord(c, u))
      /\ Cardinality(ToRecord(c, u)') \in Nat
  BY <1>4, FS_Subset, FS_CardinalityType
<1>6. UsesBy(c, u)' = Cardinality(UsesOf(c, u)') /\ UsesBy(c, u) = Cardinality(UsesOf(c, u))
  BY DEF UsesBy, UsesOf
<1>7. IsFiniteSet(UsesOf(c, u)) /\ UsesBy(c, u) \in Nat
  BY LimitTyped, UsesFinite
<1>8. UsesBy(c, u)' <= UsesBy(c, u) /\ UsesBy(c, u)' \in Nat
  BY <1>6, <1>7, FS_Subset, FS_CardinalityType
<1>9. approvals[c][u] \in Nat
  BY LimitTyped
<1>10. approvals'[c][u] + UnderWay(c, u)' <= MaxApprovals
  BY <1>1, <1>2, <1>3, <1>4, <1>9, LimitTyped DEF WithinApprovals
<1>11. UsesBy(c, u)' + approvals'[c][u] + Cardinality(ToRecord(c, u)')
         < MaxUsesPerUser + MaxApprovals
  BY <1>1, <1>4, <1>5, <1>7, <1>8, <1>9, LimitTyped DEF WithinApprovals
<1> QED BY <1>2, <1>10, <1>11 DEF WithinApprovals

(* A step of a call is a step for the user and the coupon it is about.     *)
LEMMA OtherCallsKept ==
  ASSUME LimitIInv, NEW w \in Workers, NEW d, couponCalls' = [couponCalls EXCEPT ![w] = d]
  PROVE  /\ couponCalls'[w] = d /\ \A v \in Workers \ {w} : couponCalls'[v] = couponCalls[v]
         /\ (d.at = "idle" => d.user = None) => AskersOnly'
<1>1. couponCalls'[w] = d /\ \A v \in Workers \ {w} : couponCalls'[v] = couponCalls[v]
  BY LimitTyped
<1> QED BY <1>1 DEF LimitIInv, AskersOnly, Asking

LEMMA ReturnKeepsWithin ==
  ASSUME LimitIInv, NEW w \in Workers, CouponReturn(w), UNCHANGED <<usages, approvals>>
  PROVE  AskersOnly' /\ \A c \in Coupons, u \in Users : WithinApprovals(c, u)'
<1>1. NoCoupon.user = None /\ NoCoupon.at = "idle"
  BY DEF NoCoupon
<1>2. couponCalls' = [couponCalls EXCEPT ![w] = NoCoupon]
  BY DEF CouponReturn
<1>3. /\ couponCalls'[w] = NoCoupon /\ AskersOnly'
      /\ \A v \in Workers \ {w} : couponCalls'[v] = couponCalls[v]
  BY <1>1, <1>2, OtherCallsKept
<1>4. ASSUME NEW c \in Coupons, NEW u \in Users PROVE WithinApprovals(c, u)'
  <2>1. CallsFor(c, u)' \subseteq CallsFor(c, u) /\ ToRecord(c, u)' \subseteq ToRecord(c, u)
    BY <1>1, <1>3, NoneIsApart DEF CallsFor, ToRecord, Asking
  <2>2. UsesOf(c, u)' = UsesOf(c, u)
    BY DEF UsesOf
  <2> QED BY <2>1, <2>2, NoMoreKeepsWithin
<1> QED BY <1>3, <1>4

(* A call goes on, to a step at which it does not have a use to record     *)
(* that it had not before.                                                 *)
LEMMA StepKeepsWithin ==
  ASSUME LimitIInv, NEW w \in Workers, NEW d,
         couponCalls' = [couponCalls EXCEPT ![w] = d], d.at # "idle",
         d.coupon = couponCalls[w].coupon, d.user = couponCalls[w].user,
         d.at \in {"record", "record_usage"} => Asking(w, {"record", "record_usage"}),
         UNCHANGED <<usages, approvals>>
  PROVE  AskersOnly' /\ \A c \in Coupons, u \in Users : WithinApprovals(c, u)'
<1>1. /\ couponCalls'[w] = d /\ AskersOnly'
      /\ \A v \in Workers \ {w} : couponCalls'[v] = couponCalls[v]
  BY OtherCallsKept
<1>2. ASSUME NEW c \in Coupons, NEW u \in Users PROVE WithinApprovals(c, u)'
  <2>1. CallsFor(c, u)' \subseteq CallsFor(c, u) /\ ToRecord(c, u)' \subseteq ToRecord(c, u)
    BY <1>1 DEF CallsFor, ToRecord, Asking
  <2>2. UsesOf(c, u)' = UsesOf(c, u)
    BY DEF UsesOf
  <2> QED BY <2>1, <2>2, NoMoreKeepsWithin
<1> QED BY <1>1, <1>2

-----------------------------------------------------------------------------

LEMMA ApplyKeepsWithin ==
  ASSUME LimitIInv, NEW w \in Workers, NEW a \in Coupons, NEW b \in Users, Apply(w, a, b)
  PROVE  AskersOnly' /\ \A c \in Coupons, u \in Users : WithinApprovals(c, u)'
<1> DEFINE d == [at |-> "apply", coupon |-> a, user |-> b, used |-> 0]
<1>1. /\ couponCalls' = [couponCalls EXCEPT ![w] = d] /\ UNCHANGED <<usages, approvals>>
      /\ approvals[a][b] + UnderWay(a, b) < MaxApprovals /\ Asking(w, {"idle"})
  BY DEF Apply
<1>2. /\ couponCalls'[w] = d /\ AskersOnly'
      /\ \A v \in Workers \ {w} : couponCalls'[v] = couponCalls[v]
  BY <1>1, OtherCallsKept
<1>3. couponCalls[w].user = None
  BY <1>1 DEF LimitIInv, AskersOnly
<1>4. ASSUME NEW c \in Coupons, NEW u \in Users, c # a \/ u # b PROVE WithinApprovals(c, u)'
  <2>1. CallsFor(c, u)' \subseteq CallsFor(c, u) /\ ToRecord(c, u)' \subseteq ToRecord(c, u)
    BY <1>2, <1>4 DEF CallsFor, ToRecord, Asking
  <2>2. UsesOf(c, u)' = UsesOf(c, u)
    BY <1>1 DEF UsesOf
  <2> QED BY <1>1, <2>1, <2>2, NoMoreKeepsWithin
<1>5. WithinApprovals(a, b)'
  <2>1. WithinApprovals(a, b)
    BY DEF LimitIInv
  <2>2. CallsFor(a, b)' = CallsFor(a, b) \cup {w} /\ w \notin CallsFor(a, b)
    BY <1>2, <1>3, NoneIsApart DEF CallsFor
  <2>3. ToRecord(a, b)' = ToRecord(a, b)
    BY <1>2, <1>3, NoneIsApart DEF ToRecord, CallsFor, Asking
  <2>4. /\ IsFiniteSet(CallsFor(a, b)') /\ UnderWay(a, b) \in Nat
        /\ Cardinality(CallsFor(a, b)') = UnderWay(a, b) + 1
    BY <2>1, <2>2, FS_AddElement, CallsFinite DEF WithinApprovals
  <2>5. UnderWay(a, b)' = Cardinality(CallsFor(a, b)')
    BY DEF UnderWay, CallsFor
  <2>6. UsesBy(a, b)' = UsesBy(a, b)
    BY <1>1 DEF UsesBy
  <2>7. approvals[a][b] + UnderWay(a, b) + 1 <= MaxApprovals
    BY <1>1, <2>4, LimitTyped
  <2> QED BY <1>1, <2>1, <2>3, <2>4, <2>5, <2>6, <2>7, LimitTyped DEF WithinApprovals
<1> QED BY <1>2, <1>4, <1>5

LEMMA CountKeepsWithin ==
  ASSUME LimitIInv, NEW w \in Workers, ApplyCount(w)
  PROVE  AskersOnly' /\ \A c \in Coupons, u \in Users : WithinApprovals(c, u)'
<1>1. PICK a \in Coupons, b \in Users : a = couponCalls[w].coupon /\ b = couponCalls[w].user
  BY LimitTyped DEF ApplyCount, Asking, CouponsIInv, CallsAreAbout
<1>2. CASE ~UserMayUse(a, b)
  BY <1>1, <1>2, ReturnKeepsWithin DEF ApplyCount
<1>3. CASE UserMayUse(a, b)
  <2>1. /\ approvals' = [approvals EXCEPT ![a][b] = approvals[a][b] + 1] /\ CouponReturn(w)
        /\ usages' = usages /\ Asking(w, {"apply_count"})
    BY <1>1, <1>3 DEF ApplyCount
  <2>2. NoCoupon.user = None /\ NoCoupon.at = "idle"
    BY DEF NoCoupon
  <2>3. /\ couponCalls'[w] = NoCoupon /\ AskersOnly'
        /\ \A v \in Workers \ {w} : couponCalls'[v] = couponCalls[v]
    BY <2>1, <2>2, OtherCallsKept DEF CouponReturn
  <2>4. \A c \in Coupons, u \in Users :
          CallsFor(c, u)' = CallsFor(c, u) \ {w} /\ ToRecord(c, u)' = ToRecord(c, u)
    BY <2>1, <2>2, <2>3, NoneIsApart DEF CallsFor, ToRecord, Asking
  <2>5. ASSUME NEW c \in Coupons, NEW u \in Users, c # a \/ u # b PROVE WithinApprovals(c, u)'
    <3>1. approvals'[c][u] = approvals[c][u]
      BY <2>1, <2>5, LimitTyped
    <3>2. UsesOf(c, u)' = UsesOf(c, u)
      BY <2>1 DEF UsesOf
    <3> QED BY <2>4, <3>1, <3>2, NoMoreKeepsWithin
  <2>6. WithinApprovals(a, b)'
    <3>1. WithinApprovals(a, b) /\ w \in CallsFor(a, b) /\ w \notin ToRecord(a, b)
      BY <1>1, <2>1 DEF LimitIInv, CallsFor, ToRecord, Asking
    <3>2. /\ IsFiniteSet(CallsFor(a, b)') /\ UnderWay(a, b) \in Nat
          /\ Cardinality(CallsFor(a, b)') = UnderWay(a, b) - 1
      BY <2>4, <3>1, FS_RemoveElement, CallsFinite DEF WithinApprovals
    <3>3. UnderWay(a, b)' = Cardinality(CallsFor(a, b)')
      BY DEF UnderWay, CallsFor
    <3>4. approvals'[a][b] = approvals[a][b] + 1 /\ approvals[a][b] \in Nat
      BY <2>1, LimitTyped
    <3>5. UsesBy(a, b)' = UsesBy(a, b) /\ UsesBy(a, b) \in Nat
      BY <2>1, LimitTyped, UsesFinite DEF UsesBy
    <3>6. Cardinality(ToRecord(a, b)) \in Nat /\ Cardinality(ToRecord(a, b)) + 1 <= UnderWay(a, b)
      <4>1. ToRecord(a, b) \subseteq CallsFor(a, b) \ {w} /\ IsFiniteSet(CallsFor(a, b) \ {w})
        BY <2>4, <3>1, <3>2 DEF ToRecord
      <4>2. Cardinality(ToRecord(a, b)) <= Cardinality(CallsFor(a, b) \ {w})
        BY <4>1, FS_Subset
      <4>3. Cardinality(ToRecord(a, b)) \in Nat
        BY <3>1, CallsFinite DEF WithinApprovals
      <4> QED BY <2>4, <3>2, <4>2, <4>3
    <3>7. UsesBy(a, b) + 1 <= MaxUsesPerUser
      BY <1>3, <3>5, LimitTyped DEF UserMayUse
    <3>8. approvals[a][b] + UnderWay(a, b) <= MaxApprovals
      BY <3>1 DEF WithinApprovals
    <3>9. approvals'[a][b] + UnderWay(a, b)' <= MaxApprovals
      BY <3>2, <3>3, <3>4, <3>8, LimitTyped
    <3>10. UsesBy(a, b)' + approvals'[a][b] + Cardinality(ToRecord(a, b)')
             < MaxUsesPerUser + MaxApprovals
      BY <2>4, <3>2, <3>4, <3>5, <3>6, <3>7, <3>8, LimitTyped
    <3> QED BY <3>2, <3>9, <3>10 DEF WithinApprovals
  <2> QED BY <2>3, <2>5, <2>6
<1> QED BY <1>2, <1>3

(* A use that was found valid becomes a use that is being recorded.        *)
LEMMA RecordKeepsWithin ==
  ASSUME LimitIInv, NEW w \in Workers, NEW a \in Coupons, NEW b \in Users, Record(w, a, b)
  PROVE  AskersOnly' /\ \A c \in Coupons, u \in Users : WithinApprovals(c, u)'
<1> DEFINE d == [at |-> "record", coupon |-> a, user |-> b, used |-> 0]
<1>1. /\ couponCalls' = [couponCalls EXCEPT ![w] = d] /\ usages' = usages
      /\ approvals' = [approvals EXCEPT ![a][b] = approvals[a][b] - 1]
      /\ approvals[a][b] > 0 /\ Asking(w, {"idle"})
  BY DEF Record
<1>2. /\ couponCalls'[w] = d /\ AskersOnly'
      /\ \A v \in Workers \ {w} : couponCalls'[v] = couponCalls[v]
  BY <1>1, OtherCallsKept
<1>3. couponCalls[w].user = None
  BY <1>1 DEF LimitIInv, AskersOnly
<1>4. ASSUME NEW c \in Coupons, NEW u \in Users, c # a \/ u # b PROVE WithinApprovals(c, u)'
  <2>1. CallsFor(c, u)' \subseteq CallsFor(c, u) /\ ToRecord(c, u)' \subseteq ToRecord(c, u)
    BY <1>2, <1>4 DEF CallsFor, ToRecord, Asking
  <2>2. UsesOf(c, u)' = UsesOf(c, u)
    BY <1>1 DEF UsesOf
  <2>3. approvals'[c][u] = approvals[c][u]
    BY <1>1, <1>4, LimitTyped
  <2> QED BY <2>1, <2>2, <2>3, NoMoreKeepsWithin
<1>5. WithinApprovals(a, b)'
  <2>1. WithinApprovals(a, b)
    BY DEF LimitIInv
  <2>2. /\ CallsFor(a, b)' = CallsFor(a, b) \cup {w} /\ w \notin CallsFor(a, b)
        /\ ToRecord(a, b)' = ToRecord(a, b) \cup {w} /\ w \notin ToRecord(a, b)
    BY <1>2, <1>3, NoneIsApart DEF CallsFor, ToRecord, Asking
  <2>3. /\ UnderWay(a, b) = Cardinality(CallsFor(a, b)) /\ UnderWay(a, b) \in Nat
        /\ IsFiniteSet(ToRecord(a, b)) /\ Cardinality(ToRecord(a, b)) \in Nat
    BY <2>1, CallsFinite DEF WithinApprovals
  <2>4. /\ IsFiniteSet(CallsFor(a, b)') /\ Cardinality(CallsFor(a, b)') = UnderWay(a, b) + 1
    BY <2>1, <2>2, <2>3, FS_AddElement DEF WithinApprovals
  <2>5. Cardinality(ToRecord(a, b)') = Cardinality(ToRecord(a, b)) + 1
    BY <2>2, <2>3, FS_AddElement
  <2>6. UnderWay(a, b)' = Cardinality(CallsFor(a, b)')
    BY DEF UnderWay, CallsFor
  <2>7. UsesBy(a, b)' = UsesBy(a, b) /\ UsesBy(a, b) \in Nat
    BY <1>1, LimitTyped, UsesFinite DEF UsesBy
  <2>8. approvals'[a][b] = approvals[a][b] - 1 /\ approvals[a][b] \in Nat
    BY <1>1, LimitTyped
  <2>9. approvals'[a][b] + UnderWay(a, b)' <= MaxApprovals
    BY <2>1, <2>3, <2>4, <2>6, <2>8, LimitTyped DEF WithinApprovals
  <2>10. UsesBy(a, b)' + approvals'[a][b] + Cardinality(ToRecord(a, b)')
           < MaxUsesPerUser + MaxApprovals
    BY <2>1, <2>3, <2>5, <2>7, <2>8, LimitTyped DEF WithinApprovals
  <2> QED BY <2>4, <2>9, <2>10 DEF WithinApprovals
<1> QED BY <1>2, <1>4, <1>5

(* The use becomes a row.                                                  *)
LEMMA InsertKeepsWithin ==
  ASSUME LimitIInv, NEW w \in Workers, RecordUsage(w)
  PROVE  AskersOnly' /\ \A c \in Coupons, u \in Users : WithinApprovals(c, u)'
<1>1. PICK a \in Coupons, b \in Users : a = couponCalls[w].coupon /\ b = couponCalls[w].user
  BY LimitTyped DEF RecordUsage, Asking, CouponsIInv, CallsAreAbout
<1> DEFINE d == [couponCalls[w] EXCEPT !.at = "record_save"]
           n == Len(usages[a])
<1>2. /\ d.at = "record_save" /\ d.coupon = a /\ d.user = b
      /\ Asking(w, {"record_usage"})
  BY <1>1, LimitTyped DEF CouponCall, RecordUsage
<1>3. couponCalls' = [couponCalls EXCEPT ![w] = d] /\ approvals' = approvals
  BY DEF RecordUsage, CouponStep
<1>4. usages' = [usages EXCEPT ![a] = Append(usages[a], b)]
  BY <1>1 DEF RecordUsage
<1> HIDE DEF d
<1>5. /\ couponCalls'[w] = d /\ AskersOnly'
      /\ \A v \in Workers \ {w} : couponCalls'[v] = couponCalls[v]
  BY <1>2, <1>3, OtherCallsKept
<1>6. /\ \A c \in Coupons, u \in Users : CallsFor(c, u)' = CallsFor(c, u)
      /\ \A c \in Coupons, u \in Users : ToRecord(c, u)' = ToRecord(c, u) \ {w}
  BY <1>1, <1>2, <1>5 DEF CallsFor, ToRecord, Asking
<1>7. /\ n \in Nat /\ DOMAIN usages[a] = 1 .. n /\ DOMAIN usages'[a] = 1 .. (n + 1)
      /\ usages'[a][n + 1] = b /\ \A i \in 1 .. n : usages'[a][i] = usages[a][i]
  BY <1>4, LimitTyped
<1>8. UsesOf(a, b)' \subseteq UsesOf(a, b) \cup {n + 1}
  <2> HIDE DEF n
  <2> QED BY <1>7 DEF UsesOf
<1>9. ASSUME NEW c \in Coupons, NEW u \in Users, c # a \/ u # b PROVE WithinApprovals(c, u)'
  <2>1. UsesOf(c, u)' \subseteq UsesOf(c, u)
    <3>1. CASE c # a
      BY <1>4, <3>1, LimitTyped DEF UsesOf
    <3>2. CASE c = a
      <4> HIDE DEF n
      <4> QED BY <1>7, <1>9, <3>2 DEF UsesOf
    <3> QED BY <3>1, <3>2
  <2> QED BY <1>3, <1>6, <2>1, NoMoreKeepsWithin
<1>10. WithinApprovals(a, b)'
  <2>1. WithinApprovals(a, b) /\ w \in ToRecord(a, b)
    BY <1>1, <1>2 DEF LimitIInv, ToRecord, CallsFor, Asking
  <2>2. IsFiniteSet(ToRecord(a, b)) /\ Cardinality(ToRecord(a, b)) \in Nat
    BY <2>1, CallsFinite DEF WithinApprovals
  <2>3. Cardinality(ToRecord(a, b)') = Cardinality(ToRecord(a, b)) - 1
    BY <1>6, <2>1, <2>2, FS_RemoveElement
  <2>4. /\ IsFiniteSet(UsesOf(a, b)) /\ UsesBy(a, b) = Cardinality(UsesOf(a, b))
        /\ UsesBy(a, b) \in Nat
    BY LimitTyped, UsesFinite
  <2>5. Cardinality(UsesOf(a, b)') <= UsesBy(a, b) + 1 /\ Cardinality(UsesOf(a, b)') \in Nat
    <3>1. /\ IsFiniteSet(UsesOf(a, b) \cup {n + 1})
          /\ Cardinality(UsesOf(a, b) \cup {n + 1}) <= UsesBy(a, b) + 1
      <4>1. /\ IsFiniteSet(UsesOf(a, b) \cup {n + 1})
            /\ Cardinality(UsesOf(a, b) \cup {n + 1})
                 = IF n + 1 \in UsesOf(a, b) THEN UsesBy(a, b) ELSE UsesBy(a, b) + 1
        BY <2>4, FS_AddElement
      <4> QED BY <2>4, <4>1
    <3>2. /\ IsFiniteSet(UsesOf(a, b)')
          /\ Cardinality(UsesOf(a, b)') <= Cardinality(UsesOf(a, b) \cup {n + 1})
      BY <1>8, <3>1, FS_Subset
    <3>3. Cardinality(UsesOf(a, b)') \in Nat /\ Cardinality(UsesOf(a, b) \cup {n + 1}) \in Nat
      BY <3>1, <3>2, FS_CardinalityType
    <3> QED BY <2>4, <3>1, <3>2, <3>3
  <2>6. UsesBy(a, b)' = Cardinality(UsesOf(a, b)')
    BY DEF UsesBy, UsesOf
  <2>7. approvals[a][b] \in Nat
    BY LimitTyped
  <2>8. UsesBy(a, b)' + approvals'[a][b] + Cardinality(ToRecord(a, b)')
          < MaxUsesPerUser + MaxApprovals
    BY <1>3, <2>1, <2>2, <2>3, <2>4, <2>5, <2>6, <2>7, LimitTyped DEF WithinApprovals
  <2>9. UnderWay(a, b)' = UnderWay(a, b)
    BY <1>6 DEF UnderWay, CallsFor
  <2> QED BY <1>3, <1>6, <2>1, <2>8, <2>9 DEF WithinApprovals
<1> QED BY <1>5, <1>9, <1>10

LEMMA FindsKeepWithin ==
  ASSUME LimitIInv, NEW w \in Workers, ApplyFind(w) \/ RecordFind(w)
  PROVE  AskersOnly' /\ \A c \in Coupons, u \in Users : WithinApprovals(c, u)'
<1>1. couponCalls[w] \in CouponCall /\ UNCHANGED <<usages, approvals>>
  BY LimitTyped DEF ApplyFind, RecordFind
<1>2. CASE ApplyFind(w) /\ CouponReturn(w)
  BY <1>1, <1>2, ReturnKeepsWithin
<1>3. CASE ApplyFind(w) /\ CouponStep(w, "apply_count")
  <2> DEFINE d == [couponCalls[w] EXCEPT !.at = "apply_count"]
  <2>1. /\ d.at = "apply_count" /\ d.coupon = couponCalls[w].coupon
        /\ d.user = couponCalls[w].user
    BY <1>1 DEF CouponCall
  <2>2. couponCalls' = [couponCalls EXCEPT ![w] = d]
    BY <1>3 DEF CouponStep
  <2> HIDE DEF d
  <2> QED BY <1>1, <2>1, <2>2, StepKeepsWithin
<1>4. CASE RecordFind(w)
  <2> DEFINE n == coupon[couponCalls[w].coupon].used
             d == [couponCalls[w] EXCEPT !.at = "record_usage", !.used = n]
  <2>1. /\ d.at = "record_usage" /\ d.coupon = couponCalls[w].coupon
        /\ d.user = couponCalls[w].user
    BY <1>1 DEF CouponCall
  <2>2. couponCalls' = [couponCalls EXCEPT ![w] = d]
    BY <1>1, <1>4, LimitTyped DEF RecordFind
  <2>3. Asking(w, {"record", "record_usage"})
    BY <1>4 DEF RecordFind, Asking
  <2> HIDE DEF d
  <2> QED BY <1>1, <2>1, <2>2, <2>3, StepKeepsWithin
<1> QED BY <1>2, <1>3, <1>4 DEF ApplyFind

-----------------------------------------------------------------------------

LEMMA StepKeepsLimit == LimitIInv /\ [CouponsNext]_couponVars => LimitIInv'
<1> SUFFICES ASSUME LimitIInv, [CouponsNext]_couponVars PROVE LimitIInv'
  OBVIOUS
<1>1. CouponsIInv'
  BY StepKeepsIInv DEF LimitIInv
<1>2. AskersOnly' /\ \A c \in Coupons, u \in Users : WithinApprovals(c, u)'
  <2>1. CASE UNCHANGED <<couponCalls, usages, approvals>>
    BY <2>1 DEF LimitIInv, AskersOnly, WithinApprovals, CallsFor, ToRecord, UnderWay, UsesBy, Asking
  <2>2. ASSUME NEW w \in Workers, RecordNotFound(w) \/ RecordSave(w) \/ CouponFail(w)
        PROVE  AskersOnly' /\ \A c \in Coupons, u \in Users : WithinApprovals(c, u)'
    BY <2>2, ReturnKeepsWithin DEF RecordNotFound, RecordSave, CouponFail
  <2> QED BY <2>1, <2>2, ApplyKeepsWithin, CountKeepsWithin, RecordKeepsWithin, InsertKeepsWithin,
             FindsKeepWithin
          DEF CouponsNext, couponVars, CreateCoupon, DeleteCoupon, Lapse
<1> QED BY <1>1, <1>2 DEF LimitIInv

(* A user passes maxUsesPerUser by no more than the uses asked for at      *)
(* once, for any limits and any number of requests (applyCoupon,           *)
(* recordUsage).                                                           *)
THEOREM LimitPassedByOverlapOnly == CouponsSpec => []PerUserLimit
<1>1. LimitIInv => PerUserLimit
  <2> SUFFICES ASSUME LimitIInv, NEW c \in Coupons, NEW u \in Users
               PROVE  UsesBy(c, u) + approvals[c][u] < MaxUsesPerUser + MaxApprovals
    BY DEF PerUserLimit
  <2>1. WithinApprovals(c, u)
    BY DEF LimitIInv
  <2>2. Cardinality(ToRecord(c, u)) \in Nat
    BY <2>1, CallsFinite DEF WithinApprovals
  <2>3. UsesBy(c, u) \in Nat /\ approvals[c][u] \in Nat
    BY LimitTyped, UsesFinite
  <2> QED BY <2>1, <2>2, <2>3, LimitTyped DEF WithinApprovals
<1> QED BY <1>1, LimitInit, StepKeepsLimit, PTL DEF CouponsSpec
=============================================================================

----------------------------- MODULE OrdersProofs -----------------------------
(***************************************************************************)
(* Proofs about Orders for any number of workers, orders, products and     *)
(* failures.  The argument: updateStatus checks the transition while it    *)
(* holds the order's row lock and keeps the lock until it writes, so no    *)
(* other update changes the status in between (LockProtectsStatus).  The   *)
(* other parts follow the units through the calls: what a call reserved is *)
(* counted as done until it is counted as placed.                          *)
(***************************************************************************)
EXTENDS Orders, SumsTheorems, TLAPS

LEMMA TransitionsTyped ==
  /\ ValidTransitions \in [Statuses -> SUBSET Statuses]
  /\ None \notin Statuses
<1>1. None \notin Statuses
  BY NoneAssumption
<1>2. ValidTransitions \in [Statuses -> SUBSET Statuses]
  BY DEF ValidTransitions, Statuses
<1> QED BY <1>1, <1>2

(* A reserve that passed its check leaves the accounts non-negative.       *)
LEMMA AccountTyped ==
  ASSUME account \in [Products -> Stock!Account], NEW p \in Products, NEW q \in Nat,
         Stock!Reserve(p, q)
  PROVE  account' \in [Products -> Stock!Account]
<1>1. account[p] \in Stock!Account
  OBVIOUS
<1>2. account[p].available >= q => Stock!AfterReserve(account[p], q) \in Stock!Account
  BY <1>1 DEF Stock!AfterReserve, Stock!Columns, Stock!Account
<1> HIDE DEF Stock!Account
<1> QED BY <1>2 DEF Stock!Reserve

LEMMA LinesTyped ==
  ASSUME NEW line \in Lines
  PROVE  line.product \in Products /\ line.quantity \in Nat
BY DEF Lines

LEMMA InitIInv == Init => IInv
<1> SUFFICES ASSUME Init PROVE IInv
  OBVIOUS
<1> USE NoneAssumption DEF Init
<1>1. TypeOK
  BY OpeningAssumption DEF TypeOK, Labels
<1>2. LockProtectsStatus
  BY DEF LockProtectsStatus
<1>3. CreatedIsUnknown
  BY DEF CreatedIsUnknown, Creating
<1> QED BY <1>1, <1>2, <1>3 DEF IInv

(* Releasing the locks of w and returning.                                 *)
LEMMA ReturnTyped ==
  ASSUME IInv, NEW w \in Workers, Return(w)
  PROVE  /\ pc' \in [Workers -> Labels]
         /\ user' \in [Workers -> Users \cup {None}]
         /\ order' \in [Workers -> Orders \cup {None}]
         /\ wanted' \in [Workers -> Statuses \cup {None}]
         /\ todo' \in [Workers -> Seq(Lines)]
         /\ done' \in [Workers -> Seq(Lines)]
BY DEF IInv, TypeOK, Return, Goto, Labels

LEMMA RollbackKeepsIInv ==
  ASSUME IInv, NEW w \in Workers, Rollback(w), failures' \in Nat
  PROVE  IInv'
<1> USE NoneAssumption
<1>1. Return(w) /\ lock' = Released(w)
  BY DEF Rollback
<1>2. TypeOK'
  <2>1. \A k \in DOMAIN done[w] : done[w][k].product \in Products
    <3>1. done[w] \in Seq(Lines)
      BY DEF IInv, TypeOK
    <3>2. \A k \in DOMAIN done[w] : done[w][k] \in Lines
      BY <3>1
    <3> QED BY <3>2, LinesTyped
  <2>2. stranded' \subseteq Products
    BY <2>1 DEF IInv, TypeOK, Rollback
  <2> QED BY <1>1, <2>2, ReturnTyped DEF IInv, TypeOK, Rollback, Released
<1>3. LockProtectsStatus'
  BY <1>1 DEF IInv, TypeOK, LockProtectsStatus, Rollback, Return, Goto, Released
<1>4. CreatedIsUnknown'
  BY <1>1 DEF IInv, TypeOK, CreatedIsUnknown, Rollback, Return, Goto, Creating
<1> QED BY <1>2, <1>3, <1>4 DEF IInv

-----------------------------------------------------------------------------
(* createOrder                                                             *)

LEMMA CreateKeepsIInv ==
  ASSUME IInv, NEW w \in Workers, Create(w)
  PROVE  IInv'
<1> USE NoneAssumption DEF database
<1>1. PICK u \in Users, ls \in Requests, o \in FreshOrders :
        /\ user' = [user EXCEPT ![w] = u]
        /\ todo' = [todo EXCEPT ![w] = ls]
        /\ order' = [order EXCEPT ![w] = o]
  BY DEF Create
<1>2. /\ o \in Orders /\ status[o] = None
      /\ \A v \in Workers : order[v] # o
      /\ ls \in Seq(Lines)
  BY RequestsAssumption DEF FreshOrders
<1>3. pc[w] = "idle" /\ Goto(w, "reserving")
  BY DEF Create
<1>4. TypeOK'
  BY <1>1, <1>2, <1>3 DEF Create, IInv, TypeOK, Goto, Labels
<1>5. LockProtectsStatus'
  BY <1>1, <1>2, <1>3 DEF Create, IInv, TypeOK, LockProtectsStatus, Goto
<1>6. CreatedIsUnknown'
  BY <1>1, <1>2, <1>3 DEF Create, IInv, TypeOK, CreatedIsUnknown, Creating, Goto
<1> QED BY <1>4, <1>5, <1>6 DEF IInv

(* One line moves from todo to done.                                       *)
LEMMA CreateReserveKeepsIInv ==
  ASSUME IInv, NEW w \in Workers, CreateReserve(w)
  PROVE  IInv'
<1> DEFINE line == Head(todo[w])
<1>1. /\ todo[w] # <<>> /\ Advance(w) /\ Stock!Reserve(line.product, line.quantity)
      /\ UNCHANGED <<live, status, owner, placed, redisCart, dbCart, lock,
                     pc, user, order, wanted, stranded, failures>>
  BY DEF CreateReserve, ReserveLine
<1>2. todo[w] \in Seq(Lines) /\ done[w] \in Seq(Lines)
  BY DEF IInv, TypeOK
<1>3. line \in Lines /\ Tail(todo[w]) \in Seq(Lines) /\ Append(done[w], line) \in Seq(Lines)
  BY <1>1, <1>2
<1>4. account' \in [Products -> Stock!Account]
  <2>1. account \in [Products -> Stock!Account]
    BY DEF IInv, TypeOK
  <2> HIDE DEF line
  <2> QED BY <1>1, <1>3, <2>1, LinesTyped, AccountTyped
<1>5. TypeOK'
  BY <1>1, <1>3, <1>4 DEF IInv, TypeOK, Advance
<1>6. LockProtectsStatus'
  BY <1>1 DEF IInv, LockProtectsStatus
<1>7. CreatedIsUnknown'
  BY <1>1 DEF IInv, CreatedIsUnknown
<1> QED BY <1>5, <1>6, <1>7 DEF IInv

(* Steps that only move on, or clear the cart.                             *)
LEMMA MoveOnKeepsIInv ==
  ASSUME IInv, NEW w \in Workers,
         CreateLoopDone(w) \/ CreateClearRedis(w) \/ CreateClearDb(w)
  PROVE  IInv'
<1> USE NoneAssumption DEF CreateLoopDone, CreateClearRedis, CreateClearDb, database
<1>1. TypeOK'
  BY DEF IInv, TypeOK, Goto, Labels
<1>2. LockProtectsStatus'
  BY DEF IInv, TypeOK, LockProtectsStatus, Goto
<1>3. CreatedIsUnknown'
  <2>1. /\ pc[w] \in Creating /\ UNCHANGED <<status, user, order, wanted>>
        /\ \E label \in Creating : pc' = [pc EXCEPT ![w] = label]
    BY DEF Creating, Goto
  <2>2. ASSUME NEW v \in Workers
        PROVE  /\ pc'[v] = "idle" <=> pc[v] = "idle"
               /\ pc'[v] = "lock_order" <=> pc[v] = "lock_order"
               /\ pc'[v] \in Creating <=> pc[v] \in Creating
    BY <2>1 DEF IInv, TypeOK, Creating
  <2> QED BY <2>1, <2>2 DEF IInv, CreatedIsUnknown
<1> QED BY <1>1, <1>2, <1>3 DEF IInv

LEMMA CreateCommitKeepsIInv ==
  ASSUME IInv, NEW w \in Workers, CreateCommit(w)
  PROVE  IInv'
<1> USE NoneAssumption
<1>1. /\ pc[w] = "inserting" /\ Return(w)
      /\ status' = [status EXCEPT ![order[w]] = "PENDING"]
  BY DEF CreateCommit
<1>2. /\ order[w] \in Orders /\ status[order[w]] = None /\ user[w] \in Users
      /\ \A v \in Workers : order[v] = order[w] => v = w
  BY <1>1 DEF IInv, CreatedIsUnknown, Creating
<1>3. TypeOK'
  <2>1. done[w] \in Seq(Lines)
    BY DEF IInv, TypeOK
  <2>2. status' \in [Orders -> Statuses \cup {None}]
    BY <1>1, <1>2 DEF IInv, TypeOK, Statuses
  <2>3. /\ placed' \in [Orders -> Seq(Lines)]
        /\ owner' \in [Orders -> Users \cup {None}]
    BY <1>2, <2>1 DEF CreateCommit, IInv, TypeOK
  <2> QED BY <1>1, <2>2, <2>3, ReturnTyped DEF CreateCommit, IInv, TypeOK
<1>4. LockProtectsStatus'
  BY <1>1, <1>2 DEF CreateCommit, IInv, TypeOK, LockProtectsStatus, Return, Goto
<1>5. CreatedIsUnknown'
  BY <1>1, <1>2 DEF CreateCommit, IInv, TypeOK, CreatedIsUnknown, Creating, Return, Goto, Statuses
<1> QED BY <1>3, <1>4, <1>5 DEF IInv

-----------------------------------------------------------------------------
(* updateStatus                                                            *)

LEMMA UpdateKeepsIInv ==
  ASSUME IInv, NEW w \in Workers, Update(w)
  PROVE  IInv'
<1> USE NoneAssumption DEF database
<1>1. PICK o \in Orders, s \in Statuses :
        /\ status[o] # None
        /\ order' = [order EXCEPT ![w] = o]
        /\ wanted' = [wanted EXCEPT ![w] = s]
  BY DEF Update
<1>2. pc[w] = "idle" /\ Goto(w, "lock_order")
  BY DEF Update
<1>3. TypeOK'
  BY <1>1, <1>2 DEF Update, IInv, TypeOK, Goto, Labels
<1>4. LockProtectsStatus'
  BY <1>1, <1>2 DEF Update, IInv, TypeOK, LockProtectsStatus, Goto
<1>5. CreatedIsUnknown'
  BY <1>1, <1>2 DEF Update, IInv, TypeOK, CreatedIsUnknown, Creating, Goto
<1> QED BY <1>3, <1>4, <1>5 DEF IInv

LEMMA UpdateLockKeepsIInv ==
  ASSUME IInv, NEW w \in Workers, UpdateLock(w)
  PROVE  IInv'
<1> USE NoneAssumption
<1>1. /\ pc[w] = "lock_order" /\ Goto(w, "saving")
      /\ lock[order[w]] = None /\ lock' = [lock EXCEPT ![order[w]] = w]
      /\ wanted[w] \in ValidTransitions[status[order[w]]]
      /\ UNCHANGED <<account, live, status, owner, placed, redisCart, dbCart,
                     user, order, wanted, todo, done, stranded, failures>>
  BY DEF UpdateLock, Unlocked, Valid
<1>2. order[w] \in Orders /\ wanted[w] \in Statuses /\ status[order[w]] # None
  BY <1>1 DEF IInv, CreatedIsUnknown
<1>3. TypeOK'
  BY <1>1, <1>2 DEF IInv, TypeOK, Goto, Labels
<1>4. LockProtectsStatus'
  BY <1>1, <1>2 DEF IInv, TypeOK, LockProtectsStatus, Goto
<1>5. CreatedIsUnknown'
  BY <1>1, <1>2 DEF IInv, TypeOK, CreatedIsUnknown, Creating, Goto
<1> QED BY <1>3, <1>4, <1>5 DEF IInv

LEMMA UpdateCommitKeepsIInv ==
  ASSUME IInv, NEW w \in Workers, UpdateCommit(w)
  PROVE  IInv'
<1> USE NoneAssumption
<1>1. /\ pc[w] = "saving" /\ Return(w) /\ lock' = Released(w)
      /\ status' = [status EXCEPT ![order[w]] = wanted[w]]
  BY DEF UpdateCommit
<1>2. /\ order[w] \in Orders /\ lock[order[w]] = w /\ status[order[w]] # None
      /\ wanted[w] \in Statuses
  <2>1. /\ order[w] \in Orders /\ lock[order[w]] = w /\ status[order[w]] # None
        /\ wanted[w] \in ValidTransitions[status[order[w]]]
    BY <1>1 DEF IInv, LockProtectsStatus
  <2>2. status[order[w]] \in Statuses
    BY <2>1 DEF IInv, TypeOK
  <2> QED BY <2>1, <2>2, TransitionsTyped
<1>3. TypeOK'
  BY <1>1, <1>2, ReturnTyped DEF UpdateCommit, IInv, TypeOK, Released
<1>4. LockProtectsStatus'
  BY <1>1, <1>2 DEF IInv, TypeOK, LockProtectsStatus, Return, Goto, Released
<1>5. CreatedIsUnknown'
  BY <1>1, <1>2 DEF IInv, TypeOK, CreatedIsUnknown, Creating, Return, Goto
<1> QED BY <1>3, <1>4, <1>5 DEF IInv

-----------------------------------------------------------------------------

LEMMA EnvironmentKeepsIInv ==
  ASSUME IInv,
         \/ \E p \in Products : RemoveProduct(p)
         \/ \E u \in Users : FillCart(u)
         \/ UNCHANGED vars
  PROVE  IInv'
<1> USE DEF vars, locals, database, RemoveProduct, FillCart
<1>1. TypeOK'
  BY DEF IInv, TypeOK
<1>2. LockProtectsStatus'
  BY DEF IInv, LockProtectsStatus
<1>3. CreatedIsUnknown'
  BY DEF IInv, CreatedIsUnknown
<1> QED BY <1>1, <1>2, <1>3 DEF IInv

LEMMA NextKeepsIInv == IInv /\ [Next]_vars => IInv'
<1> SUFFICES ASSUME IInv, [Next]_vars PROVE IInv'
  OBVIOUS
<1>1. ASSUME NEW w \in Workers, Create(w) \/ Update(w) PROVE IInv'
  BY <1>1, CreateKeepsIInv, UpdateKeepsIInv
<1>2. ASSUME NEW w \in Workers, UpdateLock(w) PROVE IInv'
  BY <1>2, UpdateLockKeepsIInv
<1>3. ASSUME NEW w \in Workers, UpdateRefuse(w) \/ CreateRefuse(w) \/ Fail(w) PROVE IInv'
  <2>1. Rollback(w) /\ failures' \in Nat
    BY <1>3 DEF UpdateRefuse, CreateRefuse, Fail, IInv, TypeOK
  <2> QED BY <2>1, RollbackKeepsIInv
<1>4. ASSUME NEW w \in Workers, CreateReserve(w) PROVE IInv'
  BY <1>4, CreateReserveKeepsIInv
<1>5. ASSUME NEW w \in Workers,
             CreateLoopDone(w) \/ CreateClearRedis(w) \/ CreateClearDb(w)
      PROVE  IInv'
  BY <1>5, MoveOnKeepsIInv
<1>6. ASSUME NEW w \in Workers, CreateCommit(w) PROVE IInv'
  BY <1>6, CreateCommitKeepsIInv
<1>7. ASSUME NEW w \in Workers, UpdateCommit(w) PROVE IInv'
  BY <1>7, UpdateCommitKeepsIInv
<1> QED BY <1>1, <1>2, <1>3, <1>4, <1>5, <1>6, <1>7, EnvironmentKeepsIInv
        DEF Next, LockStep, Step

(* The invariant the others follow from: who has checked a status holds    *)
(* the row until it saves, and an order being created is nobody else's     *)
(* (orders.service.ts:38-216).                                             *)
THEOREM Invariance == Spec => []IInv
<1> QED BY InitIInv, NextKeepsIInv, PTL DEF Spec

(* The tables and the locals keep their types; no account goes negative.   *)
THEOREM TypeCorrect == Spec => []TypeOK
<1>1. IInv => TypeOK
  BY DEF IInv
<1> QED BY <1>1, Invariance, PTL

-----------------------------------------------------------------------------
(* OrderLife.                                                              *)

LEMMA SameTransitions == Life!Statuses = Statuses /\ Life!ValidTransitions = ValidTransitions
BY DEF Life!Statuses, Life!ValidTransitions, Statuses, ValidTransitions

(* Only the commits of a creation and of an update write a status: the     *)
(* first to an order that has none, the second what the lock protected.    *)
LEMMA StepLivesOn == IInv /\ [Next]_vars => [Life!Next]_status
<1> SUFFICES ASSUME IInv, [Next]_vars PROVE [Life!Next]_status
  OBVIOUS
<1>1. ASSUME NEW w \in Workers, CreateCommit(w) PROVE Life!Next
  <2>1. /\ order[w] \in Orders /\ status[order[w]] = None
        /\ status' = [status EXCEPT ![order[w]] = "PENDING"]
    BY <1>1 DEF CreateCommit, IInv, CreatedIsUnknown, Creating
  <2> QED BY <2>1 DEF Life!Next, Life!Place
<1>2. ASSUME NEW w \in Workers, UpdateCommit(w) PROVE Life!Next
  <2>1. /\ order[w] \in Orders /\ status[order[w]] # None /\ status[order[w]] \in Statuses
        /\ wanted[w] \in ValidTransitions[status[order[w]]]
        /\ status' = [status EXCEPT ![order[w]] = wanted[w]]
    BY <1>2 DEF UpdateCommit, IInv, TypeOK, LockProtectsStatus
  <2>2. wanted[w] \in Statuses
    BY <2>1, TransitionsTyped
  <2> QED BY <2>1, <2>2, SameTransitions DEF Life!Next, Life!Move
<1>3. ASSUME ~\E w \in Workers : CreateCommit(w) \/ UpdateCommit(w)
      PROVE  status' = status
  BY <1>3 DEF Next, LockStep, Step, Create, Update, UpdateLock, UpdateRefuse, CreateReserve,
              CreateRefuse, CreateLoopDone, CreateClearRedis, CreateClearDb,
              Fail, Rollback, RemoveProduct, FillCart, vars, database
<1> QED BY <1>1, <1>2, <1>3

(* Whatever calls interleave and die, the committed statuses live as       *)
(* OrderLife says: every placement and every update is one whole step, and *)
(* no update overtakes another's check (orders.service.ts:175-192).        *)
THEOREM OrdersFollowOrderLife == Spec => ImplementsOrderLife
<1>1. Init => Life!Init
  BY DEF Init, Life!Init
<1> QED BY <1>1, StepLivesOn, Invariance, PTL DEF Spec, ImplementsOrderLife, Life!Spec

-----------------------------------------------------------------------------
(* Units of lists of lines.                                                *)

LEMMA UnitsOfLineTyped ==
  ASSUME NEW line \in Lines, NEW p
  PROVE  UnitsOfLine(line, p) \in Nat
BY DEF Lines, UnitsOfLine

LEMMA ListOfUnits ==
  ASSUME NEW ls \in Seq(Lines), NEW p
  PROVE  /\ IsFiniteSet(DOMAIN ls)
         /\ \A k \in DOMAIN ls :
              [i \in DOMAIN ls |-> UnitsOfLine(ls[i], p)][k] \in Nat
<1>1. DOMAIN ls = 1..Len(ls) /\ Len(ls) \in Nat
  OBVIOUS
<1>2. IsFiniteSet(DOMAIN ls)
  BY <1>1, FS_Interval
<1>3. \A k \in DOMAIN ls : ls[k] \in Lines
  BY <1>1
<1> QED BY <1>2, <1>3, UnitsOfLineTyped

LEMMA QuantityTyped ==
  ASSUME NEW ls \in Seq(Lines), NEW p
  PROVE  Quantity(ls, p) \in Nat
BY ListOfUnits, UnitsFinite DEF Quantity

LEMMA QuantityOfNone ==
  ASSUME NEW p
  PROVE  Quantity(<<>>, p) = 0
<1>1. DOMAIN <<>> = {}
  OBVIOUS
<1> QED BY <1>1, SumOfNone DEF Quantity

LEMMA QuantityAppend ==
  ASSUME NEW ls \in Seq(Lines), NEW line \in Lines, NEW p
  PROVE  Quantity(Append(ls, line), p) = Quantity(ls, p) + UnitsOfLine(line, p)
<1> DEFINE n == Len(ls) + 1
           longer == Append(ls, line)
           before == [k \in DOMAIN ls |-> UnitsOfLine(ls[k], p)]
           after == [k \in DOMAIN longer |-> UnitsOfLine(longer[k], p)]
<1>1. /\ DOMAIN longer = (DOMAIN ls) \cup {n} /\ n \notin DOMAIN ls
      /\ longer[n] = line /\ \A k \in DOMAIN ls : longer[k] = ls[k]
      /\ longer \in Seq(Lines)
  OBVIOUS
<1>2. IsFiniteSet(DOMAIN ls) /\ \A k \in DOMAIN longer : after[k] \in Nat
  BY <1>1, ListOfUnits
<1>3. SumOver(after, DOMAIN longer) = SumOver(after, DOMAIN ls) + after[n]
  <2> HIDE DEF after, longer, n
  <2> QED BY <1>1, <1>2, SumAdd
<1>4. SumOver(after, DOMAIN ls) = SumOver(before, DOMAIN ls)
  <2>1. \A k \in DOMAIN ls : after[k] = before[k]
    BY <1>1
  <2> HIDE DEF after, before
  <2> QED BY <2>1, SumSame
<1>5. after[n] = UnitsOfLine(line, p)
  BY <1>1
<1> QED BY <1>3, <1>4, <1>5 DEF Quantity

LEMMA UnitsInTyped ==
  ASSUME NEW ids, IsFiniteSet(ids), NEW lists, \A x \in ids : lists[x] \in Seq(Lines), NEW p
  PROVE  UnitsIn(lists, ids, p) \in Nat
BY QuantityTyped, UnitsFinite DEF UnitsIn

LEMMA UnitsInAdd ==
  ASSUME NEW ids, IsFiniteSet(ids), NEW x, x \notin ids,
         NEW lists, \A y \in ids \cup {x} : lists[y] \in Seq(Lines), NEW p
  PROVE  UnitsIn(lists, ids \cup {x}, p) = UnitsIn(lists, ids, p) + Quantity(lists[x], p)
<1> DEFINE some == [y \in ids |-> Quantity(lists[y], p)]
           all == [y \in ids \cup {x} |-> Quantity(lists[y], p)]
<1>1. \A y \in ids \cup {x} : all[y] \in Nat
  BY QuantityTyped
<1>2. all[x] = Quantity(lists[x], p) /\ \A y \in ids : all[y] = some[y]
  OBVIOUS
<1>3. UnitsIn(lists, ids, p) = SumOver(some, ids)
      /\ UnitsIn(lists, ids \cup {x}, p) = SumOver(all, ids \cup {x})
  BY DEF UnitsIn
<1> HIDE DEF some, all
<1>4. SumOver(all, ids \cup {x}) = SumOver(all, ids) + all[x]
  BY <1>1, SumAdd
<1>5. SumOver(all, ids) = SumOver(some, ids)
  BY <1>2, SumSame
<1> QED BY <1>2, <1>3, <1>4, <1>5

LEMMA UnitsInSame ==
  ASSUME NEW ids, NEW lists, NEW lists2, \A x \in ids : lists2[x] = lists[x], NEW p
  PROVE  UnitsIn(lists2, ids, p) = UnitsIn(lists, ids, p)
<1>1. [x \in ids |-> Quantity(lists2[x], p)] = [x \in ids |-> Quantity(lists[x], p)]
  OBVIOUS
<1> QED BY <1>1 DEF UnitsIn

(* Fewer lists, each as it was, have no more units.                        *)
LEMMA UnitsInFewer ==
  ASSUME NEW ids, NEW others, ids \subseteq others, IsFiniteSet(others),
         NEW lists, \A x \in others : lists[x] \in Seq(Lines),
         NEW lists2, \A x \in ids : lists2[x] = lists[x], NEW p
  PROVE  UnitsIn(lists2, ids, p) <= UnitsIn(lists, others, p)
<1> DEFINE f == [x \in ids |-> Quantity(lists2[x], p)]
           g == [x \in others |-> Quantity(lists[x], p)]
<1>1. \A x \in others : g[x] \in Nat
  BY QuantityTyped
<1>2. \A x \in ids : f[x] = g[x]
  OBVIOUS
<1>3. UnitsIn(lists2, ids, p) = SumOver(f, ids) /\ UnitsIn(lists, others, p) = SumOver(g, others)
  BY DEF UnitsIn
<1> HIDE DEF f, g
<1>4. \A x \in ids : f[x] \in Nat /\ f[x] <= g[x]
  BY <1>1, <1>2
<1>5. SumOver(f, ids) <= SumOver(g, others)
  BY <1>1, <1>4, SumMonotone
<1> QED BY <1>3, <1>5

(* One list gets longer.                                                   *)
LEMMA UnitsInAppend ==
  ASSUME NEW ids, IsFiniteSet(ids), NEW x \in ids, NEW line \in Lines,
         NEW lists, \A y \in ids : lists[y] \in Seq(Lines), NEW p,
         NEW lists2, lists2[x] = Append(lists[x], line), \A y \in ids \ {x} : lists2[y] = lists[y]
  PROVE  UnitsIn(lists2, ids, p) = UnitsIn(lists, ids, p) + UnitsOfLine(line, p)
<1> DEFINE f == [y \in ids |-> Quantity(lists[y], p)]
           g == [y \in ids |-> Quantity(lists2[y], p)]
<1>1. lists2[x] \in Seq(Lines) /\ \A y \in ids \ {x} : lists2[y] \in Seq(Lines)
  OBVIOUS
<1>2. \A y \in ids : f[y] \in Nat /\ g[y] \in Nat
  BY <1>1, QuantityTyped
<1>3. \A y \in ids \ {x} : f[y] = g[y]
  OBVIOUS
<1>4. g[x] = f[x] + UnitsOfLine(line, p)
  BY QuantityAppend
<1>5. UnitsIn(lists, ids, p) = SumOver(f, ids) /\ UnitsIn(lists2, ids, p) = SumOver(g, ids)
  BY DEF UnitsIn
<1> HIDE DEF f, g
<1>6. SumOver(g, ids) = SumOver(f, ids) - f[x] + g[x]
  BY <1>2, <1>3, SumChange
<1>7. SumOver(f, ids) \in Nat
  BY <1>2, UnitsFinite
<1>8. f[x] \in Nat /\ UnitsOfLine(line, p) \in Nat
  BY <1>2, UnitsOfLineTyped
<1> QED BY <1>4, <1>5, <1>6, <1>7, <1>8

(* A list of nothing joins.                                                *)
LEMMA UnitsInJoin ==
  ASSUME NEW ids, IsFiniteSet(ids), NEW x, x \notin ids,
         NEW lists, \A y \in ids : lists[y] \in Seq(Lines), NEW p,
         NEW lists2, lists2[x] = <<>>, \A y \in ids : lists2[y] = lists[y]
  PROVE  UnitsIn(lists2, ids \cup {x}, p) = UnitsIn(lists, ids, p)
<1>1. \A y \in ids \cup {x} : lists2[y] \in Seq(Lines)
  <2>1. <<>> \in Seq(Lines)
    OBVIOUS
  <2>2. \A y \in ids : lists2[y] \in Seq(Lines)
    OBVIOUS
  <2> QED BY <2>1, <2>2
<1>2. UnitsIn(lists2, ids \cup {x}, p) = UnitsIn(lists2, ids, p) + Quantity(lists2[x], p)
  BY <1>1, UnitsInAdd
<1>3. UnitsIn(lists2, ids, p) = UnitsIn(lists, ids, p)
  BY UnitsInSame
<1>4. UnitsIn(lists, ids, p) \in Nat
  BY UnitsInTyped
<1> QED BY <1>2, <1>3, <1>4, QuantityOfNone

(* A list leaves, with its units.                                          *)
LEMMA UnitsInLeave ==
  ASSUME NEW rest, IsFiniteSet(rest), NEW x, x \notin rest,
         NEW lists, \A y \in rest \cup {x} : lists[y] \in Seq(Lines), NEW p,
         NEW lists2, \A y \in rest : lists2[y] = lists[y]
  PROVE  /\ UnitsIn(lists2, rest, p) \in Nat
         /\ UnitsIn(lists, rest \cup {x}, p) = UnitsIn(lists2, rest, p) + Quantity(lists[x], p)
<1>1. UnitsIn(lists, rest \cup {x}, p) = UnitsIn(lists, rest, p) + Quantity(lists[x], p)
  BY UnitsInAdd
<1>2. UnitsIn(lists2, rest, p) = UnitsIn(lists, rest, p)
  BY UnitsInSame
<1>3. UnitsIn(lists, rest, p) \in Nat
  BY UnitsInTyped
<1> QED BY <1>1, <1>2, <1>3

-----------------------------------------------------------------------------
(* ReservedCoversOrders.                                                   *)

LEMMA CountsTyped ==
  ASSUME IInv, NEW p
  PROVE  /\ IsFiniteSet(ActiveOrders) /\ IsFiniteSet(Creators)
         /\ \A o \in ActiveOrders : placed[o] \in Seq(Lines)
         /\ \A w \in Creators : done[w] \in Seq(Lines)
         /\ UnitsOrdered(ActiveOrders, p) \in Nat /\ UnitsDone(Creators, p) \in Nat
<1>1. ActiveOrders \subseteq Orders /\ Creators \subseteq Workers
  BY DEF ActiveOrders, Creators
<1>2. IsFiniteSet(ActiveOrders) /\ IsFiniteSet(Creators)
  BY <1>1, FiniteAssumption, FS_Subset
<1>3. /\ \A o \in ActiveOrders : placed[o] \in Seq(Lines)
      /\ \A w \in Creators : done[w] \in Seq(Lines)
  BY <1>1 DEF IInv, TypeOK
<1> QED BY <1>2, <1>3, UnitsInTyped DEF UnitsOrdered, UnitsDone

LEMMA AccountsTyped ==
  ASSUME IInv, NEW p \in Products
  PROVE  /\ account[p].available \in Nat /\ account[p].reserved \in Nat
         /\ Opening[p].available \in Nat /\ Opening[p].reserved \in Nat
BY OpeningAssumption DEF IInv, TypeOK, Stock!Account

(* Steps that reserve no less and leave no more to cover.                  *)
LEMMA LessIsCovered ==
  ASSUME IInv, ReservedCoversOrders, IInv',
         ActiveOrders' \subseteq ActiveOrders, Creators' \subseteq Creators,
         \A o \in ActiveOrders' : placed'[o] = placed[o],
         \A w \in Creators' : done'[w] = done[w],
         \A p \in Products : account'[p].reserved >= account[p].reserved
  PROVE  ReservedCoversOrders'
<1> SUFFICES ASSUME NEW p \in Products
             PROVE  UnitsOrdered(ActiveOrders, p)' + UnitsDone(Creators, p)'
                      <= account'[p].reserved - Opening[p].reserved
  BY DEF ReservedCoversOrders
<1>1. UnitsOrdered(ActiveOrders, p)' <= UnitsOrdered(ActiveOrders, p)
  BY CountsTyped, UnitsInFewer DEF UnitsOrdered
<1>2. UnitsDone(Creators, p)' <= UnitsDone(Creators, p)
  BY CountsTyped, UnitsInFewer DEF UnitsDone
<1>3. UnitsOrdered(ActiveOrders, p) \in Nat /\ UnitsDone(Creators, p) \in Nat
  BY CountsTyped
<1>4. UnitsOrdered(ActiveOrders, p)' \in Nat /\ UnitsDone(Creators, p)' \in Nat
  <2>1. /\ IsFiniteSet(ActiveOrders') /\ IsFiniteSet(Creators')
        /\ \A o \in ActiveOrders' : placed'[o] \in Seq(Lines)
        /\ \A w \in Creators' : done'[w] \in Seq(Lines)
    BY CountsTyped, FS_Subset
  <2> QED BY <2>1, UnitsInTyped DEF UnitsOrdered, UnitsDone
<1>5. account[p].reserved \in Nat /\ Opening[p].reserved \in Nat /\ account'[p].reserved \in Nat
  BY AccountsTyped DEF IInv, TypeOK, Stock!Account
<1>6. UnitsOrdered(ActiveOrders, p) + UnitsDone(Creators, p)
        <= account[p].reserved - Opening[p].reserved
  BY DEF ReservedCoversOrders
<1>7. account'[p].reserved >= account[p].reserved
  OBVIOUS
<1> QED BY <1>1, <1>2, <1>3, <1>4, <1>5, <1>6, <1>7

LEMMA CreateIsCovered ==
  ASSUME ReservedIInv, NEW w \in Workers, Create(w)
  PROVE  ReservedCoversOrders'
<1>1. pc[w] = "idle" /\ done[w] = <<>> /\ pc' = [pc EXCEPT ![w] = "reserving"]
  BY DEF ReservedIInv, NothingDoneYet, Creating, Create, Goto
<1>2. UNCHANGED <<account, status, placed, done>>
  BY DEF Create, database
<1>3. Creators' = Creators \cup {w} /\ w \notin Creators
  BY <1>1 DEF Creators, Creating, ReservedIInv, IInv, TypeOK
<1>4. ActiveOrders' = ActiveOrders
  BY <1>2 DEF ActiveOrders
<1> SUFFICES ASSUME NEW p \in Products
             PROVE  UnitsOrdered(ActiveOrders, p)' + UnitsDone(Creators, p)'
                      <= account'[p].reserved - Opening[p].reserved
  BY DEF ReservedCoversOrders
<1>5. UnitsDone(Creators, p)' = UnitsDone(Creators, p)
  <2>1. IsFiniteSet(Creators) /\ \A v \in Creators : done[v] \in Seq(Lines)
    BY CountsTyped DEF ReservedIInv
  <2>2. done'[w] = <<>> /\ \A v \in Creators : done'[v] = done[v]
    BY <1>1, <1>2
  <2>3. UnitsIn(done', Creators \cup {w}, p) = UnitsIn(done, Creators, p)
    BY <1>3, <2>1, <2>2, UnitsInJoin
  <2> QED BY <1>3, <2>3 DEF UnitsDone
<1>6. UnitsOrdered(ActiveOrders, p)' = UnitsOrdered(ActiveOrders, p)
  BY <1>2, <1>4 DEF UnitsOrdered
<1> QED BY <1>2, <1>5, <1>6 DEF ReservedIInv, ReservedCoversOrders

(* What a line reserves is at once what the call has done.                 *)
LEMMA ReserveIsCovered ==
  ASSUME ReservedIInv, NEW w \in Workers, CreateReserve(w)
  PROVE  ReservedCoversOrders'
<1> DEFINE line == Head(todo[w])
<1>1. line \in Lines /\ line.product \in Products /\ line.quantity \in Nat
  <2>1. todo[w] \in Seq(Lines) /\ todo[w] # <<>>
    BY DEF CreateReserve, ReservedIInv, IInv, TypeOK
  <2> QED BY <2>1, LinesTyped
<1>2. /\ w \in Creators /\ Creators' = Creators /\ ActiveOrders' = ActiveOrders
      /\ UNCHANGED placed
  BY DEF CreateReserve, Creators, Creating, ActiveOrders
<1>3. done' = [done EXCEPT ![w] = Append(@, line)]
  BY DEF CreateReserve, Advance
<1>4. account' = [account EXCEPT ![line.product] = Stock!AfterReserve(@, line.quantity)]
  BY DEF CreateReserve, ReserveLine, Stock!Reserve
<1> HIDE DEF line
<1> SUFFICES ASSUME NEW p \in Products
             PROVE  UnitsOrdered(ActiveOrders, p)' + UnitsDone(Creators, p)'
                      <= account'[p].reserved - Opening[p].reserved
  BY DEF ReservedCoversOrders
<1>5. account'[p].reserved = account[p].reserved + UnitsOfLine(line, p)
  BY <1>1, <1>4 DEF ReservedIInv, IInv, TypeOK, UnitsOfLine, Stock!AfterReserve, Stock!Columns,
                    Stock!Account
<1>6. /\ IsFiniteSet(Creators) /\ \A v \in Creators : done[v] \in Seq(Lines)
      /\ UnitsDone(Creators, p) \in Nat /\ UnitsOrdered(ActiveOrders, p) \in Nat
  BY CountsTyped DEF ReservedIInv
<1>7. done'[w] = Append(done[w], line) /\ \A v \in Creators \ {w} : done'[v] = done[v]
  BY <1>3 DEF ReservedIInv, IInv, TypeOK, Creators
<1>8. UnitsIn(done', Creators, p) = UnitsIn(done, Creators, p) + UnitsOfLine(line, p)
  BY <1>1, <1>2, <1>6, <1>7, UnitsInAppend
<1>9. UnitsDone(Creators, p)' = UnitsDone(Creators, p) + UnitsOfLine(line, p)
  BY <1>2, <1>8 DEF UnitsDone
<1>10. UnitsOrdered(ActiveOrders, p)' = UnitsOrdered(ActiveOrders, p)
  BY <1>2 DEF UnitsOrdered
<1>11. UnitsOrdered(ActiveOrders, p) + UnitsDone(Creators, p)
         <= account[p].reserved - Opening[p].reserved
  BY DEF ReservedIInv, ReservedCoversOrders
<1>12. UnitsOfLine(line, p) \in Nat /\ account[p].reserved \in Nat /\ Opening[p].reserved \in Nat
  BY <1>1, UnitsOfLineTyped, AccountsTyped DEF ReservedIInv
<1> QED BY <1>5, <1>6, <1>9, <1>10, <1>11, <1>12

(* What the call has done becomes what the order holds.                    *)
LEMMA CommitIsCovered ==
  ASSUME ReservedIInv, NEW w \in Workers, CreateCommit(w)
  PROVE  ReservedCoversOrders'
<1> DEFINE o == order[w]
<1>1. /\ pc[w] = "inserting" /\ w \in Creators
      /\ o \in Orders /\ status[o] = None
  BY DEF CreateCommit, Creators, Creating, ReservedIInv, IInv, CreatedIsUnknown
<1>2. /\ status' = [status EXCEPT ![o] = "PENDING"] /\ placed' = [placed EXCEPT ![o] = done[w]]
      /\ pc' = [pc EXCEPT ![w] = "idle"] /\ done' = [done EXCEPT ![w] = <<>>]
      /\ UNCHANGED account
  BY DEF CreateCommit, Return, Goto
<1> HIDE DEF o
<1>3. ActiveOrders' = ActiveOrders \cup {o} /\ o \notin ActiveOrders
  <2>1. "PENDING" # None
    BY NoneAssumption DEF Statuses
  <2> QED BY <1>1, <1>2, <2>1 DEF ActiveOrders, ReservedIInv, IInv, TypeOK
<1>4. Creators' = Creators \ {w}
  BY <1>1, <1>2 DEF Creators, Creating, ReservedIInv, IInv, TypeOK
<1> SUFFICES ASSUME NEW p \in Products
             PROVE  UnitsOrdered(ActiveOrders, p)' + UnitsDone(Creators, p)'
                      <= account'[p].reserved - Opening[p].reserved
  BY DEF ReservedCoversOrders
<1>5. /\ IsFiniteSet(Creators) /\ \A v \in Creators : done[v] \in Seq(Lines)
      /\ IsFiniteSet(ActiveOrders) /\ \A a \in ActiveOrders : placed[a] \in Seq(Lines)
      /\ UnitsDone(Creators, p) \in Nat /\ UnitsOrdered(ActiveOrders, p) \in Nat
  BY CountsTyped DEF ReservedIInv
<1>6. UnitsOrdered(ActiveOrders, p)' = UnitsOrdered(ActiveOrders, p) + Quantity(done[w], p)
  <2>1. placed'[o] = done[w] /\ \A a \in ActiveOrders : placed'[a] = placed[a]
    BY <1>1, <1>2, <1>3 DEF ReservedIInv, IInv, TypeOK, ActiveOrders
  <2>2. \A a \in ActiveOrders \cup {o} : placed'[a] \in Seq(Lines)
    BY <1>1, <1>5, <2>1
  <2>3. UnitsIn(placed', ActiveOrders \cup {o}, p)
          = UnitsIn(placed', ActiveOrders, p) + Quantity(placed'[o], p)
    BY <1>3, <1>5, <2>2, UnitsInAdd
  <2>4. UnitsIn(placed', ActiveOrders, p) = UnitsIn(placed, ActiveOrders, p)
    BY <2>1, UnitsInSame
  <2> QED BY <1>3, <2>1, <2>3, <2>4 DEF UnitsOrdered
<1>7. UnitsDone(Creators, p) = UnitsDone(Creators, p)' + Quantity(done[w], p)
  <2>1. IsFiniteSet(Creators') /\ w \notin Creators' /\ Creators = Creators' \cup {w}
    BY <1>1, <1>4, <1>5, FS_RemoveElement
  <2>2. \A v \in Creators' : done'[v] = done[v]
    BY <1>2, <1>4 DEF ReservedIInv, IInv, TypeOK, Creators
  <2>3. \A v \in Creators' \cup {w} : done[v] \in Seq(Lines)
    BY <1>5, <2>1
  <2>4. UnitsIn(done, Creators' \cup {w}, p) = UnitsIn(done', Creators', p) + Quantity(done[w], p)
    BY <2>1, <2>2, <2>3, UnitsInLeave
  <2> QED BY <2>1, <2>4 DEF UnitsDone
<1>8. UnitsDone(Creators, p)' \in Nat /\ Quantity(done[w], p) \in Nat
  <2>1. done[w] \in Seq(Lines)
    BY <1>1, <1>5
  <2>2. IsFiniteSet(Creators \ {w}) /\ \A v \in Creators \ {w} : done'[v] \in Seq(Lines)
    BY <1>2, <1>5, FS_RemoveElement DEF ReservedIInv, IInv, TypeOK, Creators
  <2> QED BY <1>4, <2>1, <2>2, QuantityTyped, UnitsInTyped DEF UnitsDone
<1>9. UnitsOrdered(ActiveOrders, p) + UnitsDone(Creators, p)
        <= account[p].reserved - Opening[p].reserved
  BY DEF ReservedIInv, ReservedCoversOrders
<1> QED BY <1>2, <1>5, <1>6, <1>7, <1>8, <1>9

LEMMA NextKeepsNothingDone ==
  ASSUME IInv, NothingDoneYet, [Next]_vars
  PROVE  NothingDoneYet'
<1> SUFFICES ASSUME NEW v \in Workers, pc'[v] \notin Creating PROVE done'[v] = <<>>
  BY DEF NothingDoneYet
<1>1. ASSUME NEW w \in Workers, Return(w) PROVE done'[v] = <<>>
  BY <1>1 DEF IInv, TypeOK, NothingDoneYet, Creating, Return, Goto
<1>2. ASSUME NEW w \in Workers, CreateRefuse(w) \/ UpdateRefuse(w) \/ Fail(w)
      PROVE  Return(w)
  BY <1>2 DEF CreateRefuse, UpdateRefuse, Fail, Rollback
<1>3. ASSUME NEW w \in Workers, CreateCommit(w) \/ UpdateCommit(w) PROVE Return(w)
  BY <1>3 DEF CreateCommit, UpdateCommit
<1>4. ASSUME NEW w \in Workers, CreateReserve(w) PROVE done'[v] = <<>>
  BY <1>4 DEF IInv, TypeOK, NothingDoneYet, Creating, CreateReserve, Advance
<1>5. ASSUME NEW w \in Workers,
             \/ Create(w) \/ Update(w) \/ UpdateLock(w) \/ CreateLoopDone(w)
             \/ CreateClearRedis(w) \/ CreateClearDb(w)
      PROVE  done'[v] = <<>>
  BY <1>5 DEF IInv, TypeOK, NothingDoneYet, Creating, Create, Update, UpdateLock, CreateLoopDone,
              CreateClearRedis, CreateClearDb, Goto
<1>6. ASSUME \/ \E p \in Products : RemoveProduct(p)
             \/ \E u \in Users : FillCart(u)
             \/ UNCHANGED vars
      PROVE  done'[v] = <<>>
  BY <1>6 DEF NothingDoneYet, RemoveProduct, FillCart, vars, locals
<1> QED BY <1>1, <1>2, <1>3, <1>4, <1>5, <1>6 DEF Next, LockStep, Step

(* A reservation is never taken back: no step reserves less than before.   *)
LEMMA ReservedOnlyGrows ==
  ASSUME IInv, [Next]_vars, NEW p \in Products
  PROVE  account'[p].reserved >= account[p].reserved
<1> USE AccountsTyped
<1>1. ASSUME NEW w \in Workers, CreateReserve(w)
      PROVE  account'[p].reserved >= account[p].reserved
  <2> DEFINE line == Head(todo[w])
  <2>1. todo[w] # <<>> /\ todo[w] \in Seq(Lines)
    BY <1>1 DEF IInv, TypeOK, CreateReserve
  <2>2. line.product \in Products /\ line.quantity \in Nat
    BY <2>1, LinesTyped
  <2>3. account' = [account EXCEPT ![line.product] = Stock!AfterReserve(@, line.quantity)]
    BY <1>1 DEF CreateReserve, ReserveLine, Stock!Reserve
  <2> HIDE DEF line
  <2>4. \A a \in Stock!Account : /\ Stock!AfterReserve(a, line.quantity).reserved >= a.reserved
                               /\ a.reserved >= a.reserved
    BY <2>2 DEF Stock!AfterReserve, Stock!Columns, Stock!Account
  <2>5. account \in [Products -> Stock!Account]
    BY DEF IInv, TypeOK
  <2> HIDE DEF Stock!Account
  <2> QED BY <2>2, <2>3, <2>4, <2>5
<1>2. ASSUME ~\E w \in Workers : CreateReserve(w)
      PROVE  account' = account
  BY <1>2 DEF Next, LockStep, Step, Create, Update, UpdateLock, UpdateRefuse, CreateCommit,
              CreateRefuse, CreateLoopDone, CreateClearRedis, CreateClearDb, UpdateCommit,
              Fail, Rollback, RemoveProduct, FillCart, vars, database
<1> QED BY <1>1, <1>2

(* The steps that neither begin a call nor reserve nor insert.             *)
LEMMA OtherStepsAreCovered ==
  ASSUME ReservedIInv, [Next]_vars,
         ~\E w \in Workers : Create(w) \/ CreateReserve(w) \/ CreateCommit(w)
  PROVE  ReservedCoversOrders'
<1> USE DEF ReservedIInv
<1>1. IInv'
  BY NextKeepsIInv
<1>2. ASSUME NEW w \in Workers, Return(w)
      PROVE  Creators' \subseteq Creators /\ \A v \in Creators' : done'[v] = done[v]
  BY <1>2 DEF IInv, TypeOK, Return, Goto, Creators, Creating
<1>3. ASSUME NEW w \in Workers, CreateRefuse(w) \/ UpdateRefuse(w) \/ Fail(w)
      PROVE  Return(w) /\ UNCHANGED <<status, placed>>
  BY <1>3 DEF CreateRefuse, UpdateRefuse, Fail, Rollback
<1>4. ASSUME NEW w \in Workers, UpdateCommit(w)
      PROVE  Return(w) /\ placed' = placed /\ ActiveOrders' \subseteq ActiveOrders
  <2>1. /\ Return(w) /\ placed' = placed
        /\ status' = [status EXCEPT ![order[w]] = wanted[w]]
        /\ pc[w] = "saving"
    BY <1>4 DEF UpdateCommit
  <2>2. /\ order[w] \in Orders /\ status[order[w]] # None
        /\ wanted[w] \in ValidTransitions[status[order[w]]]
    BY <2>1 DEF IInv, LockProtectsStatus
  <2>3. status[order[w]] # "CANCELLED"
    BY <2>2 DEF ValidTransitions, Statuses
  <2> QED BY <2>1, <2>2, <2>3 DEF IInv, TypeOK, ActiveOrders
<1>6. ASSUME NEW w \in Workers,
             \/ Update(w) \/ UpdateLock(w) \/ CreateLoopDone(w)
             \/ CreateClearRedis(w) \/ CreateClearDb(w)
      PROVE  Creators' = Creators /\ UNCHANGED <<status, placed, done>>
  BY <1>6 DEF IInv, TypeOK, Update, UpdateLock, CreateLoopDone, CreateClearRedis, CreateClearDb,
              Goto, Creators, Creating, database
<1>7. ASSUME \/ \E p \in Products : RemoveProduct(p)
             \/ \E u \in Users : FillCart(u)
             \/ UNCHANGED vars
      PROVE  Creators' = Creators /\ UNCHANGED <<status, placed, done>>
  BY <1>7 DEF Creators, RemoveProduct, FillCart, vars, database, locals
<1>8. /\ ActiveOrders' \subseteq ActiveOrders /\ placed' = placed
      /\ Creators' \subseteq Creators /\ \A v \in Creators' : done'[v] = done[v]
  <2>1. status' = status => ActiveOrders' = ActiveOrders
    BY DEF ActiveOrders
  <2> QED BY <1>2, <1>3, <1>4, <1>6, <1>7, <2>1 DEF Next, LockStep, Step
<1> QED BY <1>1, <1>8, ReservedOnlyGrows, LessIsCovered

LEMMA NextKeepsReserved == ReservedIInv /\ [Next]_vars => ReservedIInv'
<1> SUFFICES ASSUME ReservedIInv, [Next]_vars PROVE ReservedIInv'
  OBVIOUS
<1>1. IInv' /\ NothingDoneYet'
  BY NextKeepsIInv, NextKeepsNothingDone DEF ReservedIInv
<1>2. ReservedCoversOrders'
  BY CreateIsCovered, ReserveIsCovered, CommitIsCovered, OtherStepsAreCovered
<1> QED BY <1>1, <1>2 DEF ReservedIInv

LEMMA InitReserved == Init => ReservedIInv
<1> SUFFICES ASSUME Init PROVE ReservedIInv
  OBVIOUS
<1>1. NothingDoneYet
  BY DEF Init, NothingDoneYet
<1>2. ActiveOrders = {} /\ Creators = {}
  BY DEF Init, ActiveOrders, Creators, Creating
<1>3. ASSUME NEW p, NEW lists PROVE UnitsIn(lists, {}, p) = 0
  BY SumOfNone DEF UnitsIn
<1>4. ReservedCoversOrders
  <2>1. IInv
    BY InitIInv
  <2>2. ASSUME NEW p \in Products
        PROVE  UnitsOrdered({}, p) + UnitsDone({}, p) <= account[p].reserved - Opening[p].reserved
    <3>1. account[p] = Opening[p]
      BY DEF Init
    <3> QED BY <1>3, <2>1, <3>1, AccountsTyped DEF UnitsOrdered, UnitsDone
  <2> QED BY <1>2, <2>2 DEF ReservedCoversOrders
<1> QED BY <1>1, <1>4, InitIInv DEF ReservedIInv

LEMMA ReservedInvariance == Spec => []ReservedIInv
<1> QED BY InitReserved, NextKeepsReserved, PTL DEF Spec

(* Whatever calls interleave and die, every unit of an order that stands,  *)
(* or that is being placed, is a unit that was reserved                    *)
(* (orders.service.ts:39, 60).                                             *)
THEOREM OrdersAreReserved == Spec => []ReservedCoversOrders
<1>1. ReservedIInv => ReservedCoversOrders
  BY DEF ReservedIInv
<1> QED BY <1>1, ReservedInvariance, PTL

-----------------------------------------------------------------------------
(* NoOversell.                                                             *)

(* No step returns a unit: a reservation moves some from available to      *)
(* reserved, and no other step changes the accounts.                       *)
LEMMA NextKeepsNothingReturned ==
  ASSUME IInv, NothingReturned, [Next]_vars
  PROVE  NothingReturned'
<1> SUFFICES ASSUME NEW p \in Products
             PROVE  account'[p].available + account'[p].reserved
                      = Opening[p].available + Opening[p].reserved
  BY DEF NothingReturned
<1>1. ASSUME NEW w \in Workers, CreateReserve(w)
      PROVE  account'[p].available + account'[p].reserved
               = account[p].available + account[p].reserved
  <2> DEFINE line == Head(todo[w])
  <2>1. todo[w] # <<>> /\ todo[w] \in Seq(Lines)
    BY <1>1 DEF IInv, TypeOK, CreateReserve
  <2>2. line.product \in Products /\ line.quantity \in Nat
    BY <2>1, LinesTyped
  <2>3. account' = [account EXCEPT ![line.product] = Stock!AfterReserve(@, line.quantity)]
    BY <1>1 DEF CreateReserve, ReserveLine, Stock!Reserve
  <2> HIDE DEF line
  <2>4. \A a \in Stock!Account :
          Stock!AfterReserve(a, line.quantity).available + Stock!AfterReserve(a, line.quantity).reserved
            = a.available + a.reserved
    BY <2>2 DEF Stock!AfterReserve, Stock!Columns, Stock!Account
  <2>5. account \in [Products -> Stock!Account]
    BY DEF IInv, TypeOK
  <2> HIDE DEF Stock!Account
  <2> QED BY <2>2, <2>3, <2>4, <2>5
<1>2. ASSUME ~\E w \in Workers : CreateReserve(w)
      PROVE  account' = account
  BY <1>2 DEF Next, LockStep, Step, Create, Update, UpdateLock, UpdateRefuse, CreateCommit,
              CreateRefuse, CreateLoopDone, CreateClearRedis, CreateClearDb, UpdateCommit,
              Fail, Rollback, RemoveProduct, FillCart, vars, database
<1> QED BY <1>1, <1>2 DEF NothingReturned

(* What is reserved has left what is available.                            *)
LEMMA ReservedFits ==
  ASSUME ReservedIInv, NothingReturned
  PROVE  NoOversell
<1> SUFFICES ASSUME NEW p \in Products
             PROVE  UnitsOrdered(ActiveOrders, p) <= Opening[p].available
  BY DEF NoOversell
<1>1. UnitsOrdered(ActiveOrders, p) \in Nat /\ UnitsDone(Creators, p) \in Nat
  BY CountsTyped DEF ReservedIInv
<1>2. /\ account[p].available \in Nat /\ account[p].reserved \in Nat
      /\ Opening[p].available \in Nat /\ Opening[p].reserved \in Nat
  BY AccountsTyped DEF ReservedIInv
<1>3. /\ UnitsOrdered(ActiveOrders, p) + UnitsDone(Creators, p)
           <= account[p].reserved - Opening[p].reserved
      /\ account[p].available + account[p].reserved
           = Opening[p].available + Opening[p].reserved
  BY DEF ReservedIInv, ReservedCoversOrders, NothingReturned
<1> QED BY <1>1, <1>2, <1>3

(* No step of any call returns a unit to the stock: cancelling an order    *)
(* gives none of it back (orders.service.ts:196-207), and a cancellation   *)
(* that fails and is tried again gives nothing back twice.                 *)
THEOREM NothingIsReturned == Spec => []NothingReturned
<1>1. Init => NothingReturned
  BY DEF Init, NothingReturned
<1>2. IInv /\ NothingReturned /\ [Next]_vars => NothingReturned'
  BY NextKeepsNothingReturned
<1> QED BY <1>1, <1>2, Invariance, PTL DEF Spec

(* The orders that stand fit in the opening stock, whatever calls          *)
(* interleave and die: reserve never lends a unit twice, and nothing       *)
(* returns one (inventory.service.ts:177-180, orders.service.ts:59).       *)
THEOREM NothingOversold == Spec => []NoOversell
<1>1. ReservedIInv /\ NothingReturned => NoOversell
  BY ReservedFits
<1> QED BY <1>1, NothingIsReturned, ReservedInvariance, PTL

-----------------------------------------------------------------------------
(* StockIsWhatOrdersTook.                                                  *)

(* A list without lines of p has no units of it.                           *)
LEMMA QuantityOfOthers ==
  ASSUME NEW ls \in Seq(Lines), NEW p, \A k \in DOMAIN ls : ls[k].product # p
  PROVE  Quantity(ls, p) = 0
<1> DEFINE f == [k \in DOMAIN ls |-> UnitsOfLine(ls[k], p)]
<1>1. \A k \in DOMAIN ls : f[k] = 0
  BY DEF UnitsOfLine
<1>2. Quantity(ls, p) = SumOver(f, DOMAIN ls)
  BY DEF Quantity
<1> HIDE DEF f
<1> QED BY <1>1, <1>2, SumOfZeros

(* The terms of the equation about p.                                      *)
LEMMA StockTyped ==
  ASSUME IInv, NEW p \in Products
  PROVE  /\ IsFiniteSet(PlacedOrders) /\ \A o \in PlacedOrders : placed[o] \in Seq(Lines)
         /\ IsFiniteSet(Creators) /\ \A w \in Creators : done[w] \in Seq(Lines)
         /\ UnitsOrdered(PlacedOrders, p) \in Nat /\ UnitsDone(Creators, p) \in Nat
         /\ account[p].available \in Nat /\ Opening[p].available \in Nat
<1>1. PlacedOrders \subseteq Orders
  BY DEF PlacedOrders
<1>2. IsFiniteSet(PlacedOrders)
  BY <1>1, FiniteAssumption, FS_Subset
<1>3. \A o \in PlacedOrders : placed[o] \in Seq(Lines)
  BY <1>1 DEF IInv, TypeOK
<1>4. UnitsOrdered(PlacedOrders, p) \in Nat
  BY <1>2, <1>3, UnitsInTyped DEF UnitsOrdered
<1> QED BY <1>2, <1>3, <1>4, CountsTyped, AccountsTyped

(* Steps after which the same units are with the same orders and calls.    *)
LEMMA SameStock ==
  ASSUME StockIsWhatOrdersTook, account' = account, stranded' = stranded,
         PlacedOrders' = PlacedOrders, Creators' = Creators, placed' = placed,
         \A w \in Creators : done'[w] = done[w]
  PROVE  StockIsWhatOrdersTook'
<1>1. ASSUME NEW p
      PROVE  /\ UnitsOrdered(PlacedOrders, p)' = UnitsOrdered(PlacedOrders, p)
             /\ UnitsDone(Creators, p)' = UnitsDone(Creators, p)
  <2>1. UnitsIn(done', Creators, p) = UnitsIn(done, Creators, p)
    BY UnitsInSame
  <2> QED BY <2>1 DEF UnitsOrdered, UnitsDone
<1> QED BY <1>1 DEF StockIsWhatOrdersTook

(* A call that has nothing behind it begins to create.                     *)
LEMMA CreateKeepsStock ==
  ASSUME StockIInv, NEW w \in Workers, Create(w)
  PROVE  StockIsWhatOrdersTook'
<1>1. pc[w] = "idle" /\ pc' = [pc EXCEPT ![w] = "reserving"]
  BY DEF Create, Goto
<1>2. UNCHANGED <<account, status, placed, done, stranded>>
  BY DEF Create, database
<1>3. Creators' = Creators \cup {w} /\ w \notin Creators /\ done[w] = <<>>
  BY <1>1 DEF Creators, Creating, StockIInv, IInv, TypeOK, NothingDoneYet
<1>4. PlacedOrders' = PlacedOrders
  BY <1>2 DEF PlacedOrders
<1>5. ASSUME NEW p \in Products
      PROVE  /\ UnitsOrdered(PlacedOrders, p)' = UnitsOrdered(PlacedOrders, p)
             /\ UnitsDone(Creators, p)' = UnitsDone(Creators, p)
  <2>1. IsFiniteSet(Creators) /\ \A v \in Creators : done[v] \in Seq(Lines)
    BY StockTyped DEF StockIInv
  <2>2. done'[w] = <<>> /\ \A v \in Creators : done'[v] = done[v]
    BY <1>2, <1>3
  <2>3. UnitsIn(done', Creators \cup {w}, p) = UnitsIn(done, Creators, p)
    BY <1>3, <2>1, <2>2, UnitsInJoin
  <2> QED BY <1>2, <1>3, <1>4, <2>3 DEF UnitsDone, UnitsOrdered
<1> QED BY <1>2, <1>5 DEF StockIInv, StockIsWhatOrdersTook

(* A line leaves the stock as the call passes it.                          *)
LEMMA CreateReserveKeepsStock ==
  ASSUME StockIInv, NEW w \in Workers, CreateReserve(w)
  PROVE  StockIsWhatOrdersTook'
<1> DEFINE line == Head(todo[w])
<1>1. line \in Lines /\ line.product \in Products /\ line.quantity \in Nat
  <2>1. todo[w] \in Seq(Lines) /\ todo[w] # <<>>
    BY DEF CreateReserve, StockIInv, IInv, TypeOK
  <2> QED BY <2>1, LinesTyped
<1>2. /\ w \in Creators /\ Creators' = Creators /\ PlacedOrders' = PlacedOrders
      /\ UNCHANGED <<placed, stranded>>
  BY DEF CreateReserve, Creators, Creating, PlacedOrders
<1>3. done' = [done EXCEPT ![w] = Append(@, line)]
  BY DEF CreateReserve, Advance
<1>4. account' = [account EXCEPT ![line.product] = Stock!AfterReserve(@, line.quantity)]
  BY DEF CreateReserve, ReserveLine, Stock!Reserve
<1> HIDE DEF line
<1> SUFFICES ASSUME NEW p \in Products, p \notin stranded
             PROVE  account'[p].available =
                      Opening[p].available - UnitsOrdered(PlacedOrders, p)' - UnitsDone(Creators, p)'
  BY <1>2 DEF StockIsWhatOrdersTook
<1>5. account'[p].available = account[p].available - UnitsOfLine(line, p)
  BY <1>1, <1>4 DEF StockIInv, IInv, TypeOK, UnitsOfLine, Stock!AfterReserve, Stock!Columns,
                    Stock!Account
<1>6. UnitsDone(Creators, p)' = UnitsDone(Creators, p) + UnitsOfLine(line, p)
  <2>1. IsFiniteSet(Creators) /\ \A v \in Creators : done[v] \in Seq(Lines)
    BY StockTyped DEF StockIInv
  <2>2. done'[w] = Append(done[w], line) /\ \A v \in Creators \ {w} : done'[v] = done[v]
    BY <1>3 DEF StockIInv, IInv, TypeOK, Creators
  <2>3. UnitsIn(done', Creators, p) = UnitsIn(done, Creators, p) + UnitsOfLine(line, p)
    BY <1>1, <1>2, <2>1, <2>2, UnitsInAppend
  <2> QED BY <1>2, <2>3 DEF UnitsDone
<1>7. UnitsOrdered(PlacedOrders, p)' = UnitsOrdered(PlacedOrders, p)
  BY <1>2 DEF UnitsOrdered
<1>8. UnitsOfLine(line, p) \in Nat
  BY <1>1, UnitsOfLineTyped
<1>9. /\ account[p].available =
           Opening[p].available - UnitsOrdered(PlacedOrders, p) - UnitsDone(Creators, p)
      /\ UnitsOrdered(PlacedOrders, p) \in Nat /\ UnitsDone(Creators, p) \in Nat
      /\ account[p].available \in Nat /\ Opening[p].available \in Nat
  BY StockTyped DEF StockIInv, StockIsWhatOrdersTook
<1> QED BY <1>5, <1>6, <1>7, <1>8, <1>9

(* A call that leaves takes with it what it has passed.                    *)
LEMMA CreatorsWithout ==
  ASSUME IInv, NEW w \in Workers, w \in Creators, w \notin Creators', Creators' \subseteq Creators,
         \A y \in Workers \ {w} : done'[y] = done[y], NEW p \in Products
  PROVE  /\ UnitsIn(done', Creators', p) \in Nat
         /\ UnitsIn(done, Creators' \cup {w}, p)
              = UnitsIn(done', Creators', p) + Quantity(done[w], p)
<1>1. IsFiniteSet(Creators') /\ \A y \in Creators' \cup {w} : done[y] \in Seq(Lines)
  BY StockTyped, FS_Subset
<1>2. \A y \in Creators' : done'[y] = done[y]
  BY DEF Creators
<1> QED BY <1>1, <1>2, UnitsInLeave

LEMMA LeavesCreators ==
  ASSUME IInv, NEW w \in Workers, w \in Creators, Return(w), NEW p \in Products
  PROVE  /\ UnitsDone(Creators, p)' \in Nat /\ Quantity(done[w], p) \in Nat
         /\ UnitsDone(Creators, p) = UnitsDone(Creators, p)' + Quantity(done[w], p)
<1>1. /\ w \notin Creators' /\ Creators = Creators' \cup {w} /\ Creators' \subseteq Creators
      /\ \A v \in Workers \ {w} : done'[v] = done[v]
  BY DEF Return, Goto, Creators, Creating, IInv, TypeOK
<1>2. Quantity(done[w], p) \in Nat
  BY QuantityTyped DEF IInv, TypeOK
<1>3. /\ UnitsIn(done', Creators', p) \in Nat
      /\ UnitsIn(done, Creators' \cup {w}, p)
           = UnitsIn(done', Creators', p) + Quantity(done[w], p)
  BY <1>1, CreatorsWithout
<1> QED BY <1>1, <1>2, <1>3 DEF UnitsDone

(* What a creation passed becomes its order's.                             *)
LEMMA CreateCommitKeepsStock ==
  ASSUME StockIInv, NEW w \in Workers, CreateCommit(w)
  PROVE  StockIsWhatOrdersTook'
<1> DEFINE o == order[w]
<1>1. w \in Creators /\ o \in Orders /\ status[o] = None
  BY DEF CreateCommit, Creators, Creating, StockIInv, IInv, CreatedIsUnknown
<1>2. /\ status' = [status EXCEPT ![o] = "PENDING"] /\ placed' = [placed EXCEPT ![o] = done[w]]
      /\ UNCHANGED <<account, stranded>> /\ Return(w)
  BY DEF CreateCommit
<1> HIDE DEF o
<1>3. PlacedOrders' = PlacedOrders \cup {o} /\ o \notin PlacedOrders
  <2>1. "PENDING" # None
    BY NoneAssumption DEF Statuses
  <2> QED BY <1>1, <1>2, <2>1 DEF PlacedOrders, StockIInv, IInv, TypeOK
<1> SUFFICES ASSUME NEW p \in Products, p \notin stranded
             PROVE  account'[p].available =
                      Opening[p].available - UnitsOrdered(PlacedOrders, p)' - UnitsDone(Creators, p)'
  BY <1>2 DEF StockIsWhatOrdersTook
<1>4. UnitsOrdered(PlacedOrders, p)' = UnitsOrdered(PlacedOrders, p) + Quantity(done[w], p)
  <2>1. IsFiniteSet(PlacedOrders) /\ \A a \in PlacedOrders : placed[a] \in Seq(Lines)
    BY StockTyped DEF StockIInv
  <2>2. placed'[o] = done[w] /\ \A a \in PlacedOrders : placed'[a] = placed[a]
    BY <1>1, <1>2, <1>3 DEF StockIInv, IInv, TypeOK, PlacedOrders
  <2>3. o \notin PlacedOrders /\ \A a \in PlacedOrders \cup {o} : placed'[a] \in Seq(Lines)
    BY <1>3, <2>1, <2>2 DEF StockIInv, IInv, TypeOK
  <2>4. UnitsIn(placed', PlacedOrders \cup {o}, p)
          = UnitsIn(placed', PlacedOrders, p) + Quantity(placed'[o], p)
    BY <2>1, <2>3, UnitsInAdd
  <2>5. UnitsIn(placed', PlacedOrders, p) = UnitsIn(placed, PlacedOrders, p)
    BY <2>2, UnitsInSame
  <2> QED BY <1>3, <2>2, <2>4, <2>5 DEF UnitsOrdered
<1>5. /\ UnitsDone(Creators, p)' \in Nat /\ Quantity(done[w], p) \in Nat
      /\ UnitsDone(Creators, p) = UnitsDone(Creators, p)' + Quantity(done[w], p)
  BY <1>1, <1>2, LeavesCreators DEF StockIInv
<1>6. /\ account[p].available =
           Opening[p].available - UnitsOrdered(PlacedOrders, p) - UnitsDone(Creators, p)
      /\ UnitsOrdered(PlacedOrders, p) \in Nat
      /\ account[p].available \in Nat /\ Opening[p].available \in Nat
  BY StockTyped DEF StockIInv, StockIsWhatOrdersTook
<1> QED BY <1>2, <1>4, <1>5, <1>6

(* A call that throws strands the products it had reserved, and no other.  *)
LEMMA RollbackKeepsStock ==
  ASSUME StockIInv, NEW w \in Workers, Rollback(w)
  PROVE  StockIsWhatOrdersTook'
<1>1. /\ Return(w) /\ UNCHANGED <<account, status, placed>>
      /\ stranded' = stranded \cup {done[w][k].product : k \in DOMAIN done[w]}
  BY DEF Rollback
<1>2. PlacedOrders' = PlacedOrders
  BY <1>1 DEF PlacedOrders
<1> SUFFICES ASSUME NEW p \in Products, p \notin stranded'
             PROVE  account'[p].available =
                      Opening[p].available - UnitsOrdered(PlacedOrders, p)' - UnitsDone(Creators, p)'
  BY DEF StockIsWhatOrdersTook
<1>3. UnitsDone(Creators, p)' = UnitsDone(Creators, p)
  <2>1. CASE w \in Creators
    <3>1. /\ UnitsDone(Creators, p)' \in Nat
          /\ UnitsDone(Creators, p) = UnitsDone(Creators, p)' + Quantity(done[w], p)
      BY <1>1, <2>1, LeavesCreators DEF StockIInv
    <3>2. done[w] \in Seq(Lines) /\ \A k \in DOMAIN done[w] : done[w][k].product # p
      BY <1>1 DEF StockIInv, IInv, TypeOK
    <3>3. Quantity(done[w], p) = 0
      BY <3>2, QuantityOfOthers
    <3> QED BY <3>1, <3>3
  <2>2. CASE w \notin Creators
    <3>1. Creators' = Creators /\ \A v \in Creators : done'[v] = done[v]
      BY <1>1, <2>2 DEF Return, Goto, Creators, Creating, StockIInv, IInv, TypeOK
    <3>2. UnitsIn(done', Creators, p) = UnitsIn(done, Creators, p)
      BY <3>1, UnitsInSame
    <3> QED BY <3>1, <3>2 DEF UnitsDone
  <2> QED BY <2>1, <2>2
<1>4. UnitsOrdered(PlacedOrders, p)' = UnitsOrdered(PlacedOrders, p)
  BY <1>1, <1>2 DEF UnitsOrdered
<1>5. p \notin stranded /\ account'[p] = account[p]
  BY <1>1
<1> QED BY <1>3, <1>4, <1>5 DEF StockIInv, StockIsWhatOrdersTook

(* An update moves an order and its units stay with it.                    *)
LEMMA UpdateCommitKeepsStock ==
  ASSUME StockIInv, NEW w \in Workers, UpdateCommit(w)
  PROVE  StockIsWhatOrdersTook'
<1>1. /\ pc[w] = "saving" /\ Return(w) /\ UNCHANGED <<account, placed, stranded>>
      /\ status' = [status EXCEPT ![order[w]] = wanted[w]]
  BY DEF UpdateCommit
<1>2. /\ order[w] \in Orders /\ status[order[w]] # None /\ status[order[w]] \in Statuses
      /\ wanted[w] \in ValidTransitions[status[order[w]]]
  BY <1>1 DEF StockIInv, IInv, TypeOK, LockProtectsStatus
<1>3. wanted[w] # None
  BY <1>2, TransitionsTyped
<1>4. PlacedOrders' = PlacedOrders
  BY <1>1, <1>2, <1>3 DEF PlacedOrders, StockIInv, IInv, TypeOK
<1>5. Creators' = Creators /\ \A v \in Creators : done'[v] = done[v]
  BY <1>1 DEF Return, Goto, Creators, Creating, StockIInv, IInv, TypeOK
<1> QED BY <1>1, <1>4, <1>5, SameStock DEF StockIInv

LEMMA NextKeepsStock == StockIInv /\ [Next]_vars => StockIInv'
<1> SUFFICES ASSUME StockIInv, [Next]_vars PROVE StockIInv'
  OBVIOUS
<1>1. IInv' /\ NothingDoneYet'
  BY NextKeepsIInv, NextKeepsNothingDone DEF StockIInv
<1>2. ASSUME NEW w \in Workers,
             \/ Update(w) \/ UpdateLock(w) \/ CreateLoopDone(w)
             \/ CreateClearRedis(w) \/ CreateClearDb(w)
      PROVE  StockIsWhatOrdersTook'
  <2>1. UNCHANGED <<account, status, placed, done, stranded>>
    BY <1>2 DEF Update, UpdateLock, CreateLoopDone, CreateClearRedis, CreateClearDb, database
  <2>2. Creators' = Creators
    BY <1>2 DEF StockIInv, IInv, TypeOK, Update, UpdateLock, CreateLoopDone, CreateClearRedis,
                CreateClearDb, Goto, Creators, Creating
  <2>3. PlacedOrders' = PlacedOrders
    BY <2>1 DEF PlacedOrders
  <2> QED BY <2>1, <2>2, <2>3, SameStock DEF StockIInv
<1>3. ASSUME \/ \E p \in Products : RemoveProduct(p)
             \/ \E u \in Users : FillCart(u)
             \/ UNCHANGED vars
      PROVE  StockIsWhatOrdersTook'
  <2>1. UNCHANGED <<account, status, placed, done, pc, stranded>>
    BY <1>3 DEF RemoveProduct, FillCart, vars, database, locals
  <2>2. Creators' = Creators /\ PlacedOrders' = PlacedOrders
    BY <2>1 DEF Creators, PlacedOrders
  <2> QED BY <2>1, <2>2, SameStock DEF StockIInv
<1>4. ASSUME NEW w \in Workers, CreateRefuse(w) \/ UpdateRefuse(w) \/ Fail(w)
      PROVE  StockIsWhatOrdersTook'
  BY <1>4, RollbackKeepsStock DEF CreateRefuse, UpdateRefuse, Fail
<1>5. StockIsWhatOrdersTook'
  BY <1>2, <1>3, <1>4, CreateKeepsStock, CreateReserveKeepsStock, CreateCommitKeepsStock,
     UpdateCommitKeepsStock DEF Next, LockStep, Step
<1> QED BY <1>1, <1>5 DEF StockIInv

LEMMA InitStock == Init => StockIInv
<1> SUFFICES ASSUME Init PROVE StockIInv
  OBVIOUS
<1>1. NothingDoneYet
  BY DEF Init, NothingDoneYet
<1>2. PlacedOrders = {} /\ Creators = {}
  BY DEF Init, PlacedOrders, Creators, Creating
<1>3. ASSUME NEW p, NEW lists PROVE UnitsIn(lists, {}, p) = 0
  BY SumOfNone DEF UnitsIn
<1>4. ASSUME NEW p \in Products
      PROVE  account[p].available = Opening[p].available - UnitsOrdered({}, p) - UnitsDone({}, p)
  <2>1. account[p] = Opening[p]
    BY DEF Init
  <2> QED BY <1>3, <2>1, InitIInv, AccountsTyped DEF UnitsOrdered, UnitsDone
<1> QED BY <1>1, <1>2, <1>4, InitIInv DEF StockIInv, StockIsWhatOrdersTook

(* Whatever calls interleave, are refused or die, and whatever items they  *)
(* ask for: a product none of whose units was reserved by a call that then *)
(* threw is short of exactly the units that orders, cancelled ones         *)
(* included, were placed with and that calls under way have reserved       *)
(* (orders.service.ts:39, 59, 200).                                        *)
THEOREM StockIsAccountedFor == Spec => []StockIsWhatOrdersTook
<1>1. StockIInv => StockIsWhatOrdersTook
  BY DEF StockIInv
<1> QED BY <1>1, InitStock, NextKeepsStock, PTL DEF Spec


-----------------------------------------------------------------------------
(* CartClearedForOrder: whoever is without a cart, an order and a call     *)
(* that is past its loop is so through a failure, and each failure adds    *)
(* only the user of its own call.                                          *)

LEMMA RollbackRisksOneCart ==
  ASSUME IInv, NEW w \in Workers, Rollback(w)
  PROVE  /\ CartsAtRisk' \subseteq CartsAtRisk \cup {user[w]}
         /\ pc[w] \notin Creating \ {"reserving"} => CartsAtRisk' \subseteq CartsAtRisk
<1>1. /\ redisCart' = redisCart /\ owner' = owner
      /\ pc' = [pc EXCEPT ![w] = "idle"] /\ user' = [user EXCEPT ![w] = None]
  BY DEF Rollback, Return, Goto
<1>2. ASSUME NEW v \in Workers, v # w PROVE pc'[v] = pc[v] /\ user'[v] = user[v]
  BY <1>1, <1>2 DEF IInv, TypeOK
<1> QED BY <1>1, <1>2 DEF CartsAtRisk

LEMMA OthersRiskNoCart ==
  ASSUME CartsIInv, [Next]_vars, ~\E w \in Workers : Fail(w)
  PROVE  CartsAtRisk' \subseteq CartsAtRisk
<1> USE DEF CartsIInv
<1>1. ASSUME NEW w \in Workers, CreateRefuse(w) \/ UpdateRefuse(w)
      PROVE  CartsAtRisk' \subseteq CartsAtRisk
  <2>1. Rollback(w) /\ pc[w] \notin Creating \ {"reserving"}
    BY <1>1 DEF CreateRefuse, UpdateRefuse, Creating
  <2> QED BY <2>1, RollbackRisksOneCart
<1>2. ASSUME NEW w \in Workers, CreateCommit(w)
      PROVE  CartsAtRisk' \subseteq CartsAtRisk
  <2>1. /\ redisCart' = redisCart /\ owner' = [owner EXCEPT ![order[w]] = user[w]]
        /\ pc' = [pc EXCEPT ![w] = "idle"] /\ user' = [user EXCEPT ![w] = None]
        /\ pc[w] = "inserting"
    BY <1>2 DEF CreateCommit, Return, Goto
  <2>2. order[w] \in Orders /\ owner[order[w]] = None
    BY <2>1 DEF IInv, CreatedIsUnknown, Creating, OwnersHaveOrders
  <2>3. None \notin Users
    BY NoneAssumption
  <2>4. ASSUME NEW u \in CartsAtRisk' PROVE u \in CartsAtRisk
    <3>1. u \in Users \ redisCart /\ \A o \in Orders : owner'[o] # u
      BY <2>1, <2>4 DEF CartsAtRisk
    <3>2. owner'[order[w]] = user[w] /\ u # user[w]
      BY <2>1, <2>2, <3>1 DEF IInv, TypeOK
    <3>3. \A o \in Orders : owner[o] # u
      BY <2>1, <2>2, <2>3, <3>1 DEF IInv, TypeOK
    <3>4. \A v \in Workers : pc[v] \in Creating \ {"reserving"} => user[v] # u
      BY <2>1, <2>4, <3>2 DEF IInv, TypeOK, CartsAtRisk
    <3> QED BY <3>1, <3>3, <3>4 DEF CartsAtRisk
  <2> QED BY <2>4
<1>3. ASSUME NEW w \in Workers, CreateClearRedis(w)
      PROVE  CartsAtRisk' \subseteq CartsAtRisk
  <2>1. /\ redisCart' = redisCart \ {user[w]} /\ UNCHANGED <<owner, user>>
        /\ pc' = [pc EXCEPT ![w] = "clear_db"]
    BY <1>3 DEF CreateClearRedis, Goto
  <2>2. ASSUME NEW v \in Workers
        PROVE  pc'[v] \in Creating \ {"reserving"} <=> v = w \/ pc[v] \in Creating \ {"reserving"}
    BY <2>1 DEF IInv, TypeOK, Creating
  <2> QED BY <2>1, <2>2 DEF CartsAtRisk
<1>4. ASSUME NEW w \in Workers, UpdateCommit(w)
      PROVE  CartsAtRisk' \subseteq CartsAtRisk
  BY <1>4 DEF IInv, TypeOK, UpdateCommit, Return, Goto, CartsAtRisk, Creating
<1>5. ASSUME NEW w \in Workers, Create(w)
      PROVE  CartsAtRisk' \subseteq CartsAtRisk
  BY <1>5 DEF IInv, TypeOK, Create, Goto, database, CartsAtRisk, Creating
<1>6. ASSUME NEW w \in Workers, Update(w) \/ UpdateLock(w)
      PROVE  CartsAtRisk' \subseteq CartsAtRisk
  BY <1>6 DEF IInv, TypeOK, Update, UpdateLock, Goto, database, CartsAtRisk, Creating
<1>7. ASSUME NEW w \in Workers,
             \/ CreateReserve(w) \/ CreateLoopDone(w) \/ CreateClearDb(w)
      PROVE  CartsAtRisk' \subseteq CartsAtRisk
  BY <1>7 DEF IInv, TypeOK, CreateReserve, CreateLoopDone, CreateClearDb,
              Goto, database, CartsAtRisk, Creating
<1>8. ASSUME \/ \E p \in Products : RemoveProduct(p)
             \/ \E u \in Users : FillCart(u)
             \/ UNCHANGED vars
      PROVE  CartsAtRisk' \subseteq CartsAtRisk
  BY <1>8 DEF CartsAtRisk, RemoveProduct, FillCart, vars, database, locals
<1> QED BY <1>1, <1>2, <1>3, <1>4, <1>5, <1>6, <1>7, <1>8 DEF Next, LockStep, Step

LEMMA NextKeepsOwners ==
  ASSUME IInv, OwnersHaveOrders, [Next]_vars
  PROVE  OwnersHaveOrders'
<1>1. ASSUME NEW w \in Workers, CreateCommit(w) PROVE OwnersHaveOrders'
  <2>1. /\ status' = [status EXCEPT ![order[w]] = "PENDING"]
        /\ owner' = [owner EXCEPT ![order[w]] = user[w]]
    BY <1>1 DEF CreateCommit
  <2>2. "PENDING" # None
    BY NoneAssumption DEF Statuses
  <2> QED BY <2>1, <2>2 DEF IInv, TypeOK, OwnersHaveOrders
<1>2. ASSUME NEW w \in Workers, UpdateCommit(w) PROVE OwnersHaveOrders'
  <2>1. /\ status' = [status EXCEPT ![order[w]] = wanted[w]] /\ owner' = owner
        /\ pc[w] = "saving"
    BY <1>2 DEF UpdateCommit
  <2>2. status[order[w]] # None
    BY <2>1 DEF IInv, LockProtectsStatus
  <2>3. ASSUME NEW o \in Orders, status'[o] = None PROVE status[o] = None
    <3>1. o # order[w]
      <4>1. wanted[w] \in Statuses
        BY <2>1, TransitionsTyped DEF IInv, TypeOK, LockProtectsStatus
      <4> QED BY <2>1, <2>3, <4>1, NoneAssumption DEF IInv, TypeOK
    <3> QED BY <2>1, <2>3, <3>1 DEF IInv, TypeOK
  <2> QED BY <2>1, <2>3 DEF OwnersHaveOrders
<1>3. ASSUME ~\E w \in Workers : CreateCommit(w) \/ UpdateCommit(w)
      PROVE  UNCHANGED <<status, owner>>
  BY <1>3 DEF Next, LockStep, Step, Create, Update, UpdateLock, UpdateRefuse, CreateReserve,
              CreateRefuse, CreateLoopDone, CreateClearRedis, CreateClearDb,
              Fail, Rollback, RemoveProduct, FillCart, vars, database
<1>4. CASE UNCHANGED <<status, owner>>
  BY <1>4 DEF OwnersHaveOrders
<1> QED BY <1>1, <1>2, <1>3, <1>4

LEMMA NextKeepsCarts == CartsIInv /\ [Next]_vars => CartsIInv'
<1> SUFFICES ASSUME CartsIInv, [Next]_vars PROVE CartsIInv'
  OBVIOUS
<1>1. IInv' /\ OwnersHaveOrders'
  BY NextKeepsIInv, NextKeepsOwners DEF CartsIInv
<1>2. IsFiniteSet(CartsAtRisk) /\ Cardinality(CartsAtRisk) <= failures /\ failures \in Nat
  BY DEF CartsIInv, IInv, TypeOK
<1>3. CASE \E w \in Workers : Fail(w)
  <2>1. PICK w \in Workers : Fail(w)
    BY <1>3
  <2>2. Rollback(w) /\ failures' = failures + 1
    BY <2>1 DEF Fail
  <2>3. CartsAtRisk' \subseteq CartsAtRisk \cup {user[w]}
    BY <2>2, RollbackRisksOneCart DEF CartsIInv
  <2>4. IsFiniteSet(CartsAtRisk') /\ Cardinality(CartsAtRisk') <= failures + 1
    BY <1>2, <2>3, OneMoreElement
  <2> QED BY <1>1, <2>2, <2>4 DEF CartsIInv
<1>4. CASE ~\E w \in Workers : Fail(w)
  <2>1. failures' = failures
    BY <1>4 DEF Next, LockStep, Step, Create, Update, UpdateLock, UpdateRefuse, CreateReserve,
                CreateRefuse, CreateLoopDone, CreateClearRedis, CreateClearDb, CreateCommit,
                UpdateCommit, RemoveProduct, FillCart, vars
  <2>2. IsFiniteSet(CartsAtRisk') /\ Cardinality(CartsAtRisk') <= failures
    BY <1>2, <1>4, OthersRiskNoCart, NoMoreElements
  <2> QED BY <1>1, <2>1, <2>2 DEF CartsIInv
<1> QED BY <1>3, <1>4

LEMMA InitCarts == Init => CartsIInv
<1> SUFFICES ASSUME Init PROVE CartsIInv
  OBVIOUS
<1>1. CartsAtRisk = {} /\ failures = 0
  BY DEF Init, CartsAtRisk
<1>2. OwnersHaveOrders
  BY DEF Init, OwnersHaveOrders
<1> QED BY <1>1, <1>2, InitIInv, FS_EmptySet DEF CartsIInv

(* No refused item costs a cart: however many users have lost a cart with  *)
(* no order to show for it, as many transactions failed after createOrder  *)
(* had cleared one (orders.service.ts:94).                                 *)
THEOREM CartsClearedForOrders == Spec => []CartClearedForOrder
<1>1. Spec => []CartsIInv
  BY InitCarts, NextKeepsCarts, PTL DEF Spec
<1>2. CartsIInv => CartClearedForOrder
  <2> SUFFICES ASSUME CartsIInv PROVE CartClearedForOrder
    OBVIOUS
  <2>1. CartsLost \subseteq CartsAtRisk
    BY DEF CartsLost, CartsAtRisk, Creators
  <2>2. IsFiniteSet(CartsAtRisk) /\ Cardinality(CartsAtRisk) <= failures /\ failures \in Nat
    BY DEF CartsIInv, IInv, TypeOK
  <2> QED BY <2>1, <2>2, NoMoreElements DEF CartClearedForOrder
<1> QED BY <1>1, <1>2, PTL

-----------------------------------------------------------------------------
(* The orders act on StockAccount.                                         *)

LEMMA StepActsOnAccounts ==
  ASSUME IInv, [Next]_vars
  PROVE  [Stock!Next]_account
<1>1. ASSUME NEW w \in Workers, CreateReserve(w)
      PROVE  Stock!Next
  <2> DEFINE line == Head(todo[w])
  <2>1. todo[w] \in Seq(Lines) /\ todo[w] # <<>>
    BY <1>1 DEF CreateReserve, IInv, TypeOK
  <2>2. line \in Lines
    BY <2>1
  <2>3. line.product \in Products /\ line.quantity \in Nat \ {0}
    BY <2>2 DEF Lines
  <2>4. Stock!Reserve(line.product, line.quantity)
    BY <1>1 DEF CreateReserve, ReserveLine
  <2> QED BY <2>3, <2>4 DEF Stock!Next
<1>2. ASSUME NEW w \in Workers,
             \/ CreateRefuse(w) \/ CreateLoopDone(w) \/ CreateClearRedis(w)
             \/ CreateClearDb(w) \/ CreateCommit(w) \/ UpdateCommit(w)
      PROVE  account' = account
  BY <1>2 DEF CreateRefuse, CreateLoopDone, CreateClearRedis, CreateClearDb, CreateCommit,
              UpdateCommit, Rollback, database
<1>3. ASSUME NEW w \in Workers, Create(w) \/ Update(w) \/ LockStep(w) \/ Fail(w)
      PROVE  account' = account
  BY <1>3 DEF Create, Update, LockStep, UpdateLock, UpdateRefuse, Fail, Rollback, database
<1>4. ASSUME \/ \E p \in Products : RemoveProduct(p)
             \/ \E u \in Users : FillCart(u)
      PROVE  account' = account
  BY <1>4 DEF RemoveProduct, FillCart
<1>5. CASE UNCHANGED vars
  BY <1>5 DEF vars, database
<1> QED BY <1>1, <1>2, <1>3, <1>4, <1>5 DEF Next, Step

(* The other side of the inventory's promise: whatever order calls         *)
(* interleave, are refused or die, the accounts only change by the whole   *)
(* operations of StockAccount, which Inventory is proved to implement      *)
(* (orders.service.ts:59).                                                *)
THEOREM OrdersUseAccounts == Spec => Stock!Spec
<1>1. Init => IInv /\ Stock!Init
  BY InitIInv DEF Init, Stock!Init
<1>2. IInv /\ [Next]_vars => [Stock!Next]_account
  BY StepActsOnAccounts
<1> QED BY <1>1, <1>2, NextKeepsIInv, PTL DEF Spec, Stock!Spec
=============================================================================

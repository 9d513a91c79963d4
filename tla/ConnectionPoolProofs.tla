------------------------- MODULE ConnectionPoolProofs -------------------------
(***************************************************************************)
(* When the pool has one connection more than there are requests that nest *)
(* transactions, no set of requests can wait for each other for ever,      *)
(* however many other requests there are.  The argument: a row is held by  *)
(* a request that has all the connections it needs, so when all wait, they *)
(* wait for connections that only nesting requests hold, one each.         *)
(***************************************************************************)
EXTENDS ConnectionPool, FiniteSetTheorems, TLAPS

LEMMA NoneIsApart == None \notin Requests /\ None \notin Orders
BY NoneAssumption

LEMMA InitIInv == Init => IInv
<1> SUFFICES ASSUME Init PROVE IInv
  OBVIOUS
<1> USE NoneIsApart DEF Init
<1>1. TypeOK
  BY DEF TypeOK, Labels
<1>2. LockOwners /\ ArgumentsOK
  BY DEF LockOwners, ArgumentsOK, Nested
<1> QED BY <1>1, <1>2 DEF IInv

LEMMA StartKeepsIInv ==
  ASSUME IInv, NEW r \in Requests, Start(r)
  PROVE  IInv'
<1> USE NoneIsApart, PoolAssumption
    DEF Start, StartRead, StartUpdate, StartCreate, StartConfirm, Goto
<1>1. TypeOK'
  BY DEF IInv, TypeOK, Labels, Waiting
<1>2. LockOwners'
  BY DEF IInv, TypeOK, LockOwners
<1>3. ArgumentsOK'
  BY DEF IInv, TypeOK, ArgumentsOK, Nested
<1> QED BY <1>1, <1>2, <1>3 DEF IInv

LEMMA ConnectionKeepsIInv ==
  ASSUME IInv, NEW r \in Requests, Begin(r) \/ Nest(r)
  PROVE  IInv'
<1> USE NoneIsApart DEF Begin, Nest, Goto
<1>1. TypeOK'
  BY DEF IInv, TypeOK, Labels, Nested
<1>2. LockOwners'
  BY DEF IInv, TypeOK, LockOwners
<1>3. ArgumentsOK'
  BY DEF IInv, TypeOK, ArgumentsOK, Nested
<1> QED BY <1>1, <1>2, <1>3 DEF IInv

LEMMA RowKeepsIInv ==
  ASSUME IInv, NEW r \in Requests, LockOrder(r) \/ LockPayment(r)
  PROVE  IInv'
<1> USE NoneIsApart DEF LockOrder, LockPayment, Goto
<1>1. order[r] \in Orders
  BY DEF IInv, ArgumentsOK
<1>2. TypeOK'
  BY <1>1 DEF IInv, TypeOK, Labels, Nested
<1>3. LockOwners'
  BY <1>1 DEF IInv, TypeOK, LockOwners
<1>4. ArgumentsOK'
  BY DEF IInv, TypeOK, ArgumentsOK, Nested
<1> QED BY <1>2, <1>3, <1>4 DEF IInv

LEMMA FinishKeepsIInv ==
  ASSUME IInv, NEW r \in Requests, Finish(r)
  PROVE  IInv'
<1> USE NoneIsApart DEF Goto
<1>1. CASE CreateReturn(r)
  <2> USE <1>1 DEF CreateReturn
  <2>1. calls'[r] = calls[r] - 1 /\ calls[r] - 1 \in Nat
    BY DEF IInv, TypeOK, ArgumentsOK, CountDown
  <2>2. TypeOK'
    BY <2>1 DEF IInv, TypeOK, Labels, CountDown
  <2>3. LockOwners'
    BY DEF IInv, TypeOK, LockOwners
  <2>4. ArgumentsOK'
    BY <2>1 DEF IInv, TypeOK, ArgumentsOK, Nested
  <2> QED BY <2>2, <2>3, <2>4 DEF IInv
<1>2. CASE PayingCommit(r) \/ End(r)
  <2> USE <1>2 DEF PayingCommit, End
  <2>1. TypeOK'
    BY DEF IInv, TypeOK, Labels
  <2>2. LockOwners'
    BY DEF IInv, TypeOK, LockOwners
  <2>3. ArgumentsOK'
    BY DEF IInv, TypeOK, ArgumentsOK, Nested
  <2> QED BY <2>1, <2>2, <2>3 DEF IInv
<1> QED BY <1>1, <1>2 DEF Finish

LEMMA NextKeepsIInv == IInv /\ [Next]_vars => IInv'
<1> SUFFICES ASSUME IInv, [Next]_vars PROVE IInv'
  OBVIOUS
<1>1. CASE UNCHANGED vars
  BY <1>1 DEF vars, IInv, TypeOK, LockOwners, ArgumentsOK
<1>2. CASE Next
  BY <1>2, StartKeepsIInv, ConnectionKeepsIInv, RowKeepsIInv, FinishKeepsIInv
     DEF Next, Acquire
<1> QED BY <1>1, <1>2

(* The invariant the others follow from: whoever holds an order's or a     *)
(* payment's row is at a statement that needs it (orders.service.ts:175,   *)
(* payments.service.ts:124).                                               *)
THEOREM Invariance == Spec => []IInv
<1> QED BY InitIInv, NextKeepsIInv, PTL DEF Spec

(* The program counters, the calls left and the rows keep their types.     *)
THEOREM TypeCorrect == Spec => []TypeOK
<1>1. IInv => TypeOK
  BY DEF IInv
<1> QED BY <1>1, Invariance, PTL

-----------------------------------------------------------------------------
(* Nobody waits for ever.                                                  *)

(* If only nesting requests hold a connection, and none of them a second   *)
(* one, one is left.                                                       *)
LEMMA OneIsLeft ==
  ASSUME OuterHolders \subseteq Nesters, NestedHolders = {},
         Cardinality(Nesters) < PoolSize
  PROVE  Free
<1>1. IsFiniteSet(Nesters)
  BY RequestsAssumption, FS_Subset
<1>2. Cardinality(OuterHolders) <= Cardinality(Nesters) /\ IsFiniteSet(OuterHolders)
  BY <1>1, FS_Subset
<1>3. Cardinality(OuterHolders) \in Nat /\ Cardinality(Nesters) \in Nat
  BY <1>1, <1>2, FS_CardinalityType
<1>4. Cardinality(NestedHolders) = 0
  BY FS_EmptySet
<1> QED BY <1>2, <1>3, <1>4, PoolAssumption DEF Free, InUse

LEMMA SomeoneCanStep ==
  ASSUME IInv, Cardinality(Nesters) < PoolSize
  PROVE  NeverStuck
<1> USE NoneIsApart
<1> SUFFICES ASSUME NEW a \in Requests, pc[a] # "idle",
                    \A r \in Requests : ~CanStep(r)
             PROVE  FALSE
  BY DEF NeverStuck
<1>1. \A r \in Requests : pc[r] \notin {"read", "updating", "create_called", "paying", "commit"}
  BY DEF CanStep
(* The owner of an order's row could go on, so no row is owned.            *)
<1>2. \A o \in Orders : lock[o] = None
  BY <1>1 DEF IInv, TypeOK, LockOwners
<1>3. \A r \in Requests : pc[r] \notin {"order_lock", "paying_lock"}
  BY <1>2 DEF IInv, ArgumentsOK, CanStep
<1>4. NestedHolders = {}
  BY <1>1, <1>3 DEF NestedHolders, Nested
<1>5. OuterHolders \subseteq Nesters
  <2> SUFFICES ASSUME NEW r \in OuterHolders PROVE r \in Nesters
    OBVIOUS
  <2>1. pc[r] \in {"create_calling", "pay_lock", "confirm_calling"}
    BY <1>1, <1>3 DEF OuterHolders, IInv, TypeOK, Labels, Nested
  <2> QED BY <2>1 DEF OuterHolders, IInv, ArgumentsOK
<1>6. Free
  BY <1>4, <1>5, OneIsLeft
<1>7. \A r \in Requests : pc[r] \notin Waiting \cup {"create_calling", "confirm_calling"}
  BY <1>6 DEF CanStep
<1>8. pc[a] = "pay_lock"
  BY <1>1, <1>3, <1>7 DEF IInv, TypeOK, Labels, Nested
<1>9. payLock[order[a]] \in Requests /\ order[a] \in Orders
  BY <1>8 DEF CanStep, IInv, TypeOK, ArgumentsOK
<1>10. pc[payLock[order[a]]] \in {"confirm_calling", "paying_lock", "paying", "commit"}
  BY <1>9 DEF IInv, LockOwners
<1> QED BY <1>1, <1>3, <1>7, <1>9, <1>10

(* With fewer nesting requests than connections the service never locks    *)
(* itself up: whenever a request is being served, one can go on.           *)
THEOREM PoolSuffices == Cardinality(Nesters) < PoolSize /\ Spec => []NeverStuck
<1> SUFFICES ASSUME Cardinality(Nesters) < PoolSize PROVE Spec => []NeverStuck
  OBVIOUS
<1>1. IInv => NeverStuck
  BY SomeoneCanStep
<1> QED BY <1>1, Invariance, PTL
=============================================================================

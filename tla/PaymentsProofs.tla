---------------------------- MODULE PaymentsProofs ----------------------------
(***************************************************************************)
(* Proofs about Payments for any number of workers, orders, intents, keys  *)
(* and failures.  The argument: an intent holds its order's row from the   *)
(* check for another payment until its own commits (IntentOwnsOrder), and  *)
(* a confirmation holds its payment's row from the check that it is        *)
(* pending until it is settled (ConfirmOwnsPayment); the inner transaction *)
(* that marks the order PAID commits before the payment succeeds.  Later   *)
(* parts show that who waits waits for a call that can go on, and that     *)
(* only a failure adds to the cached keys and paid orders left dangling.   *)
(***************************************************************************)
EXTENDS Payments, SumsTheorems, TLAPS

LEMMA NoneIsApart ==
  /\ None \notin Workers /\ None \notin Orders /\ None \notin Intents
  /\ None \notin Keys /\ None \notin Statuses /\ None \notin PaymentStatuses
BY NoneAssumption

LEMMA InitIInv == Init => IInv
<1> SUFFICES ASSUME Init PROVE IInv
  OBVIOUS
<1> USE NoneIsApart DEF Init
<1>1. TypeOK
  BY DEF TypeOK, Statuses, Labels
<1>2. LocalsOK /\ IntentOwnsOrder /\ ConfirmOwnsPayment
  BY DEF LocalsOK, IntentOwnsOrder, ConfirmOwnsPayment, IntentLabels, ConfirmLabels
<1>3. RowsHaveOrders /\ OneActivePayment /\ SucceededWasPaid
  BY DEF RowsHaveOrders, OneActivePayment, SucceededWasPaid, Active, PaymentStatuses
<1> QED BY <1>1, <1>2, <1>3 DEF IInv

-----------------------------------------------------------------------------
(* A call begins: only its locals change.                                  *)
LEMMA StartKeepsIInv ==
  ASSUME IInv, NEW w \in Workers, Start(w)
  PROVE  IInv'
<1> USE NoneIsApart DEF Start, Intent, Confirm, Update, FreshIntents, database, payments
<1>1. TypeOK'
  BY AdminAssumption DEF IInv, TypeOK, LocalsOK, ConfirmOwnsPayment, Goto, Return, Labels, IntentLabels, ConfirmLabels
<1>2. LocalsOK'
  BY AdminAssumption DEF IInv, TypeOK, LocalsOK, Goto, Return, Labels, IntentLabels, ConfirmLabels
<1>3. IntentOwnsOrder'
  BY AdminAssumption DEF IInv, TypeOK, LocalsOK, IntentOwnsOrder, ExistingPayment, Active, Goto, Return, Labels, IntentLabels, ConfirmLabels
<1>4. ConfirmOwnsPayment'
  BY AdminAssumption DEF IInv, TypeOK, LocalsOK, ConfirmOwnsPayment, Goto, Return, Labels, IntentLabels, ConfirmLabels
<1>5. RowsHaveOrders' /\ OneActivePayment' /\ SucceededWasPaid'
  BY AdminAssumption DEF IInv, TypeOK, RowsHaveOrders, OneActivePayment, SucceededWasPaid, Active
<1> QED BY <1>1, <1>2, <1>3, <1>4, <1>5 DEF IInv

(* A check passed: the call moves on.                                      *)
LEMMA MoveKeepsIInv ==
  ASSUME IInv, NEW w \in Workers, IntentMiss(w) \/ IntentCheck(w) \/ IntentInsert(w) \/ ConfirmAccept(w)
  PROVE  IInv'
<1> USE NoneIsApart DEF IntentMiss, IntentCheck, IntentInsert, ConfirmAccept, database, payments, Statuses
<1>1. TypeOK'
  BY DEF IInv, TypeOK, LocalsOK, ConfirmOwnsPayment, Goto, Return, Labels, IntentLabels, ConfirmLabels
<1>2. LocalsOK'
  BY DEF IInv, TypeOK, LocalsOK, Goto, Return, Labels, IntentLabels, ConfirmLabels
<1>3. IntentOwnsOrder'
  BY DEF IInv, TypeOK, LocalsOK, IntentOwnsOrder, ExistingPayment, Active, Goto, Return, Labels, IntentLabels, ConfirmLabels
<1>4. ConfirmOwnsPayment'
  BY DEF IInv, TypeOK, LocalsOK, ConfirmOwnsPayment, Goto, Return, Labels, IntentLabels, ConfirmLabels
<1>5. RowsHaveOrders' /\ OneActivePayment' /\ SucceededWasPaid'
  BY DEF IInv, TypeOK, RowsHaveOrders, OneActivePayment, SucceededWasPaid, Active
<1> QED BY <1>1, <1>2, <1>3, <1>4, <1>5 DEF IInv

(* The cached response.                                                    *)
LEMMA AnswerKeepsIInv ==
  ASSUME IInv, NEW w \in Workers, IntentCached(w)
  PROVE  IInv'
<1> USE NoneIsApart DEF IntentCached, database, payments
<1>1. TypeOK'
  BY DEF IInv, TypeOK, LocalsOK, ConfirmOwnsPayment, Goto, Return, Labels, IntentLabels, ConfirmLabels
<1>2. LocalsOK'
  BY DEF IInv, TypeOK, LocalsOK, Goto, Return, Labels, IntentLabels, ConfirmLabels
<1>3. IntentOwnsOrder'
  BY DEF IInv, TypeOK, LocalsOK, IntentOwnsOrder, ExistingPayment, Active, Goto, Return, Labels, IntentLabels, ConfirmLabels
<1>4. ConfirmOwnsPayment'
  BY DEF IInv, TypeOK, LocalsOK, ConfirmOwnsPayment, Goto, Return, Labels, IntentLabels, ConfirmLabels
<1>5. RowsHaveOrders' /\ OneActivePayment' /\ SucceededWasPaid'
  BY DEF IInv, TypeOK, RowsHaveOrders, OneActivePayment, SucceededWasPaid, Active
<1> QED BY <1>1, <1>2, <1>3, <1>4, <1>5 DEF IInv

(* A rollback: nobody else's lock is released.                             *)
LEMMA RollbackKeepsIInv ==
  ASSUME IInv, NEW w \in Workers, Rollback(w), failures' \in Nat
  PROVE  IInv'
<1> USE NoneIsApart DEF Rollback, ReleaseOrders, ReleasePayments, payments
<1>1. TypeOK'
  BY DEF IInv, TypeOK, LocalsOK, ConfirmOwnsPayment, Goto, Return, Labels, IntentLabels, ConfirmLabels
<1>2. LocalsOK'
  BY DEF IInv, TypeOK, LocalsOK, Goto, Return, Labels, IntentLabels, ConfirmLabels
<1>3. IntentOwnsOrder'
  BY DEF IInv, TypeOK, LocalsOK, IntentOwnsOrder, ExistingPayment, Active, Goto, Return, Labels, IntentLabels, ConfirmLabels
<1>4. ConfirmOwnsPayment'
  BY DEF IInv, TypeOK, LocalsOK, ConfirmOwnsPayment, Goto, Return, Labels, IntentLabels, ConfirmLabels
<1>5. RowsHaveOrders' /\ OneActivePayment' /\ SucceededWasPaid'
  BY DEF IInv, TypeOK, RowsHaveOrders, OneActivePayment, SucceededWasPaid, Active
<1> QED BY <1>1, <1>2, <1>3, <1>4, <1>5 DEF IInv

(* The order's row is granted to an intent.                                *)
LEMMA IntentLockKeepsIInv ==
  ASSUME IInv, NEW w \in Workers, IntentLock(w)
  PROVE  IInv'
<1> USE NoneIsApart DEF IntentLock, OrderUnlocked, payments
<1>1. TypeOK'
  BY DEF IInv, TypeOK, LocalsOK, ConfirmOwnsPayment, Goto, Return, Labels, IntentLabels, ConfirmLabels
<1>2. LocalsOK'
  BY DEF IInv, TypeOK, LocalsOK, Goto, Return, Labels, IntentLabels, ConfirmLabels
<1>3. IntentOwnsOrder'
  BY DEF IInv, TypeOK, LocalsOK, IntentOwnsOrder, ExistingPayment, Active, Goto, Return, Labels, IntentLabels, ConfirmLabels
<1>4. ConfirmOwnsPayment'
  BY DEF IInv, TypeOK, LocalsOK, ConfirmOwnsPayment, Goto, Return, Labels, IntentLabels, ConfirmLabels
<1>5. RowsHaveOrders' /\ OneActivePayment' /\ SucceededWasPaid'
  BY DEF IInv, TypeOK, RowsHaveOrders, OneActivePayment, SucceededWasPaid, Active
<1> QED BY <1>1, <1>2, <1>3, <1>4, <1>5 DEF IInv

(* The payment's row is granted to a confirmation.                         *)
LEMMA ConfirmLockKeepsIInv ==
  ASSUME IInv, NEW w \in Workers, ConfirmLock(w)
  PROVE  IInv'
<1> USE NoneIsApart DEF ConfirmLock, PaymentUnlocked, payments
<1>1. TypeOK'
  BY DEF IInv, TypeOK, LocalsOK, ConfirmOwnsPayment, Goto, Return, Labels, IntentLabels, ConfirmLabels
<1>2. LocalsOK'
  BY DEF IInv, TypeOK, LocalsOK, Goto, Return, Labels, IntentLabels, ConfirmLabels
<1>3. IntentOwnsOrder'
  BY DEF IInv, TypeOK, LocalsOK, IntentOwnsOrder, ExistingPayment, Active, Goto, Return, Labels, IntentLabels, ConfirmLabels
<1>4. ConfirmOwnsPayment'
  BY DEF IInv, TypeOK, LocalsOK, ConfirmOwnsPayment, Goto, Return, Labels, IntentLabels, ConfirmLabels
<1>5. RowsHaveOrders' /\ OneActivePayment' /\ SucceededWasPaid'
  BY DEF IInv, TypeOK, RowsHaveOrders, OneActivePayment, SucceededWasPaid, Active
<1> QED BY <1>1, <1>2, <1>3, <1>4, <1>5 DEF IInv

(* The order's row is granted to updateStatus.                             *)
LEMMA UpdateLockKeepsIInv ==
  ASSUME IInv, NEW w \in Workers, UpdateLock(w)
  PROVE  IInv'
<1> USE NoneIsApart DEF UpdateLock, OrderUnlocked, Valid, payments
<1>1. TypeOK'
  BY DEF IInv, TypeOK, LocalsOK, ConfirmOwnsPayment, Goto, Return, Labels, IntentLabels, ConfirmLabels
<1>2. LocalsOK'
  BY DEF IInv, TypeOK, LocalsOK, Goto, Return, Labels, IntentLabels, ConfirmLabels
<1>3. IntentOwnsOrder'
  BY DEF IInv, TypeOK, LocalsOK, IntentOwnsOrder, ExistingPayment, Active, Goto, Return, Labels, IntentLabels, ConfirmLabels
<1>4. ConfirmOwnsPayment'
  BY DEF IInv, TypeOK, LocalsOK, ConfirmOwnsPayment, Goto, Return, Labels, IntentLabels, ConfirmLabels
<1>5. RowsHaveOrders' /\ OneActivePayment' /\ SucceededWasPaid'
  BY DEF IInv, TypeOK, RowsHaveOrders, OneActivePayment, SucceededWasPaid, Active
<1> QED BY <1>1, <1>2, <1>3, <1>4, <1>5 DEF IInv

(* The response is cached.                                                 *)
LEMMA IntentSetKeepsIInv ==
  ASSUME IInv, NEW w \in Workers, IntentSet(w)
  PROVE  IInv'
<1> USE NoneIsApart DEF IntentSet, payments
<1>1. TypeOK'
  BY DEF IInv, TypeOK, LocalsOK, ConfirmOwnsPayment, Goto, Return, Labels, IntentLabels, ConfirmLabels
<1>2. LocalsOK'
  BY DEF IInv, TypeOK, LocalsOK, Goto, Return, Labels, IntentLabels, ConfirmLabels
<1>3. IntentOwnsOrder'
  BY DEF IInv, TypeOK, LocalsOK, IntentOwnsOrder, ExistingPayment, Active, Goto, Return, Labels, IntentLabels, ConfirmLabels
<1>4. ConfirmOwnsPayment'
  BY DEF IInv, TypeOK, LocalsOK, ConfirmOwnsPayment, Goto, Return, Labels, IntentLabels, ConfirmLabels
<1>5. RowsHaveOrders' /\ OneActivePayment' /\ SucceededWasPaid'
  BY DEF IInv, TypeOK, RowsHaveOrders, OneActivePayment, SucceededWasPaid, Active
<1> QED BY <1>1, <1>2, <1>3, <1>4, <1>5 DEF IInv

(* A cached response expires.                                              *)
LEMMA ExpireKeepsIInv ==
  ASSUME IInv, NEW k \in Keys, Expire(k)
  PROVE  IInv'
<1> USE DEF Expire, payments, locals
<1>1. TypeOK'
  BY DEF IInv, TypeOK
<1>2. LocalsOK' /\ IntentOwnsOrder' /\ ConfirmOwnsPayment'
  BY DEF IInv, LocalsOK, IntentOwnsOrder, ConfirmOwnsPayment, ExistingPayment, Active
<1>3. RowsHaveOrders' /\ OneActivePayment' /\ SucceededWasPaid'
  BY DEF IInv, RowsHaveOrders, OneActivePayment, SucceededWasPaid, Active
<1> QED BY <1>1, <1>2, <1>3 DEF IInv

-----------------------------------------------------------------------------
(* The commits.                                                            *)

(* What a confirmation past its lock knows.                                *)
LEMMA ConfirmFacts ==
  ASSUME IInv, NEW w \in Workers, pc[w] \in ConfirmLabels \ {"confirm_lock"}
  PROVE  /\ intent[w] \in Intents /\ payLock[intent[w]] = w
         /\ payStatus[intent[w]] = "PENDING" /\ order[w] = payOrder[intent[w]]
         /\ order[w] \in Orders
         /\ \A v \in Workers : pc[v] \in IntentLabels => intent[v] # intent[w]
         /\ \A v \in Workers : v # w /\ pc[v] \in ConfirmLabels \ {"confirm_lock"}
                                 => intent[v] # intent[w]
<1> USE NoneIsApart
<1>1. /\ intent[w] \in Intents /\ payLock[intent[w]] = w
      /\ payStatus[intent[w]] = "PENDING" /\ order[w] = payOrder[intent[w]]
  BY DEF IInv, ConfirmOwnsPayment
<1>2. order[w] \in Orders
  BY <1>1 DEF IInv, RowsHaveOrders, PaymentStatuses
<1>3. \A v \in Workers : pc[v] \in IntentLabels => intent[v] # intent[w]
  BY <1>1 DEF IInv, LocalsOK, PaymentStatuses
<1>4. \A v \in Workers : v # w /\ pc[v] \in ConfirmLabels \ {"confirm_lock"}
                           => intent[v] # intent[w]
  BY <1>1 DEF IInv, ConfirmOwnsPayment
<1> QED BY <1>1, <1>2, <1>3, <1>4

(* The payment fails.                                                      *)
LEMMA ConfirmDeclineKeepsIInv ==
  ASSUME IInv, NEW w \in Workers, ConfirmDecline(w)
  PROVE  IInv'
<1> USE NoneIsApart DEF ConfirmDecline, ReleasePayments, PaymentStatuses
<1>0. /\ intent[w] \in Intents /\ payLock[intent[w]] = w
      /\ payStatus[intent[w]] = "PENDING" /\ order[w] = payOrder[intent[w]]
      /\ order[w] \in Orders
      /\ \A v \in Workers : pc[v] \in IntentLabels => intent[v] # intent[w]
      /\ \A v \in Workers : v # w /\ pc[v] \in ConfirmLabels \ {"confirm_lock"}
                              => intent[v] # intent[w]
  BY ConfirmFacts DEF ConfirmLabels
<1>1. TypeOK'
  BY <1>0 DEF IInv, TypeOK, LocalsOK, ConfirmOwnsPayment, Goto, Return, Labels, IntentLabels, ConfirmLabels
<1>2. LocalsOK'
  BY <1>0 DEF IInv, TypeOK, LocalsOK, Goto, Return, Labels, IntentLabels, ConfirmLabels
<1>3. IntentOwnsOrder'
  BY <1>0 DEF IInv, TypeOK, LocalsOK, IntentOwnsOrder, ExistingPayment, Active, Goto, Return, Labels, IntentLabels, ConfirmLabels
<1>4. ConfirmOwnsPayment'
  BY <1>0 DEF IInv, TypeOK, LocalsOK, ConfirmOwnsPayment, Goto, Return, Labels, IntentLabels, ConfirmLabels
<1>5. \A i \in Intents : payStatus'[i] =
        IF i = intent[w] THEN "FAILED" ELSE payStatus[i]
  BY <1>0 DEF IInv, TypeOK
<1>6. RowsHaveOrders'
  BY <1>0, <1>5 DEF IInv, RowsHaveOrders
<1>7. OneActivePayment'
  BY <1>0, <1>5 DEF IInv, OneActivePayment, Active
<1>8. SucceededWasPaid'
  BY <1>0, <1>5 DEF IInv, ConfirmOwnsPayment, SucceededWasPaid, ConfirmLabels
<1> QED BY <1>1, <1>2, <1>3, <1>4, <1>6, <1>7, <1>8 DEF IInv

(* updateStatus commits the order, an admin's or a confirmation's.         *)
LEMMA UpdateCommitKeepsIInv ==
  ASSUME IInv, NEW w \in Workers, UpdateCommit(w) \/ PayingCommit(w)
  PROVE  IInv'
<1> USE NoneIsApart DEF UpdateCommit, PayingCommit, SaveStatus, ReleaseOrders, payments
<1>1. TypeOK'
  <2>1. order[w] \in Orders /\ wanted[w] \in Statuses
    BY ConfirmFacts DEF IInv, LocalsOK, ConfirmOwnsPayment, ConfirmLabels, Statuses
  <2> QED
    BY <2>1 DEF IInv, TypeOK, Goto, Return, Labels, IntentLabels, ConfirmLabels
<1>2. LocalsOK'
  BY DEF IInv, TypeOK, LocalsOK, Goto, Return, Labels, IntentLabels, ConfirmLabels
<1>3. IntentOwnsOrder'
  BY DEF IInv, TypeOK, LocalsOK, IntentOwnsOrder, ExistingPayment, Active, Goto, Return, Labels, IntentLabels, ConfirmLabels
<1>4. ConfirmOwnsPayment'
  BY DEF IInv, TypeOK, LocalsOK, ConfirmOwnsPayment, Goto, Return, Labels, IntentLabels, ConfirmLabels
<1>5. RowsHaveOrders' /\ OneActivePayment' /\ SucceededWasPaid'
  BY DEF IInv, TypeOK, RowsHaveOrders, OneActivePayment, SucceededWasPaid, Active
<1> QED BY <1>1, <1>2, <1>3, <1>4, <1>5 DEF IInv

(* The payment succeeds: its order was marked PAID.                        *)
LEMMA ConfirmCommitKeepsIInv ==
  ASSUME IInv, NEW w \in Workers, ConfirmCommit(w)
  PROVE  IInv'
<1> USE NoneIsApart DEF ConfirmCommit, Settle, ReleasePayments, PaymentStatuses
<1>0. /\ intent[w] \in Intents /\ payLock[intent[w]] = w
      /\ payStatus[intent[w]] = "PENDING" /\ order[w] = payOrder[intent[w]]
      /\ order[w] \in Orders
      /\ \A v \in Workers : pc[v] \in IntentLabels => intent[v] # intent[w]
      /\ \A v \in Workers : v # w /\ pc[v] \in ConfirmLabels \ {"confirm_lock"}
                              => intent[v] # intent[w]
  BY ConfirmFacts DEF ConfirmLabels
<1>1. TypeOK'
  BY <1>0 DEF IInv, TypeOK, LocalsOK, ConfirmOwnsPayment, Goto, Return, Labels, IntentLabels, ConfirmLabels
<1>2. LocalsOK'
  BY <1>0 DEF IInv, TypeOK, LocalsOK, Goto, Return, Labels, IntentLabels, ConfirmLabels
<1>3. IntentOwnsOrder'
  BY <1>0 DEF IInv, TypeOK, LocalsOK, IntentOwnsOrder, ExistingPayment, Active, Goto, Return, Labels, IntentLabels, ConfirmLabels
<1>4. ConfirmOwnsPayment'
  BY <1>0 DEF IInv, TypeOK, LocalsOK, ConfirmOwnsPayment, Goto, Return, Labels, IntentLabels, ConfirmLabels
<1>5. \A i \in Intents : payStatus'[i] =
        IF i = intent[w] THEN "SUCCEEDED" ELSE payStatus[i]
  BY <1>0 DEF IInv, TypeOK
<1>6. RowsHaveOrders'
  BY <1>0, <1>5 DEF IInv, RowsHaveOrders
<1>7. OneActivePayment'
  BY <1>0, <1>5 DEF IInv, OneActivePayment, Active
<1>8. SucceededWasPaid'
  BY <1>0, <1>5 DEF IInv, ConfirmOwnsPayment, SucceededWasPaid, ConfirmLabels
<1> QED BY <1>1, <1>2, <1>3, <1>4, <1>6, <1>7, <1>8 DEF IInv

(* The payment's row appears: the order had no active one.                 *)
LEMMA IntentCommitKeepsIInv ==
  ASSUME IInv, NEW w \in Workers, IntentCommit(w)
  PROVE  IInv'
<1> USE NoneIsApart DEF IntentCommit, ReleaseOrders, PaymentStatuses
<1>0. /\ order[w] \in Orders /\ key[w] \in Keys /\ intent[w] \in Intents
      /\ payStatus[intent[w]] = None /\ orderLock[order[w]] = w /\ ~ExistingPayment(order[w])
      /\ \A v \in Workers : pc[v] \in IntentLabels /\ intent[v] = intent[w] => v = w
      /\ \A v \in Workers : v # w /\ pc[v] \in {"intent_insert", "intent_set", "intent_commit"}
                              => order[v] # order[w]
      /\ \A v \in Workers : pc[v] \in ConfirmLabels \ {"confirm_lock"} => intent[v] # intent[w]
  BY DEF IInv, LocalsOK, IntentOwnsOrder, ConfirmOwnsPayment, IntentLabels, PaymentStatuses
<1>1. TypeOK'
  BY <1>0 DEF IInv, TypeOK, Goto, Return, Labels
<1>2. /\ \A v \in Workers : v # w => /\ pc'[v] = pc[v] /\ order'[v] = order[v]
                                     /\ key'[v] = key[v] /\ intent'[v] = intent[v]
                                     /\ wanted'[v] = wanted[v]
      /\ pc'[w] = "idle"
  BY DEF IInv, TypeOK, Goto, Return
<1>3. \A i \in Intents : /\ payStatus'[i] = IF i = intent[w] THEN "PENDING" ELSE payStatus[i]
                         /\ payOrder'[i] = IF i = intent[w] THEN order[w] ELSE payOrder[i]
  BY <1>0 DEF IInv, TypeOK
<1>4. LocalsOK'
  BY <1>0, <1>2, <1>3 DEF IInv, LocalsOK, IntentLabels
<1>5. IntentOwnsOrder'
  <2>1. \A o \in Orders : o # order[w] /\ ~ExistingPayment(o) => ~ExistingPayment(o)'
    BY <1>0, <1>3 DEF ExistingPayment, Active
  <2>2. \A o \in Orders : orderLock[o] # w => orderLock'[o] = orderLock[o]
    OBVIOUS
  <2> QED BY <1>0, <1>2, <2>1, <2>2 DEF IInv, TypeOK, LocalsOK, IntentOwnsOrder, ExistingPayment, IntentLabels
<1>6. ConfirmOwnsPayment'
  BY <1>0, <1>2, <1>3 DEF IInv, ConfirmOwnsPayment, ConfirmLabels
<1>7. RowsHaveOrders' /\ SucceededWasPaid'
  BY <1>0, <1>3 DEF IInv, RowsHaveOrders, SucceededWasPaid
<1>8. OneActivePayment'
  BY <1>0, <1>3 DEF IInv, OneActivePayment, ExistingPayment, Active
<1> QED BY <1>1, <1>4, <1>5, <1>6, <1>7, <1>8 DEF IInv

-----------------------------------------------------------------------------

LEMMA NextKeepsIInv == IInv /\ [Next]_vars => IInv'
<1> SUFFICES ASSUME IInv, [Next]_vars PROVE IInv'
  OBVIOUS
<1>1. CASE UNCHANGED vars
  BY <1>1 DEF vars, locals, database, payments, IInv, TypeOK, LocalsOK, IntentOwnsOrder,
              ConfirmOwnsPayment, RowsHaveOrders, OneActivePayment, SucceededWasPaid,
              ExistingPayment, Active
<1>2. ASSUME NEW w \in Workers, Start(w) PROVE IInv'
  BY <1>2, StartKeepsIInv
<1>3. ASSUME NEW w \in Workers,
             IntentNotFound(w) \/ IntentRefuse(w) \/ IntentDuplicateKey(w)
               \/ ConfirmRefuse(w) \/ UpdateRefuse(w) \/ Fail(w)
      PROVE  IInv'
  <2>1. Rollback(w) /\ failures' \in Nat
    BY <1>3 DEF IntentNotFound, IntentRefuse, IntentDuplicateKey, ConfirmRefuse, UpdateRefuse,
                Fail, IInv, TypeOK
  <2> QED BY <2>1, RollbackKeepsIInv
<1>4. ASSUME NEW w \in Workers, WaitStep(w) PROVE IInv'
  BY <1>3, <1>4, IntentLockKeepsIInv, MoveKeepsIInv, ConfirmLockKeepsIInv, UpdateLockKeepsIInv
     DEF WaitStep
<1>5. ASSUME NEW w \in Workers, Step(w) PROVE IInv'
  BY <1>3, <1>5, AnswerKeepsIInv, MoveKeepsIInv, IntentSetKeepsIInv, IntentCommitKeepsIInv,
     ConfirmDeclineKeepsIInv, ConfirmCommitKeepsIInv, UpdateCommitKeepsIInv
     DEF Step
<1>6. ASSUME NEW k \in Keys, Expire(k) PROVE IInv'
  BY <1>6, ExpireKeepsIInv
<1> QED BY <1>1, <1>2, <1>3, <1>4, <1>5, <1>6 DEF Next

(* The invariant the others follow from: an intent owns the row of its     *)
(* order from its check to its commit, a confirmation its payment          *)
(* (payments.service.ts:42-169).                                           *)
THEOREM Invariance == Spec => []IInv
<1> QED BY InitIInv, NextKeepsIInv, PTL DEF Spec

(* The tables, Redis and the locals keep their types.                      *)
THEOREM TypeCorrect == Spec => []TypeOK
<1>1. IInv => TypeOK
  BY DEF IInv
<1> QED BY <1>1, Invariance, PTL

(* No order is ever charged by two payments, however many intents race     *)
(* and whichever of them die.                                              *)
THEOREM ChargedOnce == Spec => []OneActivePayment
<1>1. IInv => OneActivePayment
  BY DEF IInv
<1> QED BY <1>1, Invariance, PTL

(* No payment succeeds for an order that was never PAID.                   *)
THEOREM SucceededImpliesPaid == Spec => []SucceededWasPaid
<1>1. IInv => SucceededWasPaid
  BY DEF IInv
<1> QED BY <1>1, Invariance, PTL

-----------------------------------------------------------------------------
(* What a step may never do to a settled payment.                          *)

LEMMA StepKeepsSettled ==
  ASSUME IInv, [Next]_vars, NEW i \in Intents, payStatus[i] \in {"SUCCEEDED", "FAILED"}
  PROVE  payStatus'[i] = payStatus[i]
<1> USE NoneIsApart
<1>1. ASSUME NEW w \in Workers, IntentCommit(w)
      PROVE  payStatus'[i] = payStatus[i]
  <2>1. payStatus[intent[w]] = None /\ payStatus[i] # None
    BY <1>1 DEF IntentCommit, IntentLabels, IInv, LocalsOK, PaymentStatuses
  <2> QED BY <1>1, <2>1 DEF IntentCommit, IInv, TypeOK
<1>2. ASSUME NEW w \in Workers, ConfirmDecline(w) \/ ConfirmCommit(w)
      PROVE  payStatus'[i] = payStatus[i]
  <2>1. payStatus[intent[w]] = "PENDING"
    BY <1>2 DEF ConfirmDecline, ConfirmCommit, ConfirmLabels, IInv, ConfirmOwnsPayment
  <2> QED BY <1>2, <2>1 DEF ConfirmDecline, ConfirmCommit, Settle, IInv, TypeOK
<1>3. ASSUME \A w \in Workers : ~(IntentCommit(w) \/ ConfirmDecline(w) \/ ConfirmCommit(w))
      PROVE  payStatus' = payStatus
  <2>1. CASE UNCHANGED vars
    BY <2>1 DEF vars, database, payments
  <2>2. ASSUME NEW w \in Workers, Start(w) \/ WaitStep(w) \/ Fail(w)
        PROVE  payStatus' = payStatus
    BY <2>2 DEF Start, Intent, Confirm, Update, WaitStep, IntentLock, IntentNotFound,
                IntentInsert, IntentDuplicateKey, ConfirmLock, ConfirmRefuse, UpdateLock,
                UpdateRefuse, Fail, Rollback, database, payments
  <2>3. ASSUME NEW w \in Workers, Step(w)
        PROVE  payStatus' = payStatus
    BY <1>3, <2>3 DEF Step, IntentCached, IntentMiss, IntentRefuse, IntentCheck, IntentSet,
                ConfirmAccept, UpdateCommit, PayingCommit, Rollback, database, payments
  <2>4. ASSUME NEW k \in Keys, Expire(k)
        PROVE  payStatus' = payStatus
    BY <2>4 DEF Expire, payments
  <2> QED BY <2>1, <2>2, <2>3, <2>4 DEF Next
<1> QED BY <1>1, <1>2, <1>3

(* Confirming again, or delivering the webhook again, never changes a      *)
(* payment that succeeded or failed.                                       *)
THEOREM SettledStays == Spec => SettledIsFinal
<1>1. IInv /\ [Next]_vars =>
        [\A i \in Intents :
           payStatus[i] \in {"SUCCEEDED", "FAILED"} => payStatus'[i] = payStatus[i]]_vars
  BY StepKeepsSettled
<1> QED BY <1>1, Invariance, PTL DEF Spec, SettledIsFinal
-----------------------------------------------------------------------------
(* Who waits, waits for a call that can go on.                             *)

LEMMA StartsAndMovesKeepHolders ==
  ASSUME IInv, RowsHaveHolders, NEW w \in Workers,
         \/ Start(w) \/ IntentCached(w) \/ IntentMiss(w) \/ IntentCheck(w) \/ IntentInsert(w)
         \/ IntentSet(w) \/ ConfirmAccept(w)
  PROVE  RowsHaveHolders'
<1>1. orderLock' = orderLock /\ payLock' = payLock
  BY DEF Start, Intent, Confirm, Update, IntentCached, IntentMiss, IntentCheck, IntentInsert,
         IntentSet, ConfirmAccept, database
<1>2. \A v \in Workers : v # w => pc'[v] = pc[v] /\ order'[v] = order[v] /\ intent'[v] = intent[v]
  BY DEF Start, Intent, Confirm, Update, IntentCached, IntentMiss, IntentCheck, IntentInsert,
         IntentSet, ConfirmAccept, Goto, Return, IInv, TypeOK
<1>3. pc[w] \in OrderHolderLabels => pc'[w] \in OrderHolderLabels /\ order'[w] = order[w]
  BY DEF Start, Intent, Confirm, Update, IntentCached, IntentMiss, IntentCheck, IntentInsert,
         IntentSet, ConfirmAccept, Goto, OrderHolderLabels, IInv, TypeOK
<1>4. pc[w] \in ConfirmLabels \ {"confirm_lock"} =>
        pc'[w] \in ConfirmLabels \ {"confirm_lock"} /\ intent'[w] = intent[w]
  BY DEF Start, Intent, Confirm, Update, IntentCached, IntentMiss, IntentCheck, IntentInsert,
         IntentSet, ConfirmAccept, Goto, ConfirmLabels, IInv, TypeOK
<1> QED BY <1>1, <1>2, <1>3, <1>4 DEF RowsHaveHolders, IInv, TypeOK

LEMMA LocksKeepHolders ==
  ASSUME IInv, RowsHaveHolders, NEW w \in Workers, IntentLock(w) \/ ConfirmLock(w) \/ UpdateLock(w)
  PROVE  RowsHaveHolders'
<1> USE NoneIsApart DEF RowsHaveHolders
<1>1. \A v \in Workers : v # w => pc'[v] = pc[v] /\ order'[v] = order[v] /\ intent'[v] = intent[v]
  BY DEF IntentLock, ConfirmLock, UpdateLock, Goto, IInv, TypeOK
<1>2. \A o \in Orders : orderLock[o] # w
  BY DEF IntentLock, ConfirmLock, UpdateLock, OrderHolderLabels, IInv, TypeOK
<1>3. CASE IntentLock(w)
  <2>1. pc'[w] = "intent_check" /\ order' = order /\ payLock' = payLock
    BY <1>3 DEF IntentLock, Goto, IInv, TypeOK
  <2>2. \A o \in Orders : orderLock'[o] = IF o = order[w] THEN w ELSE orderLock[o]
    BY <1>3 DEF IntentLock, IInv, TypeOK
  <2>3. \A i \in Intents : payLock[i] # w
    BY <1>3 DEF IntentLock, ConfirmLabels, IInv, TypeOK
  <2> QED BY <1>1, <1>2, <2>1, <2>2, <2>3 DEF OrderHolderLabels, IInv, TypeOK
<1>4. CASE ConfirmLock(w)
  <2>1. pc'[w] = "confirm_draw" /\ intent' = intent /\ orderLock' = orderLock
    BY <1>4 DEF ConfirmLock, Goto, IInv, TypeOK
  <2>2. \A i \in Intents : payLock'[i] = IF i = intent[w] THEN w ELSE payLock[i]
    BY <1>4 DEF ConfirmLock, IInv, TypeOK
  <2>3. \A i \in Intents : payLock[i] # w
    BY <1>4 DEF ConfirmLock, ConfirmLabels, IInv, TypeOK
  <2> QED BY <1>1, <1>2, <2>1, <2>2, <2>3 DEF ConfirmLabels, IInv, TypeOK
<1>5. CASE UpdateLock(w)
  <2>1. pc'[w] \in {"paying", "updating"} /\ order' = order /\ intent' = intent /\ payLock' = payLock
    BY <1>5 DEF UpdateLock, Goto, IInv, TypeOK
  <2>2. \A o \in Orders : orderLock'[o] = IF o = order[w] THEN w ELSE orderLock[o]
    BY <1>5 DEF UpdateLock, IInv, TypeOK
  <2>3. pc[w] \in ConfirmLabels \ {"confirm_lock"} => pc'[w] = "paying"
    BY <1>5 DEF UpdateLock, Goto, ConfirmLabels, IInv, TypeOK
  <2> QED BY <1>1, <1>2, <2>1, <2>2, <2>3 DEF OrderHolderLabels, ConfirmLabels, IInv, TypeOK
<1> QED BY <1>3, <1>4, <1>5

(* A call that ends gives up whatever it held.                             *)
LEMMA EndsKeepHolders ==
  ASSUME IInv, RowsHaveHolders, NEW w \in Workers,
         \/ Rollback(w) \/ IntentCommit(w) \/ ConfirmDecline(w) \/ ConfirmCommit(w)
         \/ UpdateCommit(w) \/ PayingCommit(w)
  PROVE  RowsHaveHolders'
<1> USE NoneIsApart DEF RowsHaveHolders
<1>1. \A v \in Workers : v # w => pc'[v] = pc[v] /\ order'[v] = order[v] /\ intent'[v] = intent[v]
  BY DEF Rollback, IntentCommit, ConfirmDecline, ConfirmCommit, UpdateCommit, PayingCommit,
         Goto, Return, IInv, TypeOK
<1>2. \A o \in Orders : orderLock'[o] = IF orderLock[o] = w THEN None ELSE orderLock[o]
  <2>1. CASE Rollback(w) \/ IntentCommit(w) \/ UpdateCommit(w) \/ PayingCommit(w)
    BY <2>1 DEF Rollback, IntentCommit, UpdateCommit, PayingCommit, SaveStatus, ReleaseOrders
  <2>2. CASE ConfirmDecline(w) \/ ConfirmCommit(w)
    BY <2>2 DEF ConfirmDecline, ConfirmCommit, OrderHolderLabels
  <2> QED BY <2>1, <2>2
<1>3. CASE ~PayingCommit(w)
  <2>1. \A i \in Intents : payLock'[i] = IF payLock[i] = w THEN None ELSE payLock[i]
    <3>1. CASE Rollback(w) \/ ConfirmDecline(w) \/ ConfirmCommit(w)
      BY <3>1 DEF Rollback, ConfirmDecline, ConfirmCommit, ReleasePayments
    <3>2. CASE IntentCommit(w) \/ UpdateCommit(w)
      BY <3>2 DEF IntentCommit, UpdateCommit, ConfirmLabels
    <3> QED BY <1>3, <3>1, <3>2
  <2> QED BY <1>1, <1>2, <2>1 DEF IInv, TypeOK
<1>4. CASE PayingCommit(w)
  <2>1. pc'[w] = "confirm_commit" /\ intent' = intent /\ payLock' = payLock
    BY <1>4 DEF PayingCommit, Goto, IInv, TypeOK
  <2> QED BY <1>1, <1>2, <2>1 DEF ConfirmLabels, IInv, TypeOK
<1> QED BY <1>3, <1>4

LEMMA StepKeepsHolders == IInv /\ RowsHaveHolders /\ [Next]_vars => RowsHaveHolders'
<1> SUFFICES ASSUME IInv, RowsHaveHolders, [Next]_vars PROVE RowsHaveHolders'
  OBVIOUS
<1>1. CASE UNCHANGED vars
  BY <1>1 DEF vars, database, locals, RowsHaveHolders
<1>2. ASSUME NEW w \in Workers,
             IntentNotFound(w) \/ IntentRefuse(w) \/ IntentDuplicateKey(w)
               \/ ConfirmRefuse(w) \/ UpdateRefuse(w) \/ Fail(w)
      PROVE  RowsHaveHolders'
  <2>1. Rollback(w)
    BY <1>2 DEF IntentNotFound, IntentRefuse, IntentDuplicateKey, ConfirmRefuse, UpdateRefuse, Fail
  <2> QED BY <2>1, EndsKeepHolders
<1>3. ASSUME NEW w \in Workers, Start(w) \/ WaitStep(w) \/ Step(w) PROVE RowsHaveHolders'
  BY <1>2, <1>3, StartsAndMovesKeepHolders, LocksKeepHolders, EndsKeepHolders DEF WaitStep, Step
<1>4. ASSUME NEW k \in Keys, Expire(k) PROVE RowsHaveHolders'
  BY <1>4 DEF Expire, locals, RowsHaveHolders
<1> QED BY <1>1, <1>2, <1>3, <1>4 DEF Next

LEMMA WaitersAreServed == IInv /\ RowsHaveHolders => NeverStuck
<1> SUFFICES ASSUME IInv, RowsHaveHolders,
                    NEW w \in Workers, pc[w] # "idle",
                    \A v \in Workers : pc[v] # "idle" => Blocked(v)
             PROVE  FALSE
  BY DEF NeverStuck
<1>1. \A v \in Workers : pc[v] \notin {"intent_check", "intent_set", "intent_commit", "updating",
                                       "paying", "confirm_draw", "confirm_commit"}
  BY DEF Blocked
<1>2. \A v \in Workers : pc[v] # "intent_insert"
  BY <1>1 DEF Blocked, KeyInserting
<1>3. \A o \in Orders : OrderUnlocked(o)
  BY <1>1, <1>2 DEF RowsHaveHolders, OrderHolderLabels, OrderUnlocked, IInv, TypeOK
<1>4. \A v \in Workers : pc[v] \notin {"intent_lock", "update_lock", "paying_lock"}
  <2> SUFFICES ASSUME NEW v \in Workers, pc[v] \in {"intent_lock", "update_lock", "paying_lock"}
               PROVE  FALSE
    OBVIOUS
  <2>1. order[v] \in Orders
    BY NoneIsApart DEF PaymentStatuses, IInv, LocalsOK, ConfirmOwnsPayment, RowsHaveOrders, IntentLabels, ConfirmLabels
  <2> QED BY <1>3, <2>1 DEF Blocked
<1>5. \A i \in Intents : PaymentUnlocked(i)
  BY <1>1, <1>4 DEF RowsHaveHolders, ConfirmLabels, PaymentUnlocked, IInv, TypeOK
<1>6. pc[w] = "confirm_lock"
  BY <1>1, <1>2, <1>4 DEF Blocked
<1> QED BY <1>5, <1>6 DEF Blocked, IInv, LocalsOK

(* The rows and keys that calls lock never form a cycle of waiters, for    *)
(* any number of calls: one of those being served can always go on.        *)
THEOREM SomeCallGoesOn == Spec => []NeverStuck
<1>1. Init => RowsHaveHolders
  BY DEF Init, RowsHaveHolders
<1> QED BY <1>1, Invariance, StepKeepsHolders, WaitersAreServed, PTL DEF Spec

-----------------------------------------------------------------------------
(* The refusals roll back from where nothing is left to lose.              *)
Refusal(w) == \/ IntentNotFound(w) \/ IntentRefuse(w) \/ IntentDuplicateKey(w)
              \/ ConfirmRefuse(w) \/ UpdateRefuse(w)

LEMMA RefusalsRollBack ==
  ASSUME NEW w \in Workers, Refusal(w)
  PROVE  /\ Rollback(w) /\ failures' = failures
         /\ pc[w] \notin {"intent_commit", "confirm_commit"}
BY DEF Refusal, IntentNotFound, IntentRefuse, IntentDuplicateKey, ConfirmRefuse, UpdateRefuse

LEMMA OnlyFailuresCount ==
  ASSUME [Next]_vars, \A w \in Workers : ~Fail(w)
  PROVE  failures' = failures
BY DEF Next, vars, WaitStep, Step, Start, Intent, Confirm, Update, IntentCached,
   IntentMiss, IntentLock, IntentNotFound, IntentRefuse, IntentCheck, IntentInsert,
   IntentDuplicateKey, IntentSet, IntentCommit, ConfirmLock, ConfirmRefuse, ConfirmDecline,
   ConfirmAccept, ConfirmCommit, UpdateLock, UpdateRefuse, UpdateCommit, PayingCommit, Expire

-----------------------------------------------------------------------------
(* The keys whose cached response names no intent.                         *)

LEMMA KeysAsBefore ==
  ASSUME IInv, cache' = cache, payKey' = payKey,
         \A i \in Intents : payStatus[i] = None => payStatus'[i] = None,
         \A i \in Intents : payStatus'[i] = None => payStatus[i] = None,
         \A v \in Workers : pc[v] = "intent_commit" =>
           pc'[v] = "intent_commit" /\ key'[v] = key[v] /\ intent'[v] = intent[v]
  PROVE  DanglingKeys' \subseteq DanglingKeys
BY DEF DanglingKeys, IInv, TypeOK

LEMMA StepLosesNoKey ==
  ASSUME IInv, [Next]_vars, \A w \in Workers : ~Fail(w)
  PROVE  DanglingKeys' \subseteq DanglingKeys
<1> USE NoneIsApart
<1>1. CASE UNCHANGED vars
  BY <1>1, KeysAsBefore DEF vars, database, payments, locals
<1>2. ASSUME NEW k \in Keys, Expire(k) PROVE DanglingKeys' \subseteq DanglingKeys
  BY <1>2 DEF Expire, payments, locals, DanglingKeys, IInv, TypeOK
<1>3. ASSUME NEW w \in Workers, IntentSet(w) PROVE DanglingKeys' \subseteq DanglingKeys
  <2>1. \A v \in Workers : v # w => pc'[v] = pc[v]
    BY <1>3 DEF IntentSet, Goto, IInv, TypeOK
  <2>2. /\ pc'[w] = "intent_commit" /\ pc[w] # "intent_commit"
        /\ key' = key /\ intent' = intent /\ payStatus' = payStatus /\ payKey' = payKey
        /\ cache' = [cache EXCEPT ![key[w]] = intent[w]]
    BY <1>3 DEF IntentSet, Goto, payments, IInv, TypeOK
  <2> QED BY <2>1, <2>2 DEF DanglingKeys, IInv, TypeOK
<1>4. ASSUME NEW w \in Workers, IntentCommit(w) PROVE DanglingKeys' \subseteq DanglingKeys
  <2>1. /\ intent[w] \in Intents /\ key[w] \in Keys /\ payStatus[intent[w]] = None
        /\ \A v \in Workers : pc[v] = "intent_commit" /\ intent[v] = intent[w] => v = w
    BY <1>4 DEF IntentCommit, IntentLabels, IInv, LocalsOK
  <2>2. \A v \in Workers : v # w => /\ pc'[v] = pc[v] /\ key'[v] = key[v]
                                    /\ intent'[v] = intent[v]
    BY <1>4 DEF IntentCommit, Goto, Return, IInv, TypeOK
  <2>3. /\ cache' = cache
        /\ \A i \in Intents :
             /\ payStatus'[i] = IF i = intent[w] THEN "PENDING" ELSE payStatus[i]
             /\ payKey'[i] = IF i = intent[w] THEN key[w] ELSE payKey[i]
    BY <1>4 DEF IntentCommit, IInv, TypeOK
  <2>4. "PENDING" # None
    BY DEF PaymentStatuses
  <2> SUFFICES ASSUME NEW k \in DanglingKeys' PROVE k \in DanglingKeys
    OBVIOUS
  <2>5. k \in Keys /\ cache[k] # None /\ cache[k] \in Intents
    BY <2>3 DEF DanglingKeys, IInv, TypeOK
  <2>6. payStatus[cache[k]] = None \/ payKey[cache[k]] # k
    BY <2>1, <2>3, <2>5 DEF DanglingKeys
  <2>7. ~(intent[w] = cache[k] /\ key[w] = k)
    BY <2>3, <2>4, <2>5 DEF DanglingKeys
  <2>8. \A v \in Workers : intent[v] = cache[k] /\ key[v] = k => pc[v] # "intent_commit"
    BY <2>2, <2>3, <2>7 DEF DanglingKeys
  <2> QED BY <2>5, <2>6, <2>8 DEF DanglingKeys
<1>5. ASSUME NEW w \in Workers, ConfirmDecline(w) \/ ConfirmCommit(w)
      PROVE  DanglingKeys' \subseteq DanglingKeys
  <2>1. intent[w] \in Intents /\ payStatus[intent[w]] = "PENDING"
    BY <1>5 DEF ConfirmDecline, ConfirmCommit, ConfirmLabels, IInv, ConfirmOwnsPayment
  <2>2. \A i \in Intents : payStatus'[i] = None <=> payStatus[i] = None
    BY <1>5, <2>1 DEF ConfirmDecline, ConfirmCommit, Settle, PaymentStatuses, IInv, TypeOK
  <2>3. \A v \in Workers : pc[v] = "intent_commit" =>
          pc'[v] = "intent_commit" /\ key'[v] = key[v] /\ intent'[v] = intent[v]
    BY <1>5 DEF ConfirmDecline, ConfirmCommit, Goto, Return, IInv, TypeOK
  <2> QED BY <1>5, <2>2, <2>3, KeysAsBefore DEF ConfirmDecline, ConfirmCommit
<1>6. ASSUME NEW w \in Workers, Refusal(w) PROVE DanglingKeys' \subseteq DanglingKeys
  <2>1. Rollback(w) /\ pc[w] # "intent_commit"
    BY <1>6, RefusalsRollBack
  <2>2. \A v \in Workers : pc[v] = "intent_commit" =>
          pc'[v] = "intent_commit" /\ key'[v] = key[v] /\ intent'[v] = intent[v]
    BY <2>1 DEF Rollback, Goto, Return, IInv, TypeOK
  <2> QED BY <2>1, <2>2, KeysAsBefore DEF Rollback, payments
<1>7. ASSUME NEW w \in Workers,
             \/ Start(w) \/ IntentCached(w) \/ IntentMiss(w) \/ IntentLock(w) \/ IntentCheck(w)
             \/ IntentInsert(w) \/ ConfirmLock(w) \/ ConfirmAccept(w) \/ UpdateLock(w)
             \/ UpdateCommit(w) \/ PayingCommit(w)
      PROVE  DanglingKeys' \subseteq DanglingKeys
  <2>1. cache' = cache /\ payStatus' = payStatus /\ payKey' = payKey
    BY <1>7 DEF Start, Intent, Confirm, Update, IntentCached, IntentMiss, IntentLock, IntentCheck,
       IntentInsert, ConfirmLock, ConfirmAccept, UpdateLock, UpdateCommit, PayingCommit,
       database, payments
  <2>2. \A v \in Workers : pc[v] = "intent_commit" =>
          pc'[v] = "intent_commit" /\ key'[v] = key[v] /\ intent'[v] = intent[v]
    BY <1>7 DEF Start, Intent, Confirm, Update, IntentCached, IntentMiss, IntentLock, IntentCheck,
       IntentInsert, ConfirmLock, ConfirmAccept, UpdateLock, UpdateCommit, PayingCommit,
       Goto, Return, IInv, TypeOK
  <2> QED BY <2>1, <2>2, KeysAsBefore
<1> QED BY <1>1, <1>2, <1>3, <1>4, <1>5, <1>6, <1>7 DEF Next, WaitStep, Step, Refusal

LEMMA FailLosesAKey ==
  ASSUME IInv, NEW w \in Workers, Fail(w)
  PROVE  DanglingKeys' \subseteq DanglingKeys \cup {key[w]}
<1>1. \A v \in Workers : v # w => pc'[v] = pc[v] /\ key'[v] = key[v] /\ intent'[v] = intent[v]
  BY DEF Fail, Rollback, Goto, Return, IInv, TypeOK
<1>2. cache' = cache /\ payStatus' = payStatus /\ payKey' = payKey
  BY DEF Fail, Rollback, payments
<1> QED BY <1>1, <1>2 DEF DanglingKeys

KeysCounted == IsFiniteSet(DanglingKeys) /\ Cardinality(DanglingKeys) <= failures

LEMMA StepKeepsKeysCounted == IInv /\ KeysCounted /\ [Next]_vars => KeysCounted'
<1> SUFFICES ASSUME IInv, KeysCounted, [Next]_vars PROVE KeysCounted'
  OBVIOUS
<1>1. failures \in Nat
  BY DEF IInv, TypeOK
<1>2. ASSUME NEW w \in Workers, Fail(w) PROVE KeysCounted'
  <2>1. failures' = failures + 1 /\ DanglingKeys' \subseteq DanglingKeys \cup {key[w]}
    BY <1>2, FailLosesAKey DEF Fail
  <2> QED BY <1>1, <2>1, OneMoreElement DEF KeysCounted
<1>3. CASE \A w \in Workers : ~Fail(w)
  <2>1. failures' = failures
    BY <1>3, OnlyFailuresCount
  <2>2. DanglingKeys' \subseteq DanglingKeys
    BY <1>3, StepLosesNoKey
  <2> QED BY <1>1, <2>1, <2>2, NoMoreElements DEF KeysCounted
<1> QED BY <1>2, <1>3

(* Every cached response names an intent that exists or is about to, but   *)
(* for one key for each transaction that failed.                           *)
THEOREM RetriesFindTheirIntent == Spec => []CachedIntentsExist
<1>1. Init => KeysCounted
  <2> SUFFICES ASSUME Init PROVE KeysCounted
    OBVIOUS
  <2>1. DanglingKeys = {} /\ failures = 0
    BY DEF Init, DanglingKeys
  <2> QED BY <2>1, FS_EmptySet DEF KeysCounted
<1>2. KeysCounted => CachedIntentsExist
  BY DEF KeysCounted, CachedIntentsExist
<1> QED BY <1>1, <1>2, Invariance, StepKeepsKeysCounted, PTL DEF Spec

-----------------------------------------------------------------------------
(* The PAID orders that lack their payment.                                *)

LEMMA StepKeepsAsked == IInv /\ AskedByAdmins /\ [Next]_vars => AskedByAdmins'
<1> SUFFICES ASSUME IInv, AskedByAdmins, [Next]_vars PROVE AskedByAdmins'
  OBVIOUS
<1> USE DEF AskedByAdmins
<1>1. ASSUME NEW w \in Workers,
             \A v \in Workers \ {w} : pc'[v] = pc[v] /\ wanted'[v] = wanted[v],
             pc'[w] \notin {"update_lock", "updating"}
               \/ (pc[w] = "update_lock" /\ wanted' = wanted)
      PROVE  AskedByAdmins'
  BY <1>1
<1>2. ASSUME NEW w \in Workers, Update(w) PROVE AskedByAdmins'
  BY <1>2 DEF Update, Goto, IInv, TypeOK
<1>3. ASSUME NEW w \in Workers,
             \/ Intent(w) \/ Confirm(w) \/ IntentMiss(w) \/ IntentLock(w) \/ IntentCheck(w)
             \/ IntentInsert(w) \/ IntentSet(w) \/ ConfirmLock(w) \/ ConfirmAccept(w)
             \/ UpdateLock(w) \/ PayingCommit(w)
      PROVE  AskedByAdmins'
  BY <1>3 DEF Intent, Confirm, IntentMiss, IntentLock, IntentCheck, IntentInsert, IntentSet,
     ConfirmLock, ConfirmAccept, UpdateLock, PayingCommit, Goto, IInv, TypeOK
<1>4. ASSUME NEW w \in Workers,
             \/ IntentCached(w) \/ IntentCommit(w) \/ ConfirmDecline(w) \/ ConfirmCommit(w)
             \/ UpdateCommit(w) \/ Refusal(w) \/ Fail(w)
      PROVE  AskedByAdmins'
  <2>1. Return(w)
    BY <1>4, RefusalsRollBack DEF IntentCached, IntentCommit, ConfirmDecline, ConfirmCommit,
       UpdateCommit, Fail, Rollback
  <2> QED BY <1>1, <2>1 DEF Return, Goto, IInv, TypeOK
<1>5. CASE UNCHANGED <<pc, wanted>>
  BY <1>5
<1> QED BY <1>2, <1>3, <1>4, <1>5
        DEF Next, vars, locals, Start, WaitStep, Step, Refusal, Expire

(* A step that neither pays an order nor touches a payment that succeeded, *)
(* nor a call that is about to commit one.                                 *)
LEMMA PaidAsBefore ==
  ASSUME IInv, wasPaid' = wasPaid,
         \A i \in Intents : payStatus[i] = "SUCCEEDED" =>
           payStatus'[i] = "SUCCEEDED" /\ payOrder'[i] = payOrder[i],
         \A v \in Workers : pc[v] = "confirm_commit" =>
           pc'[v] = "confirm_commit" /\ order'[v] = order[v]
  PROVE  PaidForNothing' \subseteq PaidForNothing
BY DEF PaidForNothing

LEMMA StepLosesNoPayment ==
  ASSUME "PAID" \notin AdminStatuses, IInv, AskedByAdmins, [Next]_vars, \A w \in Workers : ~Fail(w)
  PROVE  PaidForNothing' \subseteq PaidForNothing
<1> USE NoneIsApart
<1>1. CASE UNCHANGED <<wasPaid, payments, pc, order>>
  BY <1>1, PaidAsBefore DEF payments
<1>2. ASSUME NEW w \in Workers, PayingCommit(w) PROVE PaidForNothing' \subseteq PaidForNothing
  <2>1. \A v \in Workers : v # w => pc'[v] = pc[v]
    BY <1>2 DEF PayingCommit, Goto, IInv, TypeOK
  <2>2. /\ pc'[w] = "confirm_commit" /\ pc[w] # "confirm_commit" /\ order' = order
        /\ payStatus' = payStatus /\ payOrder' = payOrder
        /\ wasPaid' \subseteq wasPaid \cup {order[w]}
    BY <1>2 DEF PayingCommit, SaveStatus, Goto, payments, IInv, TypeOK
  <2> QED BY <2>1, <2>2 DEF PaidForNothing
<1>3. ASSUME NEW w \in Workers, ConfirmCommit(w) PROVE PaidForNothing' \subseteq PaidForNothing
  <2>1. intent[w] \in Intents /\ order[w] = payOrder[intent[w]]
    BY <1>3 DEF ConfirmCommit, ConfirmLabels, IInv, ConfirmOwnsPayment
  <2>2. \A v \in Workers : v # w => pc'[v] = pc[v] /\ order'[v] = order[v]
    BY <1>3 DEF ConfirmCommit, Goto, Return, IInv, TypeOK
  <2>3. /\ payOrder' = payOrder /\ wasPaid' = wasPaid
        /\ payStatus'[intent[w]] = "SUCCEEDED"
        /\ \A i \in Intents : payStatus[i] = "SUCCEEDED" => payStatus'[i] = "SUCCEEDED"
    BY <1>3, <2>1 DEF ConfirmCommit, Settle, IInv, TypeOK
  <2> QED BY <2>1, <2>2, <2>3 DEF PaidForNothing
<1>4. ASSUME NEW w \in Workers, IntentCommit(w) \/ ConfirmDecline(w)
      PROVE  PaidForNothing' \subseteq PaidForNothing
  <2>1. \A i \in Intents : payStatus[i] = "SUCCEEDED" =>
          payStatus'[i] = "SUCCEEDED" /\ payOrder'[i] = payOrder[i]
    <3>1. "SUCCEEDED" # None
      BY DEF PaymentStatuses
    <3>2. intent[w] \in Intents /\ payStatus[intent[w]] \in {None, "PENDING"}
      BY <1>4 DEF IntentCommit, ConfirmDecline, IntentLabels, ConfirmLabels,
                  IInv, LocalsOK, ConfirmOwnsPayment
    <3> QED BY <1>4, <3>1, <3>2 DEF IntentCommit, ConfirmDecline, IInv, TypeOK
  <2>2. \A v \in Workers : pc[v] = "confirm_commit" =>
          pc'[v] = "confirm_commit" /\ order'[v] = order[v]
    BY <1>4 DEF IntentCommit, ConfirmDecline, Goto, Return, IInv, TypeOK
  <2> QED BY <1>4, <2>1, <2>2, PaidAsBefore DEF IntentCommit, ConfirmDecline
<1>5. ASSUME NEW w \in Workers, UpdateCommit(w) PROVE PaidForNothing' \subseteq PaidForNothing
  <2>1. wasPaid' = wasPaid /\ payStatus' = payStatus /\ payOrder' = payOrder
    BY <1>5 DEF UpdateCommit, SaveStatus, AskedByAdmins, payments
  <2>2. \A v \in Workers : pc[v] = "confirm_commit" =>
          pc'[v] = "confirm_commit" /\ order'[v] = order[v]
    BY <1>5 DEF UpdateCommit, Goto, Return, IInv, TypeOK
  <2> QED BY <2>1, <2>2, PaidAsBefore
<1>6. ASSUME NEW w \in Workers, Refusal(w) PROVE PaidForNothing' \subseteq PaidForNothing
  <2>1. Rollback(w) /\ pc[w] # "confirm_commit"
    BY <1>6, RefusalsRollBack
  <2>2. \A v \in Workers : pc[v] = "confirm_commit" =>
          pc'[v] = "confirm_commit" /\ order'[v] = order[v]
    BY <2>1 DEF Rollback, Goto, Return, IInv, TypeOK
  <2> QED BY <2>1, <2>2, PaidAsBefore DEF Rollback, payments
<1>7. ASSUME NEW w \in Workers,
             \/ Start(w) \/ IntentCached(w) \/ IntentMiss(w) \/ IntentLock(w) \/ IntentCheck(w)
             \/ IntentInsert(w) \/ IntentSet(w) \/ ConfirmLock(w) \/ ConfirmAccept(w)
             \/ UpdateLock(w)
      PROVE  PaidForNothing' \subseteq PaidForNothing
  <2>1. wasPaid' = wasPaid /\ payStatus' = payStatus /\ payOrder' = payOrder
    BY <1>7 DEF Start, Intent, Confirm, Update, IntentCached, IntentMiss, IntentLock, IntentCheck,
       IntentInsert, IntentSet, ConfirmLock, ConfirmAccept, UpdateLock, database, payments
  <2>2. \A v \in Workers : pc[v] = "confirm_commit" =>
          pc'[v] = "confirm_commit" /\ order'[v] = order[v]
    BY <1>7 DEF Start, Intent, Confirm, Update, IntentCached, IntentMiss, IntentLock, IntentCheck,
       IntentInsert, IntentSet, ConfirmLock, ConfirmAccept, UpdateLock, Goto, Return, IInv, TypeOK
  <2> QED BY <2>1, <2>2, PaidAsBefore
<1> QED BY <1>1, <1>2, <1>3, <1>4, <1>5, <1>6, <1>7
        DEF Next, vars, database, locals, WaitStep, Step, Refusal, Expire

LEMMA FailLosesAPayment ==
  ASSUME IInv, NEW w \in Workers, Fail(w)
  PROVE  PaidForNothing' \subseteq PaidForNothing \cup {order[w]}
<1>1. \A v \in Workers : v # w => pc'[v] = pc[v] /\ order'[v] = order[v]
  BY DEF Fail, Rollback, Goto, Return, IInv, TypeOK
<1>2. wasPaid' = wasPaid /\ payStatus' = payStatus /\ payOrder' = payOrder
  BY DEF Fail, Rollback, payments
<1> QED BY <1>1, <1>2 DEF PaidForNothing

PaidCounted == IsFiniteSet(PaidForNothing) /\ Cardinality(PaidForNothing) <= failures

LEMMA StepKeepsPaidCounted ==
  ASSUME "PAID" \notin AdminStatuses
  PROVE  IInv /\ AskedByAdmins /\ PaidCounted /\ [Next]_vars => PaidCounted'
<1> SUFFICES ASSUME IInv, AskedByAdmins, PaidCounted, [Next]_vars PROVE PaidCounted'
  OBVIOUS
<1>1. failures \in Nat
  BY DEF IInv, TypeOK
<1>2. ASSUME NEW w \in Workers, Fail(w) PROVE PaidCounted'
  <2>1. failures' = failures + 1 /\ PaidForNothing' \subseteq PaidForNothing \cup {order[w]}
    BY <1>2, FailLosesAPayment DEF Fail
  <2> QED BY <1>1, <2>1, OneMoreElement DEF PaidCounted
<1>3. CASE \A w \in Workers : ~Fail(w)
  <2>1. failures' = failures
    BY <1>3, OnlyFailuresCount
  <2>2. PaidForNothing' \subseteq PaidForNothing
    BY <1>3, StepLosesNoPayment
  <2> QED BY <1>1, <2>1, <2>2, NoMoreElements DEF PaidCounted
<1> QED BY <1>2, <1>3

(* While orders become PAID by their payment only, an order that was PAID  *)
(* has the payment that succeeded, but for one order for each transaction  *)
(* that failed.                                                            *)
THEOREM OnlyFailuresLosePayments ==
  ASSUME "PAID" \notin AdminStatuses
  PROVE  Spec => []PaymentsLostByFailureOnly
<1>1. Init => PaidCounted /\ AskedByAdmins
  <2> SUFFICES ASSUME Init PROVE PaidCounted /\ AskedByAdmins
    OBVIOUS
  <2>1. PaidForNothing = {} /\ failures = 0
    BY DEF Init, PaidForNothing
  <2> QED BY <2>1, FS_EmptySet DEF Init, PaidCounted, AskedByAdmins
<1>2. PaidCounted => PaymentsLostByFailureOnly
  BY DEF PaidCounted, PaymentsLostByFailureOnly
<1>3. IInv /\ AskedByAdmins /\ PaidCounted /\ [Next]_vars => AskedByAdmins' /\ PaidCounted'
  BY StepKeepsAsked, StepKeepsPaidCounted
<1> QED BY <1>1, <1>2, <1>3, Invariance, PTL DEF Spec

NothingFailed == failures = 0

(* Without a failed transaction, every order that was PAID has its payment *)
(* or is about to: no interleaving alone parts the two                     *)
(* (payments.service.ts:146).                                              *)
THEOREM PaidOrdersHavePayments ==
  ASSUME "PAID" \notin AdminStatuses, MaxFailures = 0
  PROVE  Spec => []PaidOrderHasPayment
<1>1. Init => NothingFailed
  BY DEF Init, NothingFailed
<1>2. NothingFailed /\ [Next]_vars => NothingFailed'
  <2> SUFFICES ASSUME failures = 0, [Next]_vars PROVE failures' = 0
    BY DEF NothingFailed
  <2>1. ASSUME NEW w \in Workers, Start(w) \/ WaitStep(w) \/ Step(w) PROVE failures' = failures
    BY <2>1 DEF Start, Intent, Confirm, Update, WaitStep, IntentLock, IntentNotFound,
                IntentInsert, IntentDuplicateKey, ConfirmLock, ConfirmRefuse, UpdateLock,
                UpdateRefuse, Step, IntentCached, IntentMiss, IntentRefuse, IntentCheck,
                IntentSet, IntentCommit, ConfirmDecline, ConfirmAccept, ConfirmCommit,
                UpdateCommit, PayingCommit
  <2>2. ASSUME NEW w \in Workers, Fail(w) PROVE FALSE
    BY <2>2 DEF Fail
  <2>3. ASSUME NEW k \in Keys, Expire(k) PROVE failures' = failures
    BY <2>3 DEF Expire
  <2>4. CASE UNCHANGED vars
    BY <2>4 DEF vars
  <2> QED BY <2>1, <2>2, <2>3, <2>4 DEF Next
<1>3. Init => PaidCounted /\ AskedByAdmins
  <2> SUFFICES ASSUME Init PROVE PaidCounted /\ AskedByAdmins
    OBVIOUS
  <2>1. PaidForNothing = {} /\ failures = 0
    BY DEF Init, PaidForNothing
  <2> QED BY <2>1, FS_EmptySet DEF Init, PaidCounted, AskedByAdmins
<1>4. IInv /\ AskedByAdmins /\ PaidCounted /\ [Next]_vars => AskedByAdmins' /\ PaidCounted'
  BY StepKeepsAsked, StepKeepsPaidCounted
<1>5. NothingFailed /\ PaidCounted => PaidOrderHasPayment
  <2> SUFFICES ASSUME failures = 0, PaidCounted PROVE PaidForNothing = {}
    BY DEF PaidOrderHasPayment, NothingFailed
  <2>1. IsFiniteSet(PaidForNothing) /\ Cardinality(PaidForNothing) <= 0
    BY DEF PaidCounted
  <2>2. Cardinality(PaidForNothing) = 0
    BY <2>1, FS_CardinalityType
  <2> QED BY <2>1, <2>2, FS_EmptySet
<1> QED BY <1>1, <1>2, <1>3, <1>4, <1>5, Invariance, PTL DEF Spec

-----------------------------------------------------------------------------
(* Charges: the calls, transaction by transaction, are whole openings,     *)
(* declines and successes of the charge of an order, and whole updates.    *)

(* Who holds the row of an order has it for its argument.                  *)
LEMMA HoldersAddressed ==
  ASSUME IInv, UpdateOwnsOrder, NEW v \in Workers, pc[v] \in OrderHolderLabels
  PROVE  order[v] \in Orders /\ orderLock[order[v]] = v
<1>1. CASE pc[v] = "paying"
  <2>1. order[v] \in Orders
    BY <1>1, ConfirmFacts DEF ConfirmLabels
  <2> QED BY <1>1, <2>1 DEF UpdateOwnsOrder
<1>2. CASE pc[v] = "updating"
  BY <1>2 DEF IInv, LocalsOK, UpdateOwnsOrder
<1>3. CASE pc[v] \notin {"updating", "paying"}
  BY <1>3 DEF OrderHolderLabels, IInv, LocalsOK, IntentOwnsOrder, IntentLabels
<1> QED BY <1>1, <1>2, <1>3

(* What UpdateOwnsOrder says of one worker.                                *)
OwnsAsFound(v) ==
  /\ pc[v] \in {"updating", "paying"} =>
       orderLock[order[v]] = v /\ wanted[v] \in ValidTransitions[status[order[v]]]
  /\ pc[v] \in {"intent_check", "intent_insert", "intent_set", "intent_commit"} =>
       status[order[v]] = "PENDING"

LEMMA StepKeepsOwners ==
  ASSUME IInv, UpdateOwnsOrder, [Next]_vars
  PROVE  UpdateOwnsOrder'
<1> SUFFICES ASSUME NEW v \in Workers, pc'[v] \in OrderHolderLabels
             PROVE  OwnsAsFound(v)'
  BY DEF UpdateOwnsOrder, OwnsAsFound, OrderHolderLabels
<1> USE NoneIsApart DEF OrderHolderLabels
<1>1. ASSUME pc[v] \in OrderHolderLabels,
             (pc'[v] \in {"updating", "paying"}) = (pc[v] \in {"updating", "paying"}),
             order'[v] = order[v], wanted'[v] = wanted[v],
             status'[order[v]] = status[order[v]], orderLock'[order[v]] = orderLock[order[v]]
      PROVE  OwnsAsFound(v)'
  BY <1>1 DEF UpdateOwnsOrder, OwnsAsFound
(* Another call ends, with or without a write to the row that it holds.    *)
<1>2. ASSUME NEW w \in Workers, Return(w) \/ PayingCommit(w), ReleaseOrders(w) \/ orderLock' = orderLock,
             \/ status' = status
             \/ /\ pc[w] \in {"updating", "paying"}
                /\ status' = [status EXCEPT ![order[w]] = wanted[w]]
      PROVE  OwnsAsFound(v)'
  <2>1. v # w /\ pc'[v] = pc[v] /\ order'[v] = order[v] /\ wanted'[v] = wanted[v]
    BY <1>2 DEF IInv, TypeOK, Return, PayingCommit, Goto
  <2>2. order[v] \in Orders /\ orderLock[order[v]] = v
    BY <2>1, HoldersAddressed
  <2>3. orderLock'[order[v]] = orderLock[order[v]]
    BY <1>2, <2>1, <2>2 DEF ReleaseOrders
  <2>4. status'[order[v]] = status[order[v]]
    <3>1. pc[w] \in {"updating", "paying"} => order[w] # order[v]
      BY <2>1, <2>2, HoldersAddressed
    <3> QED BY <1>2, <2>2, <3>1 DEF IInv, TypeOK
  <2> QED BY <1>1, <2>1, <2>3, <2>4
<1>3. ASSUME NEW w \in Workers,
             \/ IntentNotFound(w) \/ IntentRefuse(w) \/ IntentDuplicateKey(w) \/ ConfirmRefuse(w)
             \/ UpdateRefuse(w) \/ Fail(w) \/ IntentCached(w) \/ IntentCommit(w)
             \/ ConfirmDecline(w) \/ ConfirmCommit(w)
      PROVE  Return(w) /\ (ReleaseOrders(w) \/ orderLock' = orderLock) /\ status' = status
  BY <1>3 DEF IntentNotFound, IntentRefuse, IntentDuplicateKey, ConfirmRefuse, UpdateRefuse, Fail,
              Rollback, IntentCached, IntentCommit, ConfirmDecline, ConfirmCommit, database
<1>4. ASSUME NEW w \in Workers, UpdateCommit(w) \/ PayingCommit(w)
      PROVE  OwnsAsFound(v)'
  <2>1. /\ Return(w) \/ PayingCommit(w)
        /\ ReleaseOrders(w) /\ pc[w] \in {"updating", "paying"}
        /\ status' = [status EXCEPT ![order[w]] = wanted[w]]
    BY <1>4 DEF UpdateCommit, PayingCommit, SaveStatus
  <2> QED BY <1>2, <2>1
(* The lock of a row is granted when nobody holds it.                      *)
<1>5. ASSUME NEW w \in Workers, IntentLock(w) \/ UpdateLock(w)
      PROVE  OwnsAsFound(v)'
  <2>1. /\ order[w] \in Orders /\ orderLock[order[w]] = None
        /\ orderLock' = [orderLock EXCEPT ![order[w]] = w]
        /\ UNCHANGED <<status, order, wanted>>
    <3>1. order[w] \in Orders
      <4>1. CASE pc[w] = "paying_lock"
        BY <4>1, ConfirmFacts DEF ConfirmLabels
      <4>2. CASE pc[w] # "paying_lock"
        BY <1>5, <4>2 DEF IntentLock, UpdateLock, IInv, LocalsOK, IntentLabels
      <4> QED BY <4>1, <4>2
    <3> QED BY <1>5, <3>1 DEF IntentLock, UpdateLock, OrderUnlocked
  <2>2. CASE v = w
    <3>1. orderLock'[order[v]] = v
      BY <2>1, <2>2 DEF IInv, TypeOK
    <3>2. CASE IntentLock(w)
      BY <2>1, <2>2, <3>1, <3>2 DEF IntentLock, Goto, IInv, TypeOK, OwnsAsFound
    <3>3. CASE UpdateLock(w)
      BY <2>1, <2>2, <3>1, <3>3 DEF UpdateLock, Valid, Goto, IInv, TypeOK, OwnsAsFound
    <3> QED BY <1>5, <3>2, <3>3
  <2>3. CASE v # w
    <3>1. pc'[v] = pc[v]
      BY <1>5, <2>3 DEF IntentLock, UpdateLock, Goto, IInv, TypeOK
    <3>2. order[v] \in Orders /\ orderLock[order[v]] = v
      BY <3>1, HoldersAddressed
    <3>3. orderLock'[order[v]] = orderLock[order[v]]
      BY <2>1, <3>2 DEF IInv, TypeOK
    <3> QED BY <1>1, <2>1, <3>1, <3>3
  <2> QED BY <2>2, <2>3
<1>6. ASSUME NEW w \in Workers,
             \/ Start(w) \/ IntentMiss(w) \/ IntentCheck(w) \/ IntentInsert(w) \/ IntentSet(w)
             \/ ConfirmLock(w) \/ ConfirmAccept(w)
      PROVE  OwnsAsFound(v)'
  <2>1. UNCHANGED <<status, orderLock>>
    BY <1>6 DEF Start, Intent, Confirm, Update, IntentMiss, IntentCheck, IntentInsert, IntentSet,
                ConfirmLock, ConfirmAccept, database
  <2>2. /\ pc[v] \in OrderHolderLabels
        /\ (pc'[v] \in {"updating", "paying"}) = (pc[v] \in {"updating", "paying"})
        /\ order'[v] = order[v] /\ wanted'[v] = wanted[v]
    BY <1>6 DEF Start, Intent, Confirm, Update, IntentMiss, IntentCheck, IntentInsert, IntentSet,
                ConfirmLock, ConfirmAccept, Goto, IInv, TypeOK
  <2> QED BY <1>1, <2>1, <2>2
<1>7. ASSUME (\E k \in Keys : Expire(k)) \/ UNCHANGED vars
      PROVE  OwnsAsFound(v)'
  <2>1. UNCHANGED <<status, orderLock, locals>>
    BY <1>7 DEF Expire, vars, database
  <2> QED BY <1>1, <2>1 DEF locals
<1> QED BY <1>2, <1>3, <1>4, <1>5, <1>6, <1>7 DEF Next, WaitStep, Step

LEMMA SameTransitions ==
  Account!Statuses = Statuses /\ Account!ValidTransitions = ValidTransitions
BY DEF Account!Statuses, Account!ValidTransitions, Statuses, ValidTransitions

(* The charges that the rows amount to, and how one row changes them.      *)
ChargeMap == [o \in Orders |-> ChargeOf(o)]

LEMMA ActiveCharge ==
  ASSUME IInv, NEW i \in Intents, Active(i)
  PROVE  payOrder[i] \in Orders /\ ChargeOf(payOrder[i]) = payStatus[i]
<1>1. payOrder[i] \in Orders
  BY NoneIsApart DEF IInv, RowsHaveOrders, Active, PaymentStatuses
<1>2. \A s \in {"PENDING", "SUCCEEDED"} : Has(payOrder[i], s) => payStatus[i] = s
  BY DEF IInv, OneActivePayment, Active, Has
<1>3. Has(payOrder[i], payStatus[i])
  BY DEF Has
<1> QED BY <1>1, <1>2, <1>3 DEF Active, ChargeOf

LEMMA OtherCharges ==
  ASSUME NEW o \in Orders, NEW j \in Intents,
         \A i \in Intents \ {j} : payStatus'[i] = payStatus[i] /\ payOrder'[i] = payOrder[i],
         payOrder[j] = o \/ payStatus[j] \notin {"PENDING", "SUCCEEDED"}, payOrder'[j] = o
  PROVE  \A a \in Orders \ {o} : ChargeOf(a)' = ChargeOf(a)
<1> SUFFICES ASSUME NEW a \in Orders \ {o} PROVE ChargeOf(a)' = ChargeOf(a)
  OBVIOUS
<1>1. \A s \in {"PENDING", "SUCCEEDED"} : Has(a, s)' = Has(a, s)
  BY DEF Has
<1> QED BY <1>1 DEF ChargeOf

LEMMA ChargeChanges ==
  ASSUME NEW o \in Orders, NEW c, ChargeOf(o)' = c,
         \A a \in Orders \ {o} : ChargeOf(a)' = ChargeOf(a)
  PROVE  ChargeMap' = [ChargeMap EXCEPT ![o] = c]
<1>1. ChargeMap' = [a \in Orders |-> ChargeOf(a)']
  BY DEF ChargeMap
<1>2. \A a \in Orders : ChargeOf(a)' = IF a = o THEN c ELSE ChargeOf(a)
  OBVIOUS
<1> QED BY <1>1, <1>2 DEF ChargeMap

LEMMA ChargesAsBefore ==
  ASSUME UNCHANGED <<payStatus, payOrder>>
  PROVE  ChargeMap' = ChargeMap
BY DEF ChargeMap, ChargeOf, Has

(* An intent's commit opens a charge.                                      *)
LEMMA IntentOpens ==
  ASSUME IInv, UpdateOwnsOrder, NEW w \in Workers, IntentCommit(w)
  PROVE  Account!Open(order[w]) /\ order[w] \in Orders
<1> USE NoneIsApart
<1>0. /\ order[w] \in Orders /\ intent[w] \in Intents /\ payStatus[intent[w]] = None
      /\ ~ExistingPayment(order[w]) /\ status[order[w]] = "PENDING"
  BY DEF IntentCommit, IInv, LocalsOK, IntentOwnsOrder, IntentLabels, UpdateOwnsOrder
<1> PICK o \in Orders, j \in Intents : o = order[w] /\ j = intent[w]
  BY <1>0
<1>1. payStatus[j] = None /\ ~ExistingPayment(o) /\ status[o] = "PENDING"
  BY <1>0
<1>2. /\ payStatus' = [payStatus EXCEPT ![j] = "PENDING"]
      /\ payOrder' = [payOrder EXCEPT ![j] = o] /\ UNCHANGED <<status, wasPaid>>
  BY DEF IntentCommit
<1>3. /\ payStatus'[j] = "PENDING" /\ payOrder'[j] = o
      /\ \A i \in Intents \ {j} : payStatus'[i] = payStatus[i] /\ payOrder'[i] = payOrder[i]
  BY <1>1, <1>2 DEF IInv, TypeOK
<1>4. ~Has(o, "PENDING") /\ ~Has(o, "SUCCEEDED")
  BY <1>1 DEF ExistingPayment, Active, Has
<1>5. ChargeOf(o) = None
  BY <1>4 DEF ChargeOf
<1>6. Has(o, "PENDING")' /\ ~Has(o, "SUCCEEDED")'
  BY <1>1, <1>3, <1>4 DEF Has
<1>7. ChargeOf(o)' = "PENDING"
  BY <1>6 DEF ChargeOf
<1>8. \A a \in Orders \ {o} : ChargeOf(a)' = ChargeOf(a)
  <2>1. payStatus[j] \notin {"PENDING", "SUCCEEDED"}
    BY <1>1 DEF PaymentStatuses
  <2> QED BY <1>3, <2>1, OtherCharges
<1>9. ChargeMap' = [ChargeMap EXCEPT ![o] = "PENDING"] /\ ChargeMap[o] = None
  BY <1>1, <1>5, <1>7, <1>8, ChargeChanges DEF ChargeMap
<1>10. Account!Open(o)
  BY <1>1, <1>2, <1>9 DEF Account!Open, ChargeMap
<1> QED BY <1>10

(* A confirmation's commit declines the charge, or makes it succeed.       *)
LEMMA ConfirmEnds ==
  ASSUME IInv, NEW w \in Workers, ConfirmDecline(w) \/ ConfirmCommit(w)
  PROVE  order[w] \in Orders /\ (Account!Decline(order[w]) \/ Account!Succeed(order[w]))
<1> USE NoneIsApart
<1>0. /\ intent[w] \in Intents /\ payStatus[intent[w]] = "PENDING"
      /\ order[w] = payOrder[intent[w]] /\ order[w] \in Orders
  BY ConfirmFacts DEF ConfirmDecline, ConfirmCommit, ConfirmLabels
<1> PICK o \in Orders, j \in Intents : o = order[w] /\ j = intent[w]
  BY <1>0
<1>1. payStatus[j] = "PENDING" /\ o = payOrder[j]
  BY <1>0
<1>2. UNCHANGED <<status, wasPaid, payOrder>>
  BY DEF ConfirmDecline, ConfirmCommit
<1>3. ConfirmCommit(w) => o \in wasPaid
  BY DEF ConfirmCommit, IInv, ConfirmOwnsPayment
<1>4. /\ ConfirmDecline(w) => payStatus' = [payStatus EXCEPT ![j] = "FAILED"]
      /\ ConfirmCommit(w) => payStatus' = [payStatus EXCEPT ![j] = "SUCCEEDED"]
  BY DEF ConfirmDecline, ConfirmCommit, Settle
<1>5. ChargeOf(o) = "PENDING"
  BY <1>1, ActiveCharge DEF Active
<1>6. \A i \in Intents \ {j} : payOrder[i] = o => payStatus[i] \notin {"PENDING", "SUCCEEDED"}
  BY <1>1 DEF IInv, OneActivePayment, Active
<1>7. /\ payOrder'[j] = o
      /\ \A i \in Intents \ {j} : payStatus'[i] = payStatus[i] /\ payOrder'[i] = payOrder[i]
  BY <1>1, <1>2, <1>4 DEF IInv, TypeOK
<1>8. \A a \in Orders \ {o} : ChargeOf(a)' = ChargeOf(a)
  BY <1>1, <1>7, OtherCharges
<1>9. ChargeMap[o] = "PENDING"
  BY <1>1, <1>5 DEF ChargeMap
<1>10. CASE ConfirmDecline(w)
  <2>1. payStatus'[j] = "FAILED"
    BY <1>1, <1>4, <1>10 DEF IInv, TypeOK
  <2>2. ~Has(o, "PENDING")' /\ ~Has(o, "SUCCEEDED")'
    BY <1>6, <1>7, <2>1 DEF Has
  <2>3. ChargeOf(o)' = None
    BY <2>2 DEF ChargeOf
  <2>4. ChargeMap' = [ChargeMap EXCEPT ![o] = None]
    BY <1>1, <1>8, <2>3, ChargeChanges
  <2>5. Account!Decline(o)
    BY <1>2, <1>9, <2>4 DEF Account!Decline, ChargeMap
  <2> QED BY <2>5
<1>11. CASE ConfirmCommit(w)
  <2>1. payStatus'[j] = "SUCCEEDED"
    BY <1>1, <1>4, <1>11 DEF IInv, TypeOK
  <2>2. Has(o, "SUCCEEDED")'
    BY <1>1, <1>7, <2>1 DEF Has
  <2>3. ChargeOf(o)' = "SUCCEEDED"
    BY <2>2 DEF ChargeOf
  <2>4. ChargeMap' = [ChargeMap EXCEPT ![o] = "SUCCEEDED"]
    BY <1>1, <1>8, <2>3, ChargeChanges
  <2>5. Account!Succeed(o)
    BY <1>2, <1>3, <1>9, <1>11, <2>4 DEF Account!Succeed, ChargeMap
  <2> QED BY <2>5
<1> QED BY <1>10, <1>11

(* The commit of updateStatus, asked for or inside a confirmation, moves   *)
(* the order.                                                              *)
LEMMA UpdateMoves ==
  ASSUME IInv, UpdateOwnsOrder, NEW w \in Workers, UpdateCommit(w) \/ PayingCommit(w)
  PROVE  /\ order[w] \in Orders /\ wanted[w] \in Account!Statuses
         /\ Account!MoveOrder(order[w], wanted[w])
<1>1. pc[w] \in {"updating", "paying"} /\ SaveStatus(w) /\ UNCHANGED <<payStatus, payOrder>>
  BY DEF UpdateCommit, PayingCommit, payments
<1>2. order[w] \in Orders
  BY <1>1, HoldersAddressed DEF OrderHolderLabels
<1>3. status[order[w]] \in Statuses /\ wanted[w] \in ValidTransitions[status[order[w]]]
  BY <1>1, <1>2 DEF IInv, TypeOK, UpdateOwnsOrder
<1>4. wanted[w] \in Statuses /\ status[order[w]] # None
  BY <1>3, NoneIsApart DEF ValidTransitions, Statuses
<1>5. ChargeMap' = ChargeMap
  BY <1>1, ChargesAsBefore
<1>6. Account!Move(order[w], wanted[w])
  BY <1>1, <1>3, <1>4, SameTransitions DEF Account!Move, SaveStatus
<1>7. Account!MoveOrder(order[w], wanted[w])
  BY <1>1, <1>5, <1>6 DEF Account!MoveOrder, SaveStatus, ChargeMap
<1> QED BY <1>2, <1>4, <1>7, SameTransitions

LEMMA StepCharges ==
  ASSUME IInv, UpdateOwnsOrder, [Next]_vars
  PROVE  [Account!ChargesNext]_(<<status, wasPaid, [o \in Orders |-> ChargeOf(o)]>>)
<1>1. ASSUME NEW w \in Workers, IntentCommit(w) PROVE Account!ChargesNext
  BY <1>1, IntentOpens DEF Account!ChargesNext
<1>2. ASSUME NEW w \in Workers, ConfirmDecline(w) \/ ConfirmCommit(w) PROVE Account!ChargesNext
  BY <1>2, ConfirmEnds DEF Account!ChargesNext
<1>3. ASSUME NEW w \in Workers, UpdateCommit(w) \/ PayingCommit(w) PROVE Account!ChargesNext
  BY <1>3, UpdateMoves DEF Account!ChargesNext
<1>4. ASSUME ~\E w \in Workers : IntentCommit(w) \/ ConfirmDecline(w) \/ ConfirmCommit(w)
                                 \/ UpdateCommit(w) \/ PayingCommit(w)
      PROVE  UNCHANGED <<status, wasPaid, payStatus, payOrder>>
  BY <1>4 DEF Next, Start, Intent, Confirm, Update, WaitStep, IntentLock, IntentNotFound,
              IntentInsert, IntentDuplicateKey, ConfirmLock, ConfirmRefuse, UpdateLock,
              UpdateRefuse, Step, IntentCached, IntentMiss, IntentRefuse, IntentCheck, IntentSet,
              ConfirmAccept, Fail, Expire, Rollback, vars, database, payments
<1>5. UNCHANGED <<payStatus, payOrder>> => UNCHANGED [o \in Orders |-> ChargeOf(o)]
  BY ChargesAsBefore DEF ChargeMap
<1> QED BY <1>1, <1>2, <1>3, <1>4, <1>5

LEMMA InitCharges == Init => UpdateOwnsOrder /\ Account!ChargesInit
<1> SUFFICES ASSUME Init PROVE UpdateOwnsOrder /\ Account!ChargesInit
  OBVIOUS
<1>1. UpdateOwnsOrder
  BY DEF Init, UpdateOwnsOrder
<1>2. \A o \in Orders : ChargeOf(o) = None
  BY NoneIsApart DEF Init, ChargeOf, Has
<1>3. Account!ChargesInit
  BY <1>2 DEF Init, Account!ChargesInit, Account!Init
<1> QED BY <1>1, <1>3

(* However intents, confirmations, webhooks and updates interleave and     *)
(* die, the tables show whole operations on orders and charges: a charge   *)
(* is opened for an order that is PENDING and has no other, and succeeds   *)
(* for one that has been PAID (payments.service.ts:50-66, 127-154).        *)
THEOREM PaymentsImplementCharges == Spec => ImplementsCharges
<1>1. IInv /\ UpdateOwnsOrder /\ [Next]_vars => UpdateOwnsOrder'
  BY StepKeepsOwners
<1>2. IInv /\ UpdateOwnsOrder /\ [Next]_vars
        => [Account!ChargesNext]_(<<status, wasPaid, [o \in Orders |-> ChargeOf(o)]>>)
  BY StepCharges
<1> QED BY <1>1, <1>2, InitCharges, Invariance, PTL DEF Spec, ImplementsCharges, Account!ChargesSpec

(* Payments moves orders only as OrderLife, which Orders implements too,   *)
(* says that orders move (payments.service.ts:147).                        *)
THEOREM PaymentsFollowOrderLife == Spec => Account!Spec
<1>1. Account!ChargesInit => Account!Init
  BY DEF Account!ChargesInit
<1>2. [Account!ChargesNext]_(<<status, wasPaid, [o \in Orders |-> ChargeOf(o)]>>)
        => [Account!Next]_status
  BY DEF Account!ChargesNext, Account!PlaceOrder, Account!MoveOrder, Account!Open,
         Account!Decline, Account!Succeed, Account!Next
<1> QED BY <1>1, <1>2, PaymentsImplementCharges, PTL
        DEF ImplementsCharges, Account!ChargesSpec, Account!Spec
=============================================================================

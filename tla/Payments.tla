------------------------------- MODULE Payments -------------------------------
(***************************************************************************)
(* The payment service: createPaymentIntent, confirmPayment (also reached  *)
(* from handleWebhook, which delivers at least once) and the updateStatus  *)
(* of the order service, which confirmPayment calls from inside its own    *)
(* transaction and which commits in another one.  The idempotency cache    *)
(* is Redis: written from inside the transaction, not undone with it.      *)
(***************************************************************************)
EXTENDS Integers, FiniteSets, OrderStatus

CONSTANTS
  Orders,         \* orders placed before; they start PENDING
  Intents,        \* payment intent ids, one per row of "payments"
  Keys,           \* idempotency keys, from clients or generated
  Workers,        \* requests being served at the same time
  AdminStatuses,  \* statuses that admins and sellers ask of updateStatus
  MaxFailures,    \* bound: transactions that die half-way during a behaviour
  None

PaymentStatuses == {"PENDING", "SUCCEEDED", "FAILED"}

ASSUME AdminAssumption    == AdminStatuses \subseteq Statuses
ASSUME FailuresAssumption == MaxFailures \in Nat
ASSUME NoneAssumption ==
  None \notin Workers \cup Orders \cup Intents \cup Keys \cup Statuses \cup PaymentStatuses

VARIABLES
  status,     \* orders.status, committed
  wasPaid,    \* orders that have been PAID (history)
  payStatus,  \* payments.status, committed; None when there is no row
  payOrder,   \* payments.orderId
  payKey,     \* payments.idempotencyKey, unique
  cache,      \* [Keys -> Intents \cup {None}]: "idempotency:<key>" in Redis
  orderLock,  \* FOR UPDATE on the orders row
  payLock,    \* FOR UPDATE on the payments row
  pc, order, key, intent, wanted,
  failures

payments == <<payStatus, payOrder, payKey>>
database == <<status, wasPaid, payments, cache, orderLock, payLock>>
locals   == <<pc, order, key, intent, wanted>>
vars     == <<database, locals, failures>>

IntentLabels  == {"intent_get", "intent_lock", "intent_check", "intent_insert",
                  "intent_set", "intent_commit"}
ConfirmLabels == {"confirm_lock", "confirm_draw", "paying_lock", "paying", "confirm_commit"}
Labels == {"idle", "update_lock", "updating"} \cup IntentLabels \cup ConfirmLabels

-----------------------------------------------------------------------------

Init ==
  /\ status = [o \in Orders |-> "PENDING"]
  /\ wasPaid = {}
  /\ payStatus = [i \in Intents |-> None]
  /\ payOrder = [i \in Intents |-> None]
  /\ payKey = [i \in Intents |-> None]
  /\ cache = [k \in Keys |-> None]
  /\ orderLock = [o \in Orders |-> None]
  /\ payLock = [i \in Intents |-> None]
  /\ pc = [w \in Workers |-> "idle"]
  /\ order = [w \in Workers |-> None]
  /\ key = [w \in Workers |-> None]
  /\ intent = [w \in Workers |-> None]
  /\ wanted = [w \in Workers |-> None]
  /\ failures = 0

Goto(w, label) == pc' = [pc EXCEPT ![w] = label]

Return(w) ==
  /\ Goto(w, "idle")
  /\ order' = [order EXCEPT ![w] = None]
  /\ key' = [key EXCEPT ![w] = None]
  /\ intent' = [intent EXCEPT ![w] = None]
  /\ wanted' = [wanted EXCEPT ![w] = None]

ReleaseOrders(w)   == orderLock' = [o \in Orders |-> IF orderLock[o] = w THEN None ELSE orderLock[o]]
ReleasePayments(w) == payLock' = [i \in Intents |-> IF payLock[i] = w THEN None ELSE payLock[i]]

(* Every transaction of the call rolls back; Redis and what an inner       *)
(* transaction committed stay.                                             *)
Rollback(w) ==
  /\ ReleaseOrders(w)
  /\ ReleasePayments(w)
  /\ UNCHANGED <<status, wasPaid, payments, cache>>
  /\ Return(w)

OrderLockIgnored(o) == TRUE
OrderUnlocked(o)    == orderLock[o] = None

PaymentLockIgnored(i) == TRUE
PaymentUnlocked(i)    == payLock[i] = None

-----------------------------------------------------------------------------
(* createPaymentIntent                                                     *)

(* A new intent id, made from a uuid: no row and no other call has it.     *)
FreshIntents == {i \in Intents : payStatus[i] = None /\ \A w \in Workers : intent[w] # i}

Intent(w) ==
  /\ pc[w] = "idle"
  /\ \E o \in Orders, k \in Keys, i \in FreshIntents :
       /\ order' = [order EXCEPT ![w] = o]
       /\ key' = [key EXCEPT ![w] = k]
       /\ intent' = [intent EXCEPT ![w] = i]
  /\ Goto(w, "intent_get")
  /\ UNCHANGED <<database, wanted, failures>>

(* The cached response is returned before any transaction.                 *)
IntentCached(w) ==
  /\ pc[w] = "intent_get"
  /\ cache[key[w]] # None
  /\ Return(w)
  /\ UNCHANGED <<database, failures>>

IntentMiss(w) ==
  /\ pc[w] = "intent_get"
  /\ cache[key[w]] = None
  /\ Goto(w, "intent_lock")
  /\ UNCHANGED <<database, order, key, intent, wanted, failures>>

IntentLock(w) ==
  /\ pc[w] = "intent_lock"
  /\ status[order[w]] = "PENDING"
  /\ OrderUnlocked(order[w])
  /\ orderLock' = [orderLock EXCEPT ![order[w]] = w]
  /\ Goto(w, "intent_check")
  /\ UNCHANGED <<status, wasPaid, payments, cache, payLock,
                 order, key, intent, wanted, failures>>

(* Pending order not found: the row no longer matches the query.           *)
IntentNotFound(w) ==
  /\ pc[w] = "intent_lock"
  /\ status[order[w]] # "PENDING"
  /\ Rollback(w)
  /\ UNCHANGED failures

Active(i) == payStatus[i] \in {"PENDING", "SUCCEEDED"}
ExistingPayment(o) == \E i \in Intents : payOrder[i] = o /\ Active(i)

(* The amount does not match the order's, or it already has a payment.     *)
IntentRefuse(w) ==
  /\ pc[w] = "intent_check"
  /\ Rollback(w)
  /\ UNCHANGED failures

CachesBeforeInsert(w) ==
  /\ pc[w] = "intent_check"
  /\ ~ExistingPayment(order[w])
  /\ cache' = [cache EXCEPT ![key[w]] = intent[w]]
  /\ Goto(w, "intent_insert")
  /\ UNCHANGED <<status, wasPaid, payments, orderLock, payLock,
                 order, key, intent, wanted, failures>>
IntentCheck(w) ==
  /\ pc[w] = "intent_check"
  /\ ~ExistingPayment(order[w])
  /\ Goto(w, "intent_insert")
  /\ UNCHANGED <<database, order, key, intent, wanted, failures>>

(* The unique index on idempotencyKey: an insert waits for another         *)
(* transaction that inserted the key, and fails once the key is committed. *)
KeyCommitted(k) == \E i \in Intents : payKey[i] = k
KeyInserting(k) == \E w \in Workers : key[w] = k /\ pc[w] \in {"intent_set", "intent_commit"}

IntentInsert(w) ==
  /\ pc[w] = "intent_insert"
  /\ ~KeyCommitted(key[w])
  /\ ~KeyInserting(key[w])
  /\ Goto(w, "intent_set")
  /\ UNCHANGED <<database, order, key, intent, wanted, failures>>

IntentDuplicateKey(w) ==
  /\ pc[w] = "intent_insert"
  /\ KeyCommitted(key[w])
  /\ Rollback(w)
  /\ UNCHANGED failures

(* Redis keeps the response from here on, whether or not the row commits.  *)
IntentSet(w) ==
  /\ pc[w] = "intent_set"
  /\ cache' = [cache EXCEPT ![key[w]] = intent[w]]
  /\ Goto(w, "intent_commit")
  /\ UNCHANGED <<status, wasPaid, payments, orderLock, payLock,
                 order, key, intent, wanted, failures>>

IntentCommit(w) ==
  /\ pc[w] = "intent_commit"
  /\ payStatus' = [payStatus EXCEPT ![intent[w]] = "PENDING"]
  /\ payOrder' = [payOrder EXCEPT ![intent[w]] = order[w]]
  /\ payKey' = [payKey EXCEPT ![intent[w]] = key[w]]
  /\ ReleaseOrders(w)
  /\ Return(w)
  /\ UNCHANGED <<status, wasPaid, cache, payLock, failures>>

-----------------------------------------------------------------------------
(* confirmPayment                                                          *)

(* Called with any id, by a client or by the delivery of a webhook.        *)
Confirm(w) ==
  /\ pc[w] = "idle"
  /\ \E i \in Intents : intent' = [intent EXCEPT ![w] = i]
  /\ Goto(w, "confirm_lock")
  /\ UNCHANGED <<database, order, key, wanted, failures>>

LocksOrderToo(w) ==
  /\ pc[w] = "confirm_lock"
  /\ PaymentUnlocked(intent[w])
  /\ payStatus[intent[w]] = "PENDING"
  /\ OrderUnlocked(payOrder[intent[w]])
  /\ payLock' = [payLock EXCEPT ![intent[w]] = w]
  /\ orderLock' = [orderLock EXCEPT ![payOrder[intent[w]]] = w]
  /\ order' = [order EXCEPT ![w] = payOrder[intent[w]]]
  /\ Goto(w, "confirm_draw")
  /\ UNCHANGED <<status, wasPaid, payments, cache, key, intent, wanted, failures>>
ConfirmLock(w) ==
  /\ pc[w] = "confirm_lock"
  /\ PaymentUnlocked(intent[w])
  /\ payStatus[intent[w]] = "PENDING"
  /\ payLock' = [payLock EXCEPT ![intent[w]] = w]
  /\ order' = [order EXCEPT ![w] = payOrder[intent[w]]]
  /\ Goto(w, "confirm_draw")
  /\ UNCHANGED <<status, wasPaid, payments, cache, orderLock, key, intent, wanted, failures>>

(* Not found, or already settled.                                          *)
ConfirmRefuse(w) ==
  /\ pc[w] = "confirm_lock"
  /\ PaymentUnlocked(intent[w])
  /\ payStatus[intent[w]] # "PENDING"
  /\ Rollback(w)
  /\ UNCHANGED failures

(* Declined: the failed payment is saved and committed.                    *)
ConfirmDecline(w) ==
  /\ pc[w] = "confirm_draw"
  /\ payStatus' = [payStatus EXCEPT ![intent[w]] = "FAILED"]
  /\ ReleasePayments(w)
  /\ Return(w)
  /\ UNCHANGED <<status, wasPaid, payOrder, payKey, cache, orderLock, failures>>

(* Accepted: the payment is saved, not committed, and updateStatus called. *)
ConfirmAccept(w) ==
  /\ pc[w] = "confirm_draw"
  /\ wanted' = [wanted EXCEPT ![w] = "PAID"]
  /\ Goto(w, "paying_lock")
  /\ UNCHANGED <<database, order, key, intent, failures>>

KeepsPending(w) == payStatus' = payStatus
SettlesAsOrder(w) == payStatus' = [payStatus EXCEPT ![intent[w]] = wanted[w]]
Settle(w)       == payStatus' = [payStatus EXCEPT ![intent[w]] = "SUCCEEDED"]

ConfirmCommit(w) ==
  /\ pc[w] = "confirm_commit"
  /\ Settle(w)
  /\ ReleasePayments(w)
  /\ Return(w)
  /\ UNCHANGED <<status, wasPaid, payOrder, payKey, cache, orderLock, failures>>

-----------------------------------------------------------------------------
(* updateStatus, called by admins and sellers ("update_lock") and from     *)
(* confirmPayment ("paying_lock").  The return of the items of a cancelled *)
(* order is module Orders' concern.                                        *)

Update(w) ==
  /\ pc[w] = "idle"
  /\ \E o \in Orders, s \in AdminStatuses :
       /\ order' = [order EXCEPT ![w] = o]
       /\ wanted' = [wanted EXCEPT ![w] = s]
  /\ Goto(w, "update_lock")
  /\ UNCHANGED <<database, key, intent, failures>>

Valid(w) == wanted[w] \in ValidTransitions[status[order[w]]]

UpdateLock(w) ==
  /\ pc[w] \in {"update_lock", "paying_lock"}
  /\ OrderUnlocked(order[w])
  /\ Valid(w)
  /\ orderLock' = [orderLock EXCEPT ![order[w]] = w]
  /\ Goto(w, IF pc[w] = "paying_lock" THEN "paying" ELSE "updating")
  /\ UNCHANGED <<status, wasPaid, payments, cache, payLock,
                 order, key, intent, wanted, failures>>

(* The exception leaves confirmPayment too: its payment stays PENDING.     *)
SwallowRefusal(w) ==
  /\ pc[w] \in {"update_lock", "paying_lock"}
  /\ OrderUnlocked(order[w])
  /\ ~Valid(w)
  /\ Goto(w, IF pc[w] = "paying_lock" THEN "confirm_commit" ELSE "idle")
  /\ UNCHANGED <<database, order, key, intent, wanted, failures>>
UpdateRefuse(w) ==
  /\ pc[w] \in {"update_lock", "paying_lock"}
  /\ OrderUnlocked(order[w])
  /\ ~Valid(w)
  /\ Rollback(w)
  /\ UNCHANGED failures

SaveStatus(w) ==
  /\ status' = [status EXCEPT ![order[w]] = wanted[w]]
  /\ wasPaid' = IF wanted[w] = "PAID" THEN wasPaid \cup {order[w]} ELSE wasPaid
  /\ ReleaseOrders(w)

UpdateCommit(w) ==
  /\ pc[w] = "updating"
  /\ SaveStatus(w)
  /\ Return(w)
  /\ UNCHANGED <<payments, cache, payLock, failures>>

(* The inner transaction commits; the payment's is still open.             *)
PayingCommit(w) ==
  /\ pc[w] = "paying"
  /\ SaveStatus(w)
  /\ Goto(w, "confirm_commit")
  /\ UNCHANGED <<payments, cache, payLock, order, key, intent, wanted, failures>>

-----------------------------------------------------------------------------

(* A statement or a COMMIT fails, or the process dies.                     *)
Fail(w) ==
  /\ pc[w] # "idle"
  /\ failures < MaxFailures
  /\ failures' = failures + 1
  /\ Rollback(w)

(* The response's time to live in Redis is over.                           *)
Expire(k) ==
  /\ cache[k] # None
  /\ cache' = [cache EXCEPT ![k] = None]
  /\ UNCHANGED <<status, wasPaid, payments, orderLock, payLock, locals, failures>>

Start(w) == Intent(w) \/ Confirm(w) \/ Update(w)

(* Steps that may wait for a row, or for a key being inserted.             *)
WaitStep(w) ==
  \/ IntentLock(w) \/ IntentNotFound(w) \/ IntentInsert(w) \/ IntentDuplicateKey(w)
  \/ ConfirmLock(w) \/ ConfirmRefuse(w) \/ UpdateLock(w) \/ UpdateRefuse(w)

Step(w) ==
  \/ IntentCached(w) \/ IntentMiss(w) \/ IntentRefuse(w) \/ IntentCheck(w)
  \/ IntentSet(w) \/ IntentCommit(w)
  \/ ConfirmDecline(w) \/ ConfirmAccept(w) \/ ConfirmCommit(w)
  \/ UpdateCommit(w) \/ PayingCommit(w)

Next ==
  \/ \E w \in Workers : Start(w) \/ WaitStep(w) \/ Step(w) \/ Fail(w)
  \/ \E k \in Keys : Expire(k)

Spec == Init /\ [][Next]_vars

-----------------------------------------------------------------------------

TypeOK ==
  /\ status \in [Orders -> Statuses]
  /\ wasPaid \subseteq Orders
  /\ payStatus \in [Intents -> PaymentStatuses \cup {None}]
  /\ payOrder \in [Intents -> Orders \cup {None}]
  /\ payKey \in [Intents -> Keys \cup {None}]
  /\ cache \in [Keys -> Intents \cup {None}]
  /\ orderLock \in [Orders -> Workers \cup {None}]
  /\ payLock \in [Intents -> Workers \cup {None}]
  /\ pc \in [Workers -> Labels]
  /\ order \in [Workers -> Orders \cup {None}]
  /\ key \in [Workers -> Keys \cup {None}]
  /\ intent \in [Workers -> Intents \cup {None}]
  /\ wanted \in [Workers -> Statuses \cup {None}]
  /\ failures \in Nat

(* An order never has two payments that are pending or succeeded: it       *)
(* cannot be charged twice, however intents race (payments.service.ts:64). *)
OneActivePayment ==
  \A i, j \in Intents :
    Active(i) /\ Active(j) /\ payOrder[i] = payOrder[j] => i = j

(* A settled payment is final, whatever confirmations and webhooks repeat. *)
SettledIsFinal ==
  [][\A i \in Intents :
       payStatus[i] \in {"SUCCEEDED", "FAILED"} => payStatus'[i] = payStatus[i]]_vars

(* What the rows of an order's payments amount to.  A failed one counts    *)
(* for nothing.                                                            *)
Has(o, s) == \E i \in Intents : payOrder[i] = o /\ payStatus[i] = s
ChargeOf(o) ==
  IF Has(o, "SUCCEEDED") THEN "SUCCEEDED" ELSE IF Has(o, "PENDING") THEN "PENDING" ELSE None

Account == INSTANCE Charges WITH
  paid   <- wasPaid,
  charge <- [o \in Orders |-> ChargeOf(o)]

(* However intents, confirmations and updates interleave and die, a charge *)
(* is opened only while its order is PENDING and has no other, succeeds    *)
(* only for an order that has been PAID, not for one cancelled while the   *)
(* charge was pending, and is never undone; the order itself moves only    *)
(* along validTransitions (payments.service.ts:50-66, 146).                *)
ImplementsCharges == Account!ChargesSpec

(* What an order that was PAID lacks when no succeeded payment stands for  *)
(* it, and no call is about to commit one.                                 *)
PaidForNothing ==
  {o \in wasPaid :
     /\ \A i \in Intents : payOrder[i] = o => payStatus[i] # "SUCCEEDED"
     /\ \A w \in Workers : order[w] = o => pc[w] # "confirm_commit"}

(* An order that was PAID has its payment: the two commit together, as     *)
(* README.md:206 ("ACID transactions") would have it.                      *)
PaidOrderHasPayment == PaidForNothing = {}

(* The order and its payment part only where a transaction failed, one     *)
(* order for each that did: no interleaving of intents, confirmations and  *)
(* cancellations leaves a PAID order unpaid (payments.service.ts:146).     *)
PaymentsLostByFailureOnly == Cardinality(PaidForNothing) <= failures

(* Keys whose cached response names an intent that has no row, and none    *)
(* about to be committed.                                                  *)
DanglingKeys ==
  {k \in Keys :
     /\ cache[k] # None
     /\ payStatus[cache[k]] = None \/ payKey[cache[k]] # k
     /\ \A w \in Workers :
          intent[w] = cache[k] /\ key[w] = k => pc[w] # "intent_commit"}

(* A retry is answered with an intent that exists, but for one key for     *)
(* each transaction that failed after it cached its response               *)
(* (payments.service.ts:45, 102).                                          *)
CachedIntentsExist == Cardinality(DanglingKeys) <= failures

(* w waits for a row that another transaction locked, or for its key.      *)
Blocked(w) ==
  \/ pc[w] = "intent_lock" /\ status[order[w]] = "PENDING" /\ ~OrderUnlocked(order[w])
  \/ pc[w] = "intent_insert" /\ ~KeyCommitted(key[w]) /\ KeyInserting(key[w])
  \/ pc[w] = "confirm_lock" /\ ~PaymentUnlocked(intent[w])
  \/ pc[w] \in {"update_lock", "paying_lock"} /\ ~OrderUnlocked(order[w])

(* Payment rows, order rows and keys are taken in an order that leaves no  *)
(* cycle of waiters: while calls are being served one of them can go on,   *)
(* the confirmation that waits for the order inside its transaction        *)
(* included (payments.service.ts:147).                                     *)
NeverStuck ==
  (\E w \in Workers : pc[w] # "idle")
    => \E w \in Workers : pc[w] # "idle" /\ ~Blocked(w)

-----------------------------------------------------------------------------
(* The inductive invariant behind the safety properties.                   *)

(* What a call knows of its arguments, and of the id it made.              *)
LocalsOK ==
  \A w \in Workers :
    /\ pc[w] \in IntentLabels =>
         /\ order[w] \in Orders /\ key[w] \in Keys /\ intent[w] \in Intents
         /\ payStatus[intent[w]] = None
         /\ \A v \in Workers : pc[v] \in IntentLabels /\ intent[v] = intent[w] => v = w
    /\ pc[w] = "confirm_lock" => intent[w] \in Intents
    /\ pc[w] \in {"update_lock", "updating"} => order[w] \in Orders /\ wanted[w] \in Statuses

(* From its check to its commit an intent owns the order's row, and no     *)
(* payment of the order becomes active.                                    *)
IntentOwnsOrder ==
  \A w \in Workers :
    /\ pc[w] \in {"intent_check", "intent_insert", "intent_set", "intent_commit"} =>
         orderLock[order[w]] = w
    /\ pc[w] \in {"intent_insert", "intent_set", "intent_commit"} =>
         ~ExistingPayment(order[w])

(* Once it loaded its payment a confirmation owns the row, still pending.  *)
ConfirmOwnsPayment ==
  \A w \in Workers :
    /\ pc[w] \in ConfirmLabels \ {"confirm_lock"} =>
         /\ intent[w] \in Intents
         /\ payLock[intent[w]] = w
         /\ payStatus[intent[w]] = "PENDING"
         /\ order[w] = payOrder[intent[w]]
    /\ pc[w] \in {"paying_lock", "paying", "confirm_commit"} => wanted[w] = "PAID"
    /\ pc[w] = "confirm_commit" => order[w] \in wasPaid

(* A payment only succeeds for an order that was PAID: not for one that    *)
(* was cancelled while the payment was pending (payments.service.ts:146).  *)
SucceededWasPaid ==
  \A i \in Intents : payStatus[i] = "SUCCEEDED" => payOrder[i] \in wasPaid

RowsHaveOrders == \A i \in Intents : payStatus[i] # None => payOrder[i] \in Orders

(* From its check to its commit updateStatus owns the order's row, whose   *)
(* status still allows the update; an intent owns a row that is PENDING.   *)
UpdateOwnsOrder ==
  \A w \in Workers :
    /\ pc[w] \in {"updating", "paying"} =>
         orderLock[order[w]] = w /\ wanted[w] \in ValidTransitions[status[order[w]]]
    /\ pc[w] \in {"intent_check", "intent_insert", "intent_set", "intent_commit"} =>
         status[order[w]] = "PENDING"

IInv ==
  /\ TypeOK
  /\ LocalsOK
  /\ IntentOwnsOrder
  /\ ConfirmOwnsPayment
  /\ RowsHaveOrders
  /\ OneActivePayment
  /\ SucceededWasPaid

(* What ImplementsCharges takes besides.                                   *)
ChargesIInv == IInv /\ UpdateOwnsOrder

(* What NeverStuck takes: a row is locked by a call that loaded it and has *)
(* not come to the end of its transaction.                                 *)
OrderHolderLabels == {"intent_check", "intent_insert", "intent_set", "intent_commit",
                      "updating", "paying"}
RowsHaveHolders ==
  /\ \A o \in Orders : orderLock[o] # None =>
       pc[orderLock[o]] \in OrderHolderLabels /\ order[orderLock[o]] = o
  /\ \A i \in Intents : payLock[i] # None =>
       pc[payLock[i]] \in ConfirmLabels \ {"confirm_lock"} /\ intent[payLock[i]] = i

(* What PaymentsLostByFailureOnly takes: nobody is changing an order but   *)
(* to a status that admins and sellers ask for, or for its payment.        *)
AskedByAdmins ==
  \A w \in Workers : pc[w] \in {"update_lock", "updating"} => wanted[w] \in AdminStatuses
=============================================================================

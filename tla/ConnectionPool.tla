---------------------------- MODULE ConnectionPool ----------------------------
(***************************************************************************)
(* The connections of the pool and the row locks that requests hold while  *)
(* they wait for more.  createOrder and confirmPayment run a transaction   *)
(* on one connection and, from inside it, call services that query or open *)
(* a transaction on a second one; the pool has no timeout (app.module.ts   *)
(* configures none), so a request waits for its second connection for as   *)
(* long as it takes, holding the first.                                    *)
(***************************************************************************)
EXTENDS Integers, FiniteSets

CONSTANTS
  Requests,     \* requests being served at the same time
  Nesters,      \* those that may be createOrder or confirmPayment
  Orders,       \* rows that updates, intents and confirmations lock
  PoolSize,     \* connections of the pool (node-postgres: 10 by default)
  NestedCalls,  \* how many nested calls a createOrder makes
  None

ASSUME RequestsAssumption == IsFiniteSet(Requests) /\ Nesters \subseteq Requests
ASSUME PoolAssumption     == PoolSize \in Nat \ {0} /\ NestedCalls \subseteq Nat \ {0}
ASSUME NoneAssumption     == None \notin Requests \cup Orders

VARIABLES
  pc,
  order,    \* the order a request works on
  calls,    \* nested calls a createOrder has still to make
  lock,     \* [Orders -> Requests \cup {None}]: the orders row
  payLock   \* [Orders -> Requests \cup {None}]: the row of the order's payment

vars == <<pc, order, calls, lock, payLock>>

Waiting == {"begin_read", "begin_update", "begin_create", "begin_confirm"}
Nested  == {"create_called", "paying_lock", "paying"}
Labels  == {"idle"} \cup Waiting \cup Nested
             \cup {"read", "order_lock", "updating",
                   "create_calling", "pay_lock", "confirm_calling", "commit"}

(* A request holds a connection from the begin of its transaction to its   *)
(* end, and a second one during a nested call.                             *)
OuterHolders  == {r \in Requests : pc[r] \notin {"idle"} \cup Waiting}
NestedHolders == {r \in Requests : pc[r] \in Nested}
InUse         == Cardinality(OuterHolders) + Cardinality(NestedHolders)

FreeButOneLeaked == InUse + 1 < PoolSize
Free             == InUse < PoolSize

-----------------------------------------------------------------------------

Init ==
  /\ pc = [r \in Requests |-> "idle"]
  /\ order = [r \in Requests |-> None]
  /\ calls = [r \in Requests |-> 0]
  /\ lock = [o \in Orders |-> None]
  /\ payLock = [o \in Orders |-> None]

Goto(r, label) == pc' = [pc EXCEPT ![r] = label]

(* Anything that needs one connection and no order row.                    *)
StartRead(r) ==
  /\ pc[r] = "idle"
  /\ Goto(r, "begin_read")
  /\ UNCHANGED <<order, calls, lock, payLock>>

(* updateStatus and createPaymentIntent: one connection and the order row. *)
(* With no items saved an update that cancels makes no nested call.        *)
StartUpdate(r) ==
  /\ pc[r] = "idle"
  /\ \E o \in Orders : order' = [order EXCEPT ![r] = o]
  /\ Goto(r, "begin_update")
  /\ UNCHANGED <<calls, lock, payLock>>

(* createOrder: findOne and reserve for each item, and clearCart; fewer    *)
(* calls when an item is refused.                                          *)
StartCreate(r) ==
  /\ pc[r] = "idle"
  /\ r \in Nesters
  /\ \E n \in NestedCalls : calls' = [calls EXCEPT ![r] = n]
  /\ Goto(r, "begin_create")
  /\ UNCHANGED <<order, lock, payLock>>

StartConfirm(r) ==
  /\ pc[r] = "idle"
  /\ r \in Nesters
  /\ \E o \in Orders : order' = [order EXCEPT ![r] = o]
  /\ Goto(r, "begin_confirm")
  /\ UNCHANGED <<calls, lock, payLock>>

(* The pool hands a connection to a request that waits for its first.      *)
Begin(r) ==
  /\ Free
  /\ \/ pc[r] = "begin_read"    /\ Goto(r, "read")
     \/ pc[r] = "begin_update"  /\ Goto(r, "order_lock")
     \/ pc[r] = "begin_create"  /\ Goto(r, "create_calling")
     \/ pc[r] = "begin_confirm" /\ Goto(r, "pay_lock")
  /\ UNCHANGED <<order, calls, lock, payLock>>

(* ... and to one that waits for its second.                               *)
Nest(r) ==
  /\ Free
  /\ \/ pc[r] = "create_calling"  /\ Goto(r, "create_called")
     \/ pc[r] = "confirm_calling" /\ Goto(r, "paying_lock")
  /\ UNCHANGED <<order, calls, lock, payLock>>

CountsDownTwice(n) == n - 2
NeverCountsDown(n) == n
CountDown(n)       == n - 1

CreateReturn(r) ==
  /\ pc[r] = "create_called"
  /\ calls' = [calls EXCEPT ![r] = CountDown(@)]
  /\ Goto(r, IF calls'[r] = 0 THEN "commit" ELSE "create_calling")
  /\ UNCHANGED <<order, lock, payLock>>

LockOrder(r) ==
  /\ pc[r] \in {"order_lock", "paying_lock"}
  /\ lock[order[r]] = None
  /\ lock' = [lock EXCEPT ![order[r]] = r]
  /\ Goto(r, IF pc[r] = "order_lock" THEN "updating" ELSE "paying")
  /\ UNCHANGED <<order, calls, payLock>>

LockPayment(r) ==
  /\ pc[r] = "pay_lock"
  /\ payLock[order[r]] = None
  /\ payLock' = [payLock EXCEPT ![order[r]] = r]
  /\ Goto(r, "confirm_calling")
  /\ UNCHANGED <<order, calls, lock>>

(* The nested updateStatus commits: its connection and the order are free. *)
PayingCommit(r) ==
  /\ pc[r] = "paying"
  /\ lock' = [lock EXCEPT ![order[r]] = None]
  /\ Goto(r, "commit")
  /\ UNCHANGED <<order, calls, payLock>>

(* The outer transaction ends, by commit or rollback.                      *)
End(r) ==
  /\ pc[r] \in {"read", "updating", "commit"}
  /\ lock' = [o \in Orders |-> IF lock[o] = r THEN None ELSE lock[o]]
  /\ payLock' = [o \in Orders |-> IF payLock[o] = r THEN None ELSE payLock[o]]
  /\ order' = [order EXCEPT ![r] = None]
  /\ calls' = [calls EXCEPT ![r] = 0]
  /\ Goto(r, "idle")

Start(r) == StartRead(r) \/ StartUpdate(r) \/ StartCreate(r) \/ StartConfirm(r)
Acquire(r) == Begin(r) \/ Nest(r) \/ LockOrder(r) \/ LockPayment(r)
Finish(r) == CreateReturn(r) \/ PayingCommit(r) \/ End(r)

Next == \E r \in Requests : Start(r) \/ Acquire(r) \/ Finish(r)

(* Waiters for a connection and for a row are served in turn.              *)
Fairness == \A r \in Requests : SF_vars(Acquire(r)) /\ WF_vars(Finish(r))

Spec     == Init /\ [][Next]_vars
FairSpec == Spec /\ Fairness

-----------------------------------------------------------------------------

TypeOK ==
  /\ pc \in [Requests -> Labels]
  /\ order \in [Requests -> Orders \cup {None}]
  /\ calls \in [Requests -> Nat]
  /\ lock \in [Orders -> Requests \cup {None}]
  /\ payLock \in [Orders -> Requests \cup {None}]

(* What r waits for is there.                                              *)
CanStep(r) ==
  \/ pc[r] \in Waiting \cup {"create_calling", "confirm_calling"} /\ Free
  \/ pc[r] \in {"order_lock", "paying_lock"} /\ lock[order[r]] = None
  \/ pc[r] = "pay_lock" /\ payLock[order[r]] = None
  \/ pc[r] \in {"read", "updating", "create_called", "paying", "commit"}

(* While a request is being served, some request can go on: they never all *)
(* wait for a connection or a row that another of them holds.              *)
NeverStuck ==
  (\E r \in Requests : pc[r] # "idle") => \E r \in Requests : CanStep(r)

(* Every request is answered.                                              *)
EveryCallReturns == \A r \in Requests : pc[r] # "idle" ~> pc[r] = "idle"

(* Who holds a row is past taking it.                                      *)
LockOwners ==
  \A o \in Orders :
    /\ lock[o] # None => pc[lock[o]] \in {"updating", "paying"} /\ order[lock[o]] = o
    /\ payLock[o] # None =>
         pc[payLock[o]] \in {"confirm_calling", "paying_lock", "paying", "commit"}

(* Who works on an order has one, and who nests may.                       *)
ArgumentsOK ==
  \A r \in Requests :
    /\ pc[r] \in {"begin_update", "order_lock", "updating", "begin_confirm", "pay_lock",
                  "confirm_calling", "paying_lock", "paying"} => order[r] \in Orders
    /\ pc[r] \in {"begin_create", "create_calling", "create_called"} => calls[r] > 0
    /\ pc[r] \in Nested \cup {"begin_create", "begin_confirm", "create_calling",
                              "pay_lock", "confirm_calling", "commit"} => r \in Nesters

IInv == TypeOK /\ LockOwners /\ ArgumentsOK
=============================================================================

--------------------------- MODULE InventoryProofs ---------------------------
(***************************************************************************)
(* Proofs about Inventory for any set of products, rows and workers.  The  *)
(* argument: a worker that loaded a row FOR UPDATE owns its lock until it  *)
(* commits or rolls back, so the entity it computes from is still the row  *)
(* (LockProtectsEntity); hence each save writes the row the ledger row     *)
(* describes.                                                              *)
(***************************************************************************)
EXTENDS Inventory, SumsTheorems, TLAPS

USE DEF EntryPoints, Reserving, Adjusting

LEMMA InitIInv == Init => IInv
<1> USE RowsAssumption, StockAssumption, NoneAssumption
<1> SUFFICES ASSUME Init PROVE IInv
  OBVIOUS
<1>1. TypeOK
  BY DEF Init, TypeOK, Account, Ledger, Holding, Columns, Empty, NoEntries, Labels
<1>2. ArgumentsOK
  BY DEF Init, ArgumentsOK
<1>3. LockProtectsEntity
  BY DEF Init, LockProtectsEntity, HoldingLock
<1>4. LedgerExplainsStock
  BY DEF Init, LedgerExplainsStock, Holding, Columns, NoEntries
<1>5. PickedIsVisible
  BY DEF Init, PickedIsVisible
<1> QED BY <1>1, <1>2, <1>3, <1>4, <1>5 DEF IInv

-----------------------------------------------------------------------------
(* The arithmetic of the two kinds of save: a row that passed its check    *)
(* stays non-negative.                                                     *)

LEMMA ReserveArithmetic ==
  ASSUME NEW a \in Account, NEW l \in Ledger, NEW q \in Nat, a.available >= q
  PROVE  AfterReserve(a, q) \in Account /\ LedgerReserve(l, q) \in Ledger
<1>1. AfterReserve(a, q) \in Account
  BY DEF AfterReserve, Columns, Account
<1>2. LedgerReserve(l, q) \in Ledger
  BY DEF LedgerReserve, Ledger
<1> QED BY <1>1, <1>2

LEMMA AdjustArithmetic ==
  ASSUME NEW a \in Account, NEW l \in Ledger, NEW q \in Int, Covers(a, q)
  PROVE  AfterAdjust(a, q) \in Account /\ LedgerAdjust(l, q) \in Ledger
<1>1. AfterAdjust(a, q) \in Account
  BY DEF AfterAdjust, Columns, Account, Covers
<1>2. LedgerAdjust(l, q) \in Ledger
  BY DEF LedgerAdjust, Ledger
<1> QED BY <1>1, <1>2

-----------------------------------------------------------------------------
(* The shared parts of the actions.                                        *)

(* Rows stay visible to the others when none is deleted and none of their  *)
(* drafts is taken; w's own pick is visible, or w does not wait.           *)
LEMMA OthersKeepPicks ==
  ASSUME IInv, NEW w \in Workers, table \subseteq table',
         \A r \in Rows : lock[r] \notin {w, None} => lock'[r] = lock[r],
         \A v \in Workers \ {w} : /\ pc'[v] = pc[v] /\ held'[v] = held[v]
                                 /\ product'[v] = product[v],
         pc'[w] \in {"reserve_wait", "adjust_wait"} => held'[w] \in Visible(w, product[w])',
         pc'[w] \in {"reserve_wait", "adjust_wait"} => product'[w] = product[w]
  PROVE  PickedIsVisible'
<1> USE NoneAssumption
<1> SUFFICES ASSUME NEW v \in Workers, pc'[v] \in {"reserve_wait", "adjust_wait"}
             PROVE  held'[v] \in Visible(v, product[v])'
  BY DEF PickedIsVisible
<1>1. CASE v = w
  BY <1>1
<1>2. CASE v # w
  <2>1. /\ pc'[v] = pc[v] /\ held'[v] = held[v] /\ product'[v] = product[v]
        /\ held[v] \in Visible(v, product[v])
    BY <1>2 DEF IInv, PickedIsVisible
  <2>2. held[v] \in Rows /\ v # None /\ (held[v] \in table \/ lock[held[v]] = v)
    BY <2>1 DEF Visible, RowsOf, Drafts
  <2>3. held[v] \in table' \/ lock'[held[v]] = v
    BY <1>2, <2>2
  <2> QED BY <2>1, <2>2, <2>3 DEF Visible, RowsOf, Drafts
<1> QED BY <1>1, <1>2

(* Whatever releases w's locks and returns keeps the others' protected.    *)
LEMMA ReturnKeepsOthers ==
  ASSUME IInv, NEW w \in Workers, Return(w), lock' \in {lock, Unlocked(w)},
         table \subseteq table',
         \A r \in Rows : lock[r] \notin {w, None} => stock'[r] = stock[r]
  PROVE  ArgumentsOK' /\ PickedIsVisible' /\ LockProtectsEntity'
<1> USE NoneAssumption
<1>1. ArgumentsOK'
  BY DEF IInv, TypeOK, ArgumentsOK, Return, Goto, Covers, Labels
<1>2. ASSUME NEW v \in Workers, pc'[v] \in HoldingLock
      PROVE  held'[v] \in Rows /\ lock'[held'[v]] = v /\ seen'[v] = stock'[held'[v]]
  <2>1. v # w /\ pc'[v] = pc[v] /\ held'[v] = held[v] /\ seen'[v] = seen[v]
    BY <1>2 DEF IInv, TypeOK, Return, Goto, HoldingLock
  <2>2. held[v] \in Rows /\ lock[held[v]] = v /\ seen[v] = stock[held[v]]
    BY <1>2, <2>1 DEF IInv, LockProtectsEntity
  <2> QED BY <2>1, <2>2 DEF Unlocked, IInv, TypeOK
<1>3. PickedIsVisible'
  <2>1. \A r \in Rows : lock[r] \notin {w, None} => lock'[r] = lock[r]
    BY DEF Unlocked
  <2>2. pc'[w] = "idle"
    BY DEF IInv, TypeOK, Return, Goto
  <2>3. \A v \in Workers \ {w} : pc'[v] = pc[v] /\ held'[v] = held[v] /\ product'[v] = product[v]
    BY DEF IInv, TypeOK, Return, Goto
  <2> QED BY <2>1, <2>2, <2>3, OthersKeepPicks
<1> QED BY <1>1, <1>2, <1>3 DEF LockProtectsEntity

(* A row is picked: nothing but the picker's locals changes.               *)
LEMMA PickStepKeepsIInv ==
  ASSUME IInv, NEW w \in Workers, PickStep(w)
  PROVE  IInv'
<1> USE NoneAssumption
<1>1. PICK r \in Visible(w, product[w]) : held' = [held EXCEPT ![w] = r]
  BY DEF PickStep, ReserveFind, ReserveRefind, AdjustFind, Pick
<1>2. UNCHANGED <<table, stock, opening, ledger, lock, live, sold, product, qty, seen, seenSold>>
  BY DEF PickStep, ReserveFind, ReserveRefind, AdjustFind, Pick, database
<1>3. PICK label \in {"reserve_wait", "adjust_wait"} :
        /\ Goto(w, label)
        /\ label = "reserve_wait" <=> pc[w] \in {"reserve", "reserve_relock"}
        /\ label = "adjust_wait" <=> pc[w] = "adjust"
  BY DEF PickStep, ReserveFind, ReserveRefind, AdjustFind
<1>4. r \in Rows
  BY DEF Visible, RowsOf
<1>5. TypeOK'
  BY <1>1, <1>2, <1>3, <1>4 DEF IInv, TypeOK, Goto, Labels
<1>6. ArgumentsOK'
  BY <1>2, <1>3 DEF IInv, TypeOK, ArgumentsOK, Goto, Covers
<1>7. PickedIsVisible'
  <2>1. held'[w] \in Visible(w, product[w])'
    BY <1>1, <1>2, <1>4 DEF IInv, TypeOK, Visible, RowsOf, Drafts
  <2>2. \A v \in Workers \ {w} : pc'[v] = pc[v] /\ held'[v] = held[v] /\ product'[v] = product[v]
    BY <1>1, <1>2, <1>3 DEF IInv, TypeOK, Goto
  <2> QED BY <1>2, <2>1, <2>2, OthersKeepPicks
<1>8. LockProtectsEntity'
  BY <1>1, <1>2, <1>3 DEF IInv, TypeOK, LockProtectsEntity, HoldingLock, Goto
<1>9. LedgerExplainsStock'
  BY <1>2 DEF IInv, LedgerExplainsStock
<1> QED BY <1>5, <1>6, <1>7, <1>8, <1>9 DEF IInv

(* Granting a row: no other worker had it, so the others stay protected.   *)
LEMMA LockStepKeepsIInv ==
  ASSUME IInv, NEW w \in Workers, LockStep(w)
  PROVE  IInv'
<1> USE NoneAssumption
<1>1. Lock(w) /\ held[w] \in Visible(w, product[w])
  BY DEF LockStep, ReserveLock, AdjustLock, IInv, PickedIsVisible
<1>2. held[w] \in Rows /\ stock[held[w]] \in Account
  BY <1>1 DEF Visible, RowsOf, IInv, TypeOK
<1>3. PICK label \in {"reserve_locked", "adjust_locked"} :
        /\ Goto(w, label)
        /\ label = "reserve_locked" <=> pc[w] = "reserve_wait"
        /\ label = "adjust_locked" <=> pc[w] = "adjust_wait"
  BY DEF LockStep, ReserveLock, AdjustLock
<1>4. TypeOK'
  BY <1>1, <1>2, <1>3 DEF IInv, TypeOK, Lock, Goto, Labels
<1>5. ArgumentsOK'
  BY <1>1, <1>2, <1>3 DEF IInv, TypeOK, ArgumentsOK, Lock, Goto, Covers
<1>6. LockProtectsEntity'
  BY <1>1, <1>2, <1>3 DEF IInv, TypeOK, LockProtectsEntity, HoldingLock, Lock, Lockable, Goto
<1>7. LedgerExplainsStock'
  BY <1>1 DEF IInv, LedgerExplainsStock, Lock
<1>8. PickedIsVisible'
  <2>1. \A r \in Rows : lock[r] \notin {w, None} => lock'[r] = lock[r]
    BY <1>1, <1>2 DEF IInv, TypeOK, Lock, Lockable
  <2>2. /\ pc'[w] \notin {"reserve_wait", "adjust_wait"} /\ table' = table
        /\ \A v \in Workers \ {w} : pc'[v] = pc[v] /\ held'[v] = held[v] /\ product'[v] = product[v]
    BY <1>1, <1>3 DEF IInv, TypeOK, Lock, Goto
  <2> QED BY <2>1, <2>2, OthersKeepPicks
<1> QED BY <1>4, <1>5, <1>6, <1>7, <1>8 DEF IInv

(* A rolled-back transaction leaves the committed data alone.              *)
LEMMA RollbackKeepsIInv ==
  ASSUME IInv, NEW w \in Workers, Rollback(w)
  PROVE  IInv'
<1> USE NoneAssumption
<1>1. TypeOK'
  BY DEF IInv, TypeOK, Rollback, Return, Goto, Unlocked, Empty, Columns, Account, Labels
<1>2. ArgumentsOK' /\ PickedIsVisible' /\ LockProtectsEntity'
  BY ReturnKeepsOthers DEF Rollback
<1>3. LedgerExplainsStock'
  BY DEF IInv, LedgerExplainsStock, Rollback
<1> QED BY <1>1, <1>2, <1>3 DEF IInv

(* A commit that saves the row w holds, with the ledger row that explains  *)
(* the difference.                                                         *)
LEMMA SaveKeepsIInv ==
  ASSUME IInv, NEW w \in Workers, pc[w] \in HoldingLock, Commit(w),
         NEW s \in Account, NEW l \in Ledger,
         stock' = [stock EXCEPT ![held[w]] = s],
         ledger' = [ledger EXCEPT ![held[w]] = l],
         sold' \in [Products -> Nat], live' \subseteq Products,
         s.available = opening[held[w]] + l.receipts - l.sales - l.reservations,
         s.reserved = l.reservations,
         s.committed = l.sales
  PROVE  IInv'
<1> USE NoneAssumption
<1>1. held[w] \in Rows /\ lock[held[w]] = w
  BY DEF IInv, LockProtectsEntity
<1>2. TypeOK'
  BY <1>1 DEF IInv, TypeOK, Commit, Return, Goto, Unlocked, Drafts, Empty, Columns, Account, Labels
<1>3. ArgumentsOK' /\ PickedIsVisible' /\ LockProtectsEntity'
  <2>1. \A r \in Rows : lock[r] \notin {w, None} => stock'[r] = stock[r]
    BY <1>1 DEF IInv, TypeOK
  <2> QED BY <2>1, ReturnKeepsOthers DEF Commit
<1>4. LedgerExplainsStock'
  BY <1>1 DEF IInv, TypeOK, LedgerExplainsStock, Commit
<1> QED BY <1>2, <1>3, <1>4 DEF IInv
-----------------------------------------------------------------------------
(* The steps, one by one.                                                  *)

LEMMA StartKeepsIInv ==
  ASSUME IInv, NEW w \in Workers, Start(w)
  PROVE  IInv'
<1> USE NoneAssumption
<1>1. PICK op \in EntryPoints, p \in Products, q \in Int :
        Call(w, op, p, q) /\ (op = "reserve" => q \in Nat)
  BY QuantityAssumption DEF Start
<1>2. TypeOK'
  BY <1>1 DEF IInv, TypeOK, Call, Goto, Labels, database
<1>3. ArgumentsOK'
  BY <1>1 DEF IInv, TypeOK, ArgumentsOK, Call, Goto, Covers, database
<1>4. LockProtectsEntity'
  BY <1>1 DEF IInv, TypeOK, LockProtectsEntity, HoldingLock, Call, Goto, database
<1>5. LedgerExplainsStock'
  BY <1>1 DEF IInv, LedgerExplainsStock, Call, database
<1>6. PickedIsVisible'
  <2>1. /\ pc'[w] \notin {"reserve_wait", "adjust_wait"} /\ table' = table /\ lock' = lock
        /\ \A v \in Workers \ {w} : pc'[v] = pc[v] /\ held'[v] = held[v] /\ product'[v] = product[v]
    BY <1>1 DEF IInv, TypeOK, Call, Goto, database
  <2> QED BY <2>1, OthersKeepPicks
<1> QED BY <1>2, <1>3, <1>4, <1>5, <1>6 DEF IInv

LEMMA ReserveCreateKeepsIInv ==
  ASSUME IInv, NEW w \in Workers, ReserveCreate(w)
  PROVE  IInv'
<1> USE NoneAssumption DEF ReserveCreate
<1>1. PICK r \in Fresh(product[w]) :
        /\ Insert(r, StockQuantity[product[w]])
        /\ lock' = [lock EXCEPT ![r] = w]
  OBVIOUS
<1>2. r \in Rows /\ lock[r] = None
  BY <1>1 DEF Fresh, RowsOf
<1>3. StockQuantity[product[w]] \in Nat
  BY StockAssumption DEF IInv, TypeOK
<1>4. TypeOK'
  BY <1>1, <1>2, <1>3 DEF IInv, TypeOK, Insert, Holding, Columns, NoEntries, Goto, Account, Ledger, Labels
<1>5. ArgumentsOK'
  BY DEF IInv, TypeOK, ArgumentsOK, Goto, Covers
<1>6. LockProtectsEntity'
  BY <1>1, <1>2 DEF IInv, TypeOK, LockProtectsEntity, HoldingLock, Insert, Goto
<1>7. LedgerExplainsStock'
  BY <1>1, <1>2, <1>3 DEF IInv, TypeOK, LedgerExplainsStock, Insert, Holding, Columns, NoEntries
<1>8. PickedIsVisible'
  <2>1. /\ pc'[w] \notin {"reserve_wait", "adjust_wait"} /\ table' = table
        /\ \A v \in Workers \ {w} : pc'[v] = pc[v] /\ held'[v] = held[v] /\ product'[v] = product[v]
    BY DEF IInv, TypeOK, Goto
  <2>2. \A x \in Rows : lock[x] \notin {w, None} => lock'[x] = lock[x]
    BY <1>1, <1>2 DEF IInv, TypeOK
  <2> QED BY <2>1, <2>2, OthersKeepPicks
<1> QED BY <1>4, <1>5, <1>6, <1>7, <1>8 DEF IInv

LEMMA GetCreateKeepsIInv ==
  ASSUME IInv, NEW w \in Workers, GetCreate(w)
  PROVE  IInv'
<1> USE NoneAssumption DEF GetCreate
<1>1. PICK r \in Fresh(product[w]) : Insert(r, 0) /\ table' = table \cup {r}
  OBVIOUS
<1>2. r \in Rows /\ lock[r] = None
  BY <1>1 DEF Fresh, RowsOf
<1>3. TypeOK'
  BY <1>1, <1>2 DEF IInv, TypeOK, Return, Insert, Holding, Columns, Empty, NoEntries, Goto, Account, Ledger, Labels
<1>4. ArgumentsOK' /\ PickedIsVisible' /\ LockProtectsEntity'
  <2>1. \A x \in Rows : lock[x] \notin {w, None} => stock'[x] = stock[x]
    BY <1>1, <1>2 DEF IInv, TypeOK, Insert
  <2> QED BY <2>1, ReturnKeepsOthers
<1>5. LedgerExplainsStock'
  BY <1>1, <1>2 DEF IInv, TypeOK, LedgerExplainsStock, Insert, Holding, Columns, NoEntries
<1> QED BY <1>3, <1>4, <1>5 DEF IInv

LEMMA ReserveCommitKeepsIInv ==
  ASSUME IInv, NEW w \in Workers, ReserveCommit(w)
  PROVE  IInv'
<1> DEFINE s == AfterReserve(seen[w], qty[w])
           l == LedgerReserve(ledger[held[w]], qty[w])
<1>1. held[w] \in Rows /\ seen[w] = stock[held[w]] /\ qty[w] \in Nat
  BY DEF IInv, LockProtectsEntity, ArgumentsOK, HoldingLock, ReserveCommit
<1>2. s \in Account /\ l \in Ledger
  <2>1. seen[w].available >= qty[w] /\ seen[w] \in Account /\ ledger[held[w]] \in Ledger
    BY <1>1 DEF IInv, TypeOK, ReserveCommit, EnoughToReserve
  <2> QED BY <1>1, <2>1, ReserveArithmetic
<1>3. /\ s.available = opening[held[w]] + l.receipts - l.sales - l.reservations
      /\ s.reserved = l.reservations
      /\ s.committed = l.sales
  BY <1>1 DEF IInv, TypeOK, LedgerExplainsStock, AfterReserve, Columns, LedgerReserve, Account, Ledger
<1>4. /\ stock' = [stock EXCEPT ![held[w]] = s]
      /\ ledger' = [ledger EXCEPT ![held[w]] = l]
  BY DEF IInv, TypeOK, ReserveCommit
<1>5. /\ pc[w] \in HoldingLock
      /\ sold' \in [Products -> Nat] /\ live' \subseteq Products
      /\ Commit(w)
  BY DEF IInv, TypeOK, ReserveCommit, HoldingLock
<1> HIDE DEF s, l
<1> QED BY <1>2, <1>3, <1>4, <1>5, SaveKeepsIInv

LEMMA AdjustCommitKeepsIInv ==
  ASSUME IInv, NEW w \in Workers, AdjustReceive(w) \/ AdjustSell(w)
  PROVE  IInv'
<1> DEFINE s == AfterAdjust(seen[w], qty[w])
           l == LedgerAdjust(ledger[held[w]], qty[w])
<1>1. /\ held[w] \in Rows /\ seen[w] = stock[held[w]] /\ qty[w] \in Int
      /\ Covers(seen[w], qty[w])
  BY DEF IInv, TypeOK, LockProtectsEntity, ArgumentsOK, HoldingLock, Covers, AdjustReceive, AdjustSell
<1>2. s \in Account /\ l \in Ledger
  <2>1. seen[w] \in Account /\ ledger[held[w]] \in Ledger
    BY <1>1 DEF IInv, TypeOK
  <2> QED BY <1>1, <2>1, AdjustArithmetic
<1>3. /\ s.available = opening[held[w]] + l.receipts - l.sales - l.reservations
      /\ s.reserved = l.reservations
      /\ s.committed = l.sales
  BY <1>1 DEF IInv, TypeOK, LedgerExplainsStock, AfterAdjust, Columns, LedgerAdjust, Account, Ledger
<1>4. /\ stock' = [stock EXCEPT ![held[w]] = s]
      /\ ledger' = [ledger EXCEPT ![held[w]] = l]
  BY DEF IInv, TypeOK, AdjustReceive, AdjustSell
<1>5. sold' \in [Products -> Nat] /\ live' \subseteq Products
  BY <1>1 DEF IInv, TypeOK, ArgumentsOK, AdjustReceive, AdjustSell, Revived
<1>6. pc[w] \in HoldingLock /\ Commit(w)
  BY DEF IInv, TypeOK, AdjustReceive, AdjustSell, HoldingLock
<1> HIDE DEF s, l
<1> QED BY <1>2, <1>3, <1>4, <1>5, <1>6, SaveKeepsIInv

(* Loading the product, or missing the row: only locals change.            *)
LEMMA ReadKeepsIInv ==
  ASSUME IInv, NEW w \in Workers,
         AdjustReadProduct(w) \/ UpdateRead(w) \/ GetMiss(w)
  PROVE  IInv'
<1> USE NoneAssumption DEF AdjustReadProduct, UpdateRead, GetMiss, database
<1>1. TypeOK'
  BY DEF IInv, TypeOK, ArgumentsOK, Goto, Labels
<1>2. ArgumentsOK'
  BY DEF IInv, TypeOK, ArgumentsOK, Goto
<1>3. LockProtectsEntity'
  BY DEF IInv, TypeOK, LockProtectsEntity, HoldingLock, Goto
<1>4. LedgerExplainsStock'
  BY DEF IInv, LedgerExplainsStock
<1>5. PickedIsVisible'
  <2>1. /\ pc'[w] \notin {"reserve_wait", "adjust_wait"} /\ table' = table /\ lock' = lock
        /\ \A v \in Workers \ {w} : pc'[v] = pc[v] /\ held'[v] = held[v] /\ product'[v] = product[v]
    BY DEF IInv, TypeOK, Goto
  <2> QED BY <2>1, OthersKeepPicks
<1> QED BY <1>1, <1>2, <1>3, <1>4, <1>5 DEF IInv

(* Calls that answer without writing a row of the inventory.               *)
LEMMA AnswerKeepsIInv ==
  ASSUME IInv, NEW w \in Workers,
         GetHit(w) \/ GetNotFound(w) \/ ProductNotFound(w) \/ UpdateSave(w) \/ Remove(w)
  PROVE  IInv'
<1> USE NoneAssumption DEF GetHit, GetNotFound, ProductNotFound, UpdateSave, Remove, database
<1>1. TypeOK'
  <2>1. sold' \in [Products -> Nat] /\ live' \subseteq Products
    BY DEF IInv, TypeOK, ArgumentsOK, Revived
  <2>2. UNCHANGED <<table, stock, opening, ledger, lock>> /\ Return(w)
    OBVIOUS
  <2> QED BY <2>1, <2>2 DEF IInv, TypeOK, Return, Goto, Empty, Columns, Account, Labels
<1>2. ArgumentsOK' /\ PickedIsVisible' /\ LockProtectsEntity'
  <2>1. Return(w) /\ lock' = lock /\ stock' = stock /\ table' = table
    OBVIOUS
  <2> QED BY <2>1, ReturnKeepsOthers
<1>3. LedgerExplainsStock'
  BY DEF IInv, LedgerExplainsStock
<1> QED BY <1>1, <1>2, <1>3 DEF IInv

LEMMA NextKeepsIInv == IInv /\ [Next]_vars => IInv'
<1> SUFFICES ASSUME IInv, [Next]_vars PROVE IInv'
  OBVIOUS
<1>1. CASE UNCHANGED vars
  BY <1>1 DEF IInv, TypeOK, ArgumentsOK, Covers, PickedIsVisible, Visible, Drafts,
              LockProtectsEntity, LedgerExplainsStock, vars, database, locals
<1>2. ASSUME NEW w \in Workers, Start(w) PROVE IInv'
  BY <1>2, StartKeepsIInv
<1>3. ASSUME NEW w \in Workers, LockStep(w) PROVE IInv'
  BY <1>3, LockStepKeepsIInv
<1>4. ASSUME NEW w \in Workers, Step(w) PROVE IInv'
  <2>1. CASE ReserveCreate(w)
    BY <2>1, ReserveCreateKeepsIInv
  <2>2. CASE ReserveNotFound(w) \/ ReserveRefuse(w) \/ AdjustNotFound(w)
             \/ AdjustRefuse(w) \/ AdjustProductGone(w)
    BY <2>2, RollbackKeepsIInv
       DEF ReserveNotFound, ReserveRefuse, AdjustNotFound, AdjustRefuse, AdjustProductGone
  <2>3. CASE ReserveCommit(w)
    BY <2>3, ReserveCommitKeepsIInv
  <2>4. CASE AdjustReceive(w) \/ AdjustSell(w)
    BY <2>4, AdjustCommitKeepsIInv
  <2>5. CASE AdjustReadProduct(w) \/ UpdateRead(w) \/ GetMiss(w)
    BY <2>5, ReadKeepsIInv
  <2>6. CASE GetHit(w) \/ GetNotFound(w) \/ ProductNotFound(w) \/ UpdateSave(w) \/ Remove(w)
    BY <2>6, AnswerKeepsIInv
  <2>7. CASE GetCreate(w)
    BY <2>7, GetCreateKeepsIInv
  <2>8. CASE PickStep(w)
    BY <2>8, PickStepKeepsIInv
  <2> QED BY <1>4, <2>1, <2>2, <2>3, <2>4, <2>5, <2>6, <2>7, <2>8 DEF Step
<1>5. ASSUME NEW w \in Workers, Fail(w) PROVE IInv'
  BY <1>5, RollbackKeepsIInv DEF Fail
<1> QED BY <1>1, <1>2, <1>3, <1>4, <1>5 DEF Next

(* The invariant the others follow from: rows change only together with    *)
(* their ledger, by the call that locked them (inventory.service.ts:62-229).*)
THEOREM Invariance == Spec => []IInv
<1> QED BY InitIInv, NextKeepsIInv, PTL DEF Spec

(* Quantities never go negative, rows and locals keep their types.         *)
THEOREM TypeCorrect == Spec => []TypeOK
<1>1. IInv => TypeOK
  BY DEF IInv
<1> QED BY <1>1, Invariance, PTL

(* No concurrent reserve, receipt or sale is ever lost: the columns of a   *)
(* row are its opening stock and the ledger rows written with them, for    *)
(* any number of workers.                                                  *)
THEOREM LedgerExplains == Spec => []LedgerExplainsStock
<1>1. IInv => LedgerExplainsStock
  BY DEF IInv
<1> QED BY <1>1, Invariance, PTL

(* A loaded entity is protected by its row lock until it is saved.         *)
THEOREM EntityProtected == Spec => []LockProtectsEntity
<1>1. IInv => LockProtectsEntity
  BY DEF IInv
<1> QED BY <1>1, Invariance, PTL

-----------------------------------------------------------------------------
(* What a step may never do to a committed row.                            *)

RowKeepsUnits(r) ==
  /\ r \in table'
  /\ stock'[r].reserved >= stock[r].reserved
  /\ stock'[r].committed >= stock[r].committed
  /\ stock'[r].available + stock'[r].reserved + stock'[r].committed
       >= stock[r].available + stock[r].reserved + stock[r].committed

(* A save of the held row keeps the units of every row when the new        *)
(* columns keep those of the entity it was computed from.                  *)
LEMMA SaveKeepsUnits ==
  ASSUME IInv, NEW w \in Workers, pc[w] \in HoldingLock, Commit(w),
         NEW s \in Account, stock' = [stock EXCEPT ![held[w]] = s],
         s.reserved >= seen[w].reserved,
         s.committed >= seen[w].committed,
         s.available + s.reserved + s.committed
           >= seen[w].available + seen[w].reserved + seen[w].committed,
         NEW r \in table
  PROVE  RowKeepsUnits(r)
<1>1. held[w] \in Rows /\ seen[w] = stock[held[w]]
  BY DEF IInv, LockProtectsEntity
<1>2. r \in Rows /\ r \in table'
  BY DEF IInv, TypeOK, Commit
<1>3. CASE r = held[w]
  BY <1>1, <1>2, <1>3 DEF IInv, TypeOK, RowKeepsUnits
<1>4. CASE r # held[w]
  BY <1>1, <1>2, <1>4 DEF IInv, TypeOK, RowKeepsUnits, Account
<1> QED BY <1>3, <1>4

LEMMA UnchangedKeepsUnits ==
  ASSUME IInv, NEW r \in table, r \in table', stock'[r] = stock[r]
  PROVE  RowKeepsUnits(r)
<1>1. stock[r] \in Account
  BY DEF IInv, TypeOK
<1> QED BY <1>1 DEF RowKeepsUnits, Account

LEMMA NextKeepsUnits ==
  ASSUME IInv, [Next]_vars, NEW r \in table
  PROVE  RowKeepsUnits(r)
<1> USE NoneAssumption
<1>1. ASSUME NEW w \in Workers, ReserveCommit(w) PROVE RowKeepsUnits(r)
  <2> DEFINE s == AfterReserve(seen[w], qty[w])
  <2>1. qty[w] \in Nat /\ seen[w] \in Account /\ ledger[held[w]] \in Ledger
    BY <1>1 DEF IInv, TypeOK, ArgumentsOK, LockProtectsEntity, HoldingLock, ReserveCommit
  <2>2. s \in Account
    BY <1>1, <2>1, ReserveArithmetic DEF ReserveCommit, EnoughToReserve
  <2>3. /\ s.reserved >= seen[w].reserved /\ s.committed >= seen[w].committed
        /\ s.available + s.reserved + s.committed
             >= seen[w].available + seen[w].reserved + seen[w].committed
    BY <2>1 DEF AfterReserve, Columns, Account
  <2>4. stock' = [stock EXCEPT ![held[w]] = s] /\ pc[w] \in HoldingLock /\ Commit(w)
    BY <1>1 DEF ReserveCommit, HoldingLock
  <2> HIDE DEF s
  <2> QED BY <2>2, <2>3, <2>4, SaveKeepsUnits
<1>2. ASSUME NEW w \in Workers, AdjustReceive(w) \/ AdjustSell(w) PROVE RowKeepsUnits(r)
  <2> DEFINE s == AfterAdjust(seen[w], qty[w])
  <2>1. /\ qty[w] \in Int /\ seen[w] \in Account /\ ledger[held[w]] \in Ledger
        /\ Covers(seen[w], qty[w])
    BY <1>2 DEF IInv, TypeOK, ArgumentsOK, LockProtectsEntity, HoldingLock, Covers,
                AdjustReceive, AdjustSell
  <2>2. s \in Account
    BY <2>1, AdjustArithmetic
  <2>3. /\ s.reserved >= seen[w].reserved /\ s.committed >= seen[w].committed
        /\ s.available + s.reserved + s.committed
             >= seen[w].available + seen[w].reserved + seen[w].committed
    BY <2>1 DEF AfterAdjust, Columns, Account
  <2>4. stock' = [stock EXCEPT ![held[w]] = s] /\ pc[w] \in HoldingLock /\ Commit(w)
    BY <1>2 DEF AdjustReceive, AdjustSell, HoldingLock
  <2> HIDE DEF s
  <2> QED BY <2>2, <2>3, <2>4, SaveKeepsUnits
<1>3. ASSUME NEW w \in Workers, ReserveCreate(w) \/ GetCreate(w) PROVE RowKeepsUnits(r)
  <2>1. PICK x \in Fresh(product[w]) : \E n : Insert(x, n)
    BY <1>3 DEF ReserveCreate, GetCreate
  <2>2. x # r /\ r \in table' /\ r \in Rows
    BY <1>3 DEF Fresh, IInv, TypeOK, ReserveCreate, GetCreate
  <2>3. stock'[r] = stock[r]
    BY <2>1, <2>2 DEF Insert, IInv, TypeOK
  <2> QED BY <2>2, <2>3, UnchangedKeepsUnits
<1>4. ASSUME UNCHANGED <<table, stock>> PROVE RowKeepsUnits(r)
  BY <1>4, UnchangedKeepsUnits
<1>5. CASE UNCHANGED vars
  BY <1>4, <1>5 DEF vars, database
<1>6. ASSUME NEW w \in Workers, Start(w) \/ LockStep(w) \/ Fail(w)
      PROVE  UNCHANGED <<table, stock>>
  BY <1>6 DEF Start, Call, database, LockStep, ReserveLock, AdjustLock,
              Lock, Fail, Rollback
<1>7. ASSUME NEW w \in Workers, Step(w),
             ~(ReserveCommit(w) \/ AdjustReceive(w) \/ AdjustSell(w)),
             ~(ReserveCreate(w) \/ GetCreate(w))
      PROVE  UNCHANGED <<table, stock>>
  BY <1>7 DEF Step, PickStep, ReserveFind, ReserveRefind, AdjustFind, Pick, database,
              Rollback, ReserveNotFound, ReserveRefuse, AdjustNotFound,
              AdjustRefuse, AdjustProductGone, AdjustReadProduct, GetHit, GetMiss,
              GetNotFound, UpdateRead, ProductNotFound, UpdateSave, Remove
<1> QED BY <1>1, <1>2, <1>3, <1>4, <1>5, <1>6, <1>7 DEF Next

(* No step lowers what a committed row holds, or takes back a reservation  *)
(* or a sale, whatever calls interleave.                                   *)
THEOREM UnitsKept == Spec => UnitsNeverVanish
<1>1. IInv /\ [Next]_vars => \A r \in table : RowKeepsUnits(r)
  BY NextKeepsUnits
<1>2. IInv /\ [Next]_vars =>
        [\A r \in table :
           /\ r \in table'
           /\ stock'[r].reserved >= stock[r].reserved
           /\ stock'[r].committed >= stock[r].committed
           /\ stock'[r].available + stock'[r].reserved + stock'[r].committed
                >= stock[r].available + stock[r].reserved + stock[r].committed]_vars
  BY <1>1 DEF RowKeepsUnits
<1> QED BY <1>2, Invariance, PTL DEF Spec, UnitsNeverVanish

-----------------------------------------------------------------------------
(* SoldWasCommitted.                                                       *)

(* The row a call locked is its product's, and its arguments do not change *)
(* while it holds the row.                                                 *)
LEMMA NextKeepsHeld ==
  ASSUME IInv, HeldIsTheProducts, [Next]_vars
  PROVE  HeldIsTheProducts'
<1> SUFFICES ASSUME NEW v \in Workers, pc'[v] \in HoldingLock
             PROVE  held'[v] \in RowsOf(product'[v])
  BY DEF HeldIsTheProducts, RowsOf
<1>1. ASSUME NEW w \in Workers, Return(w)
      PROVE  pc[v] \in HoldingLock /\ held'[v] = held[v] /\ product'[v] = product[v]
  BY <1>1 DEF IInv, TypeOK, Return, Goto, HoldingLock
<1>2. ASSUME NEW w \in Workers, Fail(w) \/ ReserveNotFound(w) \/ ReserveRefuse(w) \/ ReserveCommit(w)
      PROVE  Return(w)
  BY <1>2 DEF Fail, ReserveNotFound, ReserveRefuse, ReserveCommit, Rollback, Commit
<1>3. ASSUME NEW w \in Workers, AdjustNotFound(w) \/ AdjustRefuse(w) \/ AdjustReceive(w)
                                \/ AdjustProductGone(w) \/ AdjustSell(w)
      PROVE  Return(w)
  BY <1>3 DEF AdjustNotFound, AdjustRefuse, AdjustReceive, AdjustProductGone, AdjustSell,
              Rollback, Commit
<1>4. ASSUME NEW w \in Workers, GetHit(w) \/ GetNotFound(w) \/ GetCreate(w)
                                \/ ProductNotFound(w) \/ UpdateSave(w) \/ Remove(w)
      PROVE  Return(w)
  BY <1>4 DEF GetHit, GetNotFound, GetCreate, ProductNotFound, UpdateSave, Remove
<1>5. ASSUME NEW w \in Workers, Start(w)
      PROVE  pc[v] \in HoldingLock /\ held'[v] = held[v] /\ product'[v] = product[v]
  <2>1. PICK op \in EntryPoints, p \in Products, q \in Int : Call(w, op, p, q)
    BY <1>5, QuantityAssumption DEF Start
  <2> QED BY <2>1 DEF IInv, TypeOK, Call, Goto, HoldingLock
<1>6. ASSUME NEW w \in Workers, LockStep(w)
      PROVE  held'[v] \in RowsOf(product'[v])
  <2>1. Lock(w) /\ held[w] \in Visible(w, product[w])
    BY <1>6 DEF LockStep, ReserveLock, AdjustLock, IInv, PickedIsVisible
  <2>2. product' = product /\ held' = held /\ held[w] \in RowsOf(product[w])
    BY <2>1 DEF Lock, Visible
  <2>3. v # w => pc'[v] = pc[v]
    BY <1>6 DEF IInv, TypeOK, LockStep, ReserveLock, AdjustLock, Goto
  <2> QED BY <2>2, <2>3 DEF IInv, TypeOK, HeldIsTheProducts
<1>7. ASSUME NEW w \in Workers,
             \/ PickStep(w) \/ ReserveCreate(w) \/ AdjustReadProduct(w)
             \/ GetMiss(w) \/ UpdateRead(w)
      PROVE  pc[v] \in HoldingLock /\ held'[v] = held[v] /\ product'[v] = product[v]
  BY <1>7 DEF IInv, TypeOK, PickStep, ReserveFind, ReserveRefind, AdjustFind, Pick,
              ReserveCreate, AdjustReadProduct, GetMiss, UpdateRead, Goto, HoldingLock
<1>8. CASE UNCHANGED vars
  BY <1>8 DEF vars, locals, HeldIsTheProducts
<1> QED BY <1>1, <1>2, <1>3, <1>4, <1>5, <1>6, <1>7, <1>8 DEF Next, Step, HeldIsTheProducts

LEMMA CommittedTyped ==
  ASSUME IInv, NEW p
  PROVE  /\ IsFiniteSet(RowsOf(p) \cap table)
         /\ \A r \in Rows : [x \in Rows |-> stock[x].committed][r] \in Nat
         /\ CommittedUnits(p) \in Nat
<1>1. IsFiniteSet(RowsOf(p) \cap table)
  BY FiniteAssumption, FS_Subset DEF RowsOf
<1>2. \A r \in Rows : stock[r].committed \in Nat
  BY DEF IInv, TypeOK, Account
<1>3. \A r \in Rows : [x \in Rows |-> stock[x].committed][r] \in Nat
  BY <1>2
<1>4. RowsOf(p) \cap table \subseteq Rows
  BY DEF RowsOf
<1>5. SumOver([x \in Rows |-> stock[x].committed], RowsOf(p) \cap table) \in Nat
  BY <1>1, <1>3, <1>4, UnitsFinite
<1> QED BY <1>1, <1>3, <1>5 DEF CommittedUnits

(* What the rows of a product committed only grows.                        *)
LEMMA CommittedGrows ==
  ASSUME IInv, IInv', [Next]_vars, NEW p
  PROVE  CommittedUnits(p) <= CommittedUnits(p)' /\ CommittedUnits(p)' \in Nat
<1> DEFINE f == [r \in Rows |-> stock[r].committed]
           g == [r \in Rows |-> stock'[r].committed]
           S == RowsOf(p) \cap table
           T == RowsOf(p) \cap table'
<1>1. S \subseteq Rows /\ T \subseteq Rows /\ IsFiniteSet(T)
  BY FiniteAssumption, FS_Subset DEF RowsOf
<1>2. \A r \in Rows : f[r] \in Nat /\ g[r] \in Nat
  BY DEF IInv, TypeOK, Account
<1>3. S \subseteq T /\ \A r \in S : f[r] <= g[r]
  BY <1>1, NextKeepsUnits DEF RowKeepsUnits
<1>4. CommittedUnits(p) = SumOver(f, S) /\ CommittedUnits(p)' = SumOver(g, T)
  BY DEF CommittedUnits, RowsOf
<1> HIDE DEF f, g, S, T
<1>5. \A r \in T : g[r] \in Nat
  BY <1>1, <1>2
<1>6. \A r \in S : f[r] \in Nat /\ f[r] <= g[r]
  BY <1>1, <1>2, <1>3
<1>7. SumOver(f, S) <= SumOver(g, T)
  BY <1>1, <1>3, <1>5, <1>6, SumMonotone
<1> QED BY <1>1, <1>4, <1>5, <1>7, UnitsFinite

(* A sale commits its units in the step that counts them.                  *)
LEMMA SaleCommits ==
  ASSUME IInv, HeldIsTheProducts, IInv', NEW w \in Workers, AdjustSell(w),
         NEW p, p = product[w]
  PROVE  CommittedUnits(p)' >= CommittedUnits(p) - qty[w]
<1> USE NoneAssumption
<1> DEFINE h == held[w]
           f == [r \in Rows |-> stock[r].committed]
           g == [r \in Rows |-> stock'[r].committed]
           S == RowsOf(p) \cap table
           T == RowsOf(p) \cap table'
<1>1. /\ h \in Rows /\ lock[h] = w /\ seen[w] = stock[h] /\ h \in RowsOf(p)
      /\ qty[w] \in Int /\ qty[w] < 0 /\ stock[h] \in Account
  BY DEF IInv, TypeOK, LockProtectsEntity, ArgumentsOK, HeldIsTheProducts, HoldingLock, AdjustSell
<1>2. /\ stock' = [stock EXCEPT ![h] = AfterAdjust(stock[h], qty[w])]
      /\ table' = table \cup Drafts(w)
  BY <1>1 DEF AdjustSell, Commit
<1>3. S \subseteq T /\ h \in T /\ T \subseteq Rows /\ IsFiniteSet(T) /\ IsFiniteSet(T \ {h})
  <2>1. h \in table'
    BY <1>1, <1>2 DEF Drafts
  <2>2. S \subseteq T /\ h \in T
    BY <1>1, <1>2, <2>1
  <2>3. T \subseteq Rows /\ T \ {h} \subseteq Rows
    BY DEF RowsOf
  <2> QED BY <2>2, <2>3, FiniteAssumption, FS_Subset
<1>4. g[h] = f[h] - qty[w]
  BY <1>1, <1>2 DEF IInv, TypeOK, AfterAdjust, Columns, Account
<1>5. \A r \in Rows \ {h} : g[r] = f[r]
  BY <1>2 DEF IInv, TypeOK
<1>6. \A r \in Rows : f[r] \in Nat /\ g[r] \in Nat
  BY DEF IInv, TypeOK, Account
<1>7. CommittedUnits(p) = SumOver(f, S) /\ CommittedUnits(p)' = SumOver(g, T)
  <2>1. CommittedUnits(p) = SumOver(f, S)
    BY DEF CommittedUnits
  <2>2. CommittedUnits(p)' = SumOver([r \in Rows |-> stock'[r].committed], RowsOf(p) \cap table')
    BY DEF CommittedUnits, RowsOf
  <2> QED BY <2>1, <2>2
<1> HIDE DEF f, g, S, T, h
<1>8. SumOver(f, S) <= SumOver(f, T) /\ SumOver(f, S) \in Nat
  <2>1. \A r \in T : f[r] \in Nat
    BY <1>3, <1>6
  <2>2. IsFiniteSet(S) /\ \A r \in S : f[r] \in Nat /\ f[r] <= f[r]
    BY <1>3, <1>6, FS_Subset
  <2> QED BY <1>3, <2>1, <2>2, SumMonotone, UnitsFinite
<1>9. SumOver(g, T) = SumOver(f, T) - f[h] + g[h] /\ SumOver(f, T) \in Nat
  <2>1. \A r \in T : f[r] \in Nat /\ g[r] \in Nat
    BY <1>3, <1>6
  <2>2. \A r \in T \ {h} : f[r] = g[r]
    BY <1>3, <1>5
  <2> QED BY <1>3, <2>1, <2>2, SumChange, UnitsFinite
<1>10. f[h] \in Nat /\ g[h] \in Nat /\ qty[w] \in Int
  BY <1>1, <1>6
<1>11. SumOver(g, T) >= SumOver(f, S) - qty[w]
  BY <1>4, <1>8, <1>9, <1>10
<1> QED BY <1>7, <1>11

LEMMA NextKeepsSold ==
  ASSUME SoldIInv, IInv', HeldIsTheProducts', [Next]_vars
  PROVE  SoldWasCommitted' /\ SeenSoldWasCommitted'
<1> USE DEF SoldIInv
<1> DEFINE now(p) == SumOver([r \in Rows |-> stock'[r].committed], RowsOf(p) \cap table')
<1>0. \A p \in Products : CommittedUnits(p)' = now(p)
  BY DEF CommittedUnits, RowsOf
<1>1. \A p \in Products :
        /\ CommittedUnits(p) \in Nat /\ CommittedUnits(p)' \in Nat
        /\ CommittedUnits(p) <= CommittedUnits(p)'
  BY CommittedTyped, CommittedGrows
<1>2. \A p \in Products : sold[p] \in Nat /\ sold'[p] \in Nat
  BY DEF IInv, TypeOK
<1>3. \A v \in Workers : seenSold[v] \in Nat /\ seenSold'[v] \in Nat
  BY DEF IInv, TypeOK
<1>4. ASSUME NEW w \in Workers, AdjustSell(w) PROVE SoldWasCommitted'
  <2>1. /\ pc[w] = "adjust_selling" /\ sold' = [sold EXCEPT ![product[w]] = seenSold[w] - qty[w]]
    BY <1>4 DEF AdjustSell
  <2>2. product[w] \in Products /\ qty[w] \in Int
    BY <2>1 DEF IInv, TypeOK, ArgumentsOK
  <2>3. seenSold[w] <= CommittedUnits(product[w])
    BY <2>1 DEF SeenSoldWasCommitted
  <2>4. ASSUME NEW p \in Products PROVE sold'[p] <= CommittedUnits(p)'
    <3>1. CASE p = product[w]
      <4>1. CommittedUnits(p)' >= CommittedUnits(p) - qty[w]
        BY <1>4, <3>1, SaleCommits
      <4>2. sold'[p] = seenSold[w] - qty[w]
        BY <2>1, <2>2, <3>1 DEF IInv, TypeOK
      <4>3. seenSold[w] <= CommittedUnits(p)
        BY <2>3, <3>1
      <4> QED BY <1>1, <1>3, <2>2, <4>1, <4>2, <4>3
    <3>2. CASE p # product[w]
      <4>1. sold'[p] = sold[p] /\ sold[p] <= CommittedUnits(p)
        BY <2>1, <3>2 DEF IInv, TypeOK, SoldWasCommitted
      <4> QED BY <1>1, <1>2, <4>1
    <3> QED BY <3>1, <3>2
  <2> QED BY <2>4 DEF SoldWasCommitted, CommittedUnits, RowsOf
<1>5. ASSUME NEW w \in Workers, UpdateSave(w) PROVE SoldWasCommitted'
  <2>1. pc[w] = "update_saving" /\ sold' = [sold EXCEPT ![product[w]] = seenSold[w]]
    BY <1>5 DEF UpdateSave
  <2>2. product[w] \in Products /\ seenSold[w] <= CommittedUnits(product[w])
    BY <2>1 DEF IInv, TypeOK, ArgumentsOK, SeenSoldWasCommitted
  <2>3. ASSUME NEW p \in Products PROVE sold'[p] <= CommittedUnits(p)
    BY <2>1, <2>2 DEF IInv, TypeOK, SoldWasCommitted
  <2>4. ASSUME NEW p \in Products PROVE sold'[p] <= CommittedUnits(p)'
    BY <1>1, <1>2, <2>3
  <2> QED BY <2>4 DEF SoldWasCommitted, CommittedUnits, RowsOf
<1>6. ASSUME sold' = sold PROVE SoldWasCommitted'
  <2>1. ASSUME NEW p \in Products PROVE sold'[p] <= CommittedUnits(p)'
    BY <1>1, <1>2, <1>6 DEF SoldWasCommitted
  <2> QED BY <2>1 DEF SoldWasCommitted, CommittedUnits, RowsOf
<1>7. ASSUME ~\E w \in Workers : AdjustSell(w) \/ UpdateSave(w) PROVE sold' = sold
  BY <1>7 DEF Next, Start, Call, LockStep, ReserveLock, AdjustLock, Lock, Fail,
              Rollback, Step, PickStep, ReserveFind, ReserveRefind, AdjustFind, Pick,
              ReserveCreate, ReserveNotFound, ReserveRefuse, ReserveCommit,
              AdjustNotFound, AdjustRefuse, AdjustReceive, AdjustReadProduct, AdjustProductGone,
              GetHit, GetMiss, GetNotFound, GetCreate, UpdateRead, ProductNotFound, Remove,
              vars, database
<1>8. ASSUME NEW v \in Workers, pc'[v] \in {"adjust_selling", "update_saving"}
      PROVE  product'[v] \in Products /\ seenSold'[v] <= now(product'[v])
  <2>1. ASSUME NEW w \in Workers, AdjustReadProduct(w) \/ UpdateRead(w)
        PROVE  product'[v] = product[v] /\ seenSold'[v] <= CommittedUnits(product[v])
    <3>1. /\ product' = product /\ product[w] \in Products
          /\ seenSold' = [seenSold EXCEPT ![w] = sold[product[w]]]
      BY <2>1 DEF AdjustReadProduct, UpdateRead, IInv, ArgumentsOK
    <3>2. v # w => pc'[v] = pc[v]
      BY <2>1 DEF IInv, TypeOK, AdjustReadProduct, UpdateRead, Goto
    <3> QED BY <1>8, <3>1, <3>2 DEF IInv, TypeOK, SoldWasCommitted, SeenSoldWasCommitted
  <2>2. ASSUME ~\E w \in Workers : AdjustReadProduct(w) \/ UpdateRead(w)
        PROVE  pc'[v] = pc[v] /\ product'[v] = product[v] /\ seenSold'[v] = seenSold[v]
    <3>1. ASSUME NEW w \in Workers, Return(w)
          PROVE  pc'[v] = pc[v] /\ product'[v] = product[v] /\ seenSold'[v] = seenSold[v]
      BY <1>8, <3>1 DEF IInv, TypeOK, Return, Goto
    <3>2. ASSUME NEW w \in Workers,
                 Fail(w) \/ ReserveNotFound(w) \/ ReserveRefuse(w) \/ ReserveCommit(w)
          PROVE  Return(w)
      BY <3>2 DEF Fail, ReserveNotFound, ReserveRefuse, ReserveCommit, Rollback, Commit
    <3>3. ASSUME NEW w \in Workers, AdjustNotFound(w) \/ AdjustRefuse(w) \/ AdjustReceive(w)
                                    \/ AdjustProductGone(w) \/ AdjustSell(w)
          PROVE  Return(w)
      BY <3>3 DEF AdjustNotFound, AdjustRefuse, AdjustReceive, AdjustProductGone, AdjustSell,
                  Rollback, Commit
    <3>4. ASSUME NEW w \in Workers, GetHit(w) \/ GetNotFound(w) \/ GetCreate(w)
                                    \/ ProductNotFound(w) \/ UpdateSave(w) \/ Remove(w)
          PROVE  Return(w)
      BY <3>4 DEF GetHit, GetNotFound, GetCreate, ProductNotFound, UpdateSave, Remove
    <3>5. ASSUME NEW w \in Workers, Start(w)
          PROVE  pc'[v] = pc[v] /\ product'[v] = product[v] /\ seenSold'[v] = seenSold[v]
      <4>1. PICK op \in EntryPoints, p \in Products, q \in Int : Call(w, op, p, q)
        BY <3>5, QuantityAssumption DEF Start
      <4> QED BY <1>8, <4>1 DEF IInv, TypeOK, Call, Goto
    <3>6. ASSUME NEW w \in Workers,
                 LockStep(w) \/ PickStep(w) \/ ReserveCreate(w) \/ GetMiss(w)
          PROVE  pc'[v] = pc[v] /\ product'[v] = product[v] /\ seenSold'[v] = seenSold[v]
      BY <1>8, <3>6 DEF IInv, TypeOK, PickStep, ReserveFind, ReserveRefind, AdjustFind, Pick, LockStep, ReserveLock, AdjustLock, Lock,
                        ReserveCreate, GetMiss, Goto
    <3>7. CASE UNCHANGED vars
      BY <3>7 DEF vars, locals
    <3> QED BY <2>2, <3>1, <3>2, <3>3, <3>4, <3>5, <3>6, <3>7 DEF Next, Step
  <2>3. /\ product'[v] = product[v] /\ product[v] \in Products
        /\ seenSold'[v] <= CommittedUnits(product[v])
    <3>1. product'[v] \in Products
      BY <1>8 DEF IInv, ArgumentsOK
    <3> QED BY <1>8, <2>1, <2>2, <3>1 DEF SeenSoldWasCommitted
  <2>4. CommittedUnits(product[v]) \in Nat
    BY CommittedTyped
  <2>5. CommittedUnits(product[v]) <= now(product[v]) /\ now(product[v]) \in Nat
    BY <1>1, <2>3, <1>0
  <2> QED BY <1>3, <2>3, <2>4, <2>5
<1>9. SeenSoldWasCommitted'
  BY <1>8 DEF SeenSoldWasCommitted, CommittedUnits, RowsOf
<1> QED BY <1>4, <1>5, <1>6, <1>7, <1>9

LEMMA InitSold == Init => SoldIInv
<1> SUFFICES ASSUME Init PROVE SoldIInv
  OBVIOUS
<1>1. IInv
  BY InitIInv
<1>2. HeldIsTheProducts /\ SeenSoldWasCommitted
  BY DEF Init, HeldIsTheProducts, HoldingLock, SeenSoldWasCommitted
<1>3. SoldWasCommitted
  <2>1. \A p \in Products : sold[p] = 0 /\ CommittedUnits(p) \in Nat
    BY <1>1, CommittedTyped DEF Init
  <2> QED BY <2>1 DEF SoldWasCommitted
<1> QED BY <1>1, <1>2, <1>3 DEF SoldIInv

(* However sales, product updates, inserts of rows and failures            *)
(* interleave, products.soldQuantity never exceeds what the rows of the    *)
(* product committed: an update may overwrite the count with an older one, *)
(* and older counts are smaller.                                           *)
THEOREM SoldIsCommitted == Spec => []SoldWasCommitted
<1>1. SoldIInv /\ [Next]_vars => SoldIInv'
  BY NextKeepsIInv, NextKeepsHeld, NextKeepsSold DEF SoldIInv
<1>2. SoldIInv => SoldWasCommitted
  BY DEF SoldIInv
<1> QED BY <1>1, <1>2, InitSold, PTL DEF Spec

-----------------------------------------------------------------------------
(* Inventory implements StockAccount.                                      *)

(* A product that starts with a row keeps that one, and calls that concern *)
(* the product find it.                                                    *)
LEMMA FirstRow ==
  ASSUME OneFirstRow, NEW p \in FirstProducts
  PROVE  RowOf(p) \in FirstRows /\ ProductOf[RowOf(p)] = p /\ p \in Products /\ RowOf(p) \in Rows
<1>1. \E r \in FirstRows : ProductOf[r] = p
  BY DEF FirstProducts
<1>2. RowOf(p) \in FirstRows /\ ProductOf[RowOf(p)] = p
  BY <1>1 DEF RowOf
<1> QED BY <1>2, RowsAssumption

LEMMA InitRefines ==
  ASSUME OneFirstRow, Init
  PROVE  RefinesIInv /\ Books!Init
<1>1. IInv
  BY InitIInv
<1>2. HeldIsTheProducts /\ AmountsOK
  BY DEF Init, HeldIsTheProducts, HoldingLock, AmountsOK
<1>3. FirstRowsOnly
  <2>1. ASSUME NEW p \in FirstProducts PROVE RowsOf(p) \cap table = {RowOf(p)}
    BY <2>1, FirstRow, RowsAssumption DEF Init, RowsOf, OneFirstRow
  <2>2. \A r \in Rows : lock[r] = None
    BY DEF Init
  <2>3. \A w \in Workers : pc[w] = "idle"
    BY DEF Init
  <2> QED BY <2>1, <2>2, <2>3 DEF FirstRowsOnly, RowsOf
<1>4. \A p \in FirstProducts : stock[RowOf(p)] = Holding(StockQuantity[p])
  BY FirstRow DEF Init
<1>5. Books!Init
  BY <1>4 DEF Books!Init
<1> QED BY <1>1, <1>2, <1>3, <1>5 DEF RefinesIInv

(* No call inserts a row of a product that has its first one.              *)
LEMMA InsertsAreNew ==
  ASSUME OneFirstRow, IInv, FirstRowsOnly, NEW w \in Workers, ReserveCreate(w) \/ GetCreate(w)
  PROVE  product[w] \notin FirstProducts
<1>1. CASE ReserveCreate(w)
  BY <1>1 DEF ReserveCreate, Visible, FirstRowsOnly
<1>2. CASE GetCreate(w)
  BY <1>2 DEF GetCreate, FirstRowsOnly
<1> QED BY <1>1, <1>2

LEMMA NextKeepsFirstRows ==
  ASSUME OneFirstRow, IInv, FirstRowsOnly, [Next]_vars
  PROVE  FirstRowsOnly'
<1> USE NoneAssumption
<1> SUFFICES ASSUME NEW p \in FirstProducts
             PROVE  /\ RowsOf(p) \cap table' = {RowOf(p)}
                    /\ \A r \in RowsOf(p) \ table' : lock'[r] = None
                    /\ \A w \in Workers :
                         product'[w] = p => pc'[w] \notin {"reserve_relock", "get_creating"}
  BY DEF FirstRowsOnly, RowsOf
<1>1. /\ RowsOf(p) \cap table = {RowOf(p)}
      /\ \A r \in RowsOf(p) \ table : lock[r] = None
      /\ \A w \in Workers : product[w] = p => pc[w] \notin {"reserve_relock", "get_creating"}
  BY DEF FirstRowsOnly
<1>2. p \in Products /\ RowsOf(p) \subseteq Rows
  BY FirstRow DEF RowsOf
<1>3. /\ RowsOf(p) \cap table' = {RowOf(p)}
      /\ \A r \in RowsOf(p) \ table' : lock'[r] = None
  <2>1. ASSUME NEW w \in Workers, lock' = Unlocked(w), table' \in {table, table \cup Drafts(w)}
        PROVE  /\ RowsOf(p) \cap table' = {RowOf(p)}
               /\ \A r \in RowsOf(p) \ table' : lock'[r] = None
    <3>1. RowsOf(p) \cap Drafts(w) = {}
      BY <1>1 DEF Drafts
    <3> QED BY <1>1, <1>2, <2>1, <3>1 DEF Unlocked
  <2>2. ASSUME NEW w \in Workers,
               \/ Fail(w) \/ ReserveNotFound(w) \/ ReserveRefuse(w)
               \/ AdjustNotFound(w) \/ AdjustRefuse(w) \/ AdjustProductGone(w)
        PROVE  lock' = Unlocked(w) /\ table' = table
    BY <2>2 DEF Fail, ReserveNotFound, ReserveRefuse, AdjustNotFound, AdjustRefuse,
                AdjustProductGone, Rollback
  <2>3. ASSUME NEW w \in Workers, ReserveCommit(w) \/ AdjustReceive(w) \/ AdjustSell(w)
        PROVE  lock' = Unlocked(w) /\ table' = table \cup Drafts(w)
    BY <2>3 DEF ReserveCommit, AdjustReceive, AdjustSell, Commit
  <2>4. ASSUME NEW w \in Workers, LockStep(w)
        PROVE  /\ table' = table
               /\ \A r \in RowsOf(p) \ table' : lock'[r] = None
    <3>1. Lock(w) /\ held[w] \in Visible(w, product[w])
      BY <2>4 DEF LockStep, ReserveLock, AdjustLock, IInv, PickedIsVisible
    <3>2. table' = table /\ lock' = [lock EXCEPT ![held[w]] = w]
      BY <3>1 DEF Lock
    <3>3. held[w] \notin RowsOf(p) \ table
      BY <1>1, <3>1 DEF Visible, Drafts
    <3> QED BY <1>1, <1>2, <3>2, <3>3 DEF IInv, TypeOK
  <2>5. ASSUME NEW w \in Workers, ReserveCreate(w) \/ GetCreate(w)
        PROVE  /\ RowsOf(p) \cap table' = {RowOf(p)}
               /\ \A r \in RowsOf(p) \ table' : lock'[r] = None
    <3>1. product[w] # p
      BY <2>5, InsertsAreNew
    <3>2. PICK r \in Fresh(product[w]) :
            /\ table' \in {table, table \cup {r}}
            /\ lock' \in {lock, [lock EXCEPT ![r] = w]}
      BY <2>5 DEF ReserveCreate, GetCreate
    <3>3. r \notin RowsOf(p)
      BY <3>1 DEF Fresh, RowsOf
    <3>4. \A x \in RowsOf(p) : lock'[x] = lock[x]
      BY <1>2, <3>2, <3>3 DEF IInv, TypeOK
    <3> QED BY <1>1, <3>2, <3>3, <3>4
  <2>6. ASSUME NEW w \in Workers,
               \/ Start(w) \/ PickStep(w) \/ AdjustReadProduct(w)
               \/ GetHit(w) \/ GetMiss(w) \/ GetNotFound(w) \/ UpdateRead(w) \/ ProductNotFound(w) \/ UpdateSave(w) \/ Remove(w)
        PROVE  UNCHANGED <<table, lock>>
    BY <2>6 DEF Start, Call, PickStep, ReserveFind, ReserveRefind, AdjustFind, Pick,
                AdjustReadProduct, GetHit, GetMiss, GetNotFound, UpdateRead,
                ProductNotFound, UpdateSave, Remove, database
  <2>7. CASE UNCHANGED vars
    BY <1>1, <2>7 DEF vars, database
  <2> QED BY <1>1, <2>1, <2>2, <2>3, <2>4, <2>5, <2>6, <2>7 DEF Next, Step
<1>4. ASSUME NEW v \in Workers, product'[v] = p
      PROVE  pc'[v] \notin {"reserve_relock", "get_creating"}
  <2>1. ASSUME NEW w \in Workers, ReserveCreate(w)
        PROVE  pc'[v] \notin {"reserve_relock", "get_creating"}
    <3>1. product[w] # p
      BY <2>1, InsertsAreNew
    <3> QED BY <1>1, <1>4, <2>1, <3>1 DEF IInv, TypeOK, ReserveCreate, Goto
  <2>2. ASSUME NEW w \in Workers, GetMiss(w)
        PROVE  pc'[v] \notin {"reserve_relock", "get_creating"}
    <3>1. product[w] # p
      BY <1>1, <2>2 DEF GetMiss, Visible
    <3> QED BY <1>1, <1>4, <2>2, <3>1 DEF IInv, TypeOK, GetMiss, Goto
  <2>3. ASSUME NEW w \in Workers, Start(w)
        PROVE  pc'[v] \notin {"reserve_relock", "get_creating"}
    <3>1. PICK op \in EntryPoints, x \in Products, q \in Int : Call(w, op, x, q)
      BY <2>3, QuantityAssumption DEF Start
    <3> QED BY <1>1, <1>4, <3>1 DEF IInv, TypeOK, Call, Goto
  <2>4. ASSUME NEW w \in Workers, Return(w)
        PROVE  pc'[v] \notin {"reserve_relock", "get_creating"}
    BY <1>1, <1>4, <2>4 DEF IInv, TypeOK, Return, Goto
  <2>5. ASSUME NEW w \in Workers,
               Fail(w) \/ ReserveNotFound(w) \/ ReserveRefuse(w) \/ ReserveCommit(w)
        PROVE  Return(w)
    BY <2>5 DEF Fail, ReserveNotFound, ReserveRefuse, ReserveCommit, Rollback, Commit
  <2>6. ASSUME NEW w \in Workers, AdjustNotFound(w) \/ AdjustRefuse(w) \/ AdjustReceive(w)
                                  \/ AdjustProductGone(w) \/ AdjustSell(w)
        PROVE  Return(w)
    BY <2>6 DEF AdjustNotFound, AdjustRefuse, AdjustReceive, AdjustProductGone, AdjustSell,
                Rollback, Commit
  <2>7. ASSUME NEW w \in Workers, GetHit(w) \/ GetNotFound(w) \/ GetCreate(w)
                                  \/ ProductNotFound(w) \/ UpdateSave(w) \/ Remove(w)
        PROVE  Return(w)
    BY <2>7 DEF GetHit, GetNotFound, GetCreate, ProductNotFound, UpdateSave, Remove
  <2>8. ASSUME NEW w \in Workers,
               LockStep(w) \/ PickStep(w) \/ AdjustReadProduct(w) \/ UpdateRead(w)
        PROVE  pc'[v] \notin {"reserve_relock", "get_creating"}
    BY <1>1, <1>4, <2>8 DEF IInv, TypeOK, PickStep, ReserveFind, ReserveRefind, AdjustFind,
                            Pick, LockStep, ReserveLock, AdjustLock, Lock,
                            AdjustReadProduct, UpdateRead, Goto
  <2>9. CASE UNCHANGED vars
    BY <1>1, <1>4, <2>9 DEF vars, locals
  <2> QED BY <2>1, <2>2, <2>3, <2>4, <2>5, <2>6, <2>7, <2>8, <2>9 DEF Next, Step
<1> QED BY <1>3, <1>4

LEMMA NextKeepsAmounts ==
  ASSUME IInv, AmountsOK, [Next]_vars
  PROVE  AmountsOK'
<1> DEFINE fine(v) == /\ pc'[v] \in Reserving => qty'[v] \in Quantities
                      /\ pc'[v] \in Adjusting => qty'[v] \in Deltas
<1> SUFFICES ASSUME NEW v \in Workers PROVE fine(v)
  BY DEF AmountsOK
<1>1. ASSUME NEW w \in Workers, Start(w) PROVE fine(v)
  <2>1. PICK p \in Products :
          \/ \E q \in Quantities : Call(w, "reserve", p, q)
          \/ \E q \in Deltas : Call(w, "adjust", p, q)
          \/ \E op \in {"get", "update", "remove"} : Call(w, op, p, 0)
    BY <1>1 DEF Start
  <2> QED BY <2>1 DEF IInv, TypeOK, AmountsOK, Call, Goto
<1>2. ASSUME NEW w \in Workers, Return(w) PROVE fine(v)
  BY <1>2 DEF IInv, TypeOK, AmountsOK, Return, Goto
<1>3. ASSUME NEW w \in Workers,
             Fail(w) \/ ReserveNotFound(w) \/ ReserveRefuse(w) \/ ReserveCommit(w)
      PROVE  Return(w)
  BY <1>3 DEF Fail, ReserveNotFound, ReserveRefuse, ReserveCommit, Rollback, Commit
<1>4. ASSUME NEW w \in Workers, AdjustNotFound(w) \/ AdjustRefuse(w) \/ AdjustReceive(w)
                                \/ AdjustProductGone(w) \/ AdjustSell(w)
      PROVE  Return(w)
  BY <1>4 DEF AdjustNotFound, AdjustRefuse, AdjustReceive, AdjustProductGone, AdjustSell,
              Rollback, Commit
<1>5. ASSUME NEW w \in Workers, GetHit(w) \/ GetNotFound(w) \/ GetCreate(w)
                                \/ ProductNotFound(w) \/ UpdateSave(w) \/ Remove(w)
      PROVE  Return(w)
  BY <1>5 DEF GetHit, GetNotFound, GetCreate, ProductNotFound, UpdateSave, Remove
<1>6. ASSUME NEW w \in Workers, LockStep(w) PROVE fine(v)
  BY <1>6 DEF IInv, TypeOK, AmountsOK, LockStep, ReserveLock, AdjustLock, Lock, Goto
<1>7. ASSUME NEW w \in Workers,
             \/ PickStep(w) \/ ReserveCreate(w) \/ AdjustReadProduct(w)
             \/ GetMiss(w) \/ UpdateRead(w)
      PROVE  fine(v)
  BY <1>7 DEF IInv, TypeOK, AmountsOK, PickStep, ReserveFind, ReserveRefind, AdjustFind, Pick, ReserveCreate, AdjustReadProduct, GetMiss, UpdateRead, Goto
<1>8. CASE UNCHANGED vars
  BY <1>8 DEF vars, locals, AmountsOK
<1> QED BY <1>1, <1>2, <1>3, <1>4, <1>5, <1>6, <1>7, <1>8 DEF Next, Step

(* The accounts after a save of the row a call holds.                      *)
LEMMA SaveMapsTo ==
  ASSUME OneFirstRow, RefinesIInv, NEW w \in Workers, pc[w] \in HoldingLock,
         NEW s, stock' = [stock EXCEPT ![held[w]] = s]
  PROVE  LET accounts == [p \in FirstProducts |-> stock[RowOf(p)]]
             after    == [p \in FirstProducts |-> stock'[RowOf(p)]]
         IN  IF product[w] \in FirstProducts
             THEN /\ accounts[product[w]] = seen[w]
                  /\ after = [accounts EXCEPT ![product[w]] = s]
             ELSE after = accounts
<1> USE NoneAssumption DEF RefinesIInv
<1>1. /\ held[w] \in Rows /\ lock[held[w]] = w /\ seen[w] = stock[held[w]]
      /\ ProductOf[held[w]] = product[w]
  BY DEF IInv, LockProtectsEntity, HeldIsTheProducts, RowsOf
<1>2. ASSUME NEW p \in FirstProducts, p = product[w] PROVE held[w] = RowOf(p)
  <2>1. held[w] \in RowsOf(p)
    BY <1>1, <1>2 DEF RowsOf
  <2>2. held[w] \in table
    BY <1>1, <1>2, <2>1 DEF FirstRowsOnly
  <2> QED BY <2>1, <2>2, <1>2 DEF FirstRowsOnly
<1>3. ASSUME NEW p \in FirstProducts, p # product[w] PROVE held[w] # RowOf(p)
  BY <1>1, <1>3, FirstRow
<1>4. \A p \in FirstProducts : stock'[RowOf(p)] = IF p = product[w] THEN s ELSE stock[RowOf(p)]
  BY <1>1, <1>2, <1>3, FirstRow DEF IInv, TypeOK
<1> QED BY <1>1, <1>2, <1>4

(* A reserve, a receipt and a sale that commit are the operations of the   *)
(* account; every other step leaves the accounts alone.                    *)
LEMMA StepRefines ==
  ASSUME OneFirstRow, RefinesIInv, [Next]_vars
  PROVE  [Books!Next]_([p \in FirstProducts |-> stock[RowOf(p)]])
<1> DEFINE accounts == [p \in FirstProducts |-> stock[RowOf(p)]]
           after    == [p \in FirstProducts |-> stock'[RowOf(p)]]
           Abstract == \E p \in FirstProducts, q \in Amounts :
                         Books!Reserve(p, q) \/ Books!Receive(p, q) \/ Books!Sell(p, q)
<1> USE DEF RefinesIInv
<1>1. ASSUME NEW w \in Workers, ReserveCommit(w) PROVE Abstract \/ after = accounts
  <2>1. /\ pc[w] \in HoldingLock /\ qty[w] \in Quantities /\ seen[w].available >= qty[w]
        /\ stock' = [stock EXCEPT ![held[w]] = AfterReserve(seen[w], qty[w])]
    BY <1>1 DEF ReserveCommit, EnoughToReserve, HoldingLock, AmountsOK
  <2>2. CASE product[w] \in FirstProducts
    <3>1. /\ accounts[product[w]] = seen[w]
          /\ after = [accounts EXCEPT ![product[w]] = AfterReserve(seen[w], qty[w])]
      BY <2>1, <2>2, SaveMapsTo
    <3>2. AfterReserve(seen[w], qty[w]) = Books!AfterReserve(seen[w], qty[w])
      BY DEF AfterReserve, Columns, Books!AfterReserve, Books!Columns
    <3>3. Books!Reserve(product[w], qty[w])
      BY <2>1, <2>2, <3>1, <3>2 DEF Books!Reserve
    <3>4. qty[w] \in Amounts
      BY <2>1 DEF Amounts
    <3> QED BY <2>2, <3>3, <3>4
  <2>3. CASE product[w] \notin FirstProducts
    BY <2>1, <2>3, SaveMapsTo
  <2> QED BY <2>2, <2>3
<1>2. ASSUME NEW w \in Workers, AdjustReceive(w) PROVE Abstract \/ after = accounts
  <2>1. /\ pc[w] \in HoldingLock /\ qty[w] \in Deltas /\ qty[w] \in Int /\ qty[w] >= 0
        /\ stock' = [stock EXCEPT ![held[w]] = AfterAdjust(seen[w], qty[w])]
        /\ seen[w] \in Account
    BY <1>2 DEF AdjustReceive, HoldingLock, AmountsOK, IInv, TypeOK
  <2>2. CASE product[w] \in FirstProducts
    <3>1. /\ accounts[product[w]] = seen[w]
          /\ after = [accounts EXCEPT ![product[w]] = AfterAdjust(seen[w], qty[w])]
      BY <2>1, <2>2, SaveMapsTo
    <3>2. AfterAdjust(seen[w], qty[w]) = Books!AfterReceive(seen[w], qty[w])
      BY <2>1 DEF AfterAdjust, Columns, Books!AfterReceive, Books!Columns, Account
    <3>3. Books!Receive(product[w], qty[w])
      BY <2>1, <2>2, <3>1, <3>2 DEF Books!Receive
    <3>4. qty[w] \in Amounts
      BY <2>1 DEF Amounts
    <3> QED BY <2>2, <3>3, <3>4
  <2>3. CASE product[w] \notin FirstProducts
    BY <2>1, <2>3, SaveMapsTo
  <2> QED BY <2>2, <2>3
<1>3. ASSUME NEW w \in Workers, AdjustSell(w) PROVE Abstract \/ after = accounts
  <2>1. /\ pc[w] \in HoldingLock /\ qty[w] \in Deltas /\ qty[w] \in Int /\ qty[w] < 0
        /\ stock' = [stock EXCEPT ![held[w]] = AfterAdjust(seen[w], qty[w])]
        /\ seen[w] \in Account /\ Covers(seen[w], qty[w])
    BY <1>3 DEF AdjustSell, HoldingLock, AmountsOK, IInv, TypeOK, ArgumentsOK
  <2>2. CASE product[w] \in FirstProducts
    <3>1. /\ accounts[product[w]] = seen[w]
          /\ after = [accounts EXCEPT ![product[w]] = AfterAdjust(seen[w], qty[w])]
      BY <2>1, <2>2, SaveMapsTo
    <3>2. AfterAdjust(seen[w], qty[w]) = Books!AfterSell(seen[w], -qty[w])
      BY <2>1 DEF AfterAdjust, Columns, Books!AfterSell, Books!Columns, Account
    <3>3. seen[w].available >= -qty[w]
      BY <2>1 DEF Covers, Account
    <3>4. Books!Sell(product[w], -qty[w])
      BY <2>1, <2>2, <3>1, <3>2, <3>3 DEF Books!Sell
    <3>5. -qty[w] \in Amounts
      BY <2>1 DEF Amounts
    <3> QED BY <2>2, <3>4, <3>5
  <2>3. CASE product[w] \notin FirstProducts
    BY <2>1, <2>3, SaveMapsTo
  <2> QED BY <2>2, <2>3
<1>4. ASSUME NEW w \in Workers, ReserveCreate(w) \/ GetCreate(w) PROVE after = accounts
  <2>1. PICK x \in Fresh(product[w]) : \E n : Insert(x, n)
    BY <1>4 DEF ReserveCreate, GetCreate
  <2>2. x \notin table /\ x \in Rows
    BY DEF Fresh, RowsOf
  <2>3. ASSUME NEW p \in FirstProducts PROVE stock'[RowOf(p)] = stock[RowOf(p)]
    <3>1. RowOf(p) \in table
      BY DEF FirstRowsOnly
    <3>2. RowOf(p) # x /\ RowOf(p) \in Rows
      BY <2>2, <3>1, FirstRow
    <3> QED BY <2>1, <3>2 DEF Insert, IInv, TypeOK
  <2> QED BY <2>3
<1>5. ASSUME ~\E w \in Workers : ReserveCommit(w) \/ AdjustReceive(w) \/ AdjustSell(w)
                                 \/ ReserveCreate(w) \/ GetCreate(w)
      PROVE  stock' = stock
  BY <1>5 DEF Next, Start, Call, LockStep, ReserveLock, AdjustLock, Lock, Fail,
              Rollback, Step, PickStep, ReserveFind, ReserveRefind, AdjustFind, Pick,
              ReserveNotFound, ReserveRefuse, AdjustNotFound, AdjustRefuse,
              AdjustReadProduct, AdjustProductGone, GetHit, GetMiss, GetNotFound, UpdateRead,
              ProductNotFound, UpdateSave, Remove, vars, database
<1>6. stock' = stock => after = accounts
  OBVIOUS
<1>7. Abstract \/ after = accounts
  <2> HIDE DEF Abstract, after, accounts
  <2> QED BY <1>1, <1>2, <1>3, <1>4, <1>5, <1>6
<1> QED BY <1>7 DEF Books!Next

(* While the table starts with at most one row for a product, the          *)
(* interleaved transactions of reserves, adjustments, reads and updates    *)
(* are a sequence of whole reserves, receipts and sales of each account    *)
(* that starts with a row (inventory.service.ts:113, 175).                 *)
THEOREM InventoryImplementsAccounts ==
  ASSUME OneFirstRow
  PROVE  Spec => ImplementsStockAccount
<1>1. Init => RefinesIInv /\ Books!Init
  BY InitRefines
<1>2. RefinesIInv /\ [Next]_vars => RefinesIInv'
  BY NextKeepsIInv, NextKeepsHeld, NextKeepsFirstRows, NextKeepsAmounts DEF RefinesIInv
<1>3. RefinesIInv /\ [Next]_vars => [Books!Next]_([p \in FirstProducts |-> stock[RowOf(p)]])
  BY StepRefines
<1> QED BY <1>1, <1>2, <1>3, PTL DEF Spec, ImplementsStockAccount, Books!Spec

(* Two rows of one product come from calls that insert one: when every     *)
(* product starts with its row, no call ever does                          *)
(* (inventory.service.ts:145).                                             *)
THEOREM FirstRowsStayAlone ==
  ASSUME OneFirstRow, FirstProducts = Products
  PROVE  Spec => []OneRowPerProduct
<1>1. Init => RefinesIInv
  BY InitRefines
<1>2. RefinesIInv /\ [Next]_vars => RefinesIInv'
  BY NextKeepsIInv, NextKeepsHeld, NextKeepsFirstRows, NextKeepsAmounts DEF RefinesIInv
<1>3. RefinesIInv => OneRowPerProduct
  BY RowsAssumption DEF RefinesIInv, IInv, TypeOK, FirstRowsOnly, OneRowPerProduct, RowsOf
<1> QED BY <1>1, <1>2, <1>3, PTL DEF Spec
=============================================================================

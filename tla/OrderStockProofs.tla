-------------------------- MODULE OrderStockProofs --------------------------
(***************************************************************************)
(* Proofs about OrderStock for every set of requests, orders and products. *)
(***************************************************************************)
EXTENDS OrderStock, WaitCycles, TLAPS

(* Type correctness *)

\* The pieces most actions are made of.
LEMMA ReleaseType ==
    ASSUME TypeOK, NEW r \in Requests, ReleaseLocks(r)
    PROVE  /\ orderLock' \in [Orders -> Requests \cup {None}]
           /\ productLock' \in [Products -> Requests \cup {None}]
  BY DEF TypeOK, ReleaseLocks

LEMMA RollbackType ==
    ASSUME TypeOK, NEW r \in Requests, Rollback(r)
    PROVE  TypeOK'
<1>1. /\ orderLock' \in [Orders -> Requests \cup {None}]
      /\ productLock' \in [Products -> Requests \cup {None}]
  BY ReleaseType DEF Rollback
<1>2. draft' \in [Products -> Int]
  BY DEF TypeOK, Rollback
<1>3. todo' \in [Updates -> SUBSET Products]
      /\ next' \in [Updates -> Products \cup {None}]
  BY DEF TypeOK, Rollback
<1>4. QED
  BY <1>1, <1>2, <1>3 DEF TypeOK, Rollback, Goto, inputs, history, rows

LEMMA NextItemType ==
    ASSUME TypeOK, NEW r \in Updates, NEW S \in SUBSET Products, NextItem(r, S)
    PROVE  /\ todo' \in [Updates -> SUBSET Products]
           /\ next' \in [Updates -> Products \cup {None}]
           /\ pc' \in [Requests ->
                {"arrive", "lock", "item", "write", "commit", "done"}]
  BY DEF TypeOK, NextItem, Goto

LEMMA DemandType ==
    ASSUME NEW o \in Orders, NEW p \in Products
    PROVE  Demand[o][p] \in Nat
  BY RowAssumption

LEMMA ChangeType ==
    ASSUME TypeOK, NEW r \in AdjustRequests
    PROVE  change[r] \in Int
  BY ChangeAssumption DEF TypeOK

LEMMA ConfirmType ==
    ASSUME TypeOK, NEW r \in Updates, ConfirmStep(r)
    PROVE  TypeOK'
<1>1. CASE DeductItem(r)
  <2>1. todo[r] \ {next[r]} \in SUBSET Products
    BY DEF TypeOK
  <2>2. NextItem(r, todo[r] \ {next[r]})
    BY <1>1 DEF DeductItem, Deduct
  <2>3. /\ todo' \in [Updates -> SUBSET Products]
        /\ next' \in [Updates -> Products \cup {None}]
        /\ pc' \in [Requests ->
             {"arrive", "lock", "item", "write", "commit", "done"}]
    BY <2>1, <2>2, NextItemType
  <2>4. productLock' \in [Products -> Requests \cup {None}]
    BY <1>1 DEF DeductItem, Deduct, TypeOK, Requests
  <2>5. draft' \in [Products -> Int]
    <3>1. \A q \in Products : stock[q] - Demand[order[r]][q] \in Int
      BY DemandType DEF TypeOK
    <3>2. QED
      BY <1>1, <3>1 DEF DeductItem, Deduct, TypeOK
  <2>6. QED
    BY <1>1, <2>3, <2>4, <2>5
    DEF DeductItem, Deduct, TypeOK, inputs, history, rows
<1>2. CASE InsufficientStock(r)
  BY <1>2, RollbackType DEF InsufficientStock, Requests
<1>3. CASE CommitUpdate(r)
  <2>1. /\ orderLock' \in [Orders -> Requests \cup {None}]
        /\ productLock' \in [Products -> Requests \cup {None}]
    BY <1>3, ReleaseType DEF CommitUpdate, Publish, Requests
  <2>2. stock' \in [Products -> Int]
    BY <1>3 DEF CommitUpdate, Publish, TypeOK
  <2>3. ledger' \in [Products -> Int]
    BY <1>3, DemandType DEF CommitUpdate, TypeOK
  <2>4. confirms' \in [Orders -> Nat]
    BY <1>3 DEF CommitUpdate, TypeOK
  <2>5. status' \in [Orders -> Statuses]
    BY <1>3 DEF CommitUpdate, TypeOK
  <2>6. QED
    BY <1>3, <2>1, <2>2, <2>3, <2>4, <2>5
    DEF CommitUpdate, Publish, NoteOvertaken, Goto, TypeOK, inputs
<1>4. QED
  BY <1>1, <1>2, <1>3 DEF ConfirmStep

LEMMA TypeInit == Init => TypeOK
  BY RowAssumption DEF Init, TypeOK, Statuses, Requests

LEMMA TypeStep == TypeOK /\ [Next]_vars => TypeOK'
<1>. SUFFICES ASSUME TypeOK, [Next]_vars PROVE TypeOK'
  OBVIOUS
<1>1. ASSUME NEW r \in AsyncRequests, ReadOrder(r) PROVE TypeOK'
  <2>1. raced' \subseteq Orders
    BY <1>1 DEF ReadOrder, NoteOverlap, TypeOK, Updates
  <2>2. QED
    BY <1>1, <2>1 DEF ReadOrder, Goto, TypeOK, inputs, history, rows, locks
<1>2. ASSUME NEW r \in AsyncRequests, LockOrder(r) PROVE TypeOK'
  <2>1. Items(order[r]) \in SUBSET Products
    BY DEF Items
  <2>2. /\ todo' \in [Updates -> SUBSET Products]
        /\ next' \in [Updates -> Products \cup {None}]
        /\ pc' \in [Requests ->
             {"arrive", "lock", "item", "write", "commit", "done"}]
    BY <1>2, <2>1, NextItemType DEF LockOrder, Updates
  <2>3. QED
    BY <1>2, <2>2 DEF LockOrder, TypeOK, inputs, history, rows, Requests, Updates
<1>3. ASSUME NEW r \in AsyncRequests, WriteStatus(r) PROVE TypeOK'
  BY <1>3 DEF WriteStatus, Goto, TypeOK, inputs, history, rows, Requests, Updates
<1>4. ASSUME NEW r \in Updates, ConfirmStep(r) PROVE TypeOK'
  BY <1>4, ConfirmType
<1>5. ASSUME NEW r \in SyncRequests, SyncLockOrder(r) PROVE TypeOK'
  <2>1. Items(order[r]) \in SUBSET Products
    BY DEF Items
  <2>2. orderLock' \in [Orders -> Requests \cup {None}]
    BY <1>5 DEF SyncLockOrder, TypeOK, Requests, Updates
  <2>3. /\ todo' \in [Updates -> SUBSET Products]
        /\ next' \in [Updates -> Products \cup {None}]
        /\ pc' \in [Requests ->
             {"arrive", "lock", "item", "write", "commit", "done"}]
    <3>1. CASE target[r] = "confirmed"
      BY <1>5, <2>1, <3>1, NextItemType DEF SyncLockOrder, Updates
    <3>2. CASE target[r] # "confirmed"
      BY <1>5, <3>2 DEF SyncLockOrder, Goto, TypeOK
    <3>3. QED
      BY <3>1, <3>2
  <2>4. raced' \subseteq Orders
    BY <1>5 DEF SyncLockOrder, NoteOverlap, TypeOK, Updates
  <2>5. QED
    BY <1>5, <2>2, <2>3, <2>4 DEF SyncLockOrder, TypeOK, inputs, history, rows
<1>6. ASSUME NEW r \in SyncRequests, SyncRefuse(r) PROVE TypeOK'
  BY <1>6, RollbackType DEF SyncRefuse, Requests, Updates
<1>7. ASSUME NEW r \in AdjustRequests, ReadProduct(r) PROVE TypeOK'
  <2>1. stock[product[r]] + change[r] \in Int
    BY ChangeType DEF TypeOK
  <2>2. planned' \in [AdjustRequests -> Nat]
    BY <1>7, <2>1 DEF ReadProduct, TypeOK
  <2>3. pc' \in [Requests ->
          {"arrive", "lock", "item", "write", "commit", "done"}]
    BY <1>7 DEF ReadProduct, Goto, TypeOK
  <2>4. QED
    BY <1>7, <2>2, <2>3 DEF ReadProduct, TypeOK, inputs, history, rows, locks
<1>8. ASSUME NEW r \in AdjustRequests, WriteQuantity(r) PROVE TypeOK'
  BY <1>8 DEF WriteQuantity, Goto, TypeOK, inputs, history, rows, Requests
<1>9. ASSUME NEW r \in AdjustRequests, CommitAdjust(r) PROVE TypeOK'
  <2>1. /\ orderLock' \in [Orders -> Requests \cup {None}]
        /\ productLock' \in [Products -> Requests \cup {None}]
    BY <1>9, ReleaseType DEF CommitAdjust, Publish, Requests
  <2>2. stock' \in [Products -> Int]
    BY <1>9 DEF CommitAdjust, Publish, TypeOK
  <2>3. ledger' \in [Products -> Int]
    BY <1>9, ChangeType DEF CommitAdjust, TypeOK
  <2>4. QED
    BY <1>9, <2>1, <2>2, <2>3 DEF CommitAdjust, Publish, NoteOvertaken, Goto, TypeOK, inputs
<1>10. ASSUME NEW r \in Requests, Fail(r) \/ DeadlockAbort(r) PROVE TypeOK'
  BY <1>10, RollbackType DEF Fail, DeadlockAbort
<1>11. CASE UNCHANGED vars
  BY <1>11 DEF TypeOK, vars, inputs, history, history, rows, locks, local
<1>12. QED
  BY <1>1, <1>2, <1>3, <1>4, <1>5, <1>6, <1>7, <1>8, <1>9, <1>10, <1>11
  DEF Next, AsyncStep, SyncStep, AdjustStep, Finished, Updates

\* Every variable keeps its type: in particular no adjustment ever writes a
\* negative quantity it computed from the quantity it read.
THEOREM TypeCorrect == Spec => []TypeOK
  BY TypeInit, TypeStep, PTL DEF Spec

-----------------------------------------------------------------------------
(* What the parts of an action do to the request that takes it, and that    *)
(* they leave the others alone.                                             *)

LEMMA NextItemEffect ==
    ASSUME TypeOK, NEW r \in Updates, NEW S \in SUBSET Products, NextItem(r, S)
    PROVE  /\ todo'[r] = S
           /\ pc'[r] \in {"item", "commit"}
           /\ pc'[r] = "item" => next'[r] \in S
           /\ pc'[r] = "commit" => S = {}
           /\ \A q \in Requests \ {r} : pc'[q] = pc[q]
           /\ \A u \in Updates \ {r} : todo'[u] = todo[u] /\ next'[u] = next[u]
  BY DEF TypeOK, NextItem, Goto, Requests

LEMMA RollbackEffect ==
    ASSUME TypeOK, NEW r \in Requests, Rollback(r)
    PROVE  /\ pc'[r] = "done"
           /\ r \in Updates => todo'[r] = {}
           /\ \A q \in Requests \ {r} : pc'[q] = pc[q]
           /\ \A u \in Updates \ {r} : todo'[u] = todo[u] /\ next'[u] = next[u]
           /\ \A o \in Orders : orderLock'[o] =
                 IF orderLock[o] = r THEN None ELSE orderLock[o]
           /\ \A p \in Products :
                 /\ productLock'[p] =
                      IF productLock[p] = r THEN None ELSE productLock[p]
                 /\ draft'[p] = IF productLock[p] = r THEN stock[p] ELSE draft[p]
  BY DEF TypeOK, Rollback, ReleaseLocks, Goto

LEMMA PublishEffect ==
    ASSUME TypeOK, NEW r \in Requests, Publish(r)
    PROVE  /\ pc'[r] = "done"
           /\ \A q \in Requests \ {r} : pc'[q] = pc[q]
           /\ \A o \in Orders : orderLock'[o] =
                 IF orderLock[o] = r THEN None ELSE orderLock[o]
           /\ \A p \in Products :
                 /\ productLock'[p] =
                      IF productLock[p] = r THEN None ELSE productLock[p]
                 /\ stock'[p] = IF productLock[p] = r THEN draft[p] ELSE stock[p]
  BY DEF TypeOK, Publish, ReleaseLocks, Goto

-----------------------------------------------------------------------------
(* ProgressInv *)

LEMMA ProgressStep == TypeOK /\ ProgressInv /\ [Next]_vars => ProgressInv'
<1>. SUFFICES ASSUME TypeOK, ProgressInv, [Next]_vars PROVE ProgressInv'
  OBVIOUS
<1>. USE RequestAssumption DEF Requests, Updates, InProgress
<1>1. ASSUME NEW r \in AsyncRequests, ReadOrder(r) PROVE ProgressInv'
  <2>1. <<status[order[r]], target[r]>> \in Allowed =>
           target[r] \in {"confirmed", "cancelled", "fulfilled"}
    BY DEF Allowed
  <2>2. QED
    BY <1>1, <2>1 DEF ReadOrder, Goto, TypeOK, ProgressInv, Statuses, inputs
<1>2. ASSUME NEW r \in AsyncRequests, LockOrder(r) PROVE ProgressInv'
  <2>1. Items(order[r]) \in SUBSET Products
    BY DEF Items
  <2>2. NextItem(r, Items(order[r])) /\ pc[r] = "lock" /\ UNCHANGED inputs
    BY <1>2 DEF LockOrder
  <2>3. QED
    BY <2>1, <2>2, NextItemEffect DEF ProgressInv, inputs
<1>3. ASSUME NEW r \in AsyncRequests, WriteStatus(r) PROVE ProgressInv'
  BY <1>3 DEF WriteStatus, Goto, TypeOK, ProgressInv, inputs
<1>4. ASSUME NEW r \in Updates, DeductItem(r) PROVE ProgressInv'
  <2>1. todo[r] \ {next[r]} \in SUBSET Products
    BY DEF TypeOK
  <2>2. NextItem(r, todo[r] \ {next[r]}) /\ pc[r] = "item" /\ UNCHANGED inputs
    BY <1>4 DEF DeductItem, Deduct
  <2>3. QED
    BY <2>1, <2>2, NextItemEffect DEF ProgressInv, inputs
<1>5. ASSUME NEW r \in Requests, Rollback(r) PROVE ProgressInv'
  BY <1>5, RollbackEffect DEF Rollback, ProgressInv, inputs
<1>6. ASSUME NEW r \in Requests, pc[r] = "commit", Publish(r)
      PROVE  ProgressInv'
  BY <1>6, PublishEffect DEF Publish, ProgressInv, inputs
<1>7. ASSUME NEW r \in SyncRequests, SyncLockOrder(r) PROVE ProgressInv'
  <2>1. Items(order[r]) \in SUBSET Products
    BY DEF Items
  <2>2. CASE target[r] = "confirmed"
    <3>1. NextItem(r, Items(order[r])) /\ UNCHANGED inputs
      BY <1>7, <2>2 DEF SyncLockOrder
    <3>2. QED
      BY <2>1, <2>2, <3>1, NextItemEffect DEF ProgressInv, inputs
  <2>3. CASE target[r] # "confirmed"
    <3>1. target[r] # "pending"
      BY <1>7 DEF SyncLockOrder, Allowed
    <3>2. QED
      BY <1>7, <2>3, <3>1 DEF SyncLockOrder, Goto, TypeOK, ProgressInv, inputs
  <2>4. QED
    BY <2>2, <2>3
<1>8. ASSUME NEW r \in AdjustRequests, ReadProduct(r) \/ WriteQuantity(r)
      PROVE  ProgressInv'
  BY <1>8, RequestAssumption
  DEF ReadProduct, WriteQuantity, Goto, TypeOK, ProgressInv, inputs
<1>9. CASE UNCHANGED vars
  BY <1>9 DEF ProgressInv, vars, inputs, local
<1>10. QED
  BY <1>1, <1>2, <1>3, <1>4, <1>5, <1>6, <1>7, <1>8, <1>9
  DEF Next, AsyncStep, SyncStep, AdjustStep, ConfirmStep, Finished, Fail,
      DeadlockAbort, InsufficientStock, SyncRefuse, CommitUpdate, CommitAdjust

-----------------------------------------------------------------------------
(* LockInv *)

\* A step of r that takes and releases locks for r alone keeps LockInv when
\* it keeps LockInv for r.
LEMMA LockFrame ==
    ASSUME LockInv, NEW r \in Requests, UNCHANGED inputs,
           \A q \in Requests \ {r} : pc'[q] = pc[q],
           \A u \in Updates \ {r} : todo'[u] = todo[u],
           \A o \in Orders :
              \/ orderLock'[o] = orderLock[o]
              \/ orderLock[o] \in {None, r} /\ orderLock'[o] \in {None, r},
           \A p \in Products :
              \/ productLock'[p] = productLock[p]
              \/ productLock[p] \in {None, r} /\ productLock'[p] \in {None, r},
           \A o \in Orders : orderLock'[o] = r <=> OnOrder(r)' /\ order[r] = o,
           \A p \in Products : productLock'[p] = r <=> OnProduct(r, p)'
    PROVE  LockInv'
<1>1. ASSUME NEW q \in Requests, q # r
      PROVE  /\ OnOrder(q)' <=> OnOrder(q)
             /\ \A p \in Products : OnProduct(q, p)' <=> OnProduct(q, p)
  BY <1>1 DEF OnOrder, OnProduct, inputs
<1>2. ASSUME NEW q \in Requests, q # r, NEW o \in Orders
      PROVE  (orderLock'[o] = q) <=> OnOrder(q)' /\ order'[q] = o
  BY <1>1, <1>2, RequestAssumption DEF LockInv, inputs
<1>3. ASSUME NEW q \in Requests, q # r, NEW p \in Products
      PROVE  (productLock'[p] = q) <=> OnProduct(q, p)'
  BY <1>1, <1>3, RequestAssumption DEF LockInv
<1>4. QED
  BY <1>2, <1>3 DEF LockInv, inputs

\* The end of a transaction releases what its request holds.
LEMMA RollbackLocks ==
    ASSUME TypeOK, LockInv, NEW r \in Requests, Rollback(r)
    PROVE  LockInv'
<1>1. r # None
  BY RequestAssumption
<1>2. ~OnOrder(r)' /\ \A p \in Products : ~OnProduct(r, p)'
  BY RollbackEffect DEF OnOrder, OnProduct
<1>3. QED
  BY <1>1, <1>2, RollbackEffect, LockFrame DEF Rollback

LEMMA PublishLocks ==
    ASSUME TypeOK, LockInv, NEW r \in Requests, Publish(r)
    PROVE  LockInv'
<1>1. r # None
  BY RequestAssumption
<1>2. ~OnOrder(r)' /\ \A p \in Products : ~OnProduct(r, p)'
  BY PublishEffect DEF OnOrder, OnProduct
<1>3. QED
  BY <1>1, <1>2, PublishEffect, LockFrame DEF Publish

\* Taking the order's row lock starts the item loop or goes to the commit.
LEMMA OrderLockTaken ==
    ASSUME TypeOK, ProgressInv, LockInv, NEW r \in Updates,
           ~OnOrder(r), orderLock[order[r]] = None,
           orderLock' = [orderLock EXCEPT ![order[r]] = r],
           \/ /\ target[r] = "confirmed"
              /\ NextItem(r, Items(order[r]))
           \/ /\ target[r] # "confirmed"
              /\ Goto(r, "commit")
              /\ UNCHANGED <<todo, next>>,
           UNCHANGED <<inputs, productLock>>
    PROVE  LockInv'
<1>. USE DEF Requests
<1>1. Items(order[r]) \in SUBSET Products
  BY DEF Items
<1>2. /\ pc'[r] \in {"item", "commit"}
      /\ \A q \in Requests \ {r} : pc'[q] = pc[q]
      /\ \A u \in Updates \ {r} : todo'[u] = todo[u]
      /\ target[r] = "confirmed" => todo'[r] = Items(order[r])
  BY <1>1, NextItemEffect DEF Goto, TypeOK
<1>3. \A o \in Orders : orderLock'[o] = r <=> OnOrder(r)' /\ order[r] = o
  BY <1>2 DEF OnOrder, LockInv, TypeOK
<1>4. \A p \in Products : ~OnProduct(r, p) /\ ~OnProduct(r, p)'
  BY <1>2, RequestAssumption DEF OnOrder, OnProduct, inputs
<1>5. QED
  BY <1>2, <1>3, <1>4, LockFrame DEF LockInv, TypeOK

LEMMA LockStep == TypeOK /\ ProgressInv /\ LockInv /\ [Next]_vars => LockInv'
<1>. SUFFICES ASSUME TypeOK, ProgressInv, LockInv, [Next]_vars PROVE LockInv'
  OBVIOUS
<1>. USE DEF Requests, Updates
<1>1. ASSUME NEW r \in AsyncRequests, ReadOrder(r) PROVE LockInv'
  BY <1>1, RequestAssumption
  DEF ReadOrder, Goto, TypeOK, LockInv, OnOrder, OnProduct, inputs, locks
<1>2. ASSUME NEW r \in AsyncRequests, LockOrder(r) PROVE LockInv'
  BY <1>2, OrderLockTaken DEF LockOrder, OnOrder, ProgressInv
<1>3. ASSUME NEW r \in AsyncRequests, WriteStatus(r) PROVE LockInv'
  BY <1>3, OrderLockTaken DEF WriteStatus, OnOrder, ProgressInv
<1>4. ASSUME NEW r \in Updates, DeductItem(r) PROVE LockInv'
  <2> DEFINE p == next[r]
  <2>1. /\ todo[r] \ {p} \in SUBSET Products
        /\ NextItem(r, todo[r] \ {p})
        /\ UNCHANGED <<inputs, orderLock>>
        /\ productLock' = [productLock EXCEPT ![p] = r]
        /\ productLock[p] = None
        /\ pc[r] = "item"
    BY <1>4 DEF DeductItem, Deduct, TypeOK
  <2>2. p \in todo[r] /\ todo[r] \subseteq Items(order[r])
        /\ target[r] = "confirmed"
    BY <2>1 DEF ProgressInv
  <2>3. /\ todo'[r] = todo[r] \ {p}
        /\ pc'[r] \in {"item", "commit"}
        /\ \A q \in Requests \ {r} : pc'[q] = pc[q]
        /\ \A u \in Updates \ {r} : todo'[u] = todo[u]
    BY <2>1, NextItemEffect
  <2>4. OnOrder(r) /\ OnOrder(r)'
    BY <2>1, <2>3 DEF OnOrder
  <2>5. \A o \in Orders : orderLock'[o] = r <=> OnOrder(r)' /\ order[r] = o
    BY <2>1, <2>4 DEF LockInv
  <2>6. \A q \in Products : OnProduct(r, q)' <=> OnProduct(r, q) \/ q = p
    BY <2>1, <2>2, <2>3, <2>4, RequestAssumption DEF OnProduct, inputs
  <2>7. \A q \in Products : productLock'[q] = r <=> OnProduct(r, q)'
    BY <2>1, <2>6 DEF LockInv, TypeOK
  <2>8. \A q \in Products :
           \/ productLock'[q] = productLock[q]
           \/ productLock[q] \in {None, r} /\ productLock'[q] \in {None, r}
    BY <2>1 DEF TypeOK
  <2>9. QED
    BY <2>1, <2>3, <2>5, <2>7, <2>8, LockFrame
<1>5. ASSUME NEW r \in Requests, Rollback(r) PROVE LockInv'
  BY <1>5, RollbackLocks
<1>6. ASSUME NEW r \in Requests, Publish(r) PROVE LockInv'
  BY <1>6, PublishLocks
<1>7. ASSUME NEW r \in SyncRequests, SyncLockOrder(r) PROVE LockInv'
  BY <1>7, OrderLockTaken DEF SyncLockOrder, OnOrder
<1>8. ASSUME NEW r \in AdjustRequests, ReadProduct(r) PROVE LockInv'
  BY <1>8, RequestAssumption
  DEF ReadProduct, Goto, TypeOK, LockInv, OnOrder, OnProduct, inputs, locks
<1>9. ASSUME NEW r \in AdjustRequests, WriteQuantity(r) PROVE LockInv'
  <2>1. r \notin Updates
    BY RequestAssumption
  <2>2. ~OnOrder(r) /\ ~OnOrder(r)'
    BY <2>1 DEF OnOrder
  <2>3. \A q \in Products : ~OnProduct(r, q) /\ (OnProduct(r, q)' <=> q = product[r])
    BY <1>9, <2>2 DEF OnProduct, WriteQuantity, Goto, TypeOK, inputs
  <2>4. \A q \in Products : productLock'[q] = r <=> OnProduct(r, q)'
    BY <1>9, <2>3 DEF WriteQuantity, LockInv, TypeOK
  <2>5. \A o \in Orders : orderLock'[o] = r <=> OnOrder(r)' /\ order[r] = o
    BY <1>9, <2>2 DEF WriteQuantity, LockInv
  <2>6. /\ \A q \in Requests \ {r} : pc'[q] = pc[q]
        /\ \A u \in Updates \ {r} : todo'[u] = todo[u]
        /\ \A o \in Orders : orderLock'[o] = orderLock[o]
        /\ UNCHANGED inputs
    BY <1>9 DEF WriteQuantity, Goto, TypeOK
  <2>7. \A q \in Products :
           \/ productLock'[q] = productLock[q]
           \/ productLock[q] \in {None, r} /\ productLock'[q] \in {None, r}
    BY <1>9 DEF WriteQuantity, TypeOK
  <2>8. QED
    BY <2>4, <2>5, <2>6, <2>7, LockFrame
<1>10. CASE UNCHANGED vars
  BY <1>10 DEF LockInv, OnOrder, OnProduct, vars, inputs, locks, local
<1>11. QED
  BY <1>1, <1>2, <1>3, <1>4, <1>5, <1>6, <1>7, <1>8, <1>9, <1>10
  DEF Next, AsyncStep, SyncStep, AdjustStep, ConfirmStep, Finished, Fail,
      DeadlockAbort, InsufficientStock, SyncRefuse, CommitUpdate, CommitAdjust

-----------------------------------------------------------------------------
(* What a commit publishes *)

\* At the commit of a confirmation its request still holds the row of every
\* item, so each quantity falls by the demand; no other commit of a status
\* update writes a quantity.
LEMMA CommitUpdateEffect ==
    ASSUME TypeOK, ProgressInv, LockInv, DraftInv,
           NEW r \in Updates, CommitUpdate(r)
    PROVE  \A p \in Products :
              stock'[p] = IF target[r] = "confirmed"
                          THEN stock[p] - Demand[order[r]][p] ELSE stock[p]
<1>. USE DEF Requests
<1>1. pc[r] = "commit" /\ todo[r] = {} /\ r \notin AdjustRequests
  BY RequestAssumption DEF CommitUpdate, ProgressInv
<1>2. ASSUME NEW p \in Products
      PROVE  productLock[p] = r <=> target[r] = "confirmed" /\ p \in Items(order[r])
  BY <1>1 DEF LockInv, OnProduct, OnOrder
<1>3. ASSUME NEW p \in Products
      PROVE  stock'[p] = IF productLock[p] = r THEN draft[p] ELSE stock[p]
  BY <1>3, PublishEffect DEF CommitUpdate
<1>4. ASSUME NEW p \in Products, p \notin Items(order[r])
      PROVE  Demand[order[r]][p] = 0
  BY <1>4, DemandType DEF Items, TypeOK
<1>5. ASSUME NEW p \in Products
      PROVE  stock[p] \in Int
  BY DEF TypeOK
<1>6. QED
  BY <1>2, <1>3, <1>4, <1>5 DEF DraftInv

\* The commit of an adjustment writes the one product it adjusts.
LEMMA CommitAdjustEffect ==
    ASSUME TypeOK, LockInv, NEW r \in AdjustRequests, CommitAdjust(r),
           NEW p \in Products, p # product[r]
    PROVE  stock'[p] = stock[p] /\ ledger'[p] = ledger[p]
<1>. USE DEF Requests
<1>1. productLock[p] # r
  BY RequestAssumption DEF LockInv, OnProduct, OnOrder
<1>2. QED
  BY <1>1, PublishEffect DEF CommitAdjust, TypeOK

-----------------------------------------------------------------------------
(* DraftInv *)

LEMMA DraftStep ==
    TypeOK /\ ProgressInv /\ LockInv /\ DraftInv /\ [Next]_vars => DraftInv'
<1>. SUFFICES ASSUME TypeOK, ProgressInv, LockInv, DraftInv, [Next]_vars
              PROVE  DraftInv'
  OBVIOUS
<1>. USE RequestAssumption DEF Requests, Updates
<1>1. ASSUME UNCHANGED <<stock, draft, productLock, order>> PROVE DraftInv'
  BY <1>1 DEF DraftInv
<1>2. ASSUME NEW r \in Updates, DeductItem(r) PROVE DraftInv'
  <2> DEFINE p == next[r]
              d == stock[p] - Demand[order[r]][p]
  <2>1. /\ productLock' = [productLock EXCEPT ![p] = r]
        /\ draft' = [draft EXCEPT ![p] = d]
        /\ UNCHANGED <<stock, order>>
        /\ stock[p] >= Demand[order[r]][p]
        /\ p \in Products
    BY <1>2 DEF DeductItem, Deduct, ProgressInv, TypeOK, inputs, rows
  <2>2. d \in Nat
    <3>1. stock[p] \in Nat /\ Demand[order[r]][p] \in Nat
      BY <2>1, DemandType DEF TypeOK, DraftInv
    <3>2. QED
      BY <2>1, <3>1
  <2> HIDE DEF d
  <2>3. /\ \A q \in Products : stock'[q] \in Nat /\ draft'[q] \in Nat
        /\ \A q \in Products : productLock'[q] = None => draft'[q] = stock'[q]
    BY <2>1, <2>2 DEF DraftInv, TypeOK
  <2>4. ASSUME NEW u \in Updates, NEW q \in Products, productLock'[q] = u
        PROVE  draft'[q] = stock'[q] - Demand[order'[u]][q]
    <3>1. CASE q = p
      BY <2>1, <2>4, <3>1 DEF TypeOK, d
    <3>2. CASE q # p
      BY <2>1, <2>4, <3>2 DEF TypeOK, DraftInv
    <3>3. QED
      BY <3>1, <3>2
  <2>5. QED
    BY <2>3, <2>4 DEF DraftInv
<1>3. ASSUME NEW r \in Requests, Rollback(r) PROVE DraftInv'
  BY <1>3, RollbackEffect DEF Rollback, DraftInv, inputs, rows
<1>4. ASSUME NEW r \in Requests, Publish(r) PROVE DraftInv'
  BY <1>4, PublishEffect DEF Publish, DraftInv, inputs
<1>5. ASSUME NEW r \in AdjustRequests, WriteQuantity(r) PROVE DraftInv'
  BY <1>5 DEF WriteQuantity, DraftInv, TypeOK, inputs, rows
<1>6. QED
  BY <1>1, <1>2, <1>3, <1>4, <1>5
  DEF Next, AsyncStep, SyncStep, AdjustStep, ConfirmStep, Finished, Fail,
      DeadlockAbort, InsufficientStock, SyncRefuse, CommitUpdate, CommitAdjust,
      ReadOrder, LockOrder, WriteStatus, SyncLockOrder, ReadProduct,
      vars, inputs, rows, locks

-----------------------------------------------------------------------------
(* DeductedInv *)

\* Only the commit of a status update changes a row of orders.
LEMMA StatusFrame ==
    ASSUME [Next]_vars, TypeOK
    PROVE  \/ UNCHANGED <<status, confirms>>
           \/ \E r \in Updates : CommitUpdate(r)
  BY DEF Next, AsyncStep, SyncStep, AdjustStep, ConfirmStep, Finished, Fail,
      DeadlockAbort, InsufficientStock, SyncRefuse, CommitAdjust, Rollback,
      ReadOrder, LockOrder, WriteStatus, SyncLockOrder, ReadProduct,
      WriteQuantity, DeductItem, Deduct, vars, rows, Updates

LEMMA CommitUpdateRow ==
    ASSUME TypeOK, NEW r \in Updates, CommitUpdate(r), NEW o \in Orders
    PROVE  /\ status'[o] = IF o = order[r] THEN target[r] ELSE status[o]
           /\ confirms'[o] = IF o = order[r] /\ target[r] = "confirmed"
                             THEN confirms[o] + 1 ELSE confirms[o]
  BY DEF CommitUpdate, TypeOK

\* How an update gets past its decision: it makes it in this step, on the
\* status committed now, and no other request does anything.
LEMMA DecisionFrame ==
    ASSUME TypeOK, ProgressInv, [Next]_vars, NEW r \in Updates,
           InProgress(r)', ~InProgress(r)
    PROVE  /\ <<status[order[r]], target[r]>> \in Allowed
           /\ NoteOverlap(r)
           /\ \A q \in Requests \ {r} : pc'[q] = pc[q]
<1> DEFINE Goal == /\ <<status[order[r]], target[r]>> \in Allowed
                   /\ NoteOverlap(r)
                   /\ \A q \in Requests \ {r} : pc'[q] = pc[q]
<1>. USE DEF Requests, Updates
<1>1. pc[r] \in {"arrive", "done"} /\ pc'[r] \notin {"arrive", "done"}
  BY DEF InProgress
<1>2. ASSUME NEW q \in AsyncRequests, ReadOrder(q) PROVE Goal
  BY <1>1, <1>2 DEF ReadOrder, Goto, TypeOK
<1>3. ASSUME NEW q \in AsyncRequests, LockOrder(q) PROVE FALSE
  <2>1. Items(order[q]) \in SUBSET Products
    BY DEF Items
  <2>2. QED
    BY <1>1, <1>3, <2>1, NextItemEffect DEF LockOrder
<1>4. ASSUME NEW q \in AsyncRequests, WriteStatus(q) PROVE FALSE
  BY <1>1, <1>4 DEF WriteStatus, Goto, TypeOK
<1>5. ASSUME NEW q \in Updates, DeductItem(q) PROVE FALSE
  <2>1. /\ todo[q] \ {next[q]} \in SUBSET Products
        /\ NextItem(q, todo[q] \ {next[q]})
        /\ pc[q] = "item"
    BY <1>5 DEF DeductItem, Deduct, TypeOK
  <2>2. QED
    BY <1>1, <2>1, NextItemEffect
<1>6. ASSUME NEW q \in Requests, Rollback(q) PROVE FALSE
  BY <1>1, <1>6, RollbackEffect
<1>7. ASSUME NEW q \in Requests, Publish(q) PROVE FALSE
  BY <1>1, <1>7, PublishEffect
<1>8. ASSUME NEW q \in SyncRequests, SyncLockOrder(q) PROVE Goal
  <2>1. Items(order[q]) \in SUBSET Products
    BY DEF Items
  <2>2. \A u \in Requests \ {q} : pc'[u] = pc[u]
    BY <1>8, <2>1, NextItemEffect DEF SyncLockOrder, Goto, TypeOK
  <2>3. q = r
    BY <1>1, <2>2
  <2>4. QED
    BY <1>8, <2>2, <2>3 DEF SyncLockOrder
<1>9. ASSUME NEW q \in AdjustRequests, ReadProduct(q) \/ WriteQuantity(q)
      PROVE  FALSE
  BY <1>1, <1>9, RequestAssumption DEF ReadProduct, WriteQuantity, Goto, TypeOK
<1>10. CASE UNCHANGED vars
  BY <1>1, <1>10 DEF vars, local
<1>11. QED
  BY <1>2, <1>3, <1>4, <1>5, <1>6, <1>7, <1>8, <1>9, <1>10
  DEF Next, AsyncStep, SyncStep, AdjustStep, ConfirmStep, Finished, Fail,
      DeadlockAbort, InsufficientStock, SyncRefuse, CommitUpdate, CommitAdjust

LEMMA InputsFixed ==
    ASSUME [Next]_vars
    PROVE  UNCHANGED inputs
  BY DEF Next, AsyncStep, SyncStep, AdjustStep, ConfirmStep, Finished, Fail,
      DeadlockAbort, InsufficientStock, SyncRefuse, CommitAdjust, Rollback,
      CommitUpdate, Publish, ReadOrder, LockOrder, WriteStatus, SyncLockOrder,
      ReadProduct, WriteQuantity, DeductItem, Deduct, vars

LEMMA DeductedStep ==
    TypeOK /\ ProgressInv /\ DeductedInv /\ [Next]_vars => DeductedInv'
<1>. SUFFICES ASSUME TypeOK, ProgressInv, DeductedInv, [Next]_vars
              PROVE  DeductedInv'
  OBVIOUS
<1>1. ASSUME NEW o \in Orders
      PROVE  confirms'[o] \in Nat /\ confirms'[o] >= confirms[o]
  BY StatusFrame, CommitUpdateRow DEF TypeOK
<1>2. ASSUME NEW r \in Updates, pc'[r] \in {"write", "commit"},
             target[r] = "fulfilled"
      PROVE  confirms[order[r]] > 0
  <2>1. InProgress(r)'
    BY <1>2 DEF InProgress
  <2>2. CASE InProgress(r)
    <3>1. pc[r] \in {"lock", "item", "write", "commit"}
      BY <2>2 DEF InProgress, TypeOK, Requests
    <3>2. QED
      BY <1>2, <3>1 DEF ProgressInv, DeductedInv
  <2>3. CASE <<status[order[r]], target[r]>> \in Allowed
    <3>1. status[order[r]] = "confirmed"
      BY <1>2, <2>3 DEF Allowed
    <3>2. QED
      BY <3>1 DEF DeductedInv, SoldImpliesDeducted, TypeOK
  <2>4. QED
    BY <1>2, <2>1, <2>2, <2>3, DecisionFrame
<1>3. ASSUME NEW o \in Orders, status'[o] \in {"confirmed", "fulfilled"}
      PROVE  confirms'[o] > 0
  <2>1. CASE status'[o] = status[o]
    BY <1>1, <1>3, <2>1 DEF DeductedInv, SoldImpliesDeducted, TypeOK
  <2>2. ASSUME NEW r \in Updates, CommitUpdate(r), o = order[r]
        PROVE  confirms'[o] > 0
    <3>1. pc[r] = "commit" /\ status'[o] = target[r]
      <4>1. pc[r] = "commit"
        BY <2>2 DEF CommitUpdate
      <4>2. status'[o] = target[r]
        BY <2>2, CommitUpdateRow
      <4>3. QED
        BY <4>1, <4>2
    <3>2. CASE target[r] = "confirmed"
      <4>1. confirms'[o] = confirms[o] + 1
        BY <2>2, <3>2, CommitUpdateRow
      <4>2. confirms[o] \in Nat
        BY DEF TypeOK
      <4>3. QED
        BY <4>1, <4>2
    <3>3. CASE target[r] = "fulfilled"
      BY <1>1, <2>2, <3>1, <3>3 DEF DeductedInv, TypeOK
    <3>4. QED
      BY <1>3, <3>1, <3>2, <3>3
  <2>3. QED
    BY <2>1, <2>2, StatusFrame, CommitUpdateRow
<1>4. UNCHANGED inputs /\ \A r \in Updates : order[r] \in Orders
  BY InputsFixed DEF TypeOK
<1>5. ASSUME NEW r \in Updates, pc'[r] \in {"write", "commit"},
             target'[r] = "fulfilled"
      PROVE  confirms'[order'[r]] > 0
  BY <1>1, <1>2, <1>4, <1>5 DEF inputs, TypeOK
<1>6. QED
  BY <1>3, <1>5 DEF DeductedInv, SoldImpliesDeducted

-----------------------------------------------------------------------------
(* RacedInv *)

\* Only a decision adds to raced, and it changes no row.
LEMMA RacedFrame ==
    ASSUME [Next]_vars
    PROVE  \/ raced' = raced
           \/ /\ UNCHANGED <<status, stock, confirms>>
              /\ \E r \in Updates :
                    /\ NoteOverlap(r)
                    /\ r \in AsyncRequests \/ orderLock[order[r]] = None
  BY DEF Next, AsyncStep, SyncStep, AdjustStep, ConfirmStep, Finished, Fail,
      DeadlockAbort, InsufficientStock, SyncRefuse, CommitAdjust, Rollback,
      CommitUpdate, Publish, ReadOrder, LockOrder, WriteStatus, SyncLockOrder,
      ReadProduct, WriteQuantity, DeductItem, Deduct, vars, rows, history,
      Updates

LEMMA RacedGrows ==
    ASSUME [Next]_vars
    PROVE  raced \subseteq raced'
  BY RacedFrame DEF NoteOverlap

\* A commit on an order changes the status under another update of the order
\* only if the two overlap.
LEMMA DecisionLasts ==
    ASSUME TypeOK, ProgressInv, RacedInv, [Next]_vars,
           NEW r \in Updates, InProgress(r)', order[r] \notin raced'
    PROVE  status'[order[r]] = status[order[r]]
<1>. SUFFICES ASSUME NEW q \in Updates, CommitUpdate(q), order[q] = order[r]
              PROVE  FALSE
  BY StatusFrame, CommitUpdateRow DEF TypeOK
<1>1. /\ pc[q] = "commit" /\ pc'[q] = "done"
      /\ \A u \in Requests \ {q} : pc'[u] = pc[u]
  BY PublishEffect DEF CommitUpdate, Requests
<1>2. q # r /\ InProgress(q) /\ InProgress(r)
  BY <1>1 DEF InProgress, Requests
<1>3. QED
  BY <1>2, RacedGrows DEF RacedInv

\* An unraced order is updated along the allowed transitions.
LEMMA UnracedCommit ==
    ASSUME RacedInv, NEW r \in Updates, CommitUpdate(r), order[r] \notin raced
    PROVE  <<status[order[r]], target[r]>> \in Allowed
  BY DEF RacedInv, CommitUpdate, InProgress

LEMMA RacedStep ==
    TypeOK /\ ProgressInv /\ LockInv /\ RacedInv /\ [Next]_vars => RacedInv'
<1>. SUFFICES ASSUME TypeOK, ProgressInv, LockInv, RacedInv, [Next]_vars
              PROVE  RacedInv'
  OBVIOUS
<1>. USE DEF Updates
<1>1. UNCHANGED inputs
  BY InputsFixed
<1>2. ASSUME NEW u \in Updates, NEW v \in Updates, u # v, order[u] = order[v],
             InProgress(u)', InProgress(v)'
      PROVE  order[u] \in raced'
  <2>1. CASE InProgress(u) /\ InProgress(v)
    BY <1>2, <2>1, RacedGrows DEF RacedInv
  <2>2. CASE ~InProgress(u)
    <3>1. NoteOverlap(u) /\ InProgress(v)
      BY <1>2, <2>2, DecisionFrame DEF InProgress, Requests
    <3>2. QED
      BY <1>2, <3>1 DEF NoteOverlap
  <2>3. CASE ~InProgress(v)
    <3>1. NoteOverlap(v) /\ InProgress(u)
      BY <1>2, <2>3, DecisionFrame DEF InProgress, Requests
    <3>2. QED
      BY <1>2, <3>1 DEF NoteOverlap
  <2>4. QED
    BY <2>1, <2>2, <2>3
<1>3. ASSUME NEW r \in Updates, InProgress(r)', order[r] \notin raced'
      PROVE  <<status'[order[r]], target[r]>> \in Allowed
  <2>1. order[r] \notin raced
    BY <1>3, RacedGrows
  <2>2. <<status[order[r]], target[r]>> \in Allowed
    BY <1>3, <2>1, DecisionFrame DEF RacedInv
  <2>3. QED
    BY <1>3, <2>2, DecisionLasts
<1>4. ASSUME NEW o \in Orders, o \notin raced'
      PROVE  confirms'[o] <= 1 /\ (status'[o] = "pending" => confirms'[o] = 0)
  <2>1. o \notin raced
    BY <1>4, RacedGrows
  <2>2. confirms[o] \in Nat /\ confirms[o] <= 1
        /\ (status[o] = "pending" => confirms[o] = 0)
    BY <2>1 DEF RacedInv, TypeOK
  <2>3. CASE UNCHANGED <<status, confirms>>
    BY <2>2, <2>3
  <2>4. ASSUME NEW r \in Updates, CommitUpdate(r), o = order[r]
        PROVE  confirms'[o] <= 1 /\ (status'[o] = "pending" => confirms'[o] = 0)
    <3>1. target[r] # "pending" /\ (target[r] = "confirmed" => status[o] = "pending")
      BY <2>1, <2>4, UnracedCommit DEF Allowed
    <3>2. QED
      BY <2>2, <2>4, <3>1, CommitUpdateRow
  <2>5. QED
    BY <2>2, <2>3, <2>4, StatusFrame, CommitUpdateRow
<1>5. ASSUME NEW o \in raced'
      PROVE  ~Harnessed(o)
  <2>1. CASE o \in raced
    BY <2>1 DEF RacedInv
  <2>2. CASE o \notin raced
    <3>1. PICK r \in Updates :
             NoteOverlap(r) /\ (r \in AsyncRequests \/ orderLock[order[r]] = None)
      BY <1>5, <2>2, RacedFrame
    <3>2. PICK u \in Updates \ {r} : order[u] = order[r] /\ InProgress(u)
      BY <1>5, <2>2, <3>1 DEF NoteOverlap
    <3>3. o = order[r]
      BY <1>5, <2>2, <3>1 DEF NoteOverlap
    <3>4. CASE r \in AsyncRequests \/ u \in AsyncRequests
      BY <3>2, <3>3, <3>4 DEF Harnessed
    <3>5. CASE r \notin AsyncRequests /\ u \notin AsyncRequests
      <4>1. OnOrder(u)
        BY <3>2, <3>5 DEF InProgress, OnOrder, ProgressInv, TypeOK, Requests
      <4>2. orderLock[order[u]] = u
        BY <4>1 DEF LockInv, TypeOK, Requests
      <4>3. QED
        BY <3>1, <3>2, <3>5, <4>2, RequestAssumption DEF Requests
    <3>6. QED
      BY <3>4, <3>5
  <2>3. QED
    BY <2>1, <2>2
<1>6. QED
  BY <1>1, <1>2, <1>3, <1>4, <1>5 DEF RacedInv, Harnessed, inputs

-----------------------------------------------------------------------------
(* LedgerBalances *)

\* Quantities and movements change only with a commit.
LEMMA StockFrame ==
    ASSUME [Next]_vars
    PROVE  \/ UNCHANGED <<stock, ledger>>
           \/ \E r \in Updates : CommitUpdate(r)
           \/ \E r \in AdjustRequests : CommitAdjust(r)
  BY DEF Next, AsyncStep, SyncStep, AdjustStep, ConfirmStep, Finished, Fail,
      DeadlockAbort, InsufficientStock, SyncRefuse, Rollback,
      ReadOrder, LockOrder, WriteStatus, SyncLockOrder, ReadProduct,
      WriteQuantity, DeductItem, Deduct, vars, rows, Updates

\* Every commit on the product of an adjustment that has read it and not yet
\* taken its lock overtakes that adjustment; nothing else changes overtaken.
LEMMA OvertakenFrame ==
    ASSUME [Next]_vars
    PROVE  \/ UNCHANGED <<stock, overtaken>>
           \/ \E r \in Requests : Publish(r)
  BY DEF Next, AsyncStep, SyncStep, AdjustStep, ConfirmStep, Finished, Fail,
      DeadlockAbort, InsufficientStock, SyncRefuse, CommitUpdate, CommitAdjust,
      Rollback, ReadOrder, LockOrder, WriteStatus, SyncLockOrder, ReadProduct,
      WriteQuantity, DeductItem, Deduct, vars, rows, history, Updates, Requests

LEMMA OvertakenGrows ==
    ASSUME [Next]_vars
    PROVE  overtaken \subseteq overtaken'
  BY OvertakenFrame DEF Publish, NoteOvertaken

LEMMA PlannedStep ==
    TypeOK /\ ProgressInv /\ LockInv /\ PlannedInv /\ [Next]_vars => PlannedInv'
<1>. SUFFICES ASSUME TypeOK, ProgressInv, LockInv, PlannedInv, [Next]_vars
              PROVE  PlannedInv'
  OBVIOUS
<1>. USE RequestAssumption DEF Requests, Updates
<1>1. UNCHANGED <<product, change>> /\ \A a \in AdjustRequests : product[a] \in Products
  BY InputsFixed DEF inputs, TypeOK
\* An adjustment at its commit holds the lock of its product.
<1>2. ASSUME NEW a \in AdjustRequests, NEW r \in Requests, r # a,
             productLock[product[a]] \in {None, r}
      PROVE  pc[a] # "commit"
  BY <1>1, <1>2 DEF LockInv, OnProduct
<1>3. ASSUME UNCHANGED <<stock, overtaken, planned>>,
             NEW r \in Updates, \A q \in Requests \ {r} : pc'[q] = pc[q],
             \A p \in Products :
                draft'[p] = draft[p] \/ productLock[p] \in {None, r}
      PROVE  PlannedInv'
  BY <1>1, <1>2, <1>3 DEF PlannedInv
<1>4. ASSUME NEW r \in AsyncRequests, ReadOrder(r) \/ WriteStatus(r)
      PROVE  PlannedInv'
  BY <1>3, <1>4 DEF ReadOrder, WriteStatus, Goto, TypeOK, rows, locks, history
<1>5. ASSUME NEW r \in Updates, LockOrder(r) \/ SyncLockOrder(r)
      PROVE  PlannedInv'
  <2>1. Items(order[r]) \in SUBSET Products
    BY DEF Items
  <2>2. \A q \in Requests \ {r} : pc'[q] = pc[q]
    BY <1>5, <2>1, NextItemEffect DEF LockOrder, SyncLockOrder, Goto, TypeOK
  <2>3. QED
    BY <1>3, <1>5, <2>2 DEF LockOrder, SyncLockOrder, rows, history
<1>6. ASSUME NEW r \in Updates, DeductItem(r) PROVE PlannedInv'
  <2>1. todo[r] \ {next[r]} \in SUBSET Products
    BY DEF TypeOK
  <2>2. \A q \in Requests \ {r} : pc'[q] = pc[q]
    BY <1>6, <2>1, NextItemEffect DEF DeductItem, Deduct
  <2>3. \A p \in Products : draft'[p] = draft[p] \/ productLock[p] = None
    BY <1>6 DEF DeductItem, Deduct, TypeOK
  <2>4. QED
    BY <1>3, <1>6, <2>2, <2>3 DEF DeductItem, Deduct, rows, history
<1>7. ASSUME NEW r \in Requests, Rollback(r) PROVE PlannedInv'
  <2>1. UNCHANGED <<stock, overtaken, planned>>
    BY <1>7 DEF Rollback, rows, history
  <2>2. /\ pc'[r] = "done"
        /\ \A q \in Requests \ {r} : pc'[q] = pc[q]
        /\ \A p \in Products : productLock[p] # r => draft'[p] = draft[p]
    BY <1>7, RollbackEffect
  <2>3. QED
    BY <1>1, <1>2, <2>1, <2>2 DEF PlannedInv
<1>8. ASSUME NEW r \in Requests, Publish(r) PROVE PlannedInv'
  <2>1. UNCHANGED <<draft, planned>> /\ NoteOvertaken(r)
    BY <1>8 DEF Publish
  <2>2. /\ pc'[r] = "done"
        /\ \A q \in Requests \ {r} : pc'[q] = pc[q]
        /\ \A p \in Products : productLock[p] # r => stock'[p] = stock[p]
    BY <1>8, PublishEffect
  <2>3. ASSUME NEW a \in AdjustRequests, pc'[a] = "commit"
        PROVE  draft'[product[a]] = planned'[a]
    BY <2>1, <2>2, <2>3 DEF PlannedInv
  <2>4. ASSUME NEW a \in AdjustRequests \ overtaken',
               pc'[a] \in {"write", "commit"}
        PROVE  planned'[a] = stock'[product[a]] + change[a]
    <3>1. a # r /\ pc'[a] = pc[a] /\ a \notin overtaken
      BY <2>1, <2>2, <2>4 DEF NoteOvertaken
    <3>2. productLock[product[a]] # r
      BY <1>2, <2>1, <2>4, <3>1 DEF NoteOvertaken
    <3>3. stock'[product[a]] = stock[product[a]]
      BY <1>1, <2>2, <3>2
    <3>4. QED
      BY <2>1, <2>4, <3>1, <3>3 DEF PlannedInv
  <2>5. QED
    BY <1>1, <2>3, <2>4 DEF PlannedInv
<1>9. ASSUME NEW r \in AdjustRequests, ReadProduct(r) PROVE PlannedInv'
  BY <1>1, <1>9
  DEF ReadProduct, Goto, TypeOK, PlannedInv, rows, locks, history
<1>10. ASSUME NEW r \in AdjustRequests, WriteQuantity(r) PROVE PlannedInv'
  <2>1. /\ UNCHANGED <<stock, overtaken, planned>>
        /\ pc[r] = "write" /\ pc'[r] = "commit"
        /\ \A q \in Requests \ {r} : pc'[q] = pc[q]
        /\ draft' = [draft EXCEPT ![product[r]] = planned[r]]
        /\ productLock[product[r]] = None
    BY <1>10 DEF WriteQuantity, Goto, TypeOK, rows, history
  <2>2. \A a \in AdjustRequests \ {r} :
           pc[a] = "commit" => product[a] # product[r]
    BY <1>2, <2>1
  <2>3. QED
    BY <1>1, <2>1, <2>2 DEF PlannedInv, TypeOK
<1>11. CASE UNCHANGED vars
  BY <1>11 DEF PlannedInv, vars, inputs, rows, locks, local, history
<1>12. QED
  BY <1>4, <1>5, <1>6, <1>7, <1>8, <1>9, <1>10, <1>11
  DEF Next, AsyncStep, SyncStep, AdjustStep, ConfirmStep, Finished, Fail,
      DeadlockAbort, InsufficientStock, SyncRefuse, CommitUpdate, CommitAdjust

LEMMA LedgerStep ==
    /\ TypeOK /\ ProgressInv /\ LockInv /\ DraftInv /\ PlannedInv
    /\ LedgerBalances /\ [Next]_vars
    => LedgerBalances'
<1>. SUFFICES ASSUME TypeOK, ProgressInv, LockInv, DraftInv, PlannedInv,
                     LedgerBalances, [Next]_vars,
                     NEW p \in Products,
                     \A r \in overtaken' : product'[r] # p
              PROVE  stock'[p] = InitStock[p] + ledger'[p]
  BY DEF LedgerBalances
<1>1. \A r \in overtaken : product[r] # p
  BY InputsFixed, OvertakenGrows DEF inputs
<1>2. stock[p] = InitStock[p] + ledger[p]
  BY <1>1 DEF LedgerBalances
<1>3. stock[p] \in Int /\ ledger[p] \in Int /\ InitStock[p] \in Int
  BY RowAssumption DEF TypeOK
<1>4. CASE UNCHANGED <<stock, ledger>>
  BY <1>2, <1>4
<1>5. ASSUME NEW r \in Updates, CommitUpdate(r)
      PROVE  stock'[p] = InitStock[p] + ledger'[p]
  <2>1. Demand[order[r]][p] \in Int
    BY DemandType DEF TypeOK
  <2>2. stock'[p] = IF target[r] = "confirmed"
                    THEN stock[p] - Demand[order[r]][p] ELSE stock[p]
    BY <1>5, CommitUpdateEffect
  <2>3. ledger'[p] = IF target[r] = "confirmed"
                     THEN ledger[p] - Demand[order[r]][p] ELSE ledger[p]
    BY <1>5 DEF CommitUpdate
  <2>4. QED
    BY <1>2, <1>3, <2>1, <2>2, <2>3
<1>6. ASSUME NEW r \in AdjustRequests, CommitAdjust(r)
      PROVE  stock'[p] = InitStock[p] + ledger'[p]
  <2>1. CASE p = product[r]
    <3>1. pc[r] = "commit" /\ r \notin overtaken
      BY <1>1, <1>6, <2>1 DEF CommitAdjust
    <3>2. productLock[p] = r
      BY <2>1, <3>1 DEF LockInv, OnProduct, Requests
    <3>3. stock'[p] = draft[p]
      BY <1>6, <3>2, PublishEffect DEF CommitAdjust, Requests
    <3>4. draft[p] = stock[p] + change[r]
      BY <2>1, <3>1 DEF PlannedInv
    <3>5. ledger'[p] = ledger[p] + change[r]
      BY <1>6, <2>1 DEF CommitAdjust, TypeOK
    <3>6. QED
      BY <1>2, <1>3, <3>3, <3>4, <3>5, ChangeType
  <2>2. CASE p # product[r]
    BY <1>2, <1>6, <2>2, CommitAdjustEffect
  <2>3. QED
    BY <2>1, <2>2
<1>7. QED
  BY <1>4, <1>5, <1>6, StockFrame

-----------------------------------------------------------------------------
(* The inductive invariant and its consequences *)

LEMMA InductiveInit == Init => Inductive
<1>. SUFFICES ASSUME Init PROVE Inductive
  OBVIOUS
<1>. USE DEF Init, Requests, Updates
<1>1. TypeOK
  BY TypeInit
<1>2. ProgressInv
  BY DEF ProgressInv, InProgress
<1>3. LockInv
  BY RequestAssumption DEF LockInv, OnOrder, OnProduct
<1>4. DraftInv
  BY RowAssumption, RequestAssumption DEF DraftInv
<1>5. PlannedInv
  BY DEF PlannedInv
<1>6. DeductedInv
  BY DEF DeductedInv, SoldImpliesDeducted
<1>7. RacedInv
  BY DEF RacedInv, InProgress
<1>8. LedgerBalances
  BY RowAssumption DEF LedgerBalances
<1>9. QED
  BY <1>1, <1>2, <1>3, <1>4, <1>5, <1>6, <1>7, <1>8 DEF Inductive

LEMMA InductiveStep == Inductive /\ [Next]_vars => Inductive'
  BY TypeStep, ProgressStep, LockStep, DraftStep, PlannedStep, DeductedStep,
     RacedStep, LedgerStep
  DEF Inductive

\* The conjunction of type, progress, lock, draft and decision facts holds
\* in every reachable state.
THEOREM InductiveCorrect == Spec => []Inductive
  BY InductiveInit, InductiveStep, PTL DEF Spec

\* No interleaving of confirmations, adjustments, failures and aborts
\* commits a negative quantity.
THEOREM StockNeverNegative == Spec => []StockNonNegative
<1>1. Inductive => StockNonNegative
  BY DEF Inductive, DraftInv, StockNonNegative
<1>2. QED
  BY <1>1, InductiveCorrect, PTL

\* A confirmed or fulfilled order had its stock deducted.
THEOREM SoldWasDeducted == Spec => []SoldImpliesDeducted
<1>1. Inductive => SoldImpliesDeducted
  BY DEF Inductive, DeductedInv
<1>2. QED
  BY <1>1, InductiveCorrect, PTL

\* The movements of a product add up to its quantity unless an adjustment of
\* it was overtaken.
THEOREM LedgerCorrect == Spec => []LedgerBalances
<1>1. Inductive => LedgerBalances
  BY DEF Inductive
<1>2. QED
  BY <1>1, InductiveCorrect, PTL

\* The harness never confirms an order twice.
THEOREM HarnessCorrect == Spec => []HarnessConfirmsOnce
<1>1. Inductive => HarnessConfirmsOnce
  BY DEF Inductive, RacedInv, HarnessConfirmsOnce
<1>2. QED
  BY <1>1, InductiveCorrect, PTL

\* A confirmation is committed as one deduction of the whole demand from
\* the quantities current at the commit.
THEOREM ConfirmCorrect == Spec => ConfirmDeductsDemand
<1>1. ASSUME Inductive, [Next]_vars,
             NEW o \in Orders, confirms'[o] # confirms[o], NEW p \in Products
      PROVE  stock'[p] = stock[p] - Demand[o][p]
  <2>1. PICK r \in Updates : CommitUpdate(r)
    BY <1>1, StatusFrame DEF Inductive
  <2>2. o = order[r] /\ target[r] = "confirmed"
    BY <1>1, <2>1, CommitUpdateRow DEF Inductive
  <2>3. QED
    BY <1>1, <2>1, <2>2, CommitUpdateEffect DEF Inductive
<1>2. Inductive /\ [Next]_vars =>
         [\A o \in Orders : confirms'[o] # confirms[o] =>
             \A p \in Products : stock'[p] = stock[p] - Demand[o][p]]_vars
  BY <1>1
<1>3. QED
  BY <1>2, InductiveCorrect, PTL DEF Spec, ConfirmDeductsDemand

\* Two deductions for one order take two updates of it that overlap.
THEOREM DoubleCorrect == Spec => []DoubleOnlyIfRaced
<1>1. Inductive => DoubleOnlyIfRaced
  BY DEF Inductive, TypeOK, RacedInv, DoubleOnlyIfRaced
<1>2. QED
  BY <1>1, InductiveCorrect, PTL

\* So does a change of a cancelled or fulfilled order.
THEOREM TerminalCorrect == Spec => TerminalUnlessRaced
<1>1. ASSUME Inductive, [Next]_vars,
             NEW o \in Orders, status[o] \in {"cancelled", "fulfilled"},
             status'[o] # status[o]
      PROVE  o \in raced
  <2>1. PICK r \in Updates : CommitUpdate(r) /\ o = order[r]
    BY <1>1, StatusFrame, CommitUpdateRow DEF Inductive
  <2>2. <<status[o], target[r]>> \notin Allowed
    BY <1>1 DEF Allowed
  <2>3. QED
    BY <1>1, <2>1, <2>2, UnracedCommit DEF Inductive
<1>2. Inductive /\ [Next]_vars =>
         [\A o \in Orders :
             status[o] \in {"cancelled", "fulfilled"} /\ status'[o] # status[o]
                => o \in raced]_vars
  BY <1>1
<1>3. QED
  BY <1>2, InductiveCorrect, PTL DEF Spec, TerminalUnlessRaced

\* README, "Overselling Prevention", as far as it holds: of a product whose
\* adjustments were never overtaken, no more units are sold than there were.
THEOREM NotOversoldUnlessOvertaken ==
    Spec => [](\A p \in Products :
                  (\A r \in overtaken : product[r] # p) =>
                     InitStock[p] + ledger[p] >= 0)
<1>1. Inductive =>
         \A p \in Products :
            (\A r \in overtaken : product[r] # p) =>
               InitStock[p] + ledger[p] >= 0
  BY DEF Inductive, DraftInv, LedgerBalances
<1>2. QED
  BY <1>1, InductiveCorrect, PTL

-----------------------------------------------------------------------------
(* Deadlocks *)

\* A request waits for another one that has not been answered.
LEMMA HolderUnanswered ==
    ASSUME Inductive, NEW r \in Requests, Holder(r) # None
    PROVE  Holder(r) \in Requests /\ Holder(r) # r /\ pc[Holder(r)] # "done"
<1>1. TypeOK /\ ProgressInv /\ LockInv
  BY DEF Inductive
<1>. USE RequestAssumption DEF Requests, Updates
<1>2. ASSUME NEW q \in Requests, OnOrder(q)
      PROVE  pc[q] \notin {"done", "lock", "arrive", "write"}
  BY <1>2 DEF OnOrder
<1>3. ASSUME NEW q \in Requests, NEW p \in Products, OnProduct(q, p)
      PROVE  pc[q] \in {"item", "commit"}
  BY <1>3 DEF OnProduct, OnOrder
<1>4. CASE \/ pc[r] = "lock"
           \/ pc[r] = "arrive" /\ r \in SyncRequests
           \/ pc[r] = "write" /\ r \in AsyncRequests
  <2>1. Holder(r) = orderLock[order[r]]
    BY <1>4 DEF Holder
  <2>2. r \in Updates
    BY <1>1, <1>4 DEF ProgressInv
  <2>3. order[r] \in Orders /\ Holder(r) \in Requests
    BY <1>1, <2>1, <2>2 DEF TypeOK
  <2>4. OnOrder(Holder(r))
    BY <1>1, <2>1, <2>3 DEF LockInv
  <2>5. QED
    BY <1>2, <1>4, <2>3, <2>4
<1>5. CASE pc[r] = "item"
  <2>1. Holder(r) = productLock[next[r]]
    BY <1>5 DEF Holder
  <2>2. r \in Updates /\ r \notin AdjustRequests
    BY <1>1, <1>5 DEF ProgressInv
  <2>3. next[r] \in todo[r] /\ next[r] \in Products
    BY <1>1, <1>5, <2>2 DEF ProgressInv, TypeOK
  <2>4. Holder(r) \in Requests
    BY <1>1, <2>1, <2>3 DEF TypeOK
  <2>5. OnProduct(Holder(r), next[r])
    BY <1>1, <2>1, <2>3, <2>4 DEF LockInv
  <2>6. ~OnProduct(r, next[r])
    BY <2>2, <2>3 DEF OnProduct
  <2>7. QED
    BY <1>3, <2>3, <2>4, <2>5, <2>6
<1>6. CASE pc[r] = "write" /\ r \in AdjustRequests
  <2>1. Holder(r) = productLock[product[r]]
    BY <1>6 DEF Holder
  <2>2. product[r] \in Products
    BY <1>1, <1>6 DEF TypeOK
  <2>3. Holder(r) \in Requests
    BY <1>1, <2>1, <2>2 DEF TypeOK
  <2>4. OnProduct(Holder(r), product[r])
    BY <1>1, <2>1, <2>2, <2>3 DEF LockInv
  <2>5. QED
    BY <1>3, <1>6, <2>2, <2>3, <2>4
<1>7. QED
  BY <1>4, <1>5, <1>6 DEF Holder

\* No request waits for ever without the deadlock detector seeing why: no
\* lock outlives its transaction, and requests that all wait contain a cycle.
THEOREM HangsCorrect == Spec => []NobodyHangs
<1>1. ASSUME Inductive PROVE NobodyHangs
  <2> DEFINE Unanswered == {r \in Requests : pc[r] # "done"}
  <2>1. \A r \in Requests :
           Holder(r) # None => Holder(r) \in Unanswered \ {r}
    BY <1>1, HolderUnanswered
  <2>2. ASSUME Unanswered # {}, \A r \in Unanswered : Holder(r) # None
        PROVE  \E r \in Unanswered : InCycle(r)
    <3> DEFINE h == [r \in Unanswered |-> Holder(r)]
    <3>1. h \in [Unanswered -> Unanswered]
      BY <2>1, <2>2
    <3>2. IsFiniteSet(Unanswered) /\ Unanswered # {}
      BY <2>2, FiniteAssumption, FS_Subset
    <3>3. PICK D \in SUBSET Unanswered : Permutes(h, D)
      <4> HIDE DEF h, Unanswered
      <4>1. QED
        BY <3>1, <3>2, CycleExists
    <3>4. {Holder(q) : q \in D} = D
      BY <3>3 DEF Permutes
    <3>5. PICK r \in D : TRUE
      BY <3>3 DEF Permutes
    <3>6. InCycle(r)
      BY <3>4 DEF InCycle
    <3>7. QED
      BY <3>6
  <2>3. QED
    BY <2>1, <2>2 DEF NobodyHangs
<1>2. QED
  BY <1>1, InductiveCorrect, PTL

-----------------------------------------------------------------------------
(* OrderStock implements OrderLifecycle *)

LEMMA LifecycleInit == Init => Lifecycle!Init
  BY RowAssumption DEF Init, Lifecycle!Init, Excused

\* The commit of a status update is the abstract step of its target.
LEMMA LifecycleUpdate ==
    ASSUME Inductive, [Next]_vars, NEW r \in Updates, CommitUpdate(r)
    PROVE  Lifecycle!Next
<1> DEFINE o == order[r]
<1>. USE DEF Requests, Updates
<1>1. /\ TypeOK /\ ProgressInv /\ LockInv /\ DraftInv /\ DeductedInv
      /\ RacedInv /\ TypeOK' /\ DraftInv'
  BY InductiveStep DEF Inductive
<1>2. pc[r] = "commit" /\ OnOrder(r) /\ o \in Orders
  BY <1>1 DEF CommitUpdate, OnOrder, TypeOK
<1>3. status' = [status EXCEPT ![o] = target[r]]
  BY DEF CommitUpdate
<1>4. Excused' = Excused
  <2>1. raced' = raced
    BY DEF CommitUpdate, Publish
  <2>2. QED
    BY <2>1, InputsFixed DEF Excused, Harnessed, inputs
<1>5. o \in Excused \/ <<status[o], target[r]>> \in Lifecycle!Legal
  <2>1. CASE o \in raced
    BY <1>1, <2>1 DEF RacedInv, Excused
  <2>2. CASE o \notin raced
    BY <1>1, <2>2, UnracedCommit DEF Allowed, Lifecycle!Legal
  <2>3. QED
    BY <2>1, <2>2
<1>6. Lifecycle!Move(o, target[r])
  BY <1>3, <1>4, <1>5 DEF Lifecycle!Move
<1>7. CASE target[r] = "confirmed"
  <2>1. \A p \in Products : stock'[p] = stock[p] - Demand[o][p]
    BY <1>1, <1>7, CommitUpdateEffect
  <2>2. stock' = [p \in Products |-> stock[p] - Demand[o][p]]
    BY <1>1, <2>1 DEF TypeOK
  <2>3. ASSUME NEW p \in Products
        PROVE  stock[p] >= Demand[o][p]
    <3>1. stock'[p] \in Nat /\ stock[p] \in Nat /\ Demand[o][p] \in Nat
      BY <1>1, <1>2, DemandType DEF DraftInv
    <3>2. QED
      BY <2>1, <3>1
  <2>4. confirms' = [confirms EXCEPT ![o] = @ + 1]
    BY <1>7 DEF CommitUpdate
  <2>5. Lifecycle!Confirm(o)
    BY <1>6, <1>7, <2>2, <2>3, <2>4 DEF Lifecycle!Confirm
  <2>6. QED
    BY <1>2, <2>5 DEF Lifecycle!Next
<1>8. CASE target[r] # "confirmed"
  <2>1. \A p \in Products : stock'[p] = stock[p]
    BY <1>1, <1>8, CommitUpdateEffect
  <2>2. stock' = stock /\ confirms' = confirms
    BY <1>1, <1>8, <2>1 DEF TypeOK, CommitUpdate
  <2>3. CASE target[r] = "cancelled"
    <3>1. Lifecycle!Cancel(o)
      BY <1>6, <2>2, <2>3 DEF Lifecycle!Cancel
    <3>2. QED
      BY <1>2, <3>1 DEF Lifecycle!Next
  <2>4. CASE target[r] = "fulfilled"
    <3>1. confirms[o] > 0
      BY <1>1, <1>2, <2>4 DEF DeductedInv
    <3>2. Lifecycle!Fulfil(o)
      BY <1>6, <2>2, <2>4, <3>1 DEF Lifecycle!Fulfil
    <3>3. QED
      BY <1>2, <3>2 DEF Lifecycle!Next
  <2>5. target[r] \in {"cancelled", "fulfilled"}
    BY <1>1, <1>2, <1>8 DEF ProgressInv, InProgress, TypeOK, Statuses
  <2>6. QED
    BY <2>3, <2>4, <2>5
<1>9. QED
  BY <1>7, <1>8

\* The commit of an adjustment sets the quantity of its product.
LEMMA LifecycleAdjust ==
    ASSUME Inductive, [Next]_vars, NEW r \in AdjustRequests, CommitAdjust(r)
    PROVE  Lifecycle!Next
<1>1. TypeOK /\ LockInv /\ TypeOK' /\ DraftInv'
  BY InductiveStep DEF Inductive
<1>2. product[r] \in Products
  BY <1>1 DEF TypeOK
<1>3. \A p \in Products : p # product[r] => stock'[p] = stock[p]
  BY <1>1, CommitAdjustEffect
<1>4. stock' = [stock EXCEPT ![product[r]] = stock'[product[r]]]
  BY <1>1, <1>2, <1>3 DEF TypeOK
<1>5. stock'[product[r]] \in Nat
  BY <1>1, <1>2 DEF DraftInv
<1>6. Excused' = Excused
  <2>1. raced' = raced
    BY DEF CommitAdjust, Publish
  <2>2. QED
    BY <2>1, InputsFixed DEF Excused, Harnessed, inputs
<1>7. Lifecycle!SetQuantity(product[r])
  BY <1>4, <1>5, <1>6 DEF Lifecycle!SetQuantity, CommitAdjust
<1>8. QED
  BY <1>2, <1>7 DEF Lifecycle!Next

LEMMA LifecycleStep ==
    Inductive /\ [Next]_vars => [Lifecycle!Next]_(Lifecycle!vars)
<1>. SUFFICES ASSUME Inductive, [Next]_vars
              PROVE  [Lifecycle!Next]_(Lifecycle!vars)
  OBVIOUS
<1>1. CASE \E r \in Updates : CommitUpdate(r)
  BY <1>1, LifecycleUpdate
<1>2. CASE \E r \in AdjustRequests : CommitAdjust(r)
  BY <1>2, LifecycleAdjust
<1>3. CASE UNCHANGED <<status, stock, confirms, raced>>
  <2>1. Excused' = Excused
    BY <1>3, InputsFixed DEF Excused, Harnessed, inputs
  <2>2. QED
    BY <1>3, <2>1 DEF Lifecycle!vars
<1>4. ASSUME UNCHANGED <<status, stock, confirms>>,
             NEW r \in Updates, NoteOverlap(r)
      PROVE  [Lifecycle!Next]_(Lifecycle!vars)
  <2>1. order[r] \in Orders
    BY DEF Inductive, TypeOK
  <2>2. Excused' = Excused \/ Excused' = Excused \cup {order[r]}
    BY <1>4, InputsFixed DEF NoteOverlap, Excused, Harnessed, inputs
  <2>3. QED
    BY <1>4, <2>1, <2>2 DEF Lifecycle!Next, Lifecycle!Overlap, Lifecycle!vars
<1>5. QED
  BY <1>1, <1>2, <1>3, <1>4, StatusFrame, StockFrame, RacedFrame DEF Inductive

\* With all their locks, drafts, aborts and failures, the handlers
\* implement atomic steps on status and stock.
THEOREM LifecycleImplemented == Spec => ImplementsLifecycle
  BY LifecycleInit, LifecycleStep, InductiveCorrect, PTL
  DEF Spec, ImplementsLifecycle, Lifecycle!Spec
=============================================================================

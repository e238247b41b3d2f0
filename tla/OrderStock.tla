----------------------------- MODULE OrderStock -----------------------------
(***************************************************************************)
(* Concurrent HTTP requests that change order status and product stock     *)
(* through one PostgreSQL database (READ COMMITTED, row locks):            *)
(*                                                                         *)
(*   AsyncRequests   PATCH /orders/{id}/status                             *)
(*                   (OrderService.update_status and confirm_order)        *)
(*   SyncRequests    the same operation of the benchmark harness           *)
(*                   (update_order_status_sync)                            *)
(*   AdjustRequests  POST /products/{id}/adjust                            *)
(*                   (ProductService.adjust_stock)                         *)
(*                                                                         *)
(* A request is one database transaction.  Its steps are the statements    *)
(* that read, lock or write a row; between two of them any other request   *)
(* may run.  All rows belong to one business, and every request names an   *)
(* existing row: a request that does not ends like Fail.                   *)
(***************************************************************************)
EXTENDS Integers, FiniteSets

CONSTANTS
    AsyncRequests, SyncRequests, AdjustRequests,
    Orders, Products,
    Demand,     \* Demand[o][p]: units of p in the items of order o, merged
    InitStock,  \* InitStock[p]: quantity of p before the first request
    Changes,    \* the values of quantity_change an adjustment may carry
    None

Updates  == AsyncRequests \cup SyncRequests
Requests == Updates \cup AdjustRequests

ASSUME RequestAssumption ==
    /\ AsyncRequests \cap SyncRequests = {}
    /\ Updates \cap AdjustRequests = {}
    /\ None \notin Requests \cup Products

\* The server has accepted finitely many requests at any moment; otherwise
\* a chain of waiting requests need not end.
ASSUME FiniteAssumption == IsFiniteSet(Requests)

\* The CHECK constraints of order_items and products: quantity > 0 in an
\* item, so 0 stands for "not in the order", and quantity >= 0 in a product.
ASSUME RowAssumption ==
    /\ Demand \in [Orders -> [Products -> Nat]]
    /\ InitStock \in [Products -> Nat]

\* A zero change writes no product row, so it is left out.
ASSUME ChangeAssumption == Changes \subseteq Int \ {0}

Statuses == {"pending", "confirmed", "fulfilled", "cancelled"}

\* Mutant of Allowed: a pending order may be handed over unpaid.
AllowedUnsold == { <<"pending", "confirmed">>, <<"pending", "cancelled">>,
                   <<"pending", "fulfilled">>,
                   <<"confirmed", "cancelled">>, <<"confirmed", "fulfilled">> }

\* Mutant of Allowed: confirming twice is not an error.
AllowedTwice == { <<"pending", "confirmed">>, <<"pending", "cancelled">>,
                  <<"confirmed", "confirmed">>,
                  <<"confirmed", "cancelled">>, <<"confirmed", "fulfilled">> }

\* Mutant of Allowed: a cancelled order may be taken up again.
AllowedAgain == { <<"pending", "confirmed">>, <<"pending", "cancelled">>,
                  <<"cancelled", "confirmed">>,
                  <<"confirmed", "cancelled">>, <<"confirmed", "fulfilled">> }

\* The transitions the if/elif chain lets through; the early 400 answers for
\* cancelled and fulfilled orders refuse nothing more.
Allowed == { <<"pending", "confirmed">>, <<"pending", "cancelled">>,
             <<"confirmed", "cancelled">>, <<"confirmed", "fulfilled">> }

Items(o) == {p \in Products : Demand[o][p] > 0}

VARIABLES
    order, target,    \* what each status update asks for
    product, change,  \* what each adjustment asks for
    status,       \* committed orders.status
    stock,        \* committed products.quantity
    draft,        \* newest version of products.quantity, committed or not
    orderLock,    \* the request that holds the row lock of an order
    productLock,  \* the request that holds the row lock of a product
    pc,
    todo, next,   \* items a confirmation has still to lock, and the next one
    planned,      \* new_quantity, as an adjustment computed it
    ledger,       \* sum of quantity_change over the committed stock movements
    confirms,     \* how often a confirmation of the order was committed
    \* history
    raced,        \* orders of which two updates overlapped
    overtaken     \* adjustments whose product was written since they read it

inputs  == <<order, target, product, change>>
rows    == <<status, stock, ledger, confirms>>
locks   == <<orderLock, productLock, draft>>
local   == <<pc, todo, next, planned>>
history == <<raced, overtaken>>
vars    == <<inputs, rows, locks, local, history>>

Init ==
    /\ order \in [Updates -> Orders]
    /\ target \in [Updates -> Statuses]
    /\ product \in [AdjustRequests -> Products]
    /\ change \in [AdjustRequests -> Changes]
    /\ status = [o \in Orders |-> "pending"]
    /\ stock = InitStock
    /\ draft = InitStock
    /\ orderLock = [o \in Orders |-> None]
    /\ productLock = [p \in Products |-> None]
    /\ pc = [r \in Requests |-> "arrive"]
    /\ todo = [r \in Updates |-> {}]
    /\ next = [r \in Updates |-> None]
    /\ planned = [r \in AdjustRequests |-> 0]
    /\ ledger = [p \in Products |-> 0]
    /\ confirms = [o \in Orders |-> 0]
    /\ raced = {}
    /\ overtaken = {}

-----------------------------------------------------------------------------
(* The end of a transaction. *)

Goto(r, l) == pc' = [pc EXCEPT ![r] = l]

ReleaseLocks(r) ==
    /\ orderLock' = [o \in Orders |->
                        IF orderLock[o] = r THEN None ELSE orderLock[o]]
    /\ productLock' = [p \in Products |->
                        IF productLock[p] = r THEN None ELSE productLock[p]]

\* Mutant of Rollback: the written row versions survive it.
RollbackKeepsDrafts(r) ==
    /\ ReleaseLocks(r)
    /\ todo' = [u \in Updates |-> IF u = r THEN {} ELSE todo[u]]
    /\ next' = [u \in Updates |-> IF u = r THEN None ELSE next[u]]
    /\ Goto(r, "done")
    /\ UNCHANGED <<inputs, history, rows, draft, planned>>

\* An exception leaves the handler: closing the session rolls back.
Rollback(r) ==
    /\ ReleaseLocks(r)
    /\ draft' = [p \in Products |->
                    IF productLock[p] = r THEN stock[p] ELSE draft[p]]
    /\ todo' = [u \in Updates |-> IF u = r THEN {} ELSE todo[u]]
    /\ next' = [u \in Updates |-> IF u = r THEN None ELSE next[u]]
    /\ Goto(r, "done")
    /\ UNCHANGED <<inputs, history, rows, planned>>

\* History: adjustments that have read a product which r now commits.
NoteOvertaken(r) ==
    overtaken' = overtaken \cup
        {a \in AdjustRequests : pc[a] = "write" /\ productLock[product[a]] = r}

\* The row versions that r wrote become the committed ones.
Publish(r) ==
    /\ stock' = [p \in Products |->
                    IF productLock[p] = r THEN draft[p] ELSE stock[p]]
    /\ ReleaseLocks(r)
    /\ Goto(r, "done")
    /\ NoteOvertaken(r)
    /\ UNCHANGED <<inputs, raced, draft, todo, next, planned>>

-----------------------------------------------------------------------------
(* The loop over order.items: their order is the database's, not the       *)
(* code's.  A request that has chosen an item waits for that row.          *)

NextItem(r, remaining) ==
    /\ todo' = [todo EXCEPT ![r] = remaining]
    /\ \/ /\ remaining = {}
          /\ next' = [next EXCEPT ![r] = None]
          /\ Goto(r, "commit")
       \/ \E p \in remaining :
             /\ next' = [next EXCEPT ![r] = p]
             /\ Goto(r, "item")

Deduct(r, p) ==
    /\ productLock' = [productLock EXCEPT ![p] = r]
    /\ draft' = [draft EXCEPT ![p] = stock[p] - Demand[order[r]][p]]
    /\ NextItem(r, todo[r] \ {p})
    /\ UNCHANGED <<inputs, history, rows, orderLock, planned>>

\* Mutant of DeductItem: no test of the quantity.
DeductItemUntested(r) ==
    pc[r] = "item" /\ productLock[next[r]] = None /\ Deduct(r, next[r])

\* Mutant of DeductItem: SELECT without FOR UPDATE.
DeductItemUnlocked(r) ==
    /\ pc[r] = "item"
    /\ stock[next[r]] >= Demand[order[r]][next[r]]
    /\ Deduct(r, next[r])

\* SELECT product FOR UPDATE finds enough: the quantity is decremented in
\* the transaction.
DeductItem(r) ==
    LET p == next[r] IN
    /\ pc[r] = "item"
    /\ productLock[p] = None
    /\ stock[p] >= Demand[order[r]][p]
    /\ Deduct(r, p)

\* Mutant of InsufficientStock: the missing item is skipped.
InsufficientStockSkipped(r) ==
    /\ pc[r] = "item"
    /\ productLock[next[r]] = None
    /\ stock[next[r]] < Demand[order[r]][next[r]]
    /\ NextItem(r, todo[r] \ {next[r]})
    /\ UNCHANGED <<inputs, history, rows, locks, planned>>

\* Mutant of InsufficientStock: the answer is sent, the transaction stays open.
InsufficientStockOpen(r) ==
    /\ pc[r] = "item"
    /\ productLock[next[r]] = None
    /\ stock[next[r]] < Demand[order[r]][next[r]]
    /\ Goto(r, "done")
    /\ UNCHANGED <<inputs, history, rows, locks, todo, next, planned>>

\* It finds too little: 409, and the items locked so far are rolled back.
InsufficientStock(r) ==
    /\ pc[r] = "item"
    /\ productLock[next[r]] = None
    /\ stock[next[r]] < Demand[order[r]][next[r]]
    /\ Rollback(r)

\* The commit of a status update, with the movements of a confirmation.
CommitUpdate(r) ==
    LET o == order[r] IN
    /\ pc[r] = "commit"
    /\ status' = [status EXCEPT ![o] = target[r]]
    /\ IF target[r] = "confirmed"
       THEN /\ ledger' = [p \in Products |-> ledger[p] - Demand[o][p]]
            /\ confirms' = [confirms EXCEPT ![o] = @ + 1]
       ELSE UNCHANGED <<ledger, confirms>>
    /\ Publish(r)

-----------------------------------------------------------------------------
(* The decision on the status *)

\* The update has decided and is not answered.
InProgress(r) == pc[r] \notin {"arrive", "done"}

\* History: r decides while another update of its order is in progress.
NoteOverlap(r) ==
    raced' = IF \E u \in Updates \ {r} : order[u] = order[r] /\ InProgress(u)
             THEN raced \cup {order[r]} ELSE raced

-----------------------------------------------------------------------------
(* OrderService.update_status: the status is read without a lock, and the  *)
(* decision is not repeated once the row is locked.                        *)

ReadOrder(r) ==
    /\ pc[r] = "arrive"
    /\ IF <<status[order[r]], target[r]>> \in Allowed
       THEN /\ Goto(r, IF target[r] = "confirmed" THEN "lock" ELSE "write")
            /\ NoteOverlap(r)
       ELSE Goto(r, "done") /\ UNCHANGED raced
    /\ UNCHANGED <<inputs, overtaken, rows, locks, todo, next, planned>>

\* confirm_order: SELECT order FOR UPDATE.  The session already holds the
\* order, so its attributes keep the values that get_order loaded.
LockOrder(r) ==
    /\ pc[r] = "lock"
    /\ orderLock[order[r]] = None
    /\ orderLock' = [orderLock EXCEPT ![order[r]] = r]
    /\ NextItem(r, Items(order[r]))
    /\ UNCHANGED <<inputs, history, rows, productLock, draft, planned>>

\* Cancelled and fulfilled: the flush sends UPDATE orders, which waits for
\* the row lock and does not look at the status it replaces.
WriteStatus(r) ==
    /\ pc[r] = "write"
    /\ orderLock[order[r]] = None
    /\ orderLock' = [orderLock EXCEPT ![order[r]] = r]
    /\ Goto(r, "commit")
    /\ UNCHANGED <<inputs, history, rows, productLock, draft, todo, next, planned>>

-----------------------------------------------------------------------------
(* update_order_status_sync: SELECT order FOR UPDATE comes first, and the  *)
(* status it returns decides.                                              *)

\* Mutant of SyncLockOrder: SELECT without FOR UPDATE.
SyncLockOrderUnlocked(r) ==
    LET o == order[r] IN
    /\ pc[r] = "arrive"
    /\ <<status[o], target[r]>> \in Allowed
    /\ orderLock' = [orderLock EXCEPT ![o] = r]
    /\ IF target[r] = "confirmed"
       THEN NextItem(r, Items(o))
       ELSE Goto(r, "commit") /\ UNCHANGED <<todo, next>>
    /\ NoteOverlap(r)
    /\ UNCHANGED <<inputs, overtaken, rows, productLock, draft, planned>>

SyncLockOrder(r) ==
    LET o == order[r] IN
    /\ pc[r] = "arrive"
    /\ orderLock[o] = None
    /\ <<status[o], target[r]>> \in Allowed
    /\ orderLock' = [orderLock EXCEPT ![o] = r]
    /\ IF target[r] = "confirmed"
       THEN NextItem(r, Items(o))
       ELSE Goto(r, "commit") /\ UNCHANGED <<todo, next>>
    /\ NoteOverlap(r)
    /\ UNCHANGED <<inputs, overtaken, rows, productLock, draft, planned>>

\* 400: no such transition.
SyncRefuse(r) ==
    /\ pc[r] = "arrive"
    /\ orderLock[order[r]] = None
    /\ <<status[order[r]], target[r]>> \notin Allowed
    /\ Rollback(r)

-----------------------------------------------------------------------------
(* ProductService.adjust_stock: new_quantity is computed from an unlocked  *)
(* read and written as an absolute value.                                  *)

\* Mutant of ReadProduct: no 422 answer.
ReadProductUntested(r) ==
    /\ pc[r] = "arrive"
    /\ Goto(r, "write")
    /\ planned' = [planned EXCEPT ![r] = stock[product[r]] + change[r]]
    /\ UNCHANGED <<inputs, history, rows, locks, todo, next>>

ReadProduct(r) ==
    LET quantity == stock[product[r]] + change[r] IN
    /\ pc[r] = "arrive"
    /\ IF quantity < 0
       THEN Goto(r, "done") /\ UNCHANGED planned
       ELSE Goto(r, "write") /\ planned' = [planned EXCEPT ![r] = quantity]
    /\ UNCHANGED <<inputs, history, rows, locks, todo, next>>

WriteQuantity(r) ==
    LET p == product[r] IN
    /\ pc[r] = "write"
    /\ productLock[p] = None
    /\ productLock' = [productLock EXCEPT ![p] = r]
    /\ draft' = [draft EXCEPT ![p] = planned[r]]
    /\ Goto(r, "commit")
    /\ UNCHANGED <<inputs, history, rows, orderLock, todo, next, planned>>

CommitAdjust(r) ==
    /\ pc[r] = "commit"
    /\ ledger' = [ledger EXCEPT ![product[r]] = @ + change[r]]
    /\ Publish(r)
    /\ UNCHANGED <<status, confirms>>

-----------------------------------------------------------------------------
(* Failures. *)

\* Any exception before the commit: a lost connection, a killed worker, a
\* row that does not exist, a status that is no OrderStatus.
Fail(r) == pc[r] # "done" /\ Rollback(r)

\* The request that holds the row r waits for, or None.
Holder(r) ==
    CASE \/ pc[r] = "lock"
         \/ pc[r] = "arrive" /\ r \in SyncRequests
         \/ pc[r] = "write" /\ r \in AsyncRequests -> orderLock[order[r]]
      [] pc[r] = "item" -> productLock[next[r]]
      [] pc[r] = "write" /\ r \in AdjustRequests -> productLock[product[r]]
      [] OTHER -> None

\* Every request waits for at most one other, so a set that Holder maps onto
\* itself is made of cycles.
InCycle(r) == \E C \in SUBSET Requests : r \in C /\ {Holder(q) : q \in C} = C

\* PostgreSQL aborts one transaction of a cycle; the driver's error is a 500.
DeadlockAbort(r) == InCycle(r) /\ Rollback(r)

-----------------------------------------------------------------------------
ConfirmStep(r) == DeductItem(r) \/ InsufficientStock(r) \/ CommitUpdate(r)

AsyncStep(r)  == ReadOrder(r) \/ LockOrder(r) \/ WriteStatus(r) \/ ConfirmStep(r)
SyncStep(r)   == SyncLockOrder(r) \/ SyncRefuse(r) \/ ConfirmStep(r)
AdjustStep(r) == ReadProduct(r) \/ WriteQuantity(r) \/ CommitAdjust(r)

\* All requests are answered.
Finished == (\A r \in Requests : pc[r] = "done") /\ UNCHANGED vars

Next ==
    \/ \E r \in AsyncRequests : AsyncStep(r)
    \/ \E r \in SyncRequests : SyncStep(r)
    \/ \E r \in AdjustRequests : AdjustStep(r)
    \/ \E r \in Requests : Fail(r) \/ DeadlockAbort(r)
    \/ Finished

\* Every handler is scheduled and every statement that does not wait is
\* answered; the deadlock detector runs.  Nothing has to fail.
Fairness ==
    /\ \A r \in AsyncRequests : WF_vars(AsyncStep(r))
    /\ \A r \in SyncRequests : WF_vars(SyncStep(r))
    /\ \A r \in AdjustRequests : WF_vars(AdjustStep(r))
    /\ \A r \in Requests : WF_vars(DeadlockAbort(r))

Spec == Init /\ [][Next]_vars /\ Fairness
-----------------------------------------------------------------------------
(* Properties *)

TypeOK ==
    /\ order \in [Updates -> Orders]
    /\ target \in [Updates -> Statuses]
    /\ product \in [AdjustRequests -> Products]
    /\ change \in [AdjustRequests -> Changes]
    /\ status \in [Orders -> Statuses]
    /\ stock \in [Products -> Int]
    /\ draft \in [Products -> Int]
    /\ orderLock \in [Orders -> Requests \cup {None}]
    /\ productLock \in [Products -> Requests \cup {None}]
    /\ pc \in [Requests ->
                {"arrive", "lock", "item", "write", "commit", "done"}]
    /\ todo \in [Updates -> SUBSET Products]
    /\ next \in [Updates -> Products \cup {None}]
    /\ planned \in [AdjustRequests -> Nat]
    /\ ledger \in [Products -> Int]
    /\ confirms \in [Orders -> Nat]
    /\ raced \subseteq Orders
    /\ overtaken \subseteq AdjustRequests

\* The quantity of a product is never negative, whatever confirmations and
\* adjustments run together and whoever fails: the tests the handlers make
\* themselves are enough, the CHECK of the table is never needed.
StockNonNegative == \A p \in Products : stock[p] >= 0

\* The commit that counts as a confirmation of o takes exactly the demand
\* of o off the quantities committed at that moment, all items or none: no
\* sale is computed from a quantity another request has replaced.
ConfirmDeductsDemand ==
    [][\A o \in Orders :
          confirms'[o] # confirms[o] =>
             \A p \in Products : stock'[p] = stock[p] - Demand[o][p]]_vars

\* An order is confirmed or fulfilled only if its stock was deducted, also
\* when the transition was decided on a status that is no longer current.
SoldImpliesDeducted ==
    \A o \in Orders :
        status[o] \in {"confirmed", "fulfilled"} => confirms[o] > 0

\* The stock movements account for the whole quantity of a product, however
\* confirmations and adjustments of it interleave, deadlock or fail, unless
\* an adjustment was overtaken between its read and its write.
LedgerBalances ==
    \A p \in Products :
        (\A r \in overtaken : product[r] # p) =>
            stock[p] = InitStock[p] + ledger[p]

\* Orders that only the harness updates.
Harnessed(o) == \A r \in AsyncRequests : order[r] # o

\* The harness reads the status under the lock: it never deducts the items
\* of one order twice.
HarnessConfirmsOnce ==
    \A o \in Orders : Harnessed(o) => confirms[o] <= 1

\* Items are deducted twice only if two updates of the order overlapped: the
\* tests of update_status exclude it for requests that follow each other,
\* whoever fails in between and whatever other orders do.
DoubleOnlyIfRaced == \A o \in Orders : confirms[o] > 1 => o \in raced

\* A cancelled or fulfilled order changes its status only if two of its
\* updates overlapped.
TerminalUnlessRaced ==
    [][\A o \in Orders :
          status[o] \in {"cancelled", "fulfilled"} /\ status'[o] # status[o]
             => o \in raced]_vars

\* Orders for which the allowed transitions are not promised any more: an
\* overlap of updates of the harness alone excuses nothing.
Excused == {o \in raced : ~Harnessed(o)}

Lifecycle == INSTANCE OrderLifecycle WITH raced <- Excused

\* Locks, drafts and interleaved statements implement atomic steps on status
\* and stock, along the allowed transitions for each order until an update
\* of the API overlaps another one.
ImplementsLifecycle == Lifecycle!Spec

\* Whatever a request waits for can still end: the lock belongs to another
\* request that is not answered yet, and while requests are unanswered one
\* of them waits for nothing or is on a cycle, which the database breaks.
NobodyHangs ==
    LET Unanswered == {r \in Requests : pc[r] # "done"} IN
    /\ \A r \in Requests :
          Holder(r) # None => Holder(r) \in Unanswered \ {r}
    /\ Unanswered # {} =>
          \E r \in Unanswered : Holder(r) = None \/ InCycle(r)

\* Every request is answered: no lock outlives its transaction, and
\* confirmations that lock their items in opposite orders do not hang.
EveryRequestAnswered == \A r \in Requests : <>(pc[r] = "done")

\* The early answers of update_status, "Cannot update a cancelled order"
\* and "Cannot update a fulfilled order": such an order keeps its status.
TerminalStatusFinal ==
    [][\A o \in Orders :
          status[o] \in {"cancelled", "fulfilled"} =>
             status'[o] = status[o]]_vars

\* README, "Overselling Prevention": with all sales and adjustments that
\* were recorded, no more units left the stock than ever entered it.
NoOverselling == \A p \in Products : InitStock[p] + ledger[p] >= 0

\* README, "The same locking strategy is mirrored in the sync benchmark
\* harness": like there, an order is confirmed and deducted once.
ConfirmsOnce == \A o \in Orders : confirms[o] <= 1

-----------------------------------------------------------------------------
(* The inductive invariant behind the safety properties. *)

\* Requests that hold the row lock of their order.
OnOrder(r) == r \in Updates /\ pc[r] \in {"item", "commit"}

\* Requests that have written a new version of product p.
OnProduct(r, p) ==
    \/ OnOrder(r) /\ target[r] = "confirmed" /\ p \in Items(order[r]) \ todo[r]
    \/ r \in AdjustRequests /\ pc[r] = "commit" /\ p = product[r]

\* Row locks are held by exactly the requests whose progress needs them.
LockInv ==
    /\ \A r \in Requests, o \in Orders :
          orderLock[o] = r <=> OnOrder(r) /\ order[r] = o
    /\ \A r \in Requests, p \in Products :
          productLock[p] = r <=> OnProduct(r, p)

\* How far a request has come.
ProgressInv ==
    /\ \A r \in Updates :
          /\ todo[r] \subseteq Items(order[r])
          /\ pc[r] = "item" => target[r] = "confirmed" /\ next[r] \in todo[r]
          /\ pc[r] # "item" => todo[r] = {}
          /\ pc[r] = "lock" => r \in AsyncRequests /\ target[r] = "confirmed"
          /\ InProgress(r) => target[r] # "pending"
          /\ pc[r] = "write" =>
                r \in AsyncRequests /\ target[r] \in {"cancelled", "fulfilled"}
    /\ \A r \in AdjustRequests : pc[r] \notin {"lock", "item"}

\* Uncommitted versions are what their writer made of the committed ones.
DraftInv ==
    /\ \A p \in Products : stock[p] \in Nat /\ draft[p] \in Nat
    /\ \A p \in Products : productLock[p] = None => draft[p] = stock[p]
    /\ \A r \in Updates, p \in Products :
          productLock[p] = r => draft[p] = stock[p] - Demand[order[r]][p]

\* What an adjustment writes differs from the committed quantity by its
\* change, if nothing was committed in between.
PlannedInv ==
    /\ \A r \in AdjustRequests :
          pc[r] = "commit" => draft[product[r]] = planned[r]
    /\ \A r \in AdjustRequests \ overtaken :
          pc[r] \in {"write", "commit"} =>
             planned[r] = stock[product[r]] + change[r]

\* A transition to fulfilled was decided after a confirmation.
DeductedInv ==
    /\ SoldImpliesDeducted
    /\ \A r \in Updates :
          pc[r] \in {"write", "commit"} /\ target[r] = "fulfilled"
             => confirms[order[r]] > 0

\* A decision holds until the commit unless another update of the order
\* overlaps, which those of the harness never do among themselves.
RacedInv ==
    /\ \A u, v \in Updates :
          u # v /\ order[u] = order[v] /\ InProgress(u) /\ InProgress(v)
             => order[u] \in raced
    /\ \A r \in Updates :
          InProgress(r) /\ order[r] \notin raced =>
             <<status[order[r]], target[r]>> \in Allowed
    /\ \A o \in Orders \ raced :
          confirms[o] <= 1 /\ (status[o] = "pending" => confirms[o] = 0)
    /\ \A o \in raced : ~Harnessed(o)

\* Every step preserves the conjunction, not each conjunct alone: what a
\* commit publishes is right because of the lock its request still holds.
Inductive ==
    /\ TypeOK
    /\ ProgressInv
    /\ LockInv
    /\ DraftInv
    /\ PlannedInv
    /\ DeductedInv
    /\ RacedInv
    /\ LedgerBalances
=============================================================================

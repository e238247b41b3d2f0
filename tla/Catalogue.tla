----------------------------- MODULE Catalogue -----------------------------
(***************************************************************************)
(* Concurrent HTTP requests that read or change the products of one        *)
(* business, apart from their quantity:                                    *)
(*                                                                         *)
(*   Creates   POST /products                 (create_product)             *)
(*   Edits     PUT and DELETE /products/{id}  (update_, delete_product)    *)
(*   Orders    POST /orders                   (create_order)               *)
(*   Confirms  PATCH /orders/{id}/status      (the locks of confirm_order) *)
(*                                                                         *)
(* A request is one database transaction, its steps are the statements     *)
(* that read, lock or write a row.  The product a creation inserts is      *)
(* named after the request.                                                *)
(***************************************************************************)
EXTENDS Integers, Sequences, FiniteSets

CONSTANTS
    Creates, Edits, Orders, Confirms,
    Products,   \* the products there are before the first request
    Skus, Prices,
    Changes,    \* the products edits may name, with the bodies they carry
    Additions,  \* the bodies a creation may carry
    Baskets,    \* the product_ids an order may list
    InitRow,    \* InitRow[p]: the row of p before the first request
    None

Writers  == Creates \cup Edits
Requests == Writers \cup Orders \cup Confirms
Rows     == Products \cup Creates

Contents == [sku : Skus, price : Prices, active : BOOLEAN]

\* None stands for a field that is absent from the body or unchanged;
\* active is never set, and reset by DELETE only.
Bodies == [sku : Skus \cup {None}, price : Prices \cup {None},
           active : {None, FALSE}]

ASSUME RequestAssumption ==
    /\ Creates \cap Edits = {} /\ Writers \cap Orders = {}
    /\ (Writers \cup Orders) \cap Confirms = {}
    /\ Products \cap Creates = {}
    /\ None \notin Requests \cup Rows \cup Skus
    /\ None \notin Prices /\ None \notin BOOLEAN

ASSUME FiniteAssumption == IsFiniteSet(Requests)

ASSUME BodyAssumption ==
    /\ Changes \subseteq Products \X Bodies
    /\ Additions \subseteq Contents /\ \A a \in Additions : a.active
    /\ Baskets \subseteq Seq(Products)

\* The constraint uq_business_sku of the table.
ASSUME RowAssumption ==
    /\ InitRow \in [Products -> Contents]
    /\ \A p, q \in Products : InitRow[p].sku = InitRow[q].sku => p = q

NoRow == [sku |-> None, price |-> None, active |-> FALSE]

VARIABLES
    body, target,   \* the request body of a writer, the product of an edit
    basket,         \* what an order lists, and what a confirmed one sold
    row,            \* committed rows of products
    rowLock,        \* the request that holds the exclusive lock of a row
    keyShare,       \* the requests that hold its key-share lock
    pc,
    write,          \* the columns a writer has still to write
    copied,         \* the unit prices an order has copied so far
    todo, next,     \* products a confirmation has still to lock, the next one
    \* history
    overtaken,      \* rows that got their SKU since a writer's SKU check
    offered         \* products and prices on sale since an order arrived

inputs  == <<body, target, basket>>
locks   == <<rowLock, keyShare>>
cart    == <<copied, todo, next>>
history == <<overtaken, offered>>
vars    == <<inputs, row, locks, pc, write, cart, history>>

Init ==
    /\ target \in [Edits -> Products]
    /\ body \in {f \in [Writers -> Additions \cup {c[2] : c \in Changes}] :
                    /\ \A c \in Creates : f[c] \in Additions
                    /\ \A e \in Edits : <<target[e], f[e]>> \in Changes}
    /\ basket \in [Orders \cup Confirms -> Baskets]
    /\ row = [p \in Rows |-> IF p \in Products THEN InitRow[p] ELSE NoRow]
    /\ rowLock = [p \in Rows |-> None]
    /\ keyShare = [p \in Rows |-> {}]
    /\ pc = [r \in Requests |-> "arrive"]
    /\ write = body
    /\ copied = [o \in Orders |-> <<>>]
    /\ todo = [k \in Confirms |-> {}]
    /\ next = [k \in Confirms |-> None]
    /\ overtaken = [w \in Writers |-> {}]
    /\ offered = [o \in Orders |-> {}]

-----------------------------------------------------------------------------
Goto(r, l) == pc' = [pc EXCEPT ![r] = l]

RowOf(w) == IF w \in Creates THEN w ELSE target[w]

\* Mutant of Written: absent fields are written too.
WrittenWhole(w, p) == write[w]

\* Mutant of Written: activity defaults to true where the body has none.
WrittenRevived(w, p) ==
    [sku    |-> IF write[w].sku = None THEN row[p].sku ELSE write[w].sku,
     price  |-> IF write[w].price = None THEN row[p].price ELSE write[w].price,
     active |-> write[w].active = None]

\* The row p with the columns that w writes.
Written(w, p) ==
    [sku    |-> IF write[w].sku = None THEN row[p].sku ELSE write[w].sku,
     price  |-> IF write[w].price = None THEN row[p].price ELSE write[w].price,
     active |-> IF write[w].active = None THEN row[p].active
                                          ELSE write[w].active]

InUse(s, p) == \E q \in Rows \ {p} : row[q].sku = s

\* The update of w changes the SKU its row has now.  The SKU is a key
\* column, so this takes the lock that FOR UPDATE takes.
Renames(w) == write[w].sku \notin {None, row[RowOf(w)].sku}

OnSale == {<<p, row[p].price>> : p \in {q \in Products : row[q].active}}

ReleaseLocks(r) ==
    /\ rowLock' = [p \in Rows |-> IF rowLock[p] = r THEN None ELSE rowLock[p]]
    /\ keyShare' = [p \in Rows |-> keyShare[p] \ {r}]

\* Mutant of Rollback: the answer is sent, the transaction stays open.
RollbackOpen(r) ==
    Goto(r, "done") /\ UNCHANGED <<inputs, row, locks, write, cart, history>>

\* An exception leaves the handler: closing the session rolls back.
Rollback(r) ==
    /\ ReleaseLocks(r)
    /\ Goto(r, "done")
    /\ UNCHANGED <<inputs, row, write, cart, history>>

-----------------------------------------------------------------------------
(* The SKU check and the unique index *)

\* A confirmation has locked the row and not yet updated it.
OnlyLocked(p) ==
    \E k \in Confirms : rowLock[p] = k /\ pc[k] = "update" /\ next[k] = p

\* Requests with an uncommitted row version that has the SKU s, or that
\* replaces one which has it: an index insertion of s waits for them.
Claimants(s) ==
    {w \in Writers : pc[w] = "commit" /\ write[w].sku = s} \cup
    ({rowLock[p] : p \in {q \in Rows : row[q].sku = s /\ ~OnlyLocked(q)}}
        \ {None})

\* Mutant of SkuTaken: deleted products are overlooked.
SkuTakenActive(s, p) ==
    \E q \in Rows \ {p} : row[q].sku = s /\ row[q].active

\* The row the check of create_product or update_product finds.
SkuTaken(s, p) == InUse(s, p)

\* 409 if it finds one.
CheckSku(w) ==
    /\ pc[w] = IF w \in Creates THEN "arrive" ELSE "check"
    /\ Goto(w, IF SkuTaken(write[w].sku, RowOf(w)) THEN "done"
               ELSE IF w \in Creates THEN "index" ELSE "write")
    /\ overtaken' = [overtaken EXCEPT ![w] = {}]
    /\ UNCHANGED <<inputs, row, locks, write, cart, offered>>

\* Mutant of InsertKey: the table without the unique constraint.
InsertKeyUnchecked(w) ==
    /\ pc[w] = "index"
    /\ Goto(w, "commit")
    /\ UNCHANGED <<inputs, row, locks, write, cart, history>>

\* The flush inserts the index entry of the new SKU.
InsertKey(w) ==
    /\ pc[w] = "index"
    /\ Claimants(write[w].sku) \ {w} = {}
    /\ ~InUse(write[w].sku, RowOf(w))
    /\ Goto(w, "commit")
    /\ UNCHANGED <<inputs, row, locks, write, cart, history>>

\* The constraint refuses it: IntegrityError, which nothing handles, 500.
UniqueViolation(w) ==
    /\ pc[w] = "index"
    /\ Claimants(write[w].sku) \ {w} = {}
    /\ InUse(write[w].sku, RowOf(w))
    /\ Rollback(w)

\* The commit publishes the row.
CommitWrite(w) ==
    LET p == RowOf(w) IN
    /\ pc[w] = "commit"
    /\ row' = [row EXCEPT ![p] = Written(w, p)]
    /\ overtaken' = [v \in Writers |->
                        IF row'[p].sku = row[p].sku THEN overtaken[v]
                                                    ELSE overtaken[v] \cup {p}]
    /\ offered' = [o \in Orders |->
                      IF pc[o] \in {"select", "item"}
                      THEN offered[o] \cup OnSale' ELSE offered[o]]
    /\ ReleaseLocks(w)
    /\ Goto(w, "done")
    /\ UNCHANGED <<inputs, write, cart>>

-----------------------------------------------------------------------------
(* update_product and delete_product *)

\* The unlocked read.  Only attributes that differ from it are written, and
\* a SKU only after the check.
ReadProduct(e) ==
    LET p == target[e]
        Changed(new, old) == IF new = old THEN None ELSE new
        new == [sku    |-> Changed(body[e].sku, row[p].sku),
                price  |-> Changed(body[e].price, row[p].price),
                active |-> Changed(body[e].active, row[p].active)]
    IN
    /\ pc[e] = "arrive"
    /\ write' = [write EXCEPT ![e] = new]
    /\ Goto(e, IF new.sku # None THEN "check"
               ELSE IF new.price # None \/ new.active # None THEN "write"
               ELSE "done")
    /\ UNCHANGED <<inputs, row, locks, cart, history>>

\* Mutant of WriteRow: it does not wait for the row.
WriteRowUnlocked(e) ==
    /\ pc[e] = "write"
    /\ rowLock' = [rowLock EXCEPT ![target[e]] = e]
    /\ Goto(e, IF Renames(e) THEN "index" ELSE "commit")
    /\ UNCHANGED <<inputs, row, keyShare, write, cart, history>>

\* UPDATE products: it waits for the row, and for orders that refer to the
\* row if it changes the key.
WriteRow(e) ==
    LET p == target[e] IN
    /\ pc[e] = "write"
    /\ rowLock[p] = None
    /\ Renames(e) => keyShare[p] = {}
    /\ rowLock' = [rowLock EXCEPT ![p] = e]
    /\ Goto(e, IF Renames(e) THEN "index" ELSE "commit")
    /\ UNCHANGED <<inputs, row, keyShare, write, cart, history>>

-----------------------------------------------------------------------------
(* create_order: the insertion of an item is flushed by the next statement *)

StartOrder(o) ==
    /\ pc[o] = "arrive"
    /\ offered' = [offered EXCEPT ![o] = OnSale]
    /\ Goto(o, IF basket[o] = <<>> THEN "commit" ELSE "select")
    /\ UNCHANGED <<inputs, row, locks, write, cart, overtaken>>

\* The position of the item in work.
Position(o) == Len(copied[o]) + 1

\* Mutant of SelectProduct: deleted products are found too.
SelectProductAny(o) ==
    /\ pc[o] = "select"
    /\ copied' = [copied EXCEPT ![o] = Append(@, row[basket[o][Position(o)]].price)]
    /\ Goto(o, "item")
    /\ UNCHANGED <<inputs, row, locks, write, todo, next, history>>

\* SELECT product finds an active one.  The session returns the object it
\* still holds if the item before names the same product: the price is the
\* one loaded then.
SelectProduct(o) ==
    LET n == Position(o)
        p == basket[o][n]
        price == IF n > 1 /\ basket[o][n] = basket[o][n - 1]
                 THEN copied[o][n - 1] ELSE row[p].price
    IN
    /\ pc[o] = "select"
    /\ row[p].active
    /\ copied' = [copied EXCEPT ![o] = Append(@, price)]
    /\ Goto(o, "item")
    /\ UNCHANGED <<inputs, row, locks, write, todo, next, history>>

\* 404: nothing of the order is left.
ProductMissing(o) ==
    /\ pc[o] = "select"
    /\ ~row[basket[o][Position(o)]].active
    /\ Rollback(o)

\* A rename or a confirmation keeps others from referring to the row.
Exclusive(p) ==
    /\ rowLock[p] # None
    /\ rowLock[p] \in Edits => Renames(rowLock[p])

\* INSERT order_items: the foreign key takes the key-share lock.
InsertItem(o) ==
    LET p == basket[o][Len(copied[o])] IN
    /\ pc[o] = "item"
    /\ ~Exclusive(p)
    /\ keyShare' = [keyShare EXCEPT ![p] = @ \cup {o}]
    /\ Goto(o, IF Len(copied[o]) = Len(basket[o]) THEN "commit" ELSE "select")
    /\ UNCHANGED <<inputs, row, rowLock, write, cart, history>>

\* The commit makes order and items visible together.
CommitOrder(o) ==
    /\ pc[o] = "commit"
    /\ ReleaseLocks(o)
    /\ Goto(o, "created")
    /\ UNCHANGED <<inputs, row, write, cart, history>>

-----------------------------------------------------------------------------
(* confirm_order: the rows its loop over the items locks and updates, in   *)
(* any order                                                               *)

NextLock(k, remaining) ==
    /\ todo' = [todo EXCEPT ![k] = remaining]
    /\ \/ /\ remaining = {}
          /\ next' = [next EXCEPT ![k] = None]
          /\ Goto(k, "commit")
       \/ \E p \in remaining :
             /\ next' = [next EXCEPT ![k] = p]
             /\ Goto(k, "lock")

StartConfirm(k) ==
    /\ pc[k] = "arrive"
    /\ NextLock(k, {basket[k][i] : i \in DOMAIN basket[k]})
    /\ UNCHANGED <<inputs, row, locks, write, copied, history>>

\* SELECT product FOR UPDATE
LockProduct(k) ==
    LET p == next[k] IN
    /\ pc[k] = "lock"
    /\ rowLock[p] = None
    /\ keyShare[p] = {}
    /\ rowLock' = [rowLock EXCEPT ![p] = k]
    /\ todo' = [todo EXCEPT ![k] = @ \ {p}]
    /\ Goto(k, "update")
    /\ UNCHANGED <<inputs, row, keyShare, write, copied, next, history>>

\* The next statement, or the commit, flushes the UPDATE of its quantity.
UpdateProduct(k) ==
    /\ pc[k] = "update"
    /\ NextLock(k, todo[k])
    /\ UNCHANGED <<inputs, row, locks, write, copied, history>>

CommitConfirm(k) == pc[k] = "commit" /\ Rollback(k)

-----------------------------------------------------------------------------
(* Failures *)

Ended == {"done", "created"}

\* Any exception before the commit: a lost connection, a killed worker, a
\* customer that does not exist, a tax category or a quantity that the
\* tables refuse; for a confirmation also a lack of stock.
Fail(r) == pc[r] \notin Ended /\ Rollback(r)

\* The requests whose locks r waits for.
WaitsFor(r) ==
    CASE pc[r] = "index" -> Claimants(write[r].sku) \ {r}
      [] pc[r] = "write" -> ({rowLock[target[r]]} \ {None}) \cup
                            (IF Renames(r) THEN keyShare[target[r]] ELSE {})
      [] pc[r] = "lock"  -> ({rowLock[next[r]]} \ {None}) \cup keyShare[next[r]]
      [] pc[r] = "item"  -> LET p == basket[r][Len(copied[r])]
                            IN IF Exclusive(p) THEN {rowLock[p]} ELSE {}
      [] OTHER -> {}

\* r is on a cycle of the waits-for graph: some set of requests waits for
\* itself along a permutation.
InCycle(r) ==
    \E C \in SUBSET {q \in Requests : WaitsFor(q) # {}} :
        /\ r \in C
        /\ \E f \in [C -> C] :
              /\ \A q \in C : f[q] \in WaitsFor(q)
              /\ \A q \in C : \E u \in C : f[u] = q

\* PostgreSQL aborts one transaction of a cycle; the driver's error is a 500.
DeadlockAbort(r) == InCycle(r) /\ Rollback(r)

-----------------------------------------------------------------------------
CreateStep(c) ==
    CheckSku(c) \/ InsertKey(c) \/ UniqueViolation(c) \/ CommitWrite(c)
EditStep(e) ==
    \/ ReadProduct(e) \/ CheckSku(e) \/ WriteRow(e) \/ InsertKey(e)
    \/ UniqueViolation(e) \/ CommitWrite(e)
OrderStep(o) ==
    \/ StartOrder(o) \/ SelectProduct(o) \/ ProductMissing(o)
    \/ InsertItem(o) \/ CommitOrder(o)
ConfirmStep(k) ==
    StartConfirm(k) \/ LockProduct(k) \/ UpdateProduct(k) \/ CommitConfirm(k)

\* All requests are answered.
Finished == (\A r \in Requests : pc[r] \in Ended) /\ UNCHANGED vars

Next ==
    \/ \E c \in Creates : CreateStep(c)
    \/ \E e \in Edits : EditStep(e)
    \/ \E o \in Orders : OrderStep(o)
    \/ \E k \in Confirms : ConfirmStep(k)
    \/ \E r \in Requests : Fail(r) \/ DeadlockAbort(r)
    \/ Finished

\* The event loop, PostgreSQL and its deadlock detector do not stop for ever
\* while one of them has a step to take.  Nothing says whose: every request
\* ends after a bounded number of its steps, so none is starved.
Progress ==
    \/ \E c \in Creates : CreateStep(c)
    \/ \E e \in Edits : EditStep(e)
    \/ \E o \in Orders : OrderStep(o)
    \/ \E k \in Confirms : ConfirmStep(k)
    \/ \E r \in Requests : DeadlockAbort(r)
Fairness == WF_vars(Progress)

Spec == Init /\ [][Next]_vars /\ Fairness

-----------------------------------------------------------------------------
(* Properties *)

TypeOK ==
    /\ body \in [Writers -> Bodies \cup Contents]
    /\ target \in [Edits -> Products]
    /\ basket \in [Orders \cup Confirms -> Baskets]
    /\ row \in [Rows -> Contents \cup {NoRow}]
    /\ \A p \in Products : row[p] \in Contents
    /\ rowLock \in [Rows -> Requests \cup {None}]
    /\ keyShare \in [Rows -> SUBSET Orders]
    /\ pc \in [Requests -> {"arrive", "check", "write", "index", "select",
                            "item", "lock", "update", "commit", "done",
                            "created"}]
    /\ write \in [Writers -> Bodies \cup Contents]
    /\ copied \in [Orders -> Seq(Prices)]
    /\ todo \in [Confirms -> SUBSET Products]
    /\ next \in [Confirms -> Products \cup {None}]
    /\ \A e \in Edits : body[e] \in Bodies /\ write[e] \in Bodies
    /\ overtaken \in [Writers -> SUBSET Rows]
    /\ offered \in [Orders -> SUBSET (Products \X Prices)]

\* A SKU belongs to one product, deleted ones included, however creations
\* and renames overlap: the check alone does not give this, and the index
\* lets a second one in neither before nor after the first commits.
SkuUnique ==
    \A p, q \in Rows : row[p].sku # None /\ row[p].sku = row[q].sku => p = q

\* The check of the endpoints is complete: a request that passed it fails on
\* the constraint, with 500 in place of 409, only because of a SKU that was
\* committed after its check.
ViolationOnlyByRace ==
    \A w \in Writers :
        pc[w] = "index" =>
            \A q \in Rows \ {RowOf(w)} :
                row[q].sku = write[w].sku => q \in overtaken[w]

\* Every item of a created order was on sale, at the price it copied, at
\* some moment of the request: edits and deletions that overlap it neither
\* mix prices into it that nobody offered nor sell what was deleted before.
ItemsOffered ==
    \A o \in Orders :
        pc[o] = "created" =>
            /\ Len(copied[o]) = Len(basket[o])
            /\ \A n \in DOMAIN basket[o] :
                  <<basket[o][n], copied[o][n]>> \in offered[o]

\* Whatever a request waits for can still end: a lock, an uncommitted row
\* or index entry belongs to another request that is not answered yet, and
\* while requests are unanswered one of them waits for nothing or is on a
\* cycle, which the database breaks.
NobodyHangs ==
    LET Unanswered == {r \in Requests : pc[r] \notin Ended} IN
    /\ \A r \in Requests : WaitsFor(r) \subseteq Unanswered \ {r}
    /\ Unanswered # {} =>
          \E r \in Unanswered : WaitsFor(r) = {} \/ InCycle(r)

\* What makes SkuUnique, ItemsOffered and NobodyHangs inductive.
EditsHoldRow ==
    \A e \in Edits : pc[e] \in {"index", "commit"} => rowLock[target[e]] = e
WritesFresh ==
    \A w \in Writers :
        pc[w] = "commit" /\ write[w].sku # None =>
            ~InUse(write[w].sku, RowOf(w))
WritesDiffer ==
    \A v, w \in Writers :
        pc[v] = "commit" /\ pc[w] = "commit" /\ write[v].sku # None
        /\ write[v].sku = write[w].sku => v = w
CreationsPending ==
    \A c \in Creates :
        write[c] \in Additions /\ (pc[c] # "done" => row[c] = NoRow)
InsertsNamed == \A w \in Writers : pc[w] = "index" => write[w].sku # None
ChecksHold ==
    \A w \in Writers :
        pc[w] \in {"write", "index"} /\ write[w].sku # None =>
            \A q \in Rows \ {RowOf(w)} :
                row[q].sku = write[w].sku => q \in overtaken[w]
CartsOffered ==
    \A o \in Orders :
        /\ pc[o] \in {"select", "item"} => OnSale \subseteq offered[o]
        /\ pc[o] = "arrive" => copied[o] = <<>>
        /\ pc[o] = "select" => Len(copied[o]) < Len(basket[o])
        /\ pc[o] = "item" => Len(copied[o]) \in 1 .. Len(basket[o])
        /\ pc[o] \in {"commit", "created"} => Len(copied[o]) = Len(basket[o])
        /\ Len(copied[o]) <= Len(basket[o])
        /\ \A n \in 1 .. Len(copied[o]) :
              <<basket[o][n], copied[o][n]>> \in offered[o]
\* Which statement a request may be at.
Places ==
    /\ \A r \in Requests :
          /\ pc[r] = "index" => r \in Writers
          /\ pc[r] = "write" => r \in Edits
          /\ pc[r] = "item" => r \in Orders
          /\ pc[r] = "lock" => r \in Confirms
    /\ \A k \in Confirms : pc[k] = "lock" => next[k] \in todo[k]
\* No lock outlives its transaction, and none is asked for twice.
LocksHeld ==
    /\ \A p \in Rows, r \in Requests :
          rowLock[p] = r =>
             \/ r \in Edits /\ target[r] = p /\ pc[r] \in {"index", "commit"}
             \/ r \in Confirms /\ p \notin todo[r]
                /\ pc[r] \in {"lock", "update", "commit"}
    /\ \A p \in Rows : \A o \in keyShare[p] :
          pc[o] \in {"select", "item", "commit"}
Inductive ==
    /\ TypeOK /\ SkuUnique /\ EditsHoldRow /\ WritesFresh /\ WritesDiffer
    /\ CreationsPending /\ InsertsNamed /\ ChecksHold /\ CartsOffered
    /\ Places /\ LocksHeld

Registry == INSTANCE SkuRegistry

\* Checks, locks and index insertions implement atomic changes of one
\* product that respect SKUs in use.
ImplementsRegistry == Registry!Spec

\* Every request is answered: orders that share a product, renames that wait
\* for them and confirmations that lock in the opposite order do not hang.
EveryRequestAnswered == <>(\A r \in Requests : pc[r] \in Ended)
=============================================================================

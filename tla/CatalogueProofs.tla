-------------------------- MODULE CatalogueProofs --------------------------
(***************************************************************************)
(* Proofs about Catalogue for every set of requests, products and bodies.  *)
(***************************************************************************)
EXTENDS Catalogue, WaitCycles, TLAPS

(* The pieces actions are made of *)

LEMMA ReleaseType ==
    ASSUME TypeOK, NEW r \in Requests, ReleaseLocks(r)
    PROVE  /\ rowLock' \in [Rows -> Requests \cup {None}]
           /\ keyShare' \in [Rows -> SUBSET Orders]
  BY DEF TypeOK, ReleaseLocks

LEMMA RollbackType ==
    ASSUME TypeOK, NEW r \in Requests, Rollback(r)
    PROVE  TypeOK'
<1>1. /\ rowLock' \in [Rows -> Requests \cup {None}]
      /\ keyShare' \in [Rows -> SUBSET Orders]
  BY ReleaseType DEF Rollback
<1>2. QED
  BY <1>1 DEF TypeOK, Rollback, Goto, inputs, cart, history

LEMMA RowOfType ==
    ASSUME TypeOK, NEW w \in Writers
    PROVE  /\ RowOf(w) \in Rows
           /\ w \in Creates => RowOf(w) = w
           /\ w \notin Creates => w \in Edits /\ RowOf(w) = target[w]
  BY DEF TypeOK, RowOf, Rows, Writers

\* The row a commit publishes.
LEMMA WrittenType ==
    ASSUME Inductive, NEW w \in Writers
    PROVE  /\ Written(w, RowOf(w)) \in Contents
           /\ write[w].sku # None => Written(w, RowOf(w)).sku = write[w].sku
           /\ write[w].sku = None => Written(w, RowOf(w)).sku = row[RowOf(w)].sku
           /\ Written(w, RowOf(w)).active /\ w \in Edits => row[RowOf(w)].active
<1>1. CASE w \in Creates
  <2>1. write[w] \in Contents /\ write[w].active
    BY <1>1, BodyAssumption DEF Inductive, CreationsPending
  <2>2. QED
    BY <1>1, <2>1, RequestAssumption DEF Written, Contents, Writers
<1>2. CASE w \in Edits
  <2>1. RowOf(w) \in Products /\ row[RowOf(w)] \in Contents
    BY <1>2, RequestAssumption DEF Inductive, TypeOK, RowOf
  <2>2. write[w] \in Bodies
    BY <1>2 DEF Inductive, TypeOK
  <2>3. /\ write[w].sku \in Skus \cup {None}
        /\ write[w].price \in Prices \cup {None}
        /\ write[w].active \in {None, FALSE}
    BY <2>2 DEF Bodies
  <2>4. QED
    BY <2>1, <2>3, RequestAssumption DEF Written, Contents
<1>3. QED
  BY <1>1, <1>2 DEF Writers

LEMMA OnSaleType ==
    ASSUME TypeOK
    PROVE  OnSale \subseteq Products \X Prices
  BY DEF TypeOK, OnSale, Contents

LEMMA BasketType ==
    ASSUME TypeOK, NEW o \in Orders
    PROVE  basket[o] \in Seq(Products) /\ copied[o] \in Seq(Prices)
  BY BodyAssumption DEF TypeOK

-----------------------------------------------------------------------------
(* Type correctness *)

LEMMA TypeInit == Init => TypeOK
<1>. SUFFICES ASSUME Init PROVE TypeOK
  OBVIOUS
<1>1. row \in [Rows -> Contents \cup {NoRow}] /\ \A p \in Products : row[p] \in Contents
  BY RowAssumption DEF Init, Rows
<1>2. /\ body \in [Writers -> Bodies \cup Contents]
      /\ \A e \in Edits : body[e] \in Bodies
  BY BodyAssumption DEF Init, Writers
<1>3. copied \in [Orders -> Seq(Prices)]
  BY DEF Init
<1>4. QED
  BY <1>1, <1>2, <1>3 DEF Init, TypeOK

LEMMA NextLockType ==
    ASSUME TypeOK, NEW k \in Confirms, NEW S \in SUBSET Products, NextLock(k, S)
    PROVE  /\ todo' \in [Confirms -> SUBSET Products]
           /\ next' \in [Confirms -> Products \cup {None}]
           /\ pc' = [pc EXCEPT ![k] = "lock"] \/ pc' = [pc EXCEPT ![k] = "commit"]
  BY DEF TypeOK, NextLock, Goto

LEMMA WriterType ==
    ASSUME Inductive, NEW w \in Writers,
           CheckSku(w) \/ InsertKey(w) \/ UniqueViolation(w) \/ CommitWrite(w)
    PROVE  TypeOK'
<1>0. TypeOK /\ w \in Requests
  BY DEF Inductive, Requests
<1>1. CASE CheckSku(w)
  BY <1>0, <1>1 DEF CheckSku, Goto, TypeOK, inputs, locks, cart
<1>2. CASE InsertKey(w)
  BY <1>0, <1>2 DEF InsertKey, Goto, TypeOK, inputs, locks, cart, history
<1>3. CASE UniqueViolation(w)
  BY <1>0, <1>3, RollbackType DEF UniqueViolation
<1>4. CASE CommitWrite(w)
  <2>1. row' = [row EXCEPT ![RowOf(w)] = Written(w, RowOf(w))]
    BY <1>4 DEF CommitWrite
  <2>2. row' \in [Rows -> Contents \cup {NoRow}] /\ \A p \in Products : row'[p] \in Contents
    <3>1. Written(w, RowOf(w)) \in Contents /\ RowOf(w) \in Rows
      BY <1>0, WrittenType, RowOfType
    <3>2. /\ row \in [Rows -> Contents \cup {NoRow}]
          /\ \A p \in Products : row[p] \in Contents /\ p \in Rows
      BY <1>0 DEF TypeOK, Rows
    <3>3. QED
      BY <2>1, <3>1, <3>2
  <2>3. OnSale' \subseteq Products \X Prices
    BY <2>2 DEF OnSale, Contents
  <2>4. /\ rowLock' \in [Rows -> Requests \cup {None}]
        /\ keyShare' \in [Rows -> SUBSET Orders]
    BY <1>0, <1>4, ReleaseType DEF CommitWrite
  <2>5. overtaken' \in [Writers -> SUBSET Rows]
    BY <1>0, <1>4, RowOfType DEF CommitWrite, TypeOK
  <2>6. offered' \in [Orders -> SUBSET (Products \X Prices)]
    BY <1>0, <1>4, <2>3 DEF CommitWrite, TypeOK
  <2>7. UNCHANGED <<body, target, basket, write, copied, todo, next>>
    BY <1>4 DEF CommitWrite, inputs, cart
  <2>8. pc' = [pc EXCEPT ![w] = "done"]
    BY <1>4 DEF CommitWrite, Goto
  <2>9. QED
    BY <1>0, <2>2, <2>4, <2>5, <2>6, <2>7, <2>8 DEF TypeOK
<1>5. QED
  BY <1>1, <1>2, <1>3, <1>4

LEMMA EditType ==
    ASSUME Inductive, NEW e \in Edits, ReadProduct(e) \/ WriteRow(e)
    PROVE  TypeOK'
<1>0. TypeOK /\ e \in Requests /\ e \in Writers
  BY DEF Inductive, Requests, Writers
<1>1. CASE ReadProduct(e)
  <2>1. body[e] \in Bodies /\ row[target[e]] \in Contents
    BY <1>0 DEF TypeOK
  <2>2. PICK new \in Bodies : write' = [write EXCEPT ![e] = new]
    <3>. DEFINE Changed(new, old) == IF new = old THEN None ELSE new
                b == body[e]
                r == row[target[e]]
                n == [sku    |-> Changed(b.sku, r.sku),
                      price  |-> Changed(b.price, r.price),
                      active |-> Changed(b.active, r.active)]
    <3>1. write' = [write EXCEPT ![e] = n]
      BY <1>1 DEF ReadProduct
    <3>2. /\ b.sku \in Skus \cup {None} /\ b.price \in Prices \cup {None}
          /\ b.active \in {None, FALSE}
      BY <2>1 DEF Bodies
    <3>3. n \in Bodies
      BY <3>2 DEF Bodies
    <3>4. QED
      BY <3>1, <3>3
  <2>3. pc' \in [Requests -> {"arrive", "check", "write", "index", "select",
                             "item", "lock", "update", "commit", "done",
                             "created"}]
    BY <1>0, <1>1 DEF ReadProduct, Goto, TypeOK
  <2>4. UNCHANGED <<body, target, basket, row, rowLock, keyShare, copied, todo,
                    next, overtaken, offered>>
    BY <1>1 DEF ReadProduct, inputs, locks, cart, history
  <2>5. /\ write' \in [Writers -> Bodies \cup Contents]
        /\ \A f \in Edits : write'[f] \in Bodies
    BY <1>0, <2>2 DEF TypeOK, Writers
  <2>6. QED
    BY <1>0, <2>3, <2>4, <2>5 DEF TypeOK
<1>2. CASE WriteRow(e)
  <2>1. rowLock' \in [Rows -> Requests \cup {None}]
    BY <1>0, <1>2 DEF WriteRow, TypeOK
  <2>2. pc' = [pc EXCEPT ![e] = "index"] \/ pc' = [pc EXCEPT ![e] = "commit"]
    BY <1>2 DEF WriteRow, Goto
  <2>3. UNCHANGED <<body, target, basket, row, keyShare, write, copied, todo,
                    next, overtaken, offered>>
    BY <1>2 DEF WriteRow, inputs, cart, history
  <2>4. QED
    BY <1>0, <2>1, <2>2, <2>3 DEF TypeOK
<1>3. QED
  BY <1>1, <1>2

LEMMA OrderType ==
    ASSUME Inductive, NEW o \in Orders, OrderStep(o)
    PROVE  TypeOK'
<1>0. TypeOK /\ o \in Requests /\ basket[o] \in Seq(Products) /\ copied[o] \in Seq(Prices)
  BY BasketType DEF Inductive, Requests
<1>1. CASE StartOrder(o)
  BY <1>0, <1>1, OnSaleType DEF StartOrder, Goto, TypeOK, inputs, locks, cart
<1>2. CASE SelectProduct(o)
  <2>1. Position(o) \in 1 .. Len(basket[o])
    BY <1>0, <1>2 DEF SelectProduct, Position, Inductive, CartsOffered
  <2>2. row[basket[o][Position(o)]].price \in Prices
    BY <1>0, <2>1 DEF TypeOK, Contents
  <2>3. Position(o) > 1 => copied[o][Position(o) - 1] \in Prices
    BY <1>0, <2>1 DEF Position
  <2>4. PICK price \in Prices : copied' = [copied EXCEPT ![o] = Append(@, price)]
    BY <1>2, <2>2, <2>3 DEF SelectProduct
  <2>5. copied' \in [Orders -> Seq(Prices)]
    BY <1>0, <2>4 DEF TypeOK
  <2>6. QED
    BY <1>0, <1>2, <2>5 DEF SelectProduct, Goto, TypeOK, inputs, locks, history
<1>3. CASE ProductMissing(o)
  BY <1>0, <1>3, RollbackType DEF ProductMissing
<1>4. CASE InsertItem(o)
  BY <1>0, <1>4 DEF InsertItem, Goto, TypeOK, inputs, cart, history
<1>5. CASE CommitOrder(o)
  BY <1>0, <1>5, ReleaseType
  DEF CommitOrder, Goto, TypeOK, inputs, cart, history
<1>6. QED
  BY <1>1, <1>2, <1>3, <1>4, <1>5 DEF OrderStep

LEMMA ConfirmType ==
    ASSUME Inductive, NEW k \in Confirms, ConfirmStep(k)
    PROVE  TypeOK'
<1>0. TypeOK /\ k \in Requests
  BY DEF Inductive, Requests
<1>1. CASE StartConfirm(k)
  <2>1. basket[k] \in Seq(Products)
    BY <1>0, BodyAssumption DEF TypeOK
  <2>2. {basket[k][i] : i \in DOMAIN basket[k]} \in SUBSET Products
    BY <2>1
  <2>3. QED
    BY <1>0, <1>1, <2>2, NextLockType
    DEF StartConfirm, TypeOK, inputs, locks, history
<1>2. CASE LockProduct(k)
  <2>1. todo[k] \ {next[k]} \in SUBSET Products
    BY <1>0 DEF TypeOK
  <2>2. rowLock' \in [Rows -> Requests \cup {None}]
    BY <1>0, <1>2 DEF LockProduct, TypeOK
  <2>3. QED
    BY <1>0, <1>2, <2>1, <2>2
    DEF LockProduct, Goto, TypeOK, inputs, history
<1>3. CASE UpdateProduct(k)
  <2>1. todo[k] \in SUBSET Products
    BY <1>0 DEF TypeOK
  <2>2. QED
    BY <1>0, <1>3, <2>1, NextLockType
    DEF UpdateProduct, TypeOK, inputs, locks, history
<1>4. CASE CommitConfirm(k)
  BY <1>0, <1>4, RollbackType DEF CommitConfirm
<1>5. QED
  BY <1>1, <1>2, <1>3, <1>4 DEF ConfirmStep

LEMMA TypeStep == Inductive /\ [Next]_vars => TypeOK'
<1>. SUFFICES ASSUME Inductive, [Next]_vars PROVE TypeOK'
  OBVIOUS
<1>1. ASSUME NEW c \in Creates, CreateStep(c) PROVE TypeOK'
  BY <1>1, WriterType DEF CreateStep, Writers
<1>2. ASSUME NEW e \in Edits, EditStep(e) PROVE TypeOK'
  BY <1>2, WriterType, EditType DEF EditStep, Writers
<1>3. ASSUME NEW r \in Requests, Fail(r) \/ DeadlockAbort(r) PROVE TypeOK'
  BY <1>3, RollbackType DEF Fail, DeadlockAbort, Inductive
<1>4. CASE UNCHANGED vars
  BY <1>4 DEF vars, inputs, locks, cart, history, TypeOK, Inductive
<1>5. QED
  BY <1>1, <1>2, <1>3, <1>4, OrderType, ConfirmType DEF Next, Finished

-----------------------------------------------------------------------------
(* Rows, locks and checks: what orders, confirmations and failures leave *)

\* A step that changes nothing of the writers but may end one of them.
WritersAside ==
    /\ UNCHANGED <<inputs, row, write, overtaken>>
    /\ \A w \in Writers : pc'[w] \in {pc[w], "done"}
    /\ \A e \in Edits :
          pc'[e] # "done" /\ rowLock[target[e]] = e => rowLock'[target[e]] = e

LEMMA RollbackAside ==
    ASSUME TypeOK, NEW r \in Requests, Rollback(r)
    PROVE  WritersAside
<1>1. \A e \in Edits : target[e] \in Rows /\ e \in Requests
  BY DEF TypeOK, Rows, Requests, Writers
<1>2. \A w \in Writers : w \in Requests
  BY DEF Requests
<1>3. QED
  BY <1>1, <1>2
  DEF WritersAside, TypeOK, Rollback, ReleaseLocks, Goto, history

LEMMA OrderAside ==
    ASSUME Inductive, NEW o \in Orders, OrderStep(o)
    PROVE  WritersAside
<1>0. /\ TypeOK /\ o \in Requests /\ o \notin Writers
      /\ \A e \in Edits : target[e] \in Rows /\ e # o
      /\ \A w \in Writers : w \in Requests
  BY RequestAssumption DEF Inductive, TypeOK, Requests, Rows, Writers
<1>1. CASE ProductMissing(o)
  BY <1>0, <1>1, RollbackAside DEF ProductMissing
<1>2. CASE CommitOrder(o)
  BY <1>0, <1>2
  DEF WritersAside, CommitOrder, ReleaseLocks, Goto, TypeOK, history
<1>3. CASE StartOrder(o) \/ SelectProduct(o) \/ InsertItem(o)
  <2>1. UNCHANGED <<inputs, row, write, overtaken, rowLock>>
    BY <1>3 DEF StartOrder, SelectProduct, InsertItem, history, locks
  <2>2. \E l : pc' = [pc EXCEPT ![o] = l]
    BY <1>3, Zenon DEF StartOrder, SelectProduct, InsertItem, Goto
  <2>3. QED
    BY <1>0, <2>1, <2>2 DEF WritersAside, TypeOK, inputs
<1>4. QED
  BY <1>1, <1>2, <1>3 DEF OrderStep

LEMMA ConfirmAside ==
    ASSUME Inductive, NEW k \in Confirms, ConfirmStep(k)
    PROVE  WritersAside
<1>0. /\ TypeOK /\ k \in Requests /\ k \notin Writers
      /\ \A e \in Edits : target[e] \in Rows /\ e # None
      /\ \A w \in Writers : w \in Requests
  BY RequestAssumption DEF Inductive, TypeOK, Requests, Rows, Writers
<1>1. CASE CommitConfirm(k)
  BY <1>0, <1>1, RollbackAside DEF CommitConfirm
<1>2. CASE StartConfirm(k) \/ LockProduct(k) \/ UpdateProduct(k)
  <2>1. UNCHANGED <<inputs, row, write, overtaken>>
    BY <1>2 DEF StartConfirm, LockProduct, UpdateProduct, history, locks
  <2>2. \E l : pc' = [pc EXCEPT ![k] = l]
    BY <1>2, Zenon
    DEF StartConfirm, LockProduct, UpdateProduct, NextLock, Goto
  <2>3. \A p \in Rows : rowLock[p] # None => rowLock'[p] = rowLock[p]
    BY <1>0, <1>2 DEF StartConfirm, LockProduct, UpdateProduct, TypeOK, locks
  <2>4. QED
    BY <1>0, <2>1, <2>2, <2>3 DEF WritersAside, TypeOK, inputs
<1>3. QED
  BY <1>1, <1>2 DEF ConfirmStep

\* The steps that matter to rows and SKUs.
LEMMA NextCases ==
    ASSUME Inductive, [Next]_vars
    PROVE  \/ WritersAside
           \/ \E w \in Writers : CheckSku(w) \/ InsertKey(w) \/ CommitWrite(w)
           \/ \E e \in Edits : ReadProduct(e) \/ WriteRow(e)
<1>0. TypeOK /\ Writers \subseteq Requests
  BY DEF Inductive, Requests
<1>1. ASSUME NEW w \in Writers, UniqueViolation(w) PROVE WritersAside
  BY <1>0, <1>1, RollbackAside DEF UniqueViolation
<1>2. ASSUME NEW r \in Requests, Fail(r) \/ DeadlockAbort(r) PROVE WritersAside
  BY <1>0, <1>2, RollbackAside DEF Fail, DeadlockAbort
<1>3. CASE UNCHANGED vars
  BY <1>3 DEF vars, inputs, locks, history, WritersAside
<1>4. QED
  BY <1>1, <1>2, <1>3, OrderAside, ConfirmAside
  DEF Next, Finished, CreateStep, EditStep, Writers

LEMMA EditsHoldRowStep ==
    ASSUME Inductive, [Next]_vars
    PROVE  EditsHoldRow'
<1>0. /\ TypeOK /\ EditsHoldRow
      /\ \A e \in Edits : target[e] \in Rows /\ e # None
      /\ \A e \in Edits : e \in Writers /\ e \in Requests /\ e \notin Creates
  BY RequestAssumption DEF Inductive, TypeOK, Rows, Requests, Writers
<1>1. CASE WritersAside
  BY <1>0, <1>1 DEF WritersAside, EditsHoldRow, inputs
<1>2. ASSUME NEW w \in Writers, CheckSku(w) \/ InsertKey(w) PROVE EditsHoldRow'
  BY <1>0, <1>2
  DEF CheckSku, InsertKey, EditsHoldRow, TypeOK, Goto, inputs, locks
<1>3. ASSUME NEW w \in Writers, CommitWrite(w) PROVE EditsHoldRow'
  BY <1>0, <1>3
  DEF CommitWrite, ReleaseLocks, EditsHoldRow, TypeOK, Goto, inputs
<1>4. ASSUME NEW e \in Edits, ReadProduct(e) PROVE EditsHoldRow'
  BY <1>0, <1>4 DEF ReadProduct, EditsHoldRow, TypeOK, Goto, inputs, locks
<1>5. ASSUME NEW e \in Edits, WriteRow(e) PROVE EditsHoldRow'
  BY <1>0, <1>5 DEF WriteRow, EditsHoldRow, TypeOK, Goto, inputs
<1>6. QED
  BY <1>1, <1>2, <1>3, <1>4, <1>5, NextCases

-----------------------------------------------------------------------------
(* Uniqueness of SKUs *)

\* An insertion that passes the index excludes every other claim to the SKU.
LEMMA InsertStep ==
    ASSUME Inductive, NEW w \in Writers, InsertKey(w)
    PROVE  SkuUnique' /\ WritesFresh' /\ WritesDiffer'
<1>1. UNCHANGED <<row, write, target>> /\ pc' = [pc EXCEPT ![w] = "commit"]
  BY DEF InsertKey, Goto, inputs
<1>2. \A v \in Writers : v \in Requests /\ RowOf(v)' = RowOf(v)
  BY <1>1 DEF RowOf, Requests
<1>3. ~InUse(write[w].sku, RowOf(w))
  BY DEF InsertKey
<1>4. \A v \in Writers \ {w} : pc[v] = "commit" => write[v].sku # write[w].sku
  BY DEF InsertKey, Claimants
<1>5. SkuUnique'
  BY <1>1 DEF Inductive, SkuUnique
<1>6. WritesFresh'
  BY <1>1, <1>2, <1>3 DEF Inductive, TypeOK, WritesFresh, InUse
<1>7. WritesDiffer'
  BY <1>1, <1>2, <1>4 DEF Inductive, TypeOK, WritesDiffer
<1>8. QED
  BY <1>5, <1>6, <1>7

\* A row whose SKU another writer is about to publish is that writer's row.
LEMMA WriteRowStep ==
    ASSUME Inductive, NEW e \in Edits, WriteRow(e)
    PROVE  SkuUnique' /\ WritesFresh' /\ WritesDiffer'
<1>1. UNCHANGED <<row, write, target>>
  BY DEF WriteRow, inputs
<1>2. \A v \in Writers : v \in Requests /\ RowOf(v)' = RowOf(v)
  BY <1>1 DEF RowOf, Requests
<1>3. e \in Writers /\ RowOf(e) = target[e] /\ target[e] \in Products /\ target[e] \in Rows
  BY RequestAssumption DEF Inductive, TypeOK, RowOf, Writers, Rows
<1>4. SkuUnique'
  BY <1>1 DEF Inductive, SkuUnique
<1>5. CASE Renames(e)
  <2>1. pc' = [pc EXCEPT ![e] = "index"]
    BY <1>5 DEF WriteRow, Goto
  <2>2. WritesFresh' /\ WritesDiffer'
    BY <1>1, <1>2, <1>3, <2>1
    DEF Inductive, TypeOK, WritesFresh, WritesDiffer, InUse
  <2>3. QED
    BY <1>4, <2>2
<1>6. CASE ~Renames(e) /\ write[e].sku = None
  <2>1. pc' = [pc EXCEPT ![e] = "commit"]
    BY <1>6 DEF WriteRow, Goto
  <2>2. WritesFresh' /\ WritesDiffer'
    BY <1>1, <1>2, <1>3, <1>6, <2>1
    DEF Inductive, TypeOK, WritesFresh, WritesDiffer, InUse
  <2>3. QED
    BY <1>4, <2>2
<1>7. CASE ~Renames(e) /\ write[e].sku # None
  <2>1. pc' = [pc EXCEPT ![e] = "commit"]
    BY <1>7 DEF WriteRow, Goto
  <2>2. row[target[e]].sku = write[e].sku
    BY <1>3, <1>7 DEF Renames
  <2>3. ~InUse(write[e].sku, target[e])
    BY <1>3, <1>7, <2>2 DEF Inductive, SkuUnique, InUse
  <2>4. \A v \in Writers \ {e} : pc[v] = "commit" => write[v].sku # write[e].sku
    <3>1. SUFFICES ASSUME NEW v \in Writers \ {e}, pc[v] = "commit",
                          write[v].sku = write[e].sku
                   PROVE  FALSE
      OBVIOUS
    <3>2. ~InUse(write[v].sku, RowOf(v))
      BY <1>7, <3>1 DEF Inductive, WritesFresh
    <3>3. RowOf(v) = target[e]
      BY <1>3, <2>2, <3>1, <3>2 DEF InUse
    <3>4. v \in Edits /\ target[v] = target[e]
      BY <1>3, <3>1, <3>3, RequestAssumption DEF RowOf, Writers
    <3>5. rowLock[target[e]] = v
      BY <3>1, <3>4 DEF Inductive, EditsHoldRow
    <3>6. QED
      BY <3>1, <3>5, RequestAssumption DEF WriteRow, Requests
  <2>5. WritesFresh'
    BY <1>1, <1>2, <1>3, <2>1, <2>3 DEF Inductive, TypeOK, WritesFresh, InUse
  <2>6. WritesDiffer'
    BY <1>1, <1>2, <1>3, <2>1, <2>4 DEF Inductive, TypeOK, WritesDiffer
  <2>7. QED
    BY <1>4, <2>5, <2>6
<1>8. QED
  BY <1>5, <1>6, <1>7

LEMMA CommitStep ==
    ASSUME Inductive, NEW w \in Writers, CommitWrite(w)
    PROVE  SkuUnique' /\ WritesFresh' /\ WritesDiffer'
<1>. DEFINE p == RowOf(w)
<1>1. UNCHANGED <<write, target>> /\ pc' = [pc EXCEPT ![w] = "done"]
  BY DEF CommitWrite, Goto, inputs
<1>2. \A v \in Writers : v \in Requests /\ RowOf(v)' = RowOf(v) /\ RowOf(v) \in Rows
  BY <1>1, RowOfType DEF RowOf, Requests, Inductive
<1>3. /\ \A q \in Rows \ {p} : row'[q] = row[q]
      /\ write[w].sku # None => row'[p].sku = write[w].sku
      /\ write[w].sku = None => row'[p].sku = row[p].sku
  BY <1>2, WrittenType DEF CommitWrite, Inductive, TypeOK
<1>4. pc[w] = "commit"
  BY DEF CommitWrite
<1>5. SkuUnique'
  <2>1. CASE write[w].sku = None
    BY <1>3, <2>1 DEF Inductive, SkuUnique
  <2>2. CASE write[w].sku # None
    <3>1. \A q \in Rows \ {p} : row[q].sku # write[w].sku
      BY <1>4, <2>2 DEF Inductive, WritesFresh, InUse
    <3>2. QED
      BY <1>3, <2>2, <3>1 DEF Inductive, SkuUnique
  <2>3. QED
    BY <2>1, <2>2
<1>6. WritesFresh'
  <2>1. SUFFICES ASSUME NEW v \in Writers, pc'[v] = "commit", write[v].sku # None,
                        NEW q \in Rows \ {RowOf(v)}, row'[q].sku = write[v].sku
                 PROVE  FALSE
    BY <1>1, <1>2 DEF WritesFresh, InUse
  <2>2. pc[v] = "commit" /\ v # w
    BY <1>1, <1>2, <2>1 DEF Inductive, TypeOK
  <2>3. row[q].sku # write[v].sku
    BY <2>1, <2>2 DEF Inductive, WritesFresh, InUse
  <2>4. q = p /\ write[w].sku # None
    BY <1>3, <2>1, <2>3
  <2>5. QED
    BY <1>3, <1>4, <2>1, <2>2, <2>4 DEF Inductive, WritesDiffer
<1>7. WritesDiffer'
  BY <1>1, <1>2 DEF Inductive, TypeOK, WritesDiffer
<1>8. QED
  BY <1>5, <1>6, <1>7

LEMMA SkuStep ==
    ASSUME Inductive, [Next]_vars
    PROVE  SkuUnique' /\ WritesFresh' /\ WritesDiffer'
<1>0. /\ TypeOK
      /\ \A w \in Writers : w \in Requests
      /\ \A e \in Edits : e \in Writers
  BY DEF Inductive, Requests, Writers
<1>1. CASE WritersAside
  <2>1. UNCHANGED <<row, write, target>>
    BY <1>1 DEF WritersAside, inputs
  <2>2. \A v \in Writers : RowOf(v)' = RowOf(v) /\ (pc'[v] = "commit" => pc[v] = "commit")
    BY <1>1, <2>1 DEF WritersAside, RowOf
  <2>3. QED
    BY <2>1, <2>2
    DEF Inductive, SkuUnique, WritesFresh, WritesDiffer, InUse
<1>2. ASSUME NEW w \in Writers, CheckSku(w)
      PROVE  SkuUnique' /\ WritesFresh' /\ WritesDiffer'
  <2>1. UNCHANGED <<row, write, target>>
    BY <1>2 DEF CheckSku, inputs
  <2>2. \A v \in Writers : RowOf(v)' = RowOf(v) /\ (pc'[v] = "commit" => pc[v] = "commit")
    BY <1>0, <1>2, <2>1 DEF CheckSku, Goto, RowOf, TypeOK
  <2>3. QED
    BY <2>1, <2>2
    DEF Inductive, SkuUnique, WritesFresh, WritesDiffer, InUse
<1>3. ASSUME NEW e \in Edits, ReadProduct(e)
      PROVE  SkuUnique' /\ WritesFresh' /\ WritesDiffer'
  <2>1. UNCHANGED <<row, target>> /\ \A v \in Writers \ {e} : write'[v] = write[v]
    BY <1>0, <1>3 DEF ReadProduct, inputs, TypeOK
  <2>2. \A v \in Writers : /\ RowOf(v)' = RowOf(v)
                           /\ pc'[v] = "commit" => pc[v] = "commit" /\ v # e
    BY <1>0, <1>3, <2>1 DEF ReadProduct, Goto, RowOf, TypeOK
  <2>3. QED
    BY <2>1, <2>2
    DEF Inductive, SkuUnique, WritesFresh, WritesDiffer, InUse
<1>4. QED
  BY <1>1, <1>2, <1>3, NextCases, InsertStep, CommitStep, WriteRowStep

LEMMA CreationsStep ==
    ASSUME Inductive, [Next]_vars
    PROVE  CreationsPending'
<1>0. /\ TypeOK /\ CreationsPending
      /\ \A c \in Creates : c \in Writers /\ c \in Requests /\ c \in Rows
                            /\ c \notin Edits /\ c \notin Products
      /\ \A e \in Edits : e \in Writers /\ target[e] \in Products
  BY RequestAssumption DEF Inductive, TypeOK, Writers, Requests, Rows
<1>1. CASE WritersAside
  BY <1>0, <1>1 DEF WritersAside, CreationsPending
<1>2. ASSUME NEW w \in Writers, CheckSku(w) \/ InsertKey(w)
      PROVE  CreationsPending'
  BY <1>0, <1>2 DEF CheckSku, InsertKey, Goto, CreationsPending, TypeOK
<1>3. ASSUME NEW w \in Writers, CommitWrite(w) PROVE CreationsPending'
  <2>1. \A c \in Creates : c # w => c # RowOf(w)
    BY <1>0, RowOfType
  <2>2. \A c \in Creates : c # w => row'[c] = row[c] /\ pc'[c] = pc[c]
    BY <1>0, <1>3, <2>1 DEF CommitWrite, Goto, TypeOK
  <2>3. w \in Creates => pc'[w] = "done"
    BY <1>0, <1>3 DEF CommitWrite, Goto, TypeOK
  <2>4. write' = write
    BY <1>3 DEF CommitWrite
  <2>5. QED
    BY <1>0, <2>2, <2>3, <2>4 DEF CreationsPending
<1>4. ASSUME NEW e \in Edits, ReadProduct(e) PROVE CreationsPending'
  BY <1>0, <1>4 DEF ReadProduct, Goto, CreationsPending, TypeOK
<1>5. ASSUME NEW e \in Edits, WriteRow(e) PROVE CreationsPending'
  BY <1>0, <1>5 DEF WriteRow, Goto, CreationsPending, TypeOK
<1>6. QED
  BY <1>1, <1>2, <1>3, <1>4, <1>5, NextCases

LEMMA InsertsNamedStep ==
    ASSUME Inductive, [Next]_vars
    PROVE  InsertsNamed'
<1>0. /\ TypeOK /\ InsertsNamed
      /\ \A w \in Writers : w \in Requests
      /\ \A e \in Edits : e \in Writers
  BY DEF Inductive, Requests, Writers
<1>1. CASE WritersAside
  BY <1>0, <1>1 DEF WritersAside, InsertsNamed
<1>2. ASSUME NEW w \in Writers, CheckSku(w) PROVE InsertsNamed'
  <2>1. w \in Creates => write[w].sku # None
    BY BodyAssumption, RequestAssumption
    DEF Inductive, CreationsPending, Contents
  <2>2. QED
    BY <1>0, <1>2, <2>1 DEF CheckSku, Goto, InsertsNamed, TypeOK
<1>3. ASSUME NEW w \in Writers, InsertKey(w) \/ CommitWrite(w)
      PROVE  InsertsNamed'
  BY <1>0, <1>3 DEF InsertKey, CommitWrite, Goto, InsertsNamed, TypeOK
<1>4. ASSUME NEW e \in Edits, ReadProduct(e) PROVE InsertsNamed'
  BY <1>0, <1>4 DEF ReadProduct, Goto, InsertsNamed, TypeOK
<1>5. ASSUME NEW e \in Edits, WriteRow(e) PROVE InsertsNamed'
  BY <1>0, <1>5 DEF WriteRow, Renames, Goto, InsertsNamed, TypeOK
<1>6. QED
  BY <1>1, <1>2, <1>3, <1>4, <1>5, NextCases

LEMMA ChecksStep ==
    ASSUME Inductive, [Next]_vars
    PROVE  ChecksHold'
<1>0. /\ TypeOK /\ ChecksHold
      /\ \A w \in Writers : w \in Requests /\ RowOf(w) \in Rows
      /\ \A e \in Edits : e \in Writers
  BY RowOfType DEF Inductive, Requests, Writers
<1>1. CASE WritersAside
  BY <1>0, <1>1 DEF WritersAside, ChecksHold, RowOf, inputs
<1>2. ASSUME NEW w \in Writers, CheckSku(w) PROVE ChecksHold'
  <2>1. UNCHANGED <<row, write, target>>
    BY <1>2 DEF CheckSku, inputs
  <2>2. \A v \in Writers : RowOf(v)' = RowOf(v)
    BY <2>1 DEF RowOf
  <2>3. \A v \in Writers \ {w} : pc'[v] = pc[v] /\ overtaken'[v] = overtaken[v]
    BY <1>0, <1>2 DEF CheckSku, Goto, TypeOK
  <2>4. pc'[w] \in {"write", "index"} => ~InUse(write[w].sku, RowOf(w))
    BY <1>0, <1>2 DEF CheckSku, Goto, SkuTaken, TypeOK
  <2>5. QED
    BY <1>0, <2>1, <2>2, <2>3, <2>4 DEF ChecksHold, InUse
<1>3. ASSUME NEW w \in Writers, InsertKey(w) PROVE ChecksHold'
  BY <1>0, <1>3 DEF InsertKey, Goto, ChecksHold, RowOf, TypeOK, inputs, history
<1>4. ASSUME NEW w \in Writers, CommitWrite(w) PROVE ChecksHold'
  <2>1. UNCHANGED <<write, target>> /\ pc' = [pc EXCEPT ![w] = "done"]
    BY <1>4 DEF CommitWrite, Goto, inputs
  <2>2. \A v \in Writers : RowOf(v)' = RowOf(v)
    BY <2>1 DEF RowOf
  <2>3. \A q \in Rows \ {RowOf(w)} : row'[q] = row[q]
    BY <1>0, <1>4 DEF CommitWrite, TypeOK
  <2>4. \A v \in Writers :
          /\ overtaken[v] \subseteq overtaken'[v]
          /\ row'[RowOf(w)].sku # row[RowOf(w)].sku => RowOf(w) \in overtaken'[v]
    BY <1>4 DEF CommitWrite
  <2>5. QED
    BY <1>0, <2>1, <2>2, <2>3, <2>4 DEF ChecksHold, TypeOK
<1>5. ASSUME NEW e \in Edits, ReadProduct(e) PROVE ChecksHold'
  <2>1. UNCHANGED <<row, target, overtaken>>
        /\ \A v \in Writers \ {e} : write'[v] = write[v] /\ pc'[v] = pc[v]
    BY <1>0, <1>5 DEF ReadProduct, Goto, inputs, history, TypeOK
  <2>2. write'[e].sku # None => pc'[e] = "check"
    BY <1>0, <1>5 DEF ReadProduct, Goto, TypeOK
  <2>3. \A v \in Writers : RowOf(v)' = RowOf(v)
    BY <2>1 DEF RowOf
  <2>4. QED
    BY <1>0, <2>1, <2>2, <2>3 DEF ChecksHold
<1>6. ASSUME NEW e \in Edits, WriteRow(e) PROVE ChecksHold'
  BY <1>0, <1>6 DEF WriteRow, Goto, ChecksHold, RowOf, TypeOK, inputs, history
<1>7. QED
  BY <1>1, <1>2, <1>3, <1>4, <1>5, <1>6, NextCases

-----------------------------------------------------------------------------
(* Carts *)

\* A step that changes nothing of the orders but may end one of them.
OrdersAside ==
    /\ UNCHANGED <<basket, row, copied, offered>>
    /\ \A o \in Orders : pc'[o] \in {pc[o], "done"}

LEMMA OrdersAsideStep ==
    ASSUME Inductive, OrdersAside
    PROVE  CartsOffered'
  BY DEF Inductive, OrdersAside, CartsOffered, OnSale

LEMMA RollbackOrdersAside ==
    ASSUME TypeOK, NEW r \in Requests, Rollback(r)
    PROVE  OrdersAside
  BY DEF OrdersAside, Rollback, Goto, TypeOK, inputs, cart, history, Requests

LEMMA CommitCarts ==
    ASSUME Inductive, NEW w \in Writers, CommitWrite(w)
    PROVE  CartsOffered'
<1>1. UNCHANGED <<basket, copied>> /\ \A o \in Orders : pc'[o] = pc[o]
  BY RequestAssumption
  DEF CommitWrite, Goto, Inductive, TypeOK, inputs, cart, Requests
<1>2. \A o \in Orders :
        /\ offered[o] \subseteq offered'[o]
        /\ pc[o] \in {"select", "item"} => OnSale' \subseteq offered'[o]
  BY DEF CommitWrite
<1>3. QED
  BY <1>1, <1>2 DEF Inductive, CartsOffered

LEMMA OrderCarts ==
    ASSUME Inductive, NEW o \in Orders, OrderStep(o)
    PROVE  CartsOffered'
<1>0. /\ TypeOK /\ CartsOffered /\ o \in Requests
      /\ basket[o] \in Seq(Products) /\ copied[o] \in Seq(Prices)
      /\ \A u \in Orders : u \in Requests
  BY BasketType DEF Inductive, Requests
<1>1. CASE ProductMissing(o)
  BY <1>0, <1>1, RollbackOrdersAside, OrdersAsideStep DEF ProductMissing
<1>2. CASE StartOrder(o)
  <2>1. UNCHANGED <<basket, row, copied>>
    BY <1>2 DEF StartOrder, inputs, cart
  <2>2. /\ \A u \in Orders \ {o} : pc'[u] = pc[u] /\ offered'[u] = offered[u]
        /\ offered'[o] = OnSale
        /\ pc[o] = "arrive"
        /\ pc'[o] = IF basket[o] = <<>> THEN "commit" ELSE "select"
    BY <1>0, <1>2 DEF StartOrder, Goto, TypeOK
  <2>3. OnSale' = OnSale
    BY <2>1 DEF OnSale
  <2>4. copied[o] = <<>> /\ (basket[o] # <<>> => Len(basket[o]) > 0)
    BY <1>0, <2>2 DEF CartsOffered
  <2>5. QED
    BY <1>0, <2>1, <2>2, <2>3, <2>4 DEF CartsOffered
<1>3. CASE SelectProduct(o)
  <2>. DEFINE n == Len(copied[o]) + 1
              price == IF n > 1 /\ basket[o][n] = basket[o][n - 1]
                       THEN copied[o][n - 1] ELSE row[basket[o][n]].price
  <2>1. /\ UNCHANGED <<basket, row, offered>>
        /\ copied' = [copied EXCEPT ![o] = Append(@, price)]
        /\ row[basket[o][n]].active /\ pc[o] = "select"
    BY <1>3 DEF SelectProduct, Position, inputs, history
  <2>2. /\ \A u \in Orders \ {o} : pc'[u] = pc[u] /\ copied'[u] = copied[u]
        /\ pc'[o] = "item" /\ copied'[o] = Append(copied[o], price)
    BY <1>0, <1>3, <2>1 DEF SelectProduct, Goto, TypeOK
  <2>3. n \in 1 .. Len(basket[o]) /\ basket[o][n] \in Products
    BY <1>0, <2>1 DEF CartsOffered
  <2>4. <<basket[o][n], price>> \in offered[o]
    <3>1. CASE n > 1 /\ basket[o][n] = basket[o][n - 1]
      <4>1. n - 1 \in 1 .. Len(copied[o])
        BY <1>0, <3>1
      <4>2. <<basket[o][n - 1], copied[o][n - 1]>> \in offered[o]
        BY <1>0, <4>1 DEF CartsOffered
      <4>3. QED
        BY <3>1, <4>2
    <3>2. CASE ~(n > 1 /\ basket[o][n] = basket[o][n - 1])
      <4>1. <<basket[o][n], row[basket[o][n]].price>> \in OnSale
        BY <2>1, <2>3 DEF OnSale
      <4>2. OnSale \subseteq offered[o]
        BY <1>0, <2>1 DEF CartsOffered
      <4>3. price = row[basket[o][n]].price
        BY <3>2
      <4>4. QED
        BY <4>1, <4>2, <4>3
    <3>3. QED
      BY <3>1, <3>2
  <2>5. price \in Prices
    BY <1>0, <2>3 DEF TypeOK, Contents
  <2>6. /\ Len(copied'[o]) = n /\ copied'[o][n] = price
        /\ \A i \in 1 .. Len(copied[o]) : copied'[o][i] = copied[o][i]
    BY <1>0, <2>2, <2>5
  <2>7. \A i \in 1 .. n : <<basket[o][i], copied'[o][i]>> \in offered[o]
    <3>1. SUFFICES ASSUME NEW i \in 1 .. n
                   PROVE  <<basket[o][i], copied'[o][i]>> \in offered[o]
      OBVIOUS
    <3>2. CASE i = n
      BY <2>4, <2>6, <3>2
    <3>3. CASE i # n
      <4>1. i \in 1 .. Len(copied[o])
        BY <1>0, <3>1, <3>3
      <4>2. QED
        BY <1>0, <2>6, <4>1 DEF CartsOffered
    <3>4. QED
      BY <3>2, <3>3
  <2>8. OnSale' = OnSale
    BY <2>1 DEF OnSale
  <2>9. n \in 1 .. Len(basket'[o]) /\ n <= Len(basket'[o])
    BY <2>1, <2>3
  <2>. HIDE DEF n, price
  <2>10. QED
    BY <1>0, <2>1, <2>2, <2>6, <2>7, <2>8, <2>9 DEF CartsOffered
<1>4. CASE InsertItem(o)
  <2>1. UNCHANGED <<basket, row, copied, offered>>
    BY <1>4 DEF InsertItem, inputs, cart, history
  <2>2. /\ \A u \in Orders \ {o} : pc'[u] = pc[u]
        /\ pc[o] = "item"
        /\ pc'[o] = IF Len(copied[o]) = Len(basket[o]) THEN "commit" ELSE "select"
    BY <1>0, <1>4 DEF InsertItem, Goto, TypeOK
  <2>3. OnSale' = OnSale
    BY <2>1 DEF OnSale
  <2>4. QED
    BY <1>0, <2>1, <2>2, <2>3 DEF CartsOffered
<1>5. CASE CommitOrder(o)
  <2>1. UNCHANGED <<basket, row, copied, offered>>
    BY <1>5 DEF CommitOrder, inputs, cart, history
  <2>2. /\ \A u \in Orders \ {o} : pc'[u] = pc[u]
        /\ pc[o] = "commit" /\ pc'[o] = "created"
    BY <1>0, <1>5 DEF CommitOrder, Goto, TypeOK
  <2>3. OnSale' = OnSale
    BY <2>1 DEF OnSale
  <2>4. QED
    BY <1>0, <2>1, <2>2, <2>3 DEF CartsOffered
<1>6. QED
  BY <1>1, <1>2, <1>3, <1>4, <1>5 DEF OrderStep

LEMMA CartsStep ==
    ASSUME Inductive, [Next]_vars
    PROVE  CartsOffered'
<1>0. TypeOK /\ \A o \in Orders : o \in Requests
  BY DEF Inductive, Requests
<1>1. ASSUME NEW w \in Writers,
             CheckSku(w) \/ InsertKey(w) \/ UniqueViolation(w)
      PROVE  CartsOffered'
  <2>1. CASE UniqueViolation(w)
    BY <1>0, <2>1, RollbackOrdersAside, OrdersAsideStep
    DEF UniqueViolation, Requests
  <2>2. CASE CheckSku(w) \/ InsertKey(w)
    <3>1. UNCHANGED <<basket, row, copied, offered>>
      BY <2>2 DEF CheckSku, InsertKey, inputs, cart, history
    <3>2. \A o \in Orders : pc'[o] = pc[o]
      BY <1>0, <2>2, RequestAssumption DEF CheckSku, InsertKey, Goto, TypeOK
    <3>3. QED
      BY <3>1, <3>2, OrdersAsideStep DEF OrdersAside
  <2>3. QED
    BY <1>1, <2>1, <2>2
<1>2. ASSUME NEW e \in Edits, ReadProduct(e) \/ WriteRow(e)
      PROVE  CartsOffered'
  <2>1. UNCHANGED <<basket, row, copied, offered>>
    BY <1>2 DEF ReadProduct, WriteRow, inputs, cart, history
  <2>2. \A o \in Orders : o # e
    BY RequestAssumption DEF Writers
  <2>3. \A o \in Orders : pc'[o] = pc[o]
    BY <1>0, <1>2, <2>2 DEF ReadProduct, WriteRow, Goto, TypeOK
  <2>4. QED
    BY <2>1, <2>3, OrdersAsideStep DEF OrdersAside
<1>3. ASSUME NEW k \in Confirms, ConfirmStep(k) PROVE CartsOffered'
  <2>1. CASE CommitConfirm(k)
    BY <1>0, <2>1, RollbackOrdersAside, OrdersAsideStep
    DEF CommitConfirm, Requests
  <2>2. CASE StartConfirm(k) \/ LockProduct(k) \/ UpdateProduct(k)
    <3>1. UNCHANGED <<basket, row, copied, offered>>
      BY <2>2 DEF StartConfirm, LockProduct, UpdateProduct, inputs, history
    <3>2. \E l : pc' = [pc EXCEPT ![k] = l]
      BY <2>2, Zenon
      DEF StartConfirm, LockProduct, UpdateProduct, NextLock, Goto
    <3>3. \A o \in Orders : o # k
      BY RequestAssumption
    <3>4. QED
      BY <1>0, <3>1, <3>2, <3>3, OrdersAsideStep DEF OrdersAside, TypeOK
  <2>3. QED
    BY <1>3, <2>1, <2>2 DEF ConfirmStep
<1>4. ASSUME NEW r \in Requests, Fail(r) \/ DeadlockAbort(r) PROVE CartsOffered'
  BY <1>0, <1>4, RollbackOrdersAside, OrdersAsideStep DEF Fail, DeadlockAbort
<1>5. CASE UNCHANGED vars
  BY <1>5, OrdersAsideStep DEF vars, inputs, cart, history, OrdersAside
<1>6. QED
  BY <1>1, <1>2, <1>3, <1>4, <1>5, OrderCarts, CommitCarts
  DEF Next, Finished, CreateStep, EditStep, Writers

-----------------------------------------------------------------------------
(* Places and locks *)

\* Whoever ends gives up its locks.
LEMMA ReleaseKeeps ==
    ASSUME Inductive, NEW r \in Requests, NEW l \in Ended,
           ReleaseLocks(r), Goto(r, l), UNCHANGED <<target, todo, next>>
    PROVE  Places' /\ LocksHeld'
<1>0. /\ TypeOK /\ Places /\ LocksHeld
      /\ None \notin Requests
      /\ \A o \in Orders : o \in Requests
  BY RequestAssumption DEF Inductive, Requests
<1>1. \A q \in Requests : pc'[q] = IF q = r THEN l ELSE pc[q]
  BY <1>0 DEF Goto, TypeOK
<1>2. Places'
  BY <1>0, <1>1 DEF Places, Ended, Requests
<1>3. \A p \in Rows, q \in Requests :
         rowLock'[p] = q => q # r /\ rowLock[p] = q
  BY <1>0 DEF ReleaseLocks, TypeOK
<1>4. \A p \in Rows : \A o \in keyShare'[p] :
         o # r /\ o \in keyShare[p] /\ o \in Requests
  BY <1>0 DEF ReleaseLocks, TypeOK
<1>5. LocksHeld'
  BY <1>0, <1>1, <1>3, <1>4 DEF LocksHeld
<1>6. QED
  BY <1>2, <1>5

LEMMA RollbackKeeps ==
    ASSUME Inductive, NEW r \in Requests, Rollback(r)
    PROVE  Places' /\ LocksHeld'
  BY ReleaseKeeps DEF Rollback, Ended, inputs, cart

\* A step that leaves the locks alone and takes r to another place: one
\* that r may be at, and where it keeps the locks it has.
LEMMA MoveKeeps ==
    ASSUME Inductive, NEW r \in Requests, NEW l, Goto(r, l),
           UNCHANGED <<target, todo, next, rowLock, keyShare>>,
           r \notin Confirms, l # "lock",
           l = "index" => r \in Writers,
           l = "write" => r \in Edits,
           l = "item" => r \in Orders,
           pc[r] = "index" => l = "commit",
           pc[r] = "commit" => l = "commit",
           pc[r] \in {"select", "item"} => l \in {"select", "item", "commit"}
    PROVE  Places' /\ LocksHeld'
<1>0. /\ TypeOK /\ Places /\ LocksHeld
      /\ \A k \in Confirms : k \in Requests
  BY DEF Inductive, Requests
<1>1. \A q \in Requests : pc'[q] = IF q = r THEN l ELSE pc[q]
  BY <1>0 DEF Goto, TypeOK
<1>2. Places'
  BY <1>0, <1>1 DEF Places
<1>3. \A p \in Rows : \A o \in keyShare[p] : o \in Requests
  BY <1>0 DEF TypeOK, Requests
<1>4. LocksHeld'
  BY <1>0, <1>1, <1>3 DEF LocksHeld
<1>5. QED
  BY <1>2, <1>4

LEMMA WriterKeeps ==
    ASSUME Inductive, NEW w \in Writers,
           CheckSku(w) \/ InsertKey(w) \/ UniqueViolation(w) \/ CommitWrite(w)
    PROVE  Places' /\ LocksHeld'
<1>0. w \in Requests /\ w \notin Confirms /\ (w \notin Creates => w \in Edits)
  BY RequestAssumption DEF Requests, Writers
<1>1. CASE CheckSku(w)
  <2>1. UNCHANGED <<target, todo, next, rowLock, keyShare>>
    BY <1>1 DEF CheckSku, inputs, locks, cart
  <2>2. pc[w] \in {"arrive", "check"}
    BY <1>1 DEF CheckSku
  <2>3. PICK l : /\ Goto(w, l) /\ l \in {"done", "index", "write"}
                 /\ l = "write" => w \notin Creates
    BY <1>1 DEF CheckSku
  <2>4. QED
    BY <1>0, <2>1, <2>2, <2>3, MoveKeeps
<1>2. CASE InsertKey(w)
  <2>1. /\ UNCHANGED <<target, todo, next, rowLock, keyShare>>
        /\ pc[w] = "index" /\ Goto(w, "commit")
    BY <1>2 DEF InsertKey, inputs, locks, cart
  <2>2. QED
    BY <1>0, <2>1, MoveKeeps
<1>3. CASE UniqueViolation(w)
  BY <1>0, <1>3, RollbackKeeps DEF UniqueViolation
<1>4. CASE CommitWrite(w)
  BY <1>0, <1>4, ReleaseKeeps DEF CommitWrite, Ended, inputs, cart
<1>5. QED
  BY <1>1, <1>2, <1>3, <1>4

LEMMA EditKeeps ==
    ASSUME Inductive, NEW e \in Edits, ReadProduct(e) \/ WriteRow(e)
    PROVE  Places' /\ LocksHeld'
<1>0. /\ TypeOK /\ Places /\ LocksHeld
      /\ e \in Requests /\ e \in Writers /\ e \notin Confirms /\ e \notin Orders
  BY RequestAssumption DEF Inductive, Requests, Writers
<1>1. CASE ReadProduct(e)
  <2>1. UNCHANGED <<target, todo, next, rowLock, keyShare>> /\ pc[e] = "arrive"
    BY <1>1 DEF ReadProduct, inputs, locks, cart
  <2>2. PICK l \in {"check", "write", "done"} : Goto(e, l)
    BY <1>1 DEF ReadProduct
  <2>3. QED
    BY <1>0, <2>1, <2>2, MoveKeeps
<1>2. CASE WriteRow(e)
  <2>1. /\ UNCHANGED <<target, todo, next, keyShare>> /\ pc[e] = "write"
        /\ rowLock' = [rowLock EXCEPT ![target[e]] = e]
    BY <1>2 DEF WriteRow, inputs, cart
  <2>2. PICK l \in {"index", "commit"} : Goto(e, l)
    BY <1>2 DEF WriteRow
  <2>3. \A q \in Requests : pc'[q] = IF q = e THEN l ELSE pc[q]
    BY <1>0, <2>2 DEF Goto, TypeOK
  <2>4. \A k \in Confirms : k \in Requests /\ k # e
    BY <1>0 DEF Requests
  <2>5. Places'
    BY <1>0, <2>1, <2>3, <2>4 DEF Places
  <2>6. \A p \in Rows : rowLock'[p] = IF p = target[e] THEN e ELSE rowLock[p]
    BY <1>0, <2>1 DEF TypeOK
  <2>7. \A p \in Rows, q \in Requests :
           rowLock'[p] = q =>
              IF q = e THEN p = target[e] ELSE rowLock[p] = q
    BY <1>0, <2>1, <2>6 DEF LocksHeld
  <2>8. \A p \in Rows : \A o \in keyShare[p] : o \in Requests /\ o # e
    BY <1>0 DEF TypeOK, Requests
  <2>9. LocksHeld'
    BY <1>0, <2>1, <2>3, <2>7, <2>8 DEF LocksHeld
  <2>10. QED
    BY <2>5, <2>9
<1>3. QED
  BY <1>1, <1>2

LEMMA OrderKeeps ==
    ASSUME Inductive, NEW o \in Orders, OrderStep(o)
    PROVE  Places' /\ LocksHeld'
<1>0. /\ TypeOK /\ Places /\ LocksHeld
      /\ o \in Requests /\ o \notin Writers /\ o \notin Confirms
  BY RequestAssumption DEF Inductive, Requests
<1>1. CASE StartOrder(o)
  <2>1. UNCHANGED <<target, todo, next, rowLock, keyShare>> /\ pc[o] = "arrive"
    BY <1>1 DEF StartOrder, inputs, locks, cart
  <2>2. PICK l \in {"commit", "select"} : Goto(o, l)
    BY <1>1 DEF StartOrder
  <2>3. QED
    BY <1>0, <2>1, <2>2, MoveKeeps
<1>2. CASE SelectProduct(o)
  <2>1. /\ UNCHANGED <<target, todo, next, rowLock, keyShare>>
        /\ pc[o] = "select" /\ Goto(o, "item")
    BY <1>2 DEF SelectProduct, inputs, locks
  <2>2. QED
    BY <1>0, <2>1, MoveKeeps
<1>3. CASE ProductMissing(o)
  BY <1>0, <1>3, RollbackKeeps DEF ProductMissing
<1>4. CASE InsertItem(o)
  <2>1. UNCHANGED <<target, todo, next, rowLock>> /\ pc[o] = "item"
    BY <1>4 DEF InsertItem, inputs, cart
  <2>2. PICK l \in {"commit", "select"} : Goto(o, l)
    BY <1>4 DEF InsertItem
  <2>3. \A q \in Requests : pc'[q] = IF q = o THEN l ELSE pc[q]
    BY <1>0, <2>2 DEF Goto, TypeOK
  <2>4. Places'
    BY <1>0, <2>1, <2>3 DEF Places, Requests
  <2>5. \A p \in Rows : \A u \in keyShare'[p] :
           u \in Requests /\ (u = o \/ u \in keyShare[p])
    BY <1>0, <1>4 DEF InsertItem, TypeOK, Requests
  <2>6. LocksHeld'
    BY <1>0, <2>1, <2>3, <2>5 DEF LocksHeld, Writers
  <2>7. QED
    BY <2>4, <2>6
<1>5. CASE CommitOrder(o)
  BY <1>0, <1>5, ReleaseKeeps DEF CommitOrder, Ended, inputs, cart
<1>6. QED
  BY <1>1, <1>2, <1>3, <1>4, <1>5 DEF OrderStep

\* What choosing the next product to lock says of a confirmation.
LEMMA NextLockEffect ==
    ASSUME TypeOK, NEW k \in Confirms, NEW S \in SUBSET Products, NextLock(k, S)
    PROVE  /\ \A q \in Requests \ {k} : pc'[q] = pc[q]
           /\ pc'[k] \in {"lock", "commit"}
           /\ todo'[k] = S /\ (pc'[k] = "lock" => next'[k] \in S)
           /\ \A m \in Confirms \ {k} : todo'[m] = todo[m] /\ next'[m] = next[m]
<1>1. k \in Requests
  BY DEF Requests
<1>2. todo' = [todo EXCEPT ![k] = S]
  BY DEF NextLock
<1>3. CASE next' = [next EXCEPT ![k] = None] /\ Goto(k, "commit")
  BY <1>1, <1>2, <1>3 DEF TypeOK, Goto
<1>4. ASSUME NEW p \in S, next' = [next EXCEPT ![k] = p], Goto(k, "lock")
      PROVE  /\ pc'[k] = "lock" /\ next'[k] = p /\ todo'[k] = S
             /\ \A q \in Requests \ {k} : pc'[q] = pc[q]
             /\ \A m \in Confirms \ {k} : todo'[m] = todo[m] /\ next'[m] = next[m]
  BY <1>1, <1>2, <1>4 DEF TypeOK, Goto
<1>5. QED
  BY <1>3, <1>4 DEF NextLock

LEMMA ConfirmKeeps ==
    ASSUME Inductive, NEW k \in Confirms, ConfirmStep(k)
    PROVE  Places' /\ LocksHeld'
<1>0. /\ TypeOK /\ Places /\ LocksHeld
      /\ k \in Requests /\ k \notin Writers /\ k \notin Orders
      /\ \A m \in Confirms : m \in Requests
      /\ \A p \in Rows : \A o \in keyShare[p] : o \in Requests /\ o # k
  BY RequestAssumption DEF Inductive, Requests, TypeOK
<1>1. ASSUME NEW S \in SUBSET Products, NextLock(k, S) PROVE Places'
  BY <1>0, <1>1, NextLockEffect DEF Places
<1>2. CASE StartConfirm(k)
  <2>. DEFINE S == {basket[k][i] : i \in DOMAIN basket[k]}
  <2>1. S \in SUBSET Products
    BY <1>0, BodyAssumption DEF TypeOK
  <2>2. NextLock(k, S) /\ pc[k] = "arrive"
        /\ UNCHANGED <<target, rowLock, keyShare>>
    BY <1>2 DEF StartConfirm, inputs, locks
  <2>. HIDE DEF S
  <2>3. LocksHeld'
    BY <1>0, <2>1, <2>2, NextLockEffect DEF LocksHeld, Writers
  <2>4. QED
    BY <1>1, <2>1, <2>2, <2>3
<1>3. CASE LockProduct(k)
  <2>1. /\ pc[k] = "lock" /\ UNCHANGED <<target, keyShare, next>>
        /\ rowLock' = [rowLock EXCEPT ![next[k]] = k]
        /\ todo' = [todo EXCEPT ![k] = @ \ {next[k]}]
    BY <1>3 DEF LockProduct, inputs
  <2>2. /\ pc'[k] = "update"
        /\ \A q \in Requests \ {k} : pc'[q] = pc[q]
    BY <1>0, <1>3 DEF LockProduct, Goto, TypeOK
  <2>3. /\ todo'[k] = todo[k] \ {next[k]}
        /\ \A m \in Confirms \ {k} : todo'[m] = todo[m]
    BY <1>0, <2>1 DEF TypeOK
  <2>4. \A p \in Rows : rowLock'[p] = IF p = next[k] THEN k ELSE rowLock[p]
    BY <1>0, <2>1 DEF TypeOK
  <2>5. /\ \A p \in Rows : rowLock'[p] = k => p \notin todo'[k]
        /\ \A p \in Rows, q \in Requests \ {k} :
              rowLock'[p] = q => rowLock[p] = q
    BY <1>0, <2>3, <2>4 DEF LocksHeld, Writers
  <2>6. Places'
    BY <1>0, <2>1, <2>2, <2>3 DEF Places
  <2>7. LocksHeld'
    BY <1>0, <2>1, <2>2, <2>3, <2>5 DEF LocksHeld, Writers
  <2>8. QED
    BY <2>6, <2>7
<1>4. CASE UpdateProduct(k)
  <2>1. /\ todo[k] \in SUBSET Products /\ NextLock(k, todo[k])
        /\ pc[k] = "update" /\ UNCHANGED <<target, rowLock, keyShare>>
    BY <1>0, <1>4 DEF UpdateProduct, TypeOK, inputs, locks
  <2>2. LocksHeld'
    BY <1>0, <2>1, NextLockEffect DEF LocksHeld, Writers
  <2>3. QED
    BY <1>1, <2>1, <2>2
<1>5. CASE CommitConfirm(k)
  BY <1>0, <1>5, RollbackKeeps DEF CommitConfirm
<1>6. QED
  BY <1>2, <1>3, <1>4, <1>5 DEF ConfirmStep

LEMMA LocksStep ==
    ASSUME Inductive, [Next]_vars
    PROVE  Places' /\ LocksHeld'
<1>1. ASSUME NEW r \in Requests, Fail(r) \/ DeadlockAbort(r)
      PROVE  Places' /\ LocksHeld'
  BY <1>1, RollbackKeeps DEF Fail, DeadlockAbort
<1>2. CASE UNCHANGED vars
  BY <1>2 DEF vars, inputs, locks, cart, Inductive, Places, LocksHeld
<1>3. QED
  BY <1>1, <1>2, WriterKeeps, EditKeeps, OrderKeeps, ConfirmKeeps
  DEF Next, Finished, CreateStep, EditStep, Writers

-----------------------------------------------------------------------------
(* Theorems *)

LEMMA InductiveInit == Init => Inductive
<1>. SUFFICES ASSUME Init PROVE Inductive
  OBVIOUS
<1>1. TypeOK
  BY TypeInit
<1>2. SkuUnique
  <2>1. \A p \in Rows : row[p].sku # None => p \in Products /\ row[p] = InitRow[p]
    BY DEF Init, NoRow
  <2>2. QED
    BY <2>1, RowAssumption DEF SkuUnique
<1>3. \A r \in Requests : pc[r] = "arrive"
  BY DEF Init
<1>4. EditsHoldRow /\ WritesFresh /\ WritesDiffer /\ InsertsNamed /\ ChecksHold
  BY <1>3
  DEF EditsHoldRow, WritesFresh, WritesDiffer, InsertsNamed, ChecksHold,
      Requests, Writers
<1>5. CreationsPending
  BY RequestAssumption DEF Init, CreationsPending, Writers, Rows
<1>6. CartsOffered
  <2>1. \A o \in Orders : copied[o] = <<>> /\ pc[o] = "arrive"
                          /\ basket[o] \in Seq(Products)
    BY <1>1, <1>3, BasketType DEF Init, Requests
  <2>2. QED
    BY <2>1 DEF CartsOffered
<1>7. Places /\ LocksHeld
  <2>1. \A k \in Confirms : k \in Requests
    BY DEF Requests
  <2>2. \A p \in Rows : keyShare[p] = {} /\ rowLock[p] \notin Requests
    BY RequestAssumption DEF Init
  <2>3. QED
    BY <1>3, <2>1, <2>2 DEF Places, LocksHeld
<1>8. QED
  BY <1>1, <1>2, <1>4, <1>5, <1>6, <1>7 DEF Inductive

\* The inductive invariant, about which everything else is derived.
THEOREM InductiveCorrect == Spec => []Inductive
<1>1. Inductive /\ [Next]_vars => Inductive'
  <2>1. SUFFICES ASSUME Inductive, [Next]_vars PROVE Inductive'
    OBVIOUS
  <2>2. TypeOK' /\ EditsHoldRow'
    BY <2>1, TypeStep, EditsHoldRowStep
  <2>3. SkuUnique' /\ WritesFresh' /\ WritesDiffer'
    BY <2>1, SkuStep
  <2>4. CreationsPending' /\ InsertsNamed' /\ ChecksHold' /\ CartsOffered'
    BY <2>1, CreationsStep, InsertsNamedStep, ChecksStep, CartsStep
  <2>5. Places' /\ LocksHeld'
    BY <2>1, LocksStep
  <2>6. QED
    BY <2>2, <2>3, <2>4, <2>5 DEF Inductive
<1>2. QED
  BY <1>1, InductiveInit, PTL DEF Spec

\* Every reachable state is well typed: in particular a commit never
\* publishes a row of which only a part was filled in.
THEOREM TypeCorrect == Spec => []TypeOK
<1>1. Inductive => TypeOK
  BY DEF Inductive
<1>2. QED
  BY <1>1, InductiveCorrect, PTL

\* A SKU belongs to one product whatever creations and renames overlap.
THEOREM SkuCorrect == Spec => []SkuUnique
<1>1. Inductive => SkuUnique
  BY DEF Inductive
<1>2. QED
  BY <1>1, InductiveCorrect, PTL

\* The constraint refuses a write that passed the check of its endpoint only
\* because of a SKU committed in between.
THEOREM ViolationCorrect == Spec => []ViolationOnlyByRace
<1>1. Inductive => ViolationOnlyByRace
  BY DEF Inductive, ViolationOnlyByRace, InsertsNamed, ChecksHold
<1>2. QED
  BY <1>1, InductiveCorrect, PTL

\* A created order holds what was on sale at the prices asked while it was
\* created.
THEOREM ItemsCorrect == Spec => []ItemsOffered
<1>1. Inductive => ItemsOffered
  <2>1. SUFFICES ASSUME Inductive, NEW o \in Orders, pc[o] = "created"
                 PROVE  /\ Len(copied[o]) = Len(basket[o])
                        /\ \A n \in DOMAIN basket[o] :
                             <<basket[o][n], copied[o][n]>> \in offered[o]
    BY DEF ItemsOffered
  <2>2. basket[o] \in Seq(Products) /\ Len(copied[o]) = Len(basket[o])
    BY <2>1, BasketType DEF Inductive, CartsOffered
  <2>3. DOMAIN basket[o] = 1 .. Len(copied[o])
    BY <2>2
  <2>4. QED
    BY <2>1, <2>2, <2>3 DEF Inductive, CartsOffered
<1>2. QED
  BY <1>1, InductiveCorrect, PTL

\* A request waits for others that are not answered yet.
LEMMA WaitsForUnanswered ==
    ASSUME Inductive, NEW r \in Requests, NEW q, q \in WaitsFor(r)
    PROVE  q \in Requests /\ q # r /\ pc[q] \notin Ended
<1>0. /\ TypeOK /\ Places /\ LocksHeld /\ None \notin Requests
      /\ Writers \subseteq Requests /\ Orders \subseteq Requests
      /\ Products \subseteq Rows
      /\ Edits \subseteq Writers /\ Writers \cap Orders = {}
      /\ Confirms \cap Orders = {}
  BY RequestAssumption DEF Inductive, Requests, Rows, Writers
<1>1. ASSUME NEW p \in Rows, q = rowLock[p], q # None
      PROVE  /\ q \in Requests /\ q \notin Orders
             /\ pc[q] \in {"index", "commit", "lock", "update"}
             /\ (pc[q] = "lock" => q \in Confirms /\ p \notin todo[q])
  BY <1>0, <1>1 DEF LocksHeld, TypeOK, Places, Requests
<1>2. ASSUME NEW p \in Rows, q \in keyShare[p]
      PROVE  q \in Orders /\ pc[q] \in {"select", "item", "commit"}
  BY <1>0, <1>2 DEF LocksHeld, TypeOK
<1>3. CASE pc[r] = "index"
  <2>1. /\ q # r
        /\ \/ pc[q] = "commit" /\ q \in Writers
           \/ q # None /\ \E p \in Rows : q = rowLock[p]
    <3>1. WaitsFor(r) = Claimants(write[r].sku) \ {r}
      BY <1>3 DEF WaitsFor
    <3>2. \A s : q \in Claimants(s) =>
             \/ pc[q] = "commit" /\ q \in Writers
             \/ q # None /\ \E p \in Rows : q = rowLock[p]
      BY DEF Claimants
    <3>3. q \in Claimants(write[r].sku) \ {r}
      BY <3>1
    <3>4. QED
      BY <3>2, <3>3
  <2>2. QED
    BY <1>0, <1>1, <2>1 DEF Ended
<1>4. CASE pc[r] = "write"
  <2>1. r \in Edits /\ target[r] \in Rows
    BY <1>0, <1>4 DEF Places, TypeOK
  <2>2. (q = rowLock[target[r]] /\ q # None) \/ q \in keyShare[target[r]]
    BY <1>4 DEF WaitsFor
  <2>3. QED
    BY <1>0, <1>1, <1>2, <1>4, <2>1, <2>2 DEF Ended
<1>5. CASE pc[r] = "lock"
  <2>1. r \in Confirms /\ next[r] \in todo[r] /\ next[r] \in Rows
    BY <1>0, <1>5 DEF Places, TypeOK
  <2>2. (q = rowLock[next[r]] /\ q # None) \/ q \in keyShare[next[r]]
    BY <1>5 DEF WaitsFor
  <2>3. QED
    BY <1>0, <1>1, <1>2, <1>5, <2>1, <2>2 DEF Ended
<1>6. CASE pc[r] = "item"
  <2>. DEFINE p == basket[r][Len(copied[r])]
  <2>1. r \in Orders /\ Len(copied[r]) \in 1 .. Len(basket[r])
    BY <1>0, <1>6 DEF Places, Inductive, CartsOffered
  <2>2. p \in Rows
    BY <1>0, <2>1, BasketType
  <2>3. q = rowLock[p] /\ q # None
    BY <1>6 DEF WaitsFor, Exclusive
  <2>. HIDE DEF p
  <2>4. QED
    BY <1>1, <2>1, <2>2, <2>3 DEF Ended
<1>7. QED
  BY <1>3, <1>4, <1>5, <1>6 DEF WaitsFor

\* No request waits for ever without the deadlock detector seeing why: no
\* lock outlives its transaction, and requests that all wait contain a cycle.
THEOREM HangsCorrect == Spec => []NobodyHangs
<1>1. ASSUME Inductive PROVE NobodyHangs
  <2> DEFINE Unanswered == {r \in Requests : pc[r] \notin Ended}
  <2>1. \A r \in Requests : WaitsFor(r) \subseteq Unanswered \ {r}
    BY <1>1, WaitsForUnanswered
  <2>2. ASSUME Unanswered # {}, \A r \in Unanswered : WaitsFor(r) # {}
        PROVE  \E r \in Unanswered : InCycle(r)
    <3> DEFINE h == [r \in Unanswered |-> CHOOSE q \in WaitsFor(r) : TRUE]
    <3>1. \A r \in Unanswered : h[r] \in WaitsFor(r)
      BY <2>2
    <3>2. h \in [Unanswered -> Unanswered]
      BY <2>1, <3>1
    <3>3. IsFiniteSet(Unanswered) /\ Unanswered # {}
      BY <2>2, FiniteAssumption, FS_Subset
    <3>4. PICK D \in SUBSET Unanswered : Permutes(h, D)
      <4> HIDE DEF h, Unanswered
      <4>1. QED
        BY <3>2, <3>3, CycleExists
    <3>5. PICK r \in D : TRUE
      BY <3>4 DEF Permutes
    <3> HIDE DEF h
    <3> DEFINE f == [q \in D |-> h[q]]
    <3>6. /\ f \in [D -> D]
          /\ \A q \in D : f[q] \in WaitsFor(q)
          /\ \A q \in D : \E u \in D : f[u] = q
      BY <3>1, <3>4 DEF Permutes
    <3>7. D \in SUBSET {q \in Requests : WaitsFor(q) # {}}
      BY <2>2, <3>4
    <3>8. InCycle(r)
      BY <3>5, <3>6, <3>7 DEF InCycle
    <3>9. QED
      BY <3>5, <3>8
  <2>3. QED
    BY <2>1, <2>2 DEF NobodyHangs
<1>2. QED
  BY <1>1, InductiveCorrect, PTL

\* A commit is one atomic change of one product in the registry.
LEMMA CommitImplements ==
    ASSUME Inductive, Inductive', NEW w \in Writers, CommitWrite(w)
    PROVE  Registry!Next
<1>. DEFINE p == RowOf(w)
            new == Written(w, RowOf(w))
<1>1. p \in Rows /\ row' = [row EXCEPT ![p] = new] /\ pc[w] = "commit"
  BY RowOfType DEF CommitWrite, Inductive
<1>2. row'[p] = new /\ row' = [row EXCEPT ![p] = row'[p]]
  BY <1>1 DEF Inductive, TypeOK
<1>3. new \in Contents /\ new.sku # None
  BY WrittenType, RequestAssumption DEF Contents
<1>4. Registry!Free(row'[p].sku, p)
  <2>1. SkuUnique'
    BY DEF Inductive
  <2>2. \A q \in Rows \ {p} : row'[q] = row[q] /\ row'[q].sku # row'[p].sku
    BY <1>1, <1>2, <1>3, <2>1 DEF SkuUnique, Inductive, TypeOK
  <2>3. QED
    BY <2>2 DEF Registry!Free
<1>5. CASE w \in Creates
  <2>1. p = w /\ row[p] = NoRow
    BY <1>1, <1>5 DEF Inductive, CreationsPending, RowOf
  <2>2. new.active
    BY <1>5, BodyAssumption, RequestAssumption
    DEF Inductive, CreationsPending, Written, Contents
  <2>3. Registry!Add(p)
    BY <1>2, <1>3, <2>1, <2>2 DEF Registry!Add, Registry!Contents, NoRow, Contents
  <2>4. QED
    BY <1>1, <1>2, <1>4, <2>3 DEF Registry!Next
<1>6. CASE w \in Edits
  <2>1. p \in Products /\ row[p] \in Contents
    BY <1>6, RequestAssumption DEF Inductive, TypeOK, RowOf
  <2>2. row[p].sku # None
    BY <2>1, RequestAssumption DEF Contents
  <2>3. new.active => row[p].active
    BY <1>6, WrittenType
  <2>4. Registry!Change(p)
    BY <1>2, <1>3, <2>2, <2>3 DEF Registry!Change, Registry!Contents, Contents
  <2>5. QED
    BY <1>1, <1>2, <1>4, <2>4 DEF Registry!Next
<1>7. QED
  BY <1>5, <1>6 DEF Writers

\* Checks, locks and index insertions implement the registry.
THEOREM RegistryCorrect == Spec => ImplementsRegistry
<1>1. Init => Registry!Init
  <2>1. SUFFICES ASSUME Init, NEW p \in Rows, row[p].sku # None
                 PROVE  row[p] \in Contents /\ Registry!Free(row[p].sku, p)
    BY DEF Registry!Init, Registry!Contents, Contents
  <2>2. \A q \in Rows : row[q].sku # None => q \in Products /\ row[q] = InitRow[q]
    BY <2>1 DEF Init, NoRow
  <2>3. QED
    BY <2>1, <2>2, RowAssumption DEF Registry!Free
<1>2. Inductive /\ Inductive' /\ [Next]_vars => [Registry!Next]_row
  <2>1. SUFFICES ASSUME Inductive, Inductive', [Next]_vars
                 PROVE  Registry!Next \/ row' = row
    OBVIOUS
  <2>2. ASSUME NEW w \in Writers, CheckSku(w) \/ InsertKey(w) PROVE row' = row
    BY <2>2 DEF CheckSku, InsertKey
  <2>3. ASSUME NEW e \in Edits, ReadProduct(e) \/ WriteRow(e) PROVE row' = row
    BY <2>3 DEF ReadProduct, WriteRow
  <2>4. QED
    BY <2>1, <2>2, <2>3, NextCases, CommitImplements DEF WritersAside
<1>3. QED
  BY <1>1, <1>2, InductiveCorrect, PTL DEF Spec, ImplementsRegistry, Registry!Spec
=============================================================================

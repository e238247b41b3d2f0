---------------------------- MODULE SkuRegistry ----------------------------
(***************************************************************************)
(* What the product endpoints promise together, without statements, locks  *)
(* or requests: every change of the catalogue is one atomic step on one    *)
(* product, and a SKU belongs to one product, deleted ones included.       *)
(***************************************************************************)

CONSTANTS Rows, Skus, Prices, None

VARIABLE row   \* row[p]: sku, price and activity; sku None: no such product

Contents == [sku : Skus, price : Prices, active : BOOLEAN]

\* No product but p has the SKU s.
Free(s, p) == \A q \in Rows \ {p} : row[q].sku # s

Init == \A p \in Rows : row[p].sku # None =>
            row[p] \in Contents /\ Free(row[p].sku, p)

\* A new product is active.
Add(p) ==
    /\ row[p].sku = None
    /\ row'[p] \in Contents
    /\ row'[p].active

\* A product keeps its identity for ever, and a deleted one stays deleted.
Change(p) ==
    /\ row[p].sku # None
    /\ row'[p] \in Contents
    /\ row'[p].active => row[p].active

Next == \E p \in Rows :
    /\ Add(p) \/ Change(p)
    /\ Free(row'[p].sku, p)
    /\ row' = [row EXCEPT ![p] = row'[p]]

Spec == Init /\ [][Next]_row
=============================================================================

---------------------------- MODULE MCCatalogue ----------------------------
(* A small instance of Catalogue for TLC. *)
EXTENDS Catalogue, TLC

CONSTANTS c1, e1, e2, o1, k1, p1, p2, x, y, z

MCRow == p1 :> [sku |-> x, price |-> 1, active |-> TRUE] @@
         p2 :> [sku |-> y, price |-> 1, active |-> TRUE]

Body(sku, price, active) == [sku |-> sku, price |-> price, active |-> active]

\* Renames of either product to one SKU, the first with another price, that
\* price with the SKU the product has before, and a deletion.
MCEdits == << <<p1, Body(z, 2, None)>>, <<p2, Body(z, None, None)>>,
              <<p1, Body(x, 2, None)>>, <<p2, Body(None, None, FALSE)>> >>
MCChanges == {MCEdits[i] : i \in 1 .. Len(MCEdits)}

\* The SKU that the renames want.
MCAdditions == { [sku |-> z, price |-> 1, active |-> TRUE] }

\* Two items of one product, then another product.
MCBaskets == { <<p1, p1, p2>> }

\* The two edits are interchangeable: it is enough that the first does not
\* come after the second in MCEdits.  Symmetry would do the same, but not in
\* a run with liveness.
OrderedInit ==
    /\ Init
    /\ \E i, j \in 1 .. Len(MCEdits) :
          /\ i <= j
          /\ <<target[e1], body[e1]>> = MCEdits[i]
          /\ <<target[e2], body[e2]>> = MCEdits[j]

OrderedSpec == OrderedInit /\ [][Next]_vars /\ Fairness
=============================================================================

--------------------------- MODULE OrderLifecycle ---------------------------
(***************************************************************************)
(* What the order and stock endpoints promise together, without locks,     *)
(* transactions or requests: every change of an order is one atomic step   *)
(* on the status and the quantities.                                       *)
(*                                                                         *)
(* The orders in raced are those of which two updates have overlapped: the *)
(* API's asynchronous handler decides on an unlocked read, so from then on *)
(* only the deduction is promised, not the order of the transitions.       *)
(***************************************************************************)
EXTENDS Integers

CONSTANTS Orders, Products,
          Demand   \* Demand[o][p]: units of p that order o sells

VARIABLES status, stock,
          confirms,   \* how often the order was confirmed
          raced       \* orders of which two updates have overlapped

vars == <<status, stock, confirms, raced>>

Legal == { <<"pending", "confirmed">>, <<"pending", "cancelled">>,
           <<"confirmed", "cancelled">>, <<"confirmed", "fulfilled">> }

Init ==
    /\ status = [o \in Orders |-> "pending"]
    /\ stock \in [Products -> Nat]
    /\ confirms = [o \in Orders |-> 0]
    /\ raced = {}

Move(o, s) ==
    /\ o \in raced \/ <<status[o], s>> \in Legal
    /\ status' = [status EXCEPT ![o] = s]
    /\ UNCHANGED raced

\* All items or none; the order is never sold beyond the stock.
Confirm(o) ==
    /\ \A p \in Products : stock[p] >= Demand[o][p]
    /\ stock' = [p \in Products |-> stock[p] - Demand[o][p]]
    /\ confirms' = [confirms EXCEPT ![o] = @ + 1]
    /\ Move(o, "confirmed")

\* Cancelling puts nothing back into the stock.
Cancel(o) == Move(o, "cancelled") /\ UNCHANGED <<stock, confirms>>

\* Only what was sold is handed over.
Fulfil(o) ==
    /\ confirms[o] > 0
    /\ Move(o, "fulfilled")
    /\ UNCHANGED <<stock, confirms>>

\* An adjustment sets one quantity; which one is not promised.
SetQuantity(p) ==
    /\ stock'[p] \in Nat
    /\ stock' = [stock EXCEPT ![p] = stock'[p]]
    /\ UNCHANGED <<status, confirms, raced>>

\* Two updates of the order overlap.
Overlap(o) == raced' = raced \cup {o} /\ UNCHANGED <<status, stock, confirms>>

Next ==
    \/ \E o \in Orders : Confirm(o) \/ Cancel(o) \/ Fulfil(o) \/ Overlap(o)
    \/ \E p \in Products : SetQuantity(p)

Spec == Init /\ [][Next]_vars
=============================================================================

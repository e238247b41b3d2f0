---------------------------- MODULE MCOrderStock ----------------------------
(* Small instances of OrderStock for TLC. *)
EXTENDS OrderStock, TLC

CONSTANTS a1, a2, s1, s2, s3, d1, o1, o2, p1, p2

\* Both orders take from both products, so that their confirmations can
\* deadlock; p2 lacks one unit for both, so that the later one is refused.
MCDemand == (o1 :> (p1 :> 1 @@ p2 :> 1)) @@ (o2 :> (p1 :> 1 @@ p2 :> 2))
MCStock  == p1 :> 3 @@ p2 :> 2

\* Each of the orders sells all of p2 there is.
LastUnits == (o1 :> (p1 :> 0 @@ p2 :> 2)) @@ (o2 :> (p1 :> 0 @@ p2 :> 2))

\* A restock and a correction downwards.
MCChanges == {1, -1}

\* The requests of the API are interchangeable.
Symmetry == Permutations(AsyncRequests)
=============================================================================

---------------------------- MODULE MCCacheAside ----------------------------
(* Small instances of CacheAside for TLC. *)
EXTENDS CacheAside, Sequences

CONSTANTS r1, w1, w2, p1, p2, l1

\* The two writers are interchangeable: it is enough that the first has a
\* kind that does not come after that of the second.  Symmetry would do the
\* same, but not in a run with liveness.
MCKinds == <<"create", "adjust", "reprice", "confirm", "fulfil">>
OrderedInit ==
    /\ Init
    /\ \E i, j \in 1 .. Len(MCKinds) :
          i <= j /\ kind[w1] = MCKinds[i] /\ kind[w2] = MCKinds[j]

OrderedSpec == OrderedInit /\ [][Next]_vars /\ Fairness
=============================================================================

----------------------------- MODULE MCSessions -----------------------------
(* Small instances of Sessions for TLC. *)
EXTENDS Sessions, TLC

CONSTANTS r1, r2, shop, mill, ann, bob

\* Registrations are interchangeable, and so are emails of either sort.
Symmetry ==
    Permutations({r1, r2}) \cup Permutations({shop, mill}) \cup
    Permutations({ann, bob})
=============================================================================

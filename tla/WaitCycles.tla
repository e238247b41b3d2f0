----------------------------- MODULE WaitCycles -----------------------------
(***************************************************************************)
(* Why finitely many requests that all wait for each other wait in a       *)
(* circle: the fact about finite sets on which the absence of silent       *)
(* deadlocks in OrderStock and Catalogue rests.                            *)
(***************************************************************************)
EXTENDS FiniteSets, FiniteSetTheorems, WellFoundedInduction, TLAPS

\* Every nonempty family of subsets of a finite set has a member that
\* contains no other one.
LEMMA MinimalSubset ==
    ASSUME NEW C, IsFiniteSet(C), NEW T \in SUBSET SUBSET C, T # {}
    PROVE  \E D \in T : \A E \in T : E \subseteq D => E = D
<1>1. IsWellFoundedOn(StrictSubsetOrdering(C), SUBSET C)
  BY FS_StrictSubsetOrderingWellFounded, FS_FiniteSubsetsOfFinite
<1>2. PICK D \in T : \A E \in T : <<E, D>> \notin StrictSubsetOrdering(C)
  BY <1>1, WFMin
<1>3. ASSUME NEW E \in T, E \subseteq D PROVE E = D
  BY <1>2, <1>3 DEF StrictSubsetOrdering
<1>4. QED
  BY <1>3

\* h maps the set D onto itself.
Permutes(h, D) ==
    /\ D # {}
    /\ \A q \in D : h[q] \in D
    /\ \A q \in D : \E u \in D : h[u] = q

\* A function from a finite set into itself permutes some nonempty subset:
\* a smallest set that it maps into itself.
LEMMA CycleExists ==
    ASSUME NEW C, IsFiniteSet(C), C # {}, NEW h \in [C -> C]
    PROVE  \E D \in SUBSET C : Permutes(h, D)
<1> DEFINE T == {D \in SUBSET C : D # {} /\ \A q \in D : h[q] \in D}
<1>1. T \in SUBSET SUBSET C /\ C \in T
  OBVIOUS
<1>2. PICK D \in T : \A E \in T : E \subseteq D => E = D
  <2> HIDE DEF T
  <2>1. QED
    BY <1>1, MinimalSubset
<1> DEFINE E == {h[q] : q \in D}
<1>3. D \in SUBSET C /\ D # {} /\ \A q \in D : h[q] \in D
  BY <1>2
<1>4. E \subseteq D /\ E # {}
  BY <1>3
<1>5. \A q \in E : h[q] \in E
  BY <1>4
<1>6. E \in T
  BY <1>3, <1>4, <1>5
<1>7. E = D
  BY <1>2, <1>4, <1>6
<1>8. QED
  BY <1>3, <1>7 DEF Permutes
=============================================================================

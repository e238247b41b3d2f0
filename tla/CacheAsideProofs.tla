-------------------------- MODULE CacheAsideProofs --------------------------
(***************************************************************************)
(* Proofs about CacheAside for every set of readers, writers and keys.     *)
(***************************************************************************)
EXTENDS CacheAside, TLAPS

LEMMA EvictType ==
    ASSUME TypeOK, NEW S, Evict(S)
    PROVE  /\ cache' \in [Keys -> (Nat \X Nat) \cup {None}]
           /\ current' \in [Keys -> BOOLEAN]
  BY DEF TypeOK, Evict

LEMMA EvictEffect ==
    ASSUME TypeOK, NEW S, Evict(S), NEW k \in Keys
    PROVE  /\ k \in S => cache'[k] = None
           /\ k \notin S => cache'[k] = cache[k] /\ current'[k] = current[k]
  BY DEF TypeOK, Evict

LEMMA TypeInit == Init => TypeOK
  BY DEF Init, TypeOK, Keys

LEMMA TypeStep == TypeOK /\ [Next]_vars => TypeOK'
<1>. SUFFICES ASSUME TypeOK, [Next]_vars PROVE TypeOK'
  OBVIOUS
<1>. USE DEF inputs, redis, scan, writers, readers
<1>1. ASSUME NEW r \in Readers, Query(r) PROVE TypeOK'
  BY <1>1 DEF Query, TypeOK
<1>1a. ASSUME NEW r \in Readers, QueryItems(r) PROVE TypeOK'
  BY <1>1a DEF QueryItems, TypeOK
<1>2. ASSUME NEW r \in Readers, Store(r) PROVE TypeOK'
  BY <1>2 DEF Store, Idle, TypeOK, Keys
<1>3. ASSUME NEW r \in Readers, StoreLost(r) PROVE TypeOK'
  BY <1>3 DEF StoreLost, Idle, TypeOK, Keys
<1>4. ASSUME NEW w \in Writers, Mutate(w) PROVE TypeOK'
  <2>1. version' \in [Keys -> Nat]
    BY <1>4 DEF Mutate, TypeOK
  <2>2. wpc' \in [Writers ->
          {"mutate", "detail", "scan", "delete", "report", "done"}]
    BY <1>4 DEF Mutate, WriterAt, TypeOK, Kinds
  <2>3. QED
    BY <1>4, <2>1, <2>2 DEF Mutate, ToScan, TypeOK
<1>5. ASSUME NEW w \in Writers, DeleteDetail(w) PROVE TypeOK'
  BY <1>5, EvictType DEF DeleteDetail, WriterAt, TypeOK
<1>6. ASSUME NEW w \in Writers, Scan(w) PROVE TypeOK'
  BY <1>6 DEF Scan, Present, WriterAt, TypeOK
<1>7. ASSUME NEW w \in Writers, DeleteScanned(w) PROVE TypeOK'
  BY <1>7, EvictType DEF DeleteScanned, WriterAt, AfterPattern, TypeOK
<1>8. ASSUME NEW w \in Writers, DeleteReport(w) PROVE TypeOK'
  BY <1>8, EvictType DEF DeleteReport, WriterAt, TypeOK
<1>9. ASSUME NEW w \in Writers, CallLost(w) PROVE TypeOK'
  BY <1>9 DEF CallLost, EndScan, WriterAt, AfterPattern, TypeOK
<1>10. ASSUME NEW w \in Writers, Crash(w) PROVE TypeOK'
  BY <1>10 DEF Crash, EndScan, WriterAt, TypeOK
<1>11. ASSUME NEW k \in Keys, Expire(k) PROVE TypeOK'
  BY <1>11 DEF Expire, TypeOK
<1>12. CASE UNCHANGED vars
  BY <1>12 DEF TypeOK, vars
<1>13. QED
  BY <1>1, <1>1a, <1>2, <1>3, <1>4, <1>5, <1>6, <1>7, <1>8, <1>9, <1>10, <1>11, <1>12
  DEF Next, WriterStep

\* Every variable keeps its type; a pattern scan returns product keys only.
THEOREM TypeCorrect == Spec => []TypeOK
  BY TypeInit, TypeStep, PTL DEF Spec

-----------------------------------------------------------------------------
(* Frames *)

LEMMA InputsFixed == [Next]_vars => UNCHANGED inputs
  BY DEF Next, vars, inputs, WriterStep, Query, QueryItems, Store, StoreLost,
     Idle, Mutate, DeleteDetail, Scan, DeleteScanned, DeleteReport, CallLost,
     Crash, Expire

\* A writer's step leaves the progress of the others alone.
LEMMA OthersKept ==
    ASSUME TypeOK, NEW w \in Writers, WriterStep(w) \/ CallLost(w) \/ Crash(w),
           NEW v \in Writers, v # w
    PROVE  /\ wpc'[v] = wpc[v]
           /\ unscanned'[v] = unscanned[v]
           /\ scanned'[v] = scanned[v]
           /\ faulty'[v] = faulty[v]
<1>. USE DEF TypeOK, WriterAt, scan, writers, readers
<1>1. CASE Mutate(w)
  BY <1>1 DEF Mutate
<1>2. CASE DeleteDetail(w) \/ DeleteReport(w)
  BY <1>2 DEF DeleteDetail, DeleteReport
<1>3. CASE Scan(w)
  BY <1>3 DEF Scan
<1>4. CASE DeleteScanned(w)
  BY <1>4 DEF DeleteScanned
<1>5. CASE CallLost(w)
  BY <1>5 DEF CallLost, EndScan
<1>6. CASE Crash(w)
  BY <1>6 DEF Crash, EndScan
<1>7. QED
  BY <1>1, <1>2, <1>3, <1>4, <1>5, <1>6 DEF WriterStep

\* An entry that is stale after a deletion was not deleted and was stale.
LEMMA EvictSpares ==
    ASSUME TypeOK, NEW S, Evict(S), UNCHANGED version,
           NEW k \in Keys, Stale(k)', current'[k]
    PROVE  k \notin S /\ Stale(k) /\ current[k]
  BY EvictEffect DEF Stale, Fresh

-----------------------------------------------------------------------------
(* Staleness *)

LEMMA InductiveInit == Init => Inductive
<1>. SUFFICES ASSUME Init PROVE Inductive
  OBVIOUS
<1>1. TypeOK
  BY TypeInit
<1>2. ScanInv
  BY DEF Init, ScanInv
<1>3. OwedInv
  BY DEF Init, OwedInv, Stale, ProductKeys, Keys
<1>4. QED
  BY <1>1, <1>2, <1>3 DEF Inductive

LEMMA ScanStep == TypeOK /\ ScanInv /\ [Next]_vars => ScanInv'
<1>. SUFFICES ASSUME TypeOK, ScanInv, [Next]_vars, NEW w \in Writers
              PROVE  /\ wpc'[w] = "mutate" => ~faulty'[w]
                     /\ wpc'[w] \in {"mutate", "report", "done"}
                           => scanned'[w] = {}
                     /\ wpc'[w] \notin {"detail", "scan"} => unscanned'[w] = {}
  BY DEF ScanInv
<1> DEFINE Goal == /\ wpc'[w] = "mutate" => ~faulty'[w]
                   /\ wpc'[w] \in {"mutate", "report", "done"}
                         => scanned'[w] = {}
                   /\ wpc'[w] \notin {"detail", "scan"} => unscanned'[w] = {}
<1>1. /\ wpc[w] = "mutate" => ~faulty[w]
      /\ wpc[w] \in {"mutate", "report", "done"} => scanned[w] = {}
      /\ wpc[w] \notin {"detail", "scan"} => unscanned[w] = {}
  BY DEF ScanInv
<1>2. CASE UNCHANGED writers
  BY <1>1, <1>2 DEF writers, scan
<1>3. ASSUME NEW v \in Writers, WriterStep(v) \/ CallLost(v) \/ Crash(v)
      PROVE  Goal
  <2>. USE DEF TypeOK, WriterAt, scan
  <2>1. CASE v # w
    BY <1>1, <1>3, <2>1, OthersKept
  <2>2. CASE v = w /\ Mutate(w)
    BY <1>1, <2>2 DEF Mutate, Kinds, ToScan
  <2>3. CASE v = w /\ (DeleteDetail(w) \/ DeleteReport(w))
    BY <1>1, <2>3 DEF DeleteDetail, DeleteReport
  <2>4. CASE v = w /\ Scan(w)
    BY <1>1, <2>4 DEF Scan
  <2>5. CASE v = w /\ DeleteScanned(w)
    BY <1>1, <2>5 DEF DeleteScanned, AfterPattern
  <2>6. CASE v = w /\ CallLost(w)
    BY <1>1, <2>6 DEF CallLost, EndScan, AfterPattern
  <2>7. CASE v = w /\ Crash(w)
    BY <1>1, <2>7 DEF Crash, EndScan
  <2>8. QED
    BY <1>3, <2>1, <2>2, <2>3, <2>4, <2>5, <2>6, <2>7 DEF WriterStep
<1>4. QED
  BY <1>2, <1>3
  DEF Next, Query, QueryItems, Store, StoreLost, Idle, Expire, vars

LEMMA OwedStep == TypeOK /\ ScanInv /\ OwedInv /\ [Next]_vars => OwedInv'
<1>. SUFFICES ASSUME TypeOK, ScanInv, OwedInv, [Next]_vars,
                     NEW k \in ProductKeys, Stale(k)', current'[k]
              PROVE  \E w \in Writers : Owes(w, k)'
  BY DEF OwedInv
<1>. USE DEF redis, scan, writers, readers
<1>1. TypeOK' /\ k \in Keys
  BY TypeStep DEF Keys
<1>2. \A v \in Writers : (k \in Touches(v))' <=> k \in Touches(v)
  BY InputsFixed DEF inputs, Touches
<1>3. Stale(k) /\ current[k] => \E w \in Writers : Owes(w, k)
  BY DEF OwedInv
\* Whoever owed k still does, unless it is the one that steps.
<1>4. ASSUME NEW w \in Writers, WriterStep(w) \/ CallLost(w) \/ Crash(w),
             NEW v \in Writers, v # w, Owes(v, k)
      PROVE  Owes(v, k)'
  BY <1>2, <1>4, OthersKept DEF Owes
<1>5. CASE UNCHANGED <<version, redis, writers>>
  BY <1>2, <1>3, <1>5 DEF Stale, Fresh, Owes
<1>6. ASSUME NEW r \in Readers, Store(r) PROVE \E w \in Writers : Owes(w, k)'
  BY <1>1, <1>2, <1>3, <1>6 DEF Store, Idle, Stale, Fresh, Owes, TypeOK
<1>7. ASSUME NEW w \in Writers, Mutate(w) PROVE \E v \in Writers : Owes(v, k)'
  <2>1. CASE k \in Touches(w)
    <3>1. kind[w] # "fulfil"
      BY <2>1, KeyAssumption DEF Touches
    <3>2. k \in unscanned'[w]
      BY <1>7, <3>1 DEF Mutate, ToScan, TypeOK
    <3>3. QED
      BY <1>2, <2>1, <3>2 DEF Owes
  <2>2. CASE k \notin Touches(w)
    <3>1. version'[k] = version[k] /\ UNCHANGED redis
      BY <1>1, <1>7, <2>2 DEF Mutate, TypeOK
    <3>2. Stale(k) /\ current[k]
      BY <3>1 DEF Stale, Fresh
    <3>3. QED
      BY <1>3, <1>4, <1>7, <2>2, <3>2 DEF WriterStep, Owes
  <2>3. QED
    BY <2>1, <2>2
<1>8. ASSUME NEW w \in Writers, DeleteDetail(w) \/ DeleteReport(w)
      PROVE  \E v \in Writers : Owes(v, k)'
  <2>1. Stale(k) /\ current[k]
    BY <1>1, <1>8, EvictSpares DEF DeleteDetail, DeleteReport
  <2>2. Owes(w, k) => Owes(w, k)'
    BY <1>2, <1>8 DEF DeleteDetail, DeleteReport, Owes
  <2>3. QED
    BY <1>3, <1>4, <1>8, <2>1, <2>2 DEF WriterStep
<1>9. ASSUME NEW w \in Writers, Scan(w) PROVE \E v \in Writers : Owes(v, k)'
  <2>1. Stale(k) /\ current[k]
    BY <1>9 DEF Scan, Stale, Fresh
  <2>2. cache[k] # None
    BY <2>1 DEF Stale
  <2>3. Owes(w, k) => Owes(w, k)'
    BY <1>2, <1>9, <2>2 DEF Scan, Present, Owes, TypeOK
  <2>4. QED
    BY <1>3, <1>4, <1>9, <2>1, <2>3 DEF WriterStep
<1>10. ASSUME NEW w \in Writers, DeleteScanned(w)
       PROVE  \E v \in Writers : Owes(v, k)'
  <2>1. k \notin scanned[w] /\ Stale(k) /\ current[k]
    BY <1>1, <1>10, EvictSpares DEF DeleteScanned
  <2>2. Owes(w, k) => Owes(w, k)'
    BY <1>2, <1>10, <2>1 DEF DeleteScanned, Owes
  <2>3. QED
    BY <1>3, <1>4, <1>10, <2>1, <2>2 DEF WriterStep
<1>11. ASSUME NEW w \in Writers, CallLost(w) \/ Crash(w)
       PROVE  \E v \in Writers : Owes(v, k)'
  <2>1. Stale(k) /\ current[k]
    BY <1>11 DEF CallLost, Crash, Stale, Fresh
  <2>2. faulty'[w]
    BY <1>11 DEF CallLost, Crash, TypeOK
  <2>3. Owes(w, k) => Owes(w, k)'
    BY <1>2, <2>2 DEF Owes
  <2>4. QED
    BY <1>3, <1>4, <1>11, <2>1, <2>3
<1>12. ASSUME NEW j \in Keys, Expire(j) PROVE \E w \in Writers : Owes(w, k)'
  <2>1. Stale(k) /\ current[k]
    BY <1>1, <1>12 DEF Expire, Stale, Fresh, TypeOK
  <2>2. QED
    BY <1>2, <1>3, <1>12, <2>1 DEF Expire, Owes
<1>13. ASSUME NEW r \in Readers, Query(r) \/ QueryItems(r) \/ StoreLost(r)
       PROVE  UNCHANGED <<version, redis, writers>>
  BY <1>13 DEF Query, QueryItems, StoreLost, Idle
<1>14. CASE UNCHANGED vars
  BY <1>5, <1>14 DEF vars
<1>15. QED
  BY <1>5, <1>6, <1>7, <1>8, <1>9, <1>10, <1>11, <1>12, <1>13, <1>14
  DEF Next, WriterStep

LEMMA InductiveStep == Inductive /\ [Next]_vars => Inductive'
  BY TypeStep, ScanStep, OwedStep DEF Inductive

\* Whatever was deleted, lost or stored again, for every entry that went
\* stale some writer owes a delete.
THEOREM InductiveCorrect == Spec => []Inductive
  BY InductiveInit, InductiveStep, PTL DEF Spec

\* However scans, fills, expiries and lost calls interleave, a product entry
\* that was up to date when stored is stale only while or after a mutation
\* of it has not finished its deletes.
THEOREM StalenessCorrect == Spec => []ProductStalenessExplained
<1>1. Inductive => ProductStalenessExplained
  BY DEF Inductive, ScanInv, OwedInv, ProductStalenessExplained, Owes, Unsettled
<1>2. QED
  BY <1>1, InductiveCorrect, PTL
=============================================================================

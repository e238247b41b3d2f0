----------------------------- MODULE CacheAside -----------------------------
(***************************************************************************)
(* The Redis cache beside the database: readers that fill it on a miss     *)
(* (list_products, get_product, sales_report) and the invalidation that    *)
(* the mutations of products and orders send after their commit.           *)
(*                                                                         *)
(* An answer is abstracted to versions: the number of commits that had     *)
(* changed it when its first and when its last statement read the          *)
(* database.  A hit changes nothing here.  Every Redis call may fail;      *)
(* CacheService swallows the exception, so a failed get is a miss and a    *)
(* failed set or delete does nothing.                                      *)
(***************************************************************************)
EXTENDS Integers

CONSTANTS
    Readers, Writers,
    Products,   \* also the keys products:detail:{product_id}
    Lists,      \* the keys products:list:{page}:{limit}:{filters}
    Report,     \* the key reports:sales:{current month}
    None

ProductKeys == Products \cup Lists      \* what products:* matches
Keys        == ProductKeys \cup {Report}

ASSUME KeyAssumption ==
    /\ Products \cap Lists = {}
    /\ Report \notin ProductKeys
    /\ None \notin Nat \X Nat

\* create   POST /products
\* adjust   POST /products/{id}/adjust, PUT and DELETE /products/{id}
\* reprice  PUT /products/{id} with a new cost_price, of a product sold
\* confirm  PATCH /orders/{id}/status to confirmed
\* fulfil   the same to fulfilled
Kinds == {"create", "adjust", "reprice", "confirm", "fulfil"}

VARIABLES
    kind, items,  \* what each writer does, and to which products
    version,      \* version[k]: commits so far that changed the answer of k
    cache,        \* cache[k]: the answer stored under k, or None
    current,      \* current[k]: the entry of k was up to date when stored
    wpc,          \* progress of a writer
    unscanned,    \* the keys its SCAN has not come to
    scanned,      \* the keys its SCAN has returned
    faulty,       \* writers that lost a Redis call or their process
    rpc, wanted, seen   \* progress of a reader, its key, what it read

inputs  == <<kind, items>>
redis   == <<cache, current>>
scan    == <<unscanned, scanned>>
writers == <<wpc, scan, faulty>>
readers == <<rpc, wanted, seen>>
vars    == <<inputs, version, redis, writers, readers>>

\* The keys whose answer the mutation of w changes.
Touches(w) ==
    CASE kind[w] = "create"  -> Lists
      [] kind[w] = "adjust"  -> items[w] \cup Lists
      [] kind[w] = "reprice" -> items[w] \cup Lists \cup {Report}
      [] kind[w] = "confirm" -> items[w] \cup Lists
      [] kind[w] = "fulfil"  -> {Report}

\* One product, or those of the order that is confirmed.
MayChange(k, S) == S # {} /\ (k = "confirm" \/ \E p \in Products : S = {p})

Init ==
    /\ kind \in [Writers -> Kinds]
    /\ items \in {f \in [Writers -> SUBSET Products] :
                    \A w \in Writers : MayChange(kind[w], f[w])}
    /\ version = [k \in Keys |-> 0]
    /\ cache = [k \in Keys |-> None]
    /\ current = [k \in Keys |-> TRUE]
    /\ wpc = [w \in Writers |-> "mutate"]
    /\ unscanned = [w \in Writers |-> {}]
    /\ scanned = [w \in Writers |-> {}]
    /\ faulty = [w \in Writers |-> FALSE]
    /\ rpc = [r \in Readers |-> "idle"]
    /\ wanted = [r \in Readers |-> Report]
    /\ seen = [r \in Readers |-> <<0, 0>>]

-----------------------------------------------------------------------------
(* Cache-aside reads *)

\* cache.get found nothing or failed, and the database is asked: what the
\* cache holds between the two calls makes no difference to the reader.  A
\* list takes two statements, the count and the items, each of which sees
\* what is committed when it begins.
Query(r) ==
    /\ rpc[r] = "idle"
    /\ \E k \in Keys :
          /\ wanted' = [wanted EXCEPT ![r] = k]
          /\ seen' = [seen EXCEPT ![r] = <<version[k], version[k]>>]
          /\ rpc' = [rpc EXCEPT ![r] = IF k \in Lists THEN "items" ELSE "store"]
    /\ UNCHANGED <<inputs, version, redis, writers>>

QueryItems(r) ==
    /\ rpc[r] = "items"
    /\ seen' = [seen EXCEPT ![r] = <<seen[r][1], version[wanted[r]]>>]
    /\ rpc' = [rpc EXCEPT ![r] = "store"]
    /\ UNCHANGED <<inputs, version, redis, writers, wanted>>

Idle(r) ==
    /\ rpc' = [rpc EXCEPT ![r] = "idle"]
    /\ wanted' = [wanted EXCEPT ![r] = Report]
    /\ seen' = [seen EXCEPT ![r] = <<0, 0>>]
    /\ UNCHANGED <<inputs, version, writers>>

\* What the database would answer now.
Fresh(k) == <<version[k], version[k]>>

\* cache.set stores what was read, whatever was committed since.
Store(r) ==
    LET k == wanted[r] IN
    /\ rpc[r] = "store"
    /\ cache' = [cache EXCEPT ![k] = seen[r]]
    /\ current' = [current EXCEPT ![k] = (seen[r] = Fresh(k))]
    /\ Idle(r)

\* cache.set failed, or the reader ended before it.
StoreLost(r) ==
    /\ rpc[r] \in {"items", "store"}
    /\ Idle(r)
    /\ UNCHANGED redis

-----------------------------------------------------------------------------
(* Mutations *)

WriterAt(w, l) == wpc' = [wpc EXCEPT ![w] = l]

Evict(S) ==
    /\ cache' = [k \in Keys |-> IF k \in S THEN None ELSE cache[k]]
    /\ current' = [k \in Keys |-> IF k \in S THEN TRUE ELSE current[k]]

\* What the SCAN of the pattern products:* has to go through.
ToScan(w) == IF kind[w] = "fulfil" THEN {} ELSE ProductKeys

\* Mutant of Mutate: a confirmation forgets the product keys.
MutateReportOnly(w) ==
    /\ wpc[w] = "mutate"
    /\ version' = [k \in Keys |->
                      IF k \in Touches(w) THEN version[k] + 1 ELSE version[k]]
    /\ WriterAt(w, CASE kind[w] = "create" -> "scan"
                     [] kind[w] \in {"adjust", "reprice"} -> "detail"
                     [] kind[w] = "confirm" -> "report"
                     [] kind[w] = "fulfil" -> "done")
    /\ unscanned' = [unscanned EXCEPT ![w] = ToScan(w)]
    /\ UNCHANGED <<inputs, redis, scanned, faulty, readers>>

\* The commit.  What follows depends on the endpoint.
Mutate(w) ==
    /\ wpc[w] = "mutate"
    /\ version' = [k \in Keys |->
                      IF k \in Touches(w) THEN version[k] + 1 ELSE version[k]]
    /\ WriterAt(w, CASE kind[w] \in {"create", "confirm"} -> "scan"
                     [] kind[w] \in {"adjust", "reprice"} -> "detail"
                     [] kind[w] = "fulfil" -> "done")
    /\ unscanned' = [unscanned EXCEPT ![w] = ToScan(w)]
    /\ UNCHANGED <<inputs, redis, scanned, faulty, readers>>

\* cache.delete of the product's detail key.
DeleteDetail(w) ==
    /\ wpc[w] = "detail"
    /\ Evict(items[w])
    /\ WriterAt(w, "scan")
    /\ UNCHANGED <<inputs, version, scan, faulty, readers>>

Present(S) == {k \in S : cache[k] # None}

\* Mutant of Scan: the pattern of the whole business.
ScanAll(w) ==
    /\ wpc[w] = "scan"
    /\ scanned' = [scanned EXCEPT ![w] = Present(Keys)]
    /\ unscanned' = [unscanned EXCEPT ![w] = {}]
    /\ WriterAt(w, "delete")
    /\ UNCHANGED <<inputs, version, redis, faulty, readers>>

\* invalidate_pattern, first half: each call of the cursor returns the keys
\* that are there among those it comes to.
Scan(w) ==
    /\ wpc[w] = "scan"
    /\ \E batch \in SUBSET unscanned[w] :
          /\ batch # {}
          /\ scanned' = [scanned EXCEPT ![w] = @ \cup Present(batch)]
          /\ unscanned' = [unscanned EXCEPT ![w] = @ \ batch]
          /\ WriterAt(w, IF batch = unscanned[w] THEN "delete" ELSE "scan")
    /\ UNCHANGED <<inputs, version, redis, faulty, readers>>

AfterPattern(w) == IF kind[w] = "confirm" THEN "report" ELSE "done"

\* Second half: DEL of the keys collected.
DeleteScanned(w) ==
    /\ wpc[w] = "delete"
    /\ Evict(scanned[w])
    /\ scanned' = [scanned EXCEPT ![w] = {}]
    /\ WriterAt(w, AfterPattern(w))
    /\ UNCHANGED <<inputs, version, unscanned, faulty, readers>>

\* Confirmation only: cache.delete of the sales report of this month.
DeleteReport(w) ==
    /\ wpc[w] = "report"
    /\ Evict({Report})
    /\ WriterAt(w, "done")
    /\ UNCHANGED <<inputs, version, scan, faulty, readers>>

\* Nothing is collected any more.
EndScan(w) ==
    /\ unscanned' = [unscanned EXCEPT ![w] = {}]
    /\ scanned' = [scanned EXCEPT ![w] = {}]

\* A Redis call fails: it is logged and the handler goes on.
CallLost(w) ==
    /\ wpc[w] \in {"detail", "scan", "delete", "report"}
    /\ faulty' = [faulty EXCEPT ![w] = TRUE]
    /\ IF wpc[w] = "detail" THEN UNCHANGED scan ELSE EndScan(w)
    /\ WriterAt(w, CASE wpc[w] = "detail" -> "scan"
                     [] wpc[w] \in {"scan", "delete"} -> AfterPattern(w)
                     [] wpc[w] = "report" -> "done")
    /\ UNCHANGED <<inputs, version, redis, readers>>

\* The worker dies between the commit and the last call.
Crash(w) ==
    /\ wpc[w] \in {"detail", "scan", "delete", "report"}
    /\ faulty' = [faulty EXCEPT ![w] = TRUE]
    /\ EndScan(w)
    /\ WriterAt(w, "done")
    /\ UNCHANGED <<inputs, version, redis, readers>>

\* Mutant of Expire: the report is stored without a TTL.
ExpireProduct(k) ==
    /\ k # Report
    /\ cache[k] # None
    /\ cache' = [cache EXCEPT ![k] = None]
    /\ current' = [current EXCEPT ![k] = TRUE]
    /\ UNCHANGED <<inputs, version, writers, readers>>

\* The TTL of an entry ends, or Redis evicts it to free memory.
Expire(k) ==
    /\ cache[k] # None
    /\ cache' = [cache EXCEPT ![k] = None]
    /\ current' = [current EXCEPT ![k] = TRUE]
    /\ UNCHANGED <<inputs, version, writers, readers>>

-----------------------------------------------------------------------------
WriterStep(w) ==
    \/ Mutate(w) \/ DeleteDetail(w) \/ Scan(w) \/ DeleteScanned(w)
    \/ DeleteReport(w)

Next ==
    \/ \E r \in Readers : Query(r) \/ QueryItems(r) \/ Store(r) \/ StoreLost(r)
    \/ \E w \in Writers : WriterStep(w) \/ CallLost(w) \/ Crash(w)
    \/ \E k \in Keys : Expire(k)

\* Every entry is stored with a TTL.  Nothing is asked of the handlers: a
\* reader that never comes to its store, or a writer that stops, does no harm.
Fairness == \A k \in Keys : WF_cache(Expire(k))

Spec == Init /\ [][Next]_vars /\ Fairness

-----------------------------------------------------------------------------
(* Properties *)

TypeOK ==
    /\ kind \in [Writers -> Kinds]
    /\ items \in [Writers -> SUBSET Products]
    /\ version \in [Keys -> Nat]
    /\ cache \in [Keys -> (Nat \X Nat) \cup {None}]
    /\ current \in [Keys -> BOOLEAN]
    /\ wpc \in [Writers ->
                 {"mutate", "detail", "scan", "delete", "report", "done"}]
    /\ unscanned \in [Writers -> SUBSET ProductKeys]
    /\ scanned \in [Writers -> SUBSET ProductKeys]
    /\ faulty \in [Writers -> BOOLEAN]
    /\ rpc \in [Readers -> {"idle", "items", "store"}]
    /\ wanted \in [Readers -> Keys]
    /\ seen \in [Readers -> Nat \X Nat]

\* A list whose two statements saw different versions counts as stale.
Stale(k) == cache[k] \notin {None, Fresh(k)}

\* Mutations of k that were committed and whose invalidation is under way,
\* or was cut short.
Unsettled(w, k) ==
    k \in Touches(w) /\ wpc[w] # "mutate" /\ (wpc[w] # "done" \/ faulty[w])

\* A product entry that was up to date when stored is stale only while an
\* invalidation is under way or after one was lost: the deletes that follow
\* a commit reach every list and detail key that commit outdated, whatever
\* is scanned, filled and expires meanwhile.
ProductStalenessExplained ==
    \A k \in ProductKeys :
        Stale(k) /\ current[k] => \E w \in Writers : Unsettled(w, k)

\* "TTL-based expiration as safety net": whatever calls were lost, once the
\* mutations end every entry becomes and stays up to date.
EventuallyFresh == <>[](\A k \in Keys : ~Stale(k))

\* README, "if invalidation is missed": with no call lost, and nothing
\* under way, no product entry is stale.
StaleOnlyIfMissed ==
    \A k \in ProductKeys :
        Stale(k) => \E w \in Writers : Unsettled(w, k)

\* README, "every product/order mutation triggers cache deletion": the
\* report, up to date when stored, is stale only until that deletion.
ReportStalenessExplained ==
    Stale(Report) /\ current[Report] =>
        \E w \in Writers : Unsettled(w, Report)

-----------------------------------------------------------------------------
(* The inductive invariant behind ProductStalenessExplained. *)

\* Writers whose coming steps delete k, or who lost a call.
Owes(w, k) ==
    /\ k \in Touches(w)
    /\ faulty[w] \/ k \in unscanned[w] \cup scanned[w]

\* What a writer has still to scan and to delete.
ScanInv ==
    \A w \in Writers :
        /\ wpc[w] = "mutate" => ~faulty[w]
        /\ wpc[w] \in {"mutate", "report", "done"} => scanned[w] = {}
        /\ wpc[w] \notin {"detail", "scan"} => unscanned[w] = {}
OwedInv ==
    \A k \in ProductKeys :
        Stale(k) /\ current[k] => \E w \in Writers : Owes(w, k)
Inductive == TypeOK /\ ScanInv /\ OwedInv
=============================================================================

----------------------------- MODULE ListPages -----------------------------
(***************************************************************************)
(* Which cache entry a product list is stored under.  list_products keys a *)
(* list by its page and its filters; requests that differ may meet in one  *)
(* entry.  The products stay as they are here: what mutations do to the    *)
(* entries is in CacheAside.                                               *)
(*                                                                         *)
(* A text is a sequence of characters.  Told apart are the colon that      *)
(* joins the parts of a key and the wildcards of ILIKE; a search text has  *)
(* no backslash, which would quote them.                                   *)
(***************************************************************************)
EXTENDS Integers, Sequences

CONSTANTS
    Readers,    \* requests GET /products
    Shelf,      \* the active products of the business in the order of names:
                \* id, name, category, low (at or below the threshold)
    Queries,    \* limit, offset, search, category and low of a request; the
                \* endpoint has 1 <= limit <= 200 and 0 <= offset
    Colon,
    AnyText, AnyChar,   \* % and _ in a pattern of ILIKE
    Cases,              \* sets of the letters that ILIKE takes for one
    None

VARIABLES
    query,      \* what a reader asks for
    entry,      \* cached lists
    answer,     \* what a reader was answered
    pc

vars == <<query, entry, answer, pc>>

-----------------------------------------------------------------------------
(* The query of _list_products_db *)

Alike(c, d) == c = d \/ \E letter \in Cases : {c, d} \subseteq letter

\* text ILIKE pattern: the text can be cut into one part per character of
\* the pattern, of one character unless the pattern has a % there.
Like(text, pattern) ==
    \E cut \in [0 .. Len(pattern) -> 0 .. Len(text)] :
        /\ cut[0] = 0 /\ cut[Len(pattern)] = Len(text)
        /\ \A i \in 1 .. Len(pattern) :
              \/ pattern[i] = AnyText /\ cut[i - 1] <= cut[i]
              \/ /\ cut[i] = cut[i - 1] + 1
                 /\ pattern[i] = AnyChar \/ Alike(pattern[i], text[cut[i]])

\* Wildcards in the search text keep their meaning.
Contains(name, search) == Like(name, <<AnyText>> \o search \o <<AnyText>>)

Matching(q) ==
    LET Match(p) == /\ Contains(p.name, q.search)
                    /\ q.category \in {<<>>, p.category}
                    /\ q.low => p.low
    IN SelectSeq(Shelf, Match)

Least(a, b) == IF a < b THEN a ELSE b

Answer(q) ==
    LET all == Matching(q) IN
    [items  |-> SubSeq(all, q.offset + 1, Least(q.offset + q.limit, Len(all))),
     total  |-> Len(all), limit |-> q.limit, offset |-> q.offset]

-----------------------------------------------------------------------------
(* list_products *)

Page(q) == q.offset \div q.limit + 1

Key(q) == <<Page(q), q.limit,
            q.search \o <<Colon>> \o q.category \o <<Colon>>, q.low>>

Init ==
    /\ query \in [Readers -> Queries]
    /\ entry = [k \in {Key(q) : q \in Queries} |-> None]
    /\ answer = [r \in Readers |-> None]
    /\ pc = [r \in Readers |-> "lookup"]

\* A hit is returned as it is.
Lookup(r) ==
    LET cached == entry[Key(query[r])] IN
    /\ pc[r] = "lookup"
    /\ answer' = [answer EXCEPT ![r] = cached]
    /\ pc' = [pc EXCEPT ![r] = IF cached = None THEN "query" ELSE "done"]
    /\ UNCHANGED <<query, entry>>

\* A miss asks the database and stores the result.
Fill(r) ==
    LET result == Answer(query[r]) IN
    /\ pc[r] = "query"
    /\ entry' = [entry EXCEPT ![Key(query[r])] = result]
    /\ answer' = [answer EXCEPT ![r] = result]
    /\ pc' = [pc EXCEPT ![r] = "done"]
    /\ UNCHANGED query

Next == \E r \in Readers : Lookup(r) \/ Fill(r)

Spec == Init /\ [][Next]_vars

-----------------------------------------------------------------------------
\* A key stands for one offset and one limit, as the README documents it: a
\* reader is answered with the products its own query selects.
HitAnswersQuery ==
    \A r \in Readers : pc[r] = "done" => answer[r] = Answer(query[r])
=============================================================================

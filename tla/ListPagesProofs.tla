-------------------------- MODULE ListPagesProofs --------------------------
(***************************************************************************)
(* When the cached product lists are right: requests that ask for whole    *)
(* pages with filters free of colons never meet in one cache entry.        *)
(***************************************************************************)
EXTENDS ListPages, SequenceTheorems, TLAPS

\* The endpoint's bounds on limit and offset, texts over the alphabet
\* Letters, and an offset that is the start of the page it falls on.
WholePages(Letters) ==
    /\ Colon \notin Letters
    /\ Queries \subseteq [limit : 1 .. 200, offset : Nat, search : Seq(Letters),
                          category : Seq(Letters), low : BOOLEAN]
    /\ \A q \in Queries : q.offset = (Page(q) - 1) * q.limit

\* The part of a key that holds the filters.
Joined(s, c) == s \o <<Colon>> \o c \o <<Colon>>

\* The first colon of the joined filters ends the search text.
LEMMA JoinedPosition ==
    ASSUME NEW Letters, Colon \notin Letters,
           NEW s \in Seq(Letters), NEW c \in Seq(Letters)
    PROVE  /\ Len(Joined(s, c)) = Len(s) + Len(c) + 2
           /\ \A i \in 1 .. Len(s) : Joined(s, c)[i] = s[i] /\ s[i] # Colon
           /\ Joined(s, c)[Len(s) + 1] = Colon
           /\ \A i \in 1 .. Len(c) : Joined(s, c)[Len(s) + 1 + i] = c[i]
<1> DEFINE L == Letters \cup {Colon}
           a == s \o <<Colon>>
           b == a \o c
<1>1. s \in Seq(L) /\ c \in Seq(L) /\ <<Colon>> \in Seq(L)
  OBVIOUS
<1>2. /\ a \in Seq(L) /\ Len(a) = Len(s) + 1
      /\ \A i \in 1 .. Len(s) : a[i] = s[i]
      /\ a[Len(s) + 1] = Colon
  BY <1>1
<1>. HIDE DEF a
<1>3. /\ b \in Seq(L) /\ Len(b) = Len(a) + Len(c)
      /\ \A i \in 1 .. Len(a) : b[i] = a[i]
      /\ \A i \in 1 .. Len(c) : b[Len(a) + i] = c[i]
  BY <1>1, <1>2
<1>. HIDE DEF b
<1>4. /\ Len(b \o <<Colon>>) = Len(b) + 1
      /\ \A i \in 1 .. Len(b) : (b \o <<Colon>>)[i] = b[i]
  BY <1>1, <1>3
<1>5. Joined(s, c) = b \o <<Colon>>
  BY DEF Joined, a, b
<1>6. \A i \in 1 .. Len(s) : s[i] # Colon
  OBVIOUS
<1>7. Len(s) \in Nat /\ Len(c) \in Nat
  OBVIOUS
<1>. HIDE DEF L
<1>8. QED
  BY <1>2, <1>3, <1>4, <1>5, <1>6, <1>7

\* Texts without colons can be read off the joined text.
LEMMA JoinedInjective ==
    ASSUME NEW Letters, Colon \notin Letters,
           NEW s \in Seq(Letters), NEW c \in Seq(Letters),
           NEW t \in Seq(Letters), NEW d \in Seq(Letters),
           Joined(s, c) = Joined(t, d)
    PROVE  s = t /\ c = d
<1>1. ASSUME NEW u \in Seq(Letters), NEW v \in Seq(Letters),
             NEW e \in Seq(Letters), NEW f \in Seq(Letters),
             Joined(u, e) = Joined(v, f)
      PROVE  Len(u) >= Len(v)
  <2>1. SUFFICES ASSUME Len(u) < Len(v) PROVE FALSE
    OBVIOUS
  <2>2. Len(u) + 1 \in 1 .. Len(v)
    BY <2>1
  <2>3. Joined(u, e)[Len(u) + 1] = Colon
    BY JoinedPosition
  <2>4. \A i \in 1 .. Len(v) : Joined(v, f)[i] = v[i] /\ v[i] # Colon
    BY ONLY v \in Seq(Letters), f \in Seq(Letters), Colon \notin Letters,
            JoinedPosition
  <2>5. QED
    BY <1>1, <2>2, <2>3, <2>4
<1>2. Len(s) = Len(t)
  <2>1. Len(s) >= Len(t) /\ Len(t) >= Len(s)
    BY <1>1
  <2>2. QED
    BY <2>1
<1>3. Len(c) = Len(d)
  <2>1. /\ Len(Joined(s, c)) = Len(s) + Len(c) + 2
        /\ Len(Joined(t, d)) = Len(t) + Len(d) + 2
    BY JoinedPosition
  <2>2. QED
    BY <1>2, <2>1
<1>4. \A i \in 1 .. Len(s) : s[i] = t[i]
  <2>1. \A i \in 1 .. Len(s) : Joined(s, c)[i] = s[i]
    BY JoinedPosition
  <2>2. \A i \in 1 .. Len(t) : Joined(t, d)[i] = t[i]
    BY ONLY t \in Seq(Letters), d \in Seq(Letters), Colon \notin Letters,
            JoinedPosition
  <2>3. QED
    BY <1>2, <2>1, <2>2
<1>5. \A i \in 1 .. Len(c) : c[i] = d[i]
  <2>1. \A i \in 1 .. Len(c) : Joined(s, c)[Len(s) + 1 + i] = c[i]
    BY JoinedPosition
  <2>2. \A i \in 1 .. Len(d) : Joined(t, d)[Len(t) + 1 + i] = d[i]
    BY ONLY t \in Seq(Letters), d \in Seq(Letters), Colon \notin Letters,
            JoinedPosition
  <2>3. QED
    BY <1>2, <1>3, <2>1, <2>2
<1>6. QED
  BY <1>2, <1>3, <1>4, <1>5, SeqEqual

\* Requests for whole pages share an entry only if they are the same.
THEOREM KeyInjective ==
    ASSUME NEW Letters, WholePages(Letters),
           NEW q \in Queries, NEW u \in Queries, Key(q) = Key(u)
    PROVE  q = u
<1> DEFINE R == [limit : 1 .. 200, offset : Nat, search : Seq(Letters),
                 category : Seq(Letters), low : BOOLEAN]
<1>1. q \in R /\ u \in R /\ Colon \notin Letters
  BY DEF WholePages
<1>2. /\ Page(q) = Page(u) /\ q.limit = u.limit /\ q.low = u.low
      /\ Joined(q.search, q.category) = Joined(u.search, u.category)
  BY DEF Key, Joined
<1>3. q.search = u.search /\ q.category = u.category
  BY <1>1, <1>2, JoinedInjective
<1>4. q.offset = u.offset
  BY <1>2 DEF WholePages
<1>5. QED
  BY <1>1, <1>2, <1>3, <1>4

-----------------------------------------------------------------------------
(* The lists answered *)

\* An entry holds the answer to the one query that is stored under it.
EntriesAnswer ==
    /\ query \in [Readers -> Queries]
    /\ DOMAIN entry = {Key(q) : q \in Queries}
    /\ \A q \in Queries : entry[Key(q)] \in {None, Answer(q)}
    /\ DOMAIN pc = Readers /\ DOMAIN answer = Readers
    /\ HitAnswersQuery

LEMMA EntriesInit == Init => EntriesAnswer
  BY DEF Init, EntriesAnswer, HitAnswersQuery

LEMMA EntriesStep ==
    ASSUME NEW Letters, WholePages(Letters), EntriesAnswer, [Next]_vars
    PROVE  EntriesAnswer'
<1>1. ASSUME NEW r \in Readers, Lookup(r) PROVE EntriesAnswer'
  BY <1>1 DEF Lookup, EntriesAnswer, HitAnswersQuery
<1>2. ASSUME NEW r \in Readers, Fill(r) PROVE EntriesAnswer'
  <2>1. /\ query[r] \in Queries /\ UNCHANGED query
        /\ entry' = [entry EXCEPT ![Key(query[r])] = Answer(query[r])]
        /\ answer' = [answer EXCEPT ![r] = Answer(query[r])]
        /\ pc' = [pc EXCEPT ![r] = "done"]
    BY <1>2 DEF Fill, EntriesAnswer
  <2>2. \A q \in Queries :
           entry'[Key(q)] = IF q = query[r] THEN Answer(q) ELSE entry[Key(q)]
    BY <2>1, KeyInjective DEF EntriesAnswer
  <2>3. QED
    BY <2>1, <2>2 DEF EntriesAnswer, HitAnswersQuery
<1>3. CASE UNCHANGED vars
  BY <1>3 DEF vars, EntriesAnswer, HitAnswersQuery
<1>4. QED
  BY <1>1, <1>2, <1>3 DEF Next

\* Every reader that asks for a whole page, with filters free of colons, is
\* answered with the products its own query selects: the two ways in which
\* the run list_keys breaks this are the only ones.
THEOREM WholePagesAnswered ==
    ASSUME NEW Letters, WholePages(Letters)
    PROVE  Spec => []HitAnswersQuery
<1>1. EntriesAnswer /\ [Next]_vars => EntriesAnswer'
  BY EntriesStep
<1>2. EntriesAnswer => HitAnswersQuery
  BY DEF EntriesAnswer
<1>3. QED
  BY <1>1, <1>2, EntriesInit, PTL DEF Spec
=============================================================================

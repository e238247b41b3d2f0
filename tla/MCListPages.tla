---------------------------- MODULE MCListPages ----------------------------
(* A small instance of ListPages for TLC. *)
EXTENDS ListPages

Product(id, name, category) ==
    [id |-> id, name |-> name, category |-> category, low |-> FALSE]

MCShelf == << Product(1, <<"a">>, <<>>), Product(2, <<"b">>, <<Colon>>),
              Product(3, <<"c">>, <<>>) >>

MCCases == {{"b", "B"}}

\* Offsets within and beyond the first page of two, and colons that fall on
\* either side of the one that joins search and category.
MCQueries ==
    [limit : {2}, offset : 0 .. 2,
     search : {<<>>, <<"B">>, <<"B", Colon>>, <<AnyChar>>},
     category : {<<>>, <<Colon>>}, low : {FALSE}]
=============================================================================

---------------------------- MODULE MCQueryTrie ----------------------------
(* Small instances of QueryTrie for TLC. *)
EXTENDS QueryTrie

MCCounts    == {1, 2}
MCWordModes == {"dontCount", "countInst", "countOcc"}
MCOccOnly   == {"countOcc"}

MCQueries == Query
MCLines   == Line

(* Trigrams over two words, and one line and one query of three, which is  *)
(* more than counthits has room for under -r.  No query begins with "b":   *)
(* "a" and <*> are two beginnings that a line may have.  Lines that begin  *)
(* with "b" take the second only, so that two of them are enough.          *)
MCWords    == {"a", "b", "c"}
MCWildcard == "<*>"
MCTwo      == {"a", "b"}
MCQueries3 == {q \in [1..3 -> MCTwo \cup {MCWildcard}] : q[1] # "b"} \cup {<<"a", "b", "c">>}
MCLines3   == {l \in [1..3 -> MCTwo] : "a" \in {l[1], l[2]}} \cup {<<"a", "b", "c">>}
=============================================================================

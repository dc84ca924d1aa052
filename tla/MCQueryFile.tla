---------------------------- MODULE MCQueryFile ----------------------------
(* Small instances of QueryFile for TLC. *)
EXTENDS QueryFile

MCLetters == {"a", "b", "A"}
MCLower   == [l \in MCLetters |-> IF l = "A" THEN "a" ELSE l]

(* Lines without their ends, for a buffer of 7: too few and too many       *)
(* tokens, blanks around them, none at all, and some that do not fit.      *)
MCLines == {<<>>, <<"a">>, <<"b", " ", "A">>, <<" ", "b">>, <<"a", " ", "b", " ", "a">>,
            <<"a", " ", "b", " ", " ", "A", "a", " ", "b">>, <<"a", "a", "a", "a", "a">>,
            <<"a", "a", "a", "a", "a", "a", "a", " ", "b">>}
MCEnds  == {<<"\n">>, <<"\r", "\n">>}

MCFull  == {l \o e : l \in MCLines, e \in MCEnds}
MCTexts == {l \o m \o k : l \in MCFull, m \in MCFull \cup {<<>>}, k \in MCFull \cup MCLines}

MCLengths == {1, 2}
MCFills   == {[c \in Cells |-> NUL],
              [c \in Cells |-> <<"b", NUL, "b", " ", "A", "\n", "a">>[c + 1]]}
=============================================================================

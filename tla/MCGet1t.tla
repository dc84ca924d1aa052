------------------------------ MODULE MCGet1t ------------------------------
(* Small instances of Get1t for TLC. *)
EXTENDS Get1t

CONSTANTS a, b

MCWords  == {a, b}
MCCounts == {1, 2}
MCModes  == {"dontCount", "countInst", "countOcc"}

G(x, y, z, c) == [tokens |-> <<x, y, z>>, count |-> c]
Q(x, y, z)    == <<x, y, z>>
File(t)       == [text |-> t, db |-> TRUE]
Other(t)      == [text |-> t, db |-> FALSE]

Repeats  == <<G(a, b, a, 1), NL, NL, G(a, b, b, 2), NL>>
Single   == <<G(a, b, a, 2), NL>>

MCDirectories ==
  {<<>>, <<File(Repeats)>>, <<File(Single), File(Repeats)>>, <<Other(Single), File(Repeats)>>,
   <<File(<<>>), File(Single)>>}

(* Queries that share no token, one, or two at their beginning, and one    *)
(* that nothing matches.                                                   *)
MCAsked == {Q(a, b, a), Q(a, b, WILDCARD), Q(a, WILDCARD, b), Q(WILDCARD, b, a), Q(b, b, b)}

MCQueryFiles == {<<>>} \cup {<<q, r, s>> : q, r, s \in MCAsked}
=============================================================================

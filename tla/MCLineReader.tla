---------------------------- MODULE MCLineReader ----------------------------
(* Two entries: any text of at most MaxText characters whose lines fit into *)
(* a block, and a second file, or an entry with another name.  The NOZLIB   *)
(* build also gets files with anything at their ends.  The copy of a line   *)
(* has originallinelength places, so that with -i the shorter lines remain. *)
EXTENDS LineReader

CONSTANTS c, MaxText

Fits(t) == \A p \in 0..Len(t)-1 : p = 0 \/ t[p] = NL =>
             \E q \in p+2..p+blocksize : q <= Len(t) /\ t[q] = NL /\ t[q-1] # NL

Text(m) == UNION {[1..k -> {c, NL}] : k \in 0..m}

TextSet == {t \in Text(MaxText) : Fits(t)}

MCChar == {c, NL}

Entry(t, isDB) == [text |-> t, db |-> isDB]

MCDirectories ==
  {<<Entry(t, TRUE), Entry(u, b)>> : t \in TextSet, u \in {x \in TextSet : Len(x) <= 5}, b \in BOOLEAN}

MCRagged == {<<Entry(t, TRUE), Entry(u, TRUE)>> : t \in Text(6), u \in Text(3)}
=============================================================================

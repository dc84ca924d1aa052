----------------------------- MODULE PairCounts -----------------------------
(***************************************************************************)
(* What get1t -o owes its user: the queries are pairs of tokens, in either *)
(* order; every line of the corpus adds its count once to every pair of    *)
(* which it has both tokens; then every pair is written once.  This is     *)
(* what the code does, and less than README.txt:79 says, see Due: a pair   *)
(* is written in the order of strcmp and not as it was asked for, and a    *)
(* pair of a token with itself, which is counted on the lines that have    *)
(* the token twice, never appears.                                         *)
(***************************************************************************)
EXTENDS Integers, Sequences

CONSTANTS
  Words,             (* tokens: numbers, in the order of strcmp            *)
  n,                 (* tokens of a line of the corpus (-n)                *)
  Counts,            (* the counts a line may carry                        *)
  printZeroCounts    (* -z                                                 *)

Pair == {{x, y} : x \in Words, y \in Words}
Line == [1..n -> Words]

VARIABLES
  phase,    (* "queries", "corpus", "output" or "end"                      *)
  asked,    (* the pairs asked for                                         *)
  count,    (* the count of each pair                                      *)
  rows      (* what was written: two tokens, and their count               *)

vars == <<phase, asked, count, rows>>

Cooccur(p, l) == \E i, j \in 1..n : i < j /\ {l[i], l[j]} = p

Due(x, y) ==
  /\ {x, y} \in asked
  /\ x < y
  /\ printZeroCounts \/ count[{x, y}] # 0

Written(x, y) == \E k \in 1..Len(rows) : rows[k][1] = <<x, y>>

Init ==
  /\ phase = "queries"
  /\ asked = {}
  /\ count = [p \in Pair |-> 0]
  /\ rows = <<>>

Ask(p) ==
  /\ phase = "queries"
  /\ asked' = asked \cup {p}
  /\ UNCHANGED <<phase, count, rows>>

Advance(from, to) == phase = from /\ phase' = to /\ UNCHANGED <<asked, count, rows>>

Scan(l, c) ==
  /\ phase = "corpus"
  /\ count' = [p \in Pair |->
                 IF p \in asked /\ Cooccur(p, l) THEN count[p] + c ELSE count[p]]
  /\ UNCHANGED <<phase, asked, rows>>

Write(x, y) ==
  /\ phase = "output"
  /\ Due(x, y) /\ ~Written(x, y)
  /\ rows' = Append(rows, <<<<x, y>>, count[{x, y}]>>)
  /\ UNCHANGED <<phase, asked, count>>

EndOutput ==
  /\ \A x, y \in Words : Due(x, y) => Written(x, y)
  /\ Advance("output", "end")

Next ==
  \/ \E p \in Pair : Ask(p)
  \/ \E x, y \in Words : Write(x, y)
  \/ Advance("queries", "corpus")
  \/ \E l \in Line, c \in Counts : Scan(l, c)
  \/ Advance("corpus", "output")
  \/ EndOutput

Spec == Init /\ [][Next]_vars
=============================================================================

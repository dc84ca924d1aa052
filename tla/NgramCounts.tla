---------------------------- MODULE NgramCounts ----------------------------
(***************************************************************************)
(* What get1t promises of an n-gram search (README.txt, "Query Format" and *)
(* "Output"): queries are collected first, then one pass over the corpus   *)
(* adds the count of every line to every query that matches it, exactly    *)
(* once; with -s or -r it also counts single words, and with -i it lists   *)
(* the lines that matched some query.  Tokens are compared as the          *)
(* tokeniser delivers them, that is, after case folding.  With -r a word   *)
(* counts once for every line it stands on: so the code has it, where the  *)
(* help text (g1tmain.c:158) says "once per query it occurs in".           *)
(***************************************************************************)
EXTENDS Integers, Sequences, FiniteSets

CONSTANTS
  Words,                  (* tokens that occur in the corpus               *)
  WILDCARD,               (* the query token <*>                           *)
  n,                      (* number of tokens of an n-gram (-n)            *)
  Counts,                 (* the counts a corpus line may carry            *)
  WordModes,              (* the word counting modes considered            *)
  printIndividualCounts,  (* -i                                            *)
  memoryFails             (* insertions may fail                           *)

Token == Words \cup {WILDCARD}
Query == [1..n -> Token]
Line  == [1..n -> Words]

VARIABLES
  doWords,    (* "dontCount", "countInst" (-s) or "countOcc" (-r)          *)
  loading,    (* queries are still being read                              *)
  queries,    (* the queries asked                                         *)
  count,      (* the count reported for each query                         *)
  words,      (* the single words being counted                            *)
  wordCount,  (* the count reported for each word                          *)
  bigcount,   (* sum of all counts of the corpus                           *)
  matched     (* the lines listed by -i                                    *)

vars == <<doWords, loading, queries, count, words, wordCount, bigcount, matched>>

(* A wildcard matches any token, any other token only itself. *)
Matches(q, line) == \A j \in 1..n : q[j] \in {line[j], WILDCARD}

(* Positions from..n of the line at which word w stands. *)
Occurrences(w, line, from) == {j \in from..n : line[j] = w}

(* What a line of count c adds to a word: c for each occurrence, or c once. *)
WordShare(w, line, c) ==
  IF doWords = "countInst" THEN c * Cardinality(Occurrences(w, line, 1))
  ELSE IF doWords = "countOcc" /\ Occurrences(w, line, 1) # {} THEN c ELSE 0

Init ==
  /\ doWords \in WordModes
  /\ loading = TRUE
  /\ queries = {}
  /\ count = [q \in Query |-> 0]
  /\ words = {}
  /\ wordCount = [w \in Words |-> 0]
  /\ bigcount = 0
  /\ matched = <<>>

Ask(q) ==
  /\ loading
  /\ queries' = queries \cup {q}
  /\ words' = IF doWords = "dontCount" THEN words
              ELSE words \cup ({q[j] : j \in 1..n} \ {WILDCARD})
  /\ UNCHANGED <<doWords, loading, count, wordCount, bigcount, matched>>

(* Without memory a query, or a word, is missing from the tables, and      *)
(* nothing says so.                                                        *)
Lose(q) ==
  /\ memoryFails /\ loading
  /\ queries' = queries \ {q}
  /\ UNCHANGED <<doWords, loading, count, words, wordCount, bigcount, matched>>

LoseWord(w) ==
  /\ memoryFails /\ loading
  /\ words' = words \ {w}
  /\ UNCHANGED <<doWords, loading, queries, count, wordCount, bigcount, matched>>

StartScan ==
  /\ loading
  /\ loading' = FALSE
  /\ UNCHANGED <<doWords, queries, count, words, wordCount, bigcount, matched>>

Scan(line, c) ==
  /\ ~loading
  /\ bigcount' = bigcount + c
  /\ count' = [q \in Query |->
                 count[q] + IF q \in queries /\ Matches(q, line) THEN c ELSE 0]
  /\ wordCount' = [w \in Words |->
                     wordCount[w] + IF w \in words THEN WordShare(w, line, c) ELSE 0]
  /\ matched' = IF printIndividualCounts /\ \E q \in queries : Matches(q, line)
                THEN Append(matched, line) ELSE matched
  /\ UNCHANGED <<doWords, loading, queries, words>>

Next ==
  \/ \E q \in Query : Ask(q) \/ Lose(q)
  \/ \E w \in Words : LoseWord(w)
  \/ StartScan
  \/ \E line \in Line, c \in Counts : Scan(line, c)

Spec == Init /\ [][Next]_vars
=============================================================================

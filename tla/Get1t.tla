------------------------------- MODULE Get1t -------------------------------
(***************************************************************************)
(* main of get1t, for n-grams: the phases of g1tmain.c over what the other *)
(* modules promise (NgramCounts of the counting, LineStream of the reader) *)
(* and the output of g1tout.c, which walks the tree of queries table by    *)
(* table and keeps the path to where it is in an array that all levels     *)
(* share.  A text is here a sequence of grams, records of tokens and a     *)
(* count, each followed by NL.                                             *)
(*                                                                         *)
(* An operator no action uses, just before another of the same shape, is   *)
(* a wrong version of that one, to try the properties on.                  *)
(***************************************************************************)
EXTENDS Integers, Sequences, FiniteSets, Functions

CONSTANTS
  Words, WILDCARD, n, Counts, WordModes, NL,
  Directories,     (* what the directory of the database may hold          *)
  QueryFiles       (* what makeCounters may have read: sequences of queries *)

VARIABLES
  doWords, printIndividualCounts, printZeroCounts,     (* -s, -r; -i; -z   *)
  loading, queries, count, words, wordCount, bigcount, matched, (* counters *)
  entries, file, linenum, line, reported,              (* the corpus       *)
  unread,             (* the queries makeCounters has still to add          *)
  wildF,              (* matchout is open                                   *)
  totalout, wordout,  (* what is in these files, <<>> before they exist     *)
  rows,               (* ngramout                                           *)
  query, currentDepth,   (* outputState                                     *)
  walks,              (* the calls of hshwalk in progress, outermost first  *)
  pc, status          (* the exit status                                    *)

options  == <<doWords, printIndividualCounts, printZeroCounts>>
counters == <<loading, queries, count, words, wordCount, bigcount, matched>>
corpus   == <<entries, file, linenum, line, reported>>
state    == <<query, currentDepth, walks>>
output   == <<totalout, wordout, rows, state>>
vars     == <<options, counters, corpus, unread, wildF, output, pc, status>>

Listing == INSTANCE NgramCounts WITH printIndividualCounts <- TRUE, memoryFails <- FALSE
Quiet   == INSTANCE NgramCounts WITH printIndividualCounts <- FALSE, memoryFails <- FALSE
Stream  == INSTANCE LineStream

Token == Quiet!Token
Query == Quiet!Query
NULL  == "NULL"

ASSUME NAssumption == n \in Nat \ {0, 1} /\ NULL \notin Token
ASSUME QueryFilesAssumption == QueryFiles \subseteq Seq(Query)
(* A gram is a line of its own. *)
ASSUME DirectoriesAssumption ==
  LET Record == [tokens : Quiet!Line, count : Counts]
  IN  /\ Counts \subseteq Nat /\ NL \notin Record
      /\ Directories \subseteq Seq([text : Seq(Record \cup {NL}), db : BOOLEAN])
      /\ \A d \in Directories : \A f \in DOMAIN d : LET t == d[f].text IN
           \A p \in DOMAIN t : t[p] # NL => p < Len(t) /\ t[p+1] = NL
-----------------------------------------------------------------------------
(* makeCounters *)
Ask ==
  /\ pc = "queries" /\ unread # <<>>
  /\ Quiet!Ask(Head(unread))
  /\ unread' = Tail(unread)
  /\ UNCHANGED <<printIndividualCounts, printZeroCounts, corpus, wildF, output, pc, status>>

(* With -i, the file of matches is opened; if it cannot be, there will be  *)
(* none, and nothing says so.                                              *)
EndQueries ==
  /\ pc = "queries" /\ unread = <<>>
  /\ Quiet!StartScan
  /\ wildF' \in {FALSE, printIndividualCounts}
  /\ pc' = "opendir"
  /\ UNCHANGED <<printIndividualCounts, printZeroCounts, corpus, unread, output, status>>
-----------------------------------------------------------------------------
(* findHits *)
Opendir ==
  /\ pc = "opendir"
  /\ pc' = "corpus"
  /\ UNCHANGED <<options, counters, corpus, unread, wildF, output, status>>

OpendirFails ==
  /\ pc = "opendir"
  /\ pc' = "exit" /\ status' = -1
  /\ UNCHANGED <<options, counters, corpus, unread, wildF, output>>

Gram(place) == entries[place[1]].text[place[2]]

CountLine ==
  /\ pc = "corpus"
  /\ Stream!Deliver
  /\ LET g == Gram(line'[1])
     IN  IF wildF THEN Listing!Scan(g.tokens, g.count) ELSE Quiet!Scan(g.tokens, g.count)
  /\ UNCHANGED <<printIndividualCounts, printZeroCounts, unread, wildF, output, pc, status>>

NextFile ==
  /\ pc = "corpus"
  /\ Stream!EndFile \/ Stream!GiveUp
  /\ UNCHANGED <<options, counters, unread, wildF, output, pc, status>>

EndCorpus ==
  /\ pc = "corpus" /\ file > Len(entries)
  /\ pc' = "total"
  /\ UNCHANGED <<options, counters, corpus, unread, wildF, output, status>>
-----------------------------------------------------------------------------
(* The output.  A file that cannot be opened is written to all the same.   *)
FopenFails ==
  /\ pc \in {"total", "words", "ngrams"}
  /\ pc' = "crashed"
  /\ UNCHANGED <<options, counters, corpus, unread, wildF, output, status>>

WriteTotal ==
  /\ pc = "total"
  /\ totalout' = <<bigcount>>
  /\ pc' = IF doWords = "dontCount" THEN "ngrams" ELSE "words"
  /\ UNCHANGED <<options, counters, corpus, unread, wildF, wordout, rows, state, status>>

WantedAlways(c) == TRUE

Wanted(c) == printZeroCounts \/ c # 0

WriteWordCounts ==
  /\ pc = "words"
  /\ wordout' = <<{<<w, wordCount[w]>> : w \in {x \in words : Wanted(wordCount[x])}}>>
  /\ pc' = "ngrams"
  /\ UNCHANGED <<options, counters, corpus, unread, wildF, totalout, rows, state, status>>

(* The table at the end of a path of tokens, and a walk through it, which  *)
(* either goes deeper or writes what it meets.                             *)
TableOfLast(path) ==
  {q[Len(path) + 1] : q \in {r \in queries : path = <<>> \/ r[Len(path)] = path[Len(path)]}}

Table(path) ==
  {q[Len(path) + 1] : q \in {r \in queries : \A k \in 1..Len(path) : r[k] = path[k]}}

Walk(path, leaves) == [path |-> path, todo |-> Table(path), leaves |-> leaves]

StartNgrams ==
  /\ pc = "ngrams"
  /\ query' = [k \in 1..n-1 |-> NULL]
  /\ currentDepth' = 1
  /\ walks' = <<Walk(<<>>, FALSE)>>
  /\ pc' = "walk"
  /\ UNCHANGED <<options, counters, corpus, unread, wildF, totalout, wordout, rows, status>>

inner == walks[Len(walks)]

Rest(t) == [walks EXCEPT ![Len(walks)].todo = @ \ {t}]

LastLevelLate == currentDepth = n

LastLevel == currentDepth = n - 1

(* writeNgramAndWildCountsR, up to its call of hshwalk *)
EnterSet(t) ==
  /\ pc = "walk" /\ walks # <<>> /\ ~inner.leaves /\ t \in inner.todo
  /\ query' = [query EXCEPT ![currentDepth] = t]
  /\ currentDepth' = IF LastLevel THEN currentDepth ELSE currentDepth + 1
  /\ walks' = Append(Rest(t), Walk(Append(inner.path, t), LastLevel))
  /\ UNCHANGED <<options, counters, corpus, unread, wildF, totalout, wordout, rows, pc, status>>

(* writequery *)
WriteQuery(t) ==
  /\ pc = "walk" /\ walks # <<>> /\ inner.leaves /\ t \in inner.todo
  /\ walks' = Rest(t)
  /\ LET c == count[[k \in 1..n |-> Append(inner.path, t)[k]]]
     IN  rows' = IF Wanted(c) THEN Append(rows, <<Append(query, t), c>>) ELSE rows
  /\ UNCHANGED <<options, counters, corpus, unread, wildF, totalout, wordout, query,
                 currentDepth, pc, status>>

OuterKept == walks

Outer == SubSeq(walks, 1, Len(walks) - 1)

DepthKept == currentDepth

DepthBefore == IF inner.leaves \/ Len(walks) = 1 THEN currentDepth ELSE currentDepth - 1

(* hshwalk returns, and so does the call it came from. *)
LeaveSet ==
  /\ pc = "walk" /\ walks # <<>> /\ inner.todo = {}
  /\ currentDepth' = DepthBefore
  /\ walks' = Outer
  /\ UNCHANGED <<options, counters, corpus, unread, wildF, totalout, wordout, rows, query,
                 pc, status>>

Exit ==
  /\ pc = "walk" /\ walks = <<>>
  /\ pc' = "exit" /\ status' = 0
  /\ UNCHANGED <<options, counters, corpus, unread, wildF, output>>
-----------------------------------------------------------------------------
Init ==
  /\ Quiet!Init /\ Stream!Init
  /\ printIndividualCounts \in BOOLEAN /\ printZeroCounts \in BOOLEAN
  /\ entries \in Directories
  /\ unread \in QueryFiles
  /\ wildF = FALSE
  /\ totalout = <<>> /\ wordout = <<>> /\ rows = <<>>
  /\ query = <<>> /\ currentDepth = 1 /\ walks = <<>>
  /\ pc = "queries" /\ status = 0

Next ==
  \/ Ask \/ EndQueries
  \/ Opendir \/ OpendirFails \/ CountLine \/ NextFile \/ EndCorpus
  \/ FopenFails \/ WriteTotal \/ WriteWordCounts \/ StartNgrams
  \/ \E t \in Token : EnterSet(t) \/ WriteQuery(t)
  \/ LeaveSet \/ Exit

(* One thread, no step of which waits for anything. *)
Spec == Init /\ [][Next]_vars /\ WF_vars(Next)
-----------------------------------------------------------------------------
(* The lines of the database, by their places, and what they add up to.    *)
Grams ==
  {p \in UNION {{f} \X DOMAIN entries[f].text : f \in {e \in DOMAIN entries : entries[e].db}} :
     Gram(p) # NL}

GramCount == [p \in Grams |-> Gram(p).count]

SumOf(places) == SumFunctionOnSet(GramCount, places)

CountOf(q) == SumOf({p \in Grams : Quiet!Matches(q, Gram(p).tokens)})

WordCountOf(w) ==
  SumFunction([p \in Grams |-> Quiet!WordShare(w, Gram(p).tokens, Gram(p).count)])

Reported(f(_), S) == {<<x, f(x)>> : x \in {y \in S : printZeroCounts \/ f(y) # 0}}

(* Every variable of main has its type.                                    *)
TypeOK ==
  /\ printIndividualCounts \in BOOLEAN /\ printZeroCounts \in BOOLEAN
  /\ unread \in Seq(Query) /\ queries \subseteq Query
  /\ wildF \in BOOLEAN /\ (wildF => printIndividualCounts)
  /\ currentDepth \in 1..n-1
  /\ query = <<>> \/ query \in [1..n-1 -> Token \cup {NULL}]
  /\ \A k \in 1..Len(walks) :
       walks[k].path \in Seq(Token) /\ walks[k].todo \subseteq Token /\ walks[k].leaves \in BOOLEAN
  /\ \A k \in 1..Len(rows) : rows[k][1] \in Query /\ rows[k][2] \in Nat
  /\ pc \in {"queries", "opendir", "corpus", "total", "words", "ngrams", "walk", "exit", "crashed"}
  /\ status \in {0, -1}

(* What the shared array and the shared depth say is the table that is     *)
(* being walked, at whatever level, and its leaves are not taken for sets. *)
PathNamed ==
  walks # <<>> =>
    /\ inner.path = SubSeq(query, 1, Len(inner.path))
    /\ Len(inner.path) = IF inner.leaves THEN currentDepth ELSE currentDepth - 1
    /\ inner.leaves <=> Len(inner.path) = n - 1

(* The walk with its shared array and depth misses no query and reports    *)
(* none twice, and each with the count that was its own.                   *)
RowsRight ==
  pc = "exit" /\ status = 0 =>
    /\ {rows[k] : k \in 1..Len(rows)} = {<<q, count[q]>> : q \in {r \in queries : printZeroCounts \/ count[r] # 0}}
    /\ \A j, k \in 1..Len(rows) : rows[j][1] = rows[k][1] => j = k

(* If get1t exits with 0 and no file was given up, then every query is     *)
(* reported once with the sum over the whole database (those without hits  *)
(* under -z only), as are the words and the total, and -i lists every line *)
(* that some query matches, if its file could be opened.                   *)
AnswersRight ==
  pc = "exit" /\ status = 0 /\ reported = {} =>
    /\ totalout = <<SumOf(Grams)>>
    /\ {rows[k] : k \in 1..Len(rows)} = Reported(CountOf, queries)
    /\ Len(rows) = Cardinality(Reported(CountOf, queries))
    /\ doWords # "dontCount" => wordout = <<Reported(WordCountOf, words)>>
    /\ wildF => Len(matched) = Cardinality({p \in Grams :
                                 \E q \in queries : Quiet!Matches(q, Gram(p).tokens)})

(* main ends, one way or another. *)
Exits == <>(pc \in {"exit", "crashed"})
=============================================================================

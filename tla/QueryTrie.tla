----------------------------- MODULE QueryTrie -----------------------------
(***************************************************************************)
(* The query tree of get1t and the pass over the corpus (g1tquery.c,       *)
(* g1tproc.c, the line loop of g1tinp.c), in n-gram mode.                  *)
(*                                                                         *)
(* counters->queries is a tree of hash tables: a table is named by the     *)
(* path of tokens that leads to it from the root, so "sets" holds the      *)
(* paths of length 1..n-1 with a setitem and "leaves" the full paths with  *)
(* an exactitem.  For every corpus line incrementQueries walks the tree    *)
(* depth first, at each table along the line's own token and then along    *)
(* <*>.  Each hash table lookup or insertion is one step here, those of    *)
(* addQuery included, and an insertion may fail for want of memory.  The C *)
(* call stack is "choice": which of the two lookups led to each table on   *)
(* the way down.                                                           *)
(*                                                                         *)
(* An operator no action uses, just before another of the same shape, is   *)
(* a wrong version of that one, to try the properties on.                  *)
(***************************************************************************)
EXTENDS Integers, Sequences, FiniteSets

CONSTANTS
  Words, WILDCARD, n, Counts, WordModes, printIndividualCounts,
  Queries,      (* the queries that may be asked                           *)
  Lines,        (* the n-grams the corpus may have                         *)
  MaxQueries,   (* bound: distinct queries added, or failing to be         *)
  MaxFailures,  (* bound: insertions that fail for want of memory          *)
  MaxTotal      (* bound: the largest bigcount, for LLONG_MAX              *)

ASSUME NAssumption == n \in Nat \ {0}
ASSUME WordsAssumption == Words # {} /\ WILDCARD \notin Words
ASSUME CountsAssumption == Counts \subseteq Nat
ASSUME FailuresAssumption == MaxFailures \in Nat
ASSUME ModesAssumption ==
  /\ WordModes \subseteq {"dontCount", "countInst", "countOcc"}
  /\ printIndividualCounts \in BOOLEAN

VARIABLES
  doWords,      (* the option, a global of g1tmain.c                       *)
  loading,      (* makeCounters is still reading queries                   *)
  sets, leaves, (* the tree: inner paths and full paths                    *)
  count,        (* *exactitem.count of each leaf, 0 for absent ones        *)
  words,        (* keys of counters->wordTable                             *)
  asking,       (* wstarts of the query addQuery is at, <<>> between calls *)
  pos,          (* the number of the token its loop is at                  *)
  level,        (* currentQueryLevel: the path of that table               *)
  failures,     (* insertions that have failed                             *)
  wordCount,    (* their counters                                          *)
  bigcount,
  matched,      (* lines written to wildF                                  *)
  at,           (* where addQuery or the processing of a line stands       *)
  line,         (* tstarts[0..n-1]                                         *)
  curcount,
  i,            (* loop index of incrementWords                            *)
  counthits,    (* words hit on this line, counthits[0..numhits-1]         *)
  choice,       (* call stack of incrementQueries                          *)
  found         (* some query matched the line                             *)

adding == <<asking, pos, level>>
tree == <<doWords, loading, sets, leaves, words, adding, failures>>
counters == <<count, wordCount, bigcount, matched>>
walk == <<line, curcount, i, counthits, choice, found>>
vars == <<tree, counters, at, walk>>

AddSteps  == {"set", "word"}
WalkSteps == {"words", "exact", "wild", "return"}
Stopped   == {"crashed", "aborted"}
Steps     == {"idle"} \cup AddSteps \cup WalkSteps \cup Stopped

Token == Words \cup {WILDCARD}
Query == [1..n -> Token]
Line  == [1..n -> Words]

ASSUME InputsAssumption == Queries \subseteq Query /\ Lines \subseteq Line

Matches(q) == \A j \in 1..n : q[j] \in {line[j], WILDCARD}

Prefix(q, d) == [j \in 1..d |-> q[j]]
-----------------------------------------------------------------------------
(* Loading: addQuery, its loop one hash table at a time.                   *)

AddQuery(q) ==
  /\ loading
  /\ at = "idle"
  /\ q \in leaves \/ Cardinality(leaves) + failures < MaxQueries
  /\ at' = "set"
  /\ asking' = q
  /\ pos' = 1
  /\ level' = <<>>
  /\ UNCHANGED <<doWords, loading, sets, leaves, words, failures, counters, walk>>

InnerTokenAll == pos <= n

InnerToken == pos <= n - 1

Entry == Append(level, asking[pos])

Fail ==
  /\ failures < MaxFailures
  /\ failures' = failures + 1

(* Find or insert a setitem, and go on in its table. *)
NextLevelNew == IF Entry \in sets THEN level ELSE Entry

NextLevel == Entry

AddSet ==
  /\ at = "set"
  /\ InnerToken
  /\ sets' = sets \cup {Entry}
  /\ level' = NextLevel
  /\ at' = "word"
  /\ UNCHANGED <<doWords, loading, leaves, words, asking, pos, failures, counters, walk>>

(* A setitem that cannot be inserted ends the program. *)
AddSetFails ==
  /\ at = "set"
  /\ InnerToken
  /\ Entry \notin sets
  /\ Fail
  /\ at' = "aborted"
  /\ UNCHANGED <<doWords, loading, sets, leaves, words, adding, counters, walk>>

AddLeaf ==
  /\ at = "set"
  /\ ~InnerToken
  /\ leaves' = leaves \cup {Entry}
  /\ at' = "word"
  /\ UNCHANGED <<doWords, loading, sets, words, adding, failures, counters, walk>>

(* Nobody looks whether the insertions of leaves and of words succeed. *)
AddLeafFails ==
  /\ at = "set"
  /\ ~InnerToken
  /\ Entry \notin leaves
  /\ Fail
  /\ at' = "word"
  /\ UNCHANGED <<doWords, loading, sets, leaves, words, adding, counters, walk>>

WantedWords == IF doWords = "dontCount" THEN {} ELSE {asking[pos]} \ {WILDCARD}

NextToken ==
  IF pos < n
  THEN at' = "set" /\ pos' = pos + 1 /\ UNCHANGED <<asking, level>>
  ELSE at' = "idle" /\ asking' = <<>> /\ pos' = 1 /\ level' = <<>>

AddWord ==
  /\ at = "word"
  /\ words' = words \cup WantedWords
  /\ NextToken
  /\ UNCHANGED <<doWords, loading, sets, leaves, failures, counters, walk>>

AddWordFails ==
  /\ at = "word"
  /\ WantedWords \ words # {}
  /\ Fail
  /\ NextToken
  /\ UNCHANGED <<doWords, loading, sets, leaves, words, counters, walk>>

EndQueries ==
  /\ loading
  /\ at = "idle"
  /\ loading' = FALSE
  /\ UNCHANGED <<doWords, sets, leaves, words, adding, failures, counters, at, walk>>
-----------------------------------------------------------------------------
(* findFileHits has a line of n tokens and its count.                      *)

KeptHits == counthits

NoHits == <<>>           (* numhits = 0 *)

ReadLine(l, c) ==
  /\ ~loading
  /\ at = "idle"
  /\ bigcount + c <= MaxTotal
  /\ bigcount' = bigcount + c
  /\ line' = l
  /\ curcount' = c
  /\ i' = 1
  /\ counthits' = NoHits
  /\ choice' = <<>>
  /\ found' = FALSE
  /\ at' = IF doWords = "dontCount" THEN "exact" ELSE "words"
  /\ UNCHANGED <<tree, count, wordCount, matched>>

(* incrementWords, one token.  Under -r a word already in counthits is not *)
(* counted again.                                                          *)
Seen(w) == \E j \in 1..Len(counthits) : counthits[j] = w

CountsNow(w) == w \in words /\ (doWords = "countOcc" => ~Seen(w))

RememberNot(w) == counthits

Remember(w) == IF doWords = "countOcc" THEN Append(counthits, w) ELSE counthits

IncrementWord ==
  /\ at = "words"
  /\ i <= n
  /\ IF CountsNow(line[i])
     THEN /\ wordCount' = [wordCount EXCEPT ![line[i]] = @ + curcount]
          /\ counthits' = Remember(line[i])
     ELSE UNCHANGED <<wordCount, counthits>>
  /\ i' = i + 1
  /\ UNCHANGED <<tree, count, bigcount, matched, at, line, curcount, choice, found>>

(* procPrep allocates n-1 entries for counthits.  The store of an n-th hit *)
(* lands behind them: either in memory nobody uses (IncrementWord) or in   *)
(* the allocator's own, and the process aborts.                            *)
HitCapacity == n - 1

OverrunHits ==
  /\ at = "words"
  /\ i <= n
  /\ doWords = "countOcc"
  /\ CountsNow(line[i])
  /\ Len(counthits) >= HitCapacity
  /\ at' = "crashed"
  /\ UNCHANGED <<tree, count, wordCount, bigcount, matched,
                 line, curcount, i, counthits, choice, found>>

EndWords ==
  /\ at = "words"
  /\ i > n
  /\ at' = "exact"
  /\ UNCHANGED <<tree, count, wordCount, bigcount, matched,
                 line, curcount, i, counthits, choice, found>>
-----------------------------------------------------------------------------
(* incrementQueries, one lookup per step.                                  *)

Kinds == {"exact", "wild"}

TokenOf(ch, j) == IF ch[j] = "exact" THEN line[j] ELSE WILDCARD

PathOf(ch) == [j \in 1..Len(ch) |-> TokenOf(ch, j)]

LeafDepth == n - 1       (* currentdepth = querylength - 1: a table of exactitems *)

Unchanged == UNCHANGED <<tree, wordCount, bigcount, line, curcount, i, counthits>>

(* Look up the line's token ("exact") or <*> ("wild") among the setitems;  *)
(* call incrementQueries on the table found, else go on with "otherwise".  *)
Lookup(kind, otherwise) ==
  /\ at = kind
  /\ Len(choice) < LeafDepth
  /\ IF PathOf(Append(choice, kind)) \in sets
     THEN choice' = Append(choice, kind) /\ at' = "exact"
     ELSE choice' = choice /\ at' = otherwise
  /\ UNCHANGED <<count, matched, found>>
  /\ Unchanged

LookupExact == Lookup("exact", "wild")
LookupWild  == Lookup("wild", "return")

(* Both lookups in a table of exactitems. *)
BumpSet(cnt, q) == IF q \in leaves THEN [cnt EXCEPT ![q] = curcount] ELSE cnt

Bump(cnt, q) == IF q \in leaves THEN [cnt EXCEPT ![q] = @ + curcount] ELSE cnt

LookupLeaf ==
  LET exact == PathOf(Append(choice, "exact"))
      wild  == PathOf(Append(choice, "wild"))
  IN /\ at = "exact"
     /\ Len(choice) = LeafDepth
     /\ count' = Bump(Bump(count, exact), wild)
     /\ found' = (found \/ exact \in leaves \/ wild \in leaves)
     /\ at' = "return"
     /\ UNCHANGED <<choice, matched>>
     /\ Unchanged

(* The caller goes on behind its call: after the lookup of the token comes *)
(* the one of <*>, after that its own return.                              *)
Caller(ch) == SubSeq(ch, 1, Len(ch) - 1)

ResumeElse(kind) == "return"

Resume(kind) == IF kind = "exact" THEN "wild" ELSE "return"

Return ==
  /\ at = "return"
  /\ choice # <<>>
  /\ choice' = Caller(choice)
  /\ at' = Resume(choice[Len(choice)])
  /\ UNCHANGED <<count, matched, found>>
  /\ Unchanged

(* Back in findFileHits: the line goes to wildF if some query matched.     *)
EndLine ==
  /\ at = "return"
  /\ choice = <<>>
  /\ matched' = IF printIndividualCounts /\ found THEN Append(matched, line) ELSE matched
  /\ at' = "idle"
  /\ UNCHANGED <<count, choice, found>>
  /\ Unchanged
-----------------------------------------------------------------------------
Init ==
  /\ doWords \in WordModes
  /\ loading = TRUE
  /\ sets = {} /\ leaves = {} /\ words = {}
  /\ asking = <<>> /\ pos = 1 /\ level = <<>>
  /\ failures = 0
  /\ count = [q \in Query |-> 0]
  /\ wordCount = [w \in Words |-> 0]
  /\ bigcount = 0
  /\ matched = <<>>
  /\ at = "idle"
  /\ line \in {[j \in 1..n |-> w] : w \in {CHOOSE w \in Words : TRUE}}
  /\ curcount = 0
  /\ i = 1
  /\ counthits = <<>> /\ choice = <<>>
  /\ found = FALSE

ProcessQuery ==
  \/ AddSet \/ AddSetFails
  \/ AddLeaf \/ AddLeafFails
  \/ AddWord \/ AddWordFails

ProcessLine ==
  \/ IncrementWord \/ OverrunHits \/ EndWords
  \/ LookupExact \/ LookupWild \/ LookupLeaf
  \/ Return \/ EndLine

Next ==
  \/ \E q \in Queries : AddQuery(q)
  \/ ProcessQuery
  \/ EndQueries
  \/ \E l \in Lines, c \in Counts : ReadLine(l, c)
  \/ ProcessLine

(* One thread does all the work and nothing in it blocks. *)
Fairness == WF_vars(ProcessQuery \/ ProcessLine)

Spec == Init /\ [][Next]_vars /\ Fairness
-----------------------------------------------------------------------------
(* What the query in progress has still to add: its path and its words.    *)

FinalQueries ==
  leaves \cup IF at \in {"set", "aborted"} \/ (at = "word" /\ InnerToken) THEN {asking} ELSE {}

FinalWords ==
  words \cup IF doWords # "dontCount" /\ at \in AddSteps \cup {"aborted"}
             THEN {asking[j] : j \in pos..n} \ {WILDCARD} ELSE {}

(* What the line in progress has still to add.  Below: the table at the    *)
(* top of the stack lies on the path of q.  Later: a caller still has to   *)
(* look up <*>, and q takes that branch there.                             *)

Agree(q, ch, d) == \A j \in 1..d : q[j] = TokenOf(ch, j)

Below(q, ch) == Agree(q, ch, Len(ch))

Later(q, ch) == \E e \in 1..Len(ch) :
                  /\ ch[e] = "exact"
                  /\ Agree(q, ch, e - 1)
                  /\ q[e] = WILDCARD

Pending(q) ==
  /\ q \in leaves
  /\ Matches(q)
  /\ \/ at \in {"words", "crashed"}
     \/ at = "exact" /\ Below(q, choice)
     \/ at = "wild" /\ Below(q, choice) /\ q[Len(choice) + 1] = WILDCARD
     \/ at \in {"exact", "wild", "return"} /\ Later(q, choice)

Remaining(w) == {j \in i..n : line[j] = w}

PendingWord(w) ==
  IF w \notin words \/ at \notin {"words", "crashed"} THEN 0
  ELSE IF doWords = "countInst" THEN curcount * Cardinality(Remaining(w))
  ELSE IF ~Seen(w) /\ Remaining(w) # {} THEN curcount ELSE 0

(* The state of the promise: this one once the query or the line in        *)
(* progress is done.                                                       *)
FinalCount == [q \in Query |-> count[q] + IF Pending(q) THEN curcount ELSE 0]

FinalWordCount == [w \in Words |-> wordCount[w] + PendingWord(w)]

FinalMatched ==
  IF /\ printIndividualCounts
     /\ at # "idle"
     /\ found \/ \E q \in leaves : Pending(q)
  THEN Append(matched, line) ELSE matched

Promise == INSTANCE NgramCounts WITH
  queries   <- FinalQueries,
  count     <- FinalCount,
  words     <- FinalWords,
  wordCount <- FinalWordCount,
  matched   <- FinalMatched,
  memoryFails <- MaxFailures > 0

PromiseSpec == Promise!Spec
-----------------------------------------------------------------------------
(* Every variable has its type, and neither addQuery nor the walk is ever  *)
(* deeper than the tree.                                                   *)
TypeOK ==
  /\ doWords \in WordModes
  /\ loading \in BOOLEAN
  /\ sets \subseteq UNION {[1..d -> Token] : d \in 1..n-1}
  /\ leaves \subseteq Query
  /\ count \in [Query -> Nat]
  /\ words \subseteq Words
  /\ asking \in Query \cup {<<>>}
  /\ pos \in 1..n
  /\ level \in Seq(Token) /\ Len(level) <= n - 1
  /\ failures \in 0..MaxFailures
  /\ wordCount \in [Words -> Nat]
  /\ bigcount \in Nat
  /\ matched \in Seq(Line)
  /\ at \in Steps
  /\ line \in Line
  /\ curcount \in Nat
  /\ i \in 1..n+1
  /\ counthits \in Seq(Words)
  /\ choice \in Seq(Kinds)
  /\ Len(choice) <= n - 1
  /\ found \in BOOLEAN

(* The tree holds the path of every query, and no table that is on the     *)
(* path of none, whichever tables of earlier queries addQuery reuses on    *)
(* its way: a walk that misses a node misses no query.  Only insertions    *)
(* that fail leave tables behind with nothing below.                       *)
TreeHoldsQueries ==
  /\ \A q \in leaves, d \in 1..n-1 : Prefix(q, d) \in sets
  /\ failures = 0 => \A p \in sets : \E q \in FinalQueries : \E d \in 1..n-1 : p = Prefix(q, d)

(* No query is lost: what addQuery was called for is in the tree when it   *)
(* returns (README.txt:79 "the totals for each query").                    *)
QueriesKept == [][FinalQueries \subseteq FinalQueries']_vars

(* A query of <*> only has been given the count of every line: the sum the *)
(* tree walk collects agrees with the one findFileHits keeps beside it.    *)
WildcardTotal ==
  at = "idle" =>
    \A q \in leaves : (\A j \in 1..n : q[j] = WILDCARD) => count[q] = bigcount

(* Between lines, a query with a wildcard in place of a token never counts *)
(* less than the query it generalises, whatever branches the two share.    *)
Generalises(p, q) == \A j \in 1..n : p[j] \in {q[j], WILDCARD}

GeneralCountsMore ==
  at = "idle" => \A p, q \in leaves : Generalises(p, q) => count[p] >= count[q]

(* Under -r and -s, a word of a query, unless it could not be inserted, is *)
(* counted on every line the query matches: its count never falls behind,  *)
(* and under -r, where a line counts once however often the word occurs,   *)
(* never exceeds the total.                                                *)
WordsCoverQueries ==
  at = "idle" /\ doWords # "dontCount" =>
    \A q \in leaves, j \in 1..n :
      q[j] # WILDCARD /\ (failures > 0 => q[j] \in words) =>
      /\ wordCount[q[j]] >= count[q]
      /\ doWords = "countOcc" => wordCount[q[j]] <= bigcount

(* Every hit of a line fits the array that procPrep allocated for them     *)
(* (g1tproc.c:231 "ensure required memory buffers are allocated").         *)
HitsFit == Len(counthits) <= HitCapacity
=============================================================================

---------------------------- MODULE CoocCounter ----------------------------
(***************************************************************************)
(* Counting co-occurrences (-o), from addTokPair to destroyCounters.  The  *)
(* tree has two levels: a table of first tokens, and for each of them a    *)
(* table of second tokens.  Either order of a pair has an item, and both   *)
(* point to one counter on the heap.  While lines are counted the pointers *)
(* tell pairs apart; before the output one of the two is cleared, so that  *)
(* one order is written and the counter is freed once.                     *)
(*                                                                         *)
(* Modelled without -s, -r and -i, which do the same here as in n-gram     *)
(* mode (module QueryTrie), and with all allocations succeeding.           *)
(*                                                                         *)
(* An operator no action uses, just before another of the same shape, is   *)
(* a wrong version of that one, to try the properties on.                  *)
(***************************************************************************)
EXTENDS Integers, Sequences, FiniteSets

CONSTANTS
  Words,             (* numbers, in the order of strcmp                    *)
  n, Counts, printZeroCounts,
  MaxPairs,          (* bound: counters allocated                          *)
  MaxTotal           (* bound: the largest bigcount                        *)

ASSUME WordsAssumption == Words \subseteq Nat
ASSUME NAssumption == n \in Nat \ {0, 1}
ASSUME CountsAssumption == Counts \subseteq Nat /\ printZeroCounts \in BOOLEAN

VARIABLES
  starts,      (* keys of counters->queries                                *)
  leaves,      (* <<f, s>>: s is an item of the table of f                 *)
  counter,     (* the counter each item was given                          *)
  cleared,     (* the items whose count is NULL                            *)
  heap, freed, (* the counters, by address; those that were freed          *)
  bigcount,
  pc,          (* the phase, or the function it is in                      *)
  wstarts, thecount,                             (* addTokPair             *)
  line, curcount, i, j, hitstarts, counthits,    (* incrementCooc          *)
  table, todo, (* hshwalk, hshkill: where they are, the items to come      *)
  rows         (* what was written                                         *)

tree   == <<starts, leaves, counter, cleared>>
pair   == <<wstarts, thecount>>
scan   == <<line, curcount, i, j, hitstarts, counthits>>
walk   == <<table, todo>>
vars   == <<tree, heap, freed, bigcount, pc, pair, scan, walk, rows>>

NULL == 0

Item == Words \X Words
Line == [1..n -> Words]
-----------------------------------------------------------------------------
(* addTokPair: one iteration of its loop for the item e.                   *)

NewCount == Len(heap) + 1

AddressNew == NewCount

Address == IF thecount = NULL THEN NewCount ELSE thecount

(* The item that dupexact makes has the counter it was given. *)
dupexact(e, c) == leaves' = leaves \cup {e} /\ counter' = [counter EXCEPT ![e] = c]

AddItem(e) ==
  /\ starts' = starts \cup {e[1]}
  /\ IF e \in leaves
     THEN UNCHANGED <<leaves, counter, heap, thecount>>
     ELSE /\ dupexact(e, Address)
          /\ heap' = IF Address = NewCount THEN Append(heap, 0) ELSE heap
          /\ thecount' = Address

AddTokPair(f, s) ==
  /\ pc = "queries"
  /\ <<f, s>> \in leaves \/ Len(heap) < MaxPairs
  /\ AddItem(<<f, s>>)
  /\ wstarts' = <<f, s>>
  /\ pc' = "addTokPair"
  /\ UNCHANGED <<cleared, freed, bigcount, scan, walk, rows>>

AddOtherOrder ==
  /\ pc = "addTokPair"
  /\ AddItem(<<wstarts[2], wstarts[1]>>)
  /\ pc' = "return"
  /\ UNCHANGED <<cleared, freed, bigcount, wstarts, scan, walk, rows>>

(* The locals are dead, and forgotten here. *)
AddReturns ==
  /\ pc = "return"
  /\ wstarts' = <<>> /\ thecount' = NULL
  /\ pc' = "queries"
  /\ UNCHANGED <<tree, heap, freed, bigcount, scan, walk, rows>>

EndQueries ==
  /\ pc = "queries"
  /\ pc' = "corpus"
  /\ UNCHANGED <<tree, heap, freed, bigcount, pair, scan, walk, rows>>
-----------------------------------------------------------------------------
(* findFileHits has a line of n tokens and its count.                      *)
ReadLine(l, c) ==
  /\ pc = "corpus"
  /\ bigcount + c <= MaxTotal
  /\ bigcount' = bigcount + c
  /\ line' = l /\ curcount' = c
  /\ i' = 1 /\ j' = 1
  /\ hitstarts' = <<>> /\ counthits' = <<>>
  /\ pc' = "incrementCooc"
  /\ UNCHANGED <<tree, heap, freed, pair, walk, rows>>

(* Token i of the line, as second token of the j-th table found so far. *)
Found == <<hitstarts[j], line[i]>>

UseAlways(c) == TRUE

UseCount(c) == \A k \in 1..Len(counthits) : counthits[k] # c

LookupPair ==
  /\ pc = "incrementCooc"
  /\ i <= n /\ j <= Len(hitstarts)
  /\ IF Found \in leaves /\ UseCount(counter[Found])
     THEN /\ heap' = [heap EXCEPT ![counter[Found]] = @ + curcount]
          /\ counthits' = Append(counthits, counter[Found])
     ELSE UNCHANGED <<heap, counthits>>
  /\ j' = j + 1
  /\ UNCHANGED <<tree, freed, bigcount, pc, pair, line, curcount, i, hitstarts, walk, rows>>

(* counthits has room for n-1 counters, a line can hit n(n-1)/2: as in     *)
(* QueryTrie, the store behind them may be the end of the process.         *)
HitCapacity == n - 1

OverrunHits ==
  /\ pc = "incrementCooc"
  /\ i <= n /\ j <= Len(hitstarts)
  /\ Found \in leaves /\ UseCount(counter[Found])
  /\ Len(counthits) >= HitCapacity
  /\ pc' = "crashed"
  /\ UNCHANGED <<tree, heap, freed, bigcount, pair, scan, walk, rows>>

LastNever == FALSE

Last == i = n                              (* the last token starts nothing *)

LookupStart ==
  /\ pc = "incrementCooc"
  /\ j > Len(hitstarts) /\ i <= n /\ ~Last
  /\ hitstarts' = IF line[i] \in starts THEN Append(hitstarts, line[i]) ELSE hitstarts
  /\ i' = i + 1 /\ j' = 1
  /\ UNCHANGED <<tree, heap, freed, bigcount, pc, pair, line, curcount, counthits, walk, rows>>

EndLine ==
  /\ pc = "incrementCooc"
  /\ i > n \/ (Last /\ j > Len(hitstarts))
  /\ pc' = "corpus"
  /\ line' = <<>> /\ curcount' = 0 /\ i' = 1 /\ j' = 1
  /\ hitstarts' = <<>> /\ counthits' = <<>>
  /\ UNCHANGED <<tree, heap, freed, bigcount, pair, walk, rows>>
-----------------------------------------------------------------------------
(* hshwalk over the first tokens, and within it over the table of each; in *)
(* which order, the hash functions decide.                                 *)
StartWalk == todo' = leaves /\ table' = NULL

ToVisit ==
  IF \E e \in todo : table = e[1] THEN {e \in todo : e[1] = table} ELSE todo

VisitAgain(e) == e \in ToVisit /\ todo' = todo /\ table' = e[1]

Visit(e) == e \in ToVisit /\ todo' = todo \ {e} /\ table' = e[1]

EndCorpus ==
  /\ pc = "corpus"
  /\ StartWalk
  /\ pc' = "rationalise"
  /\ UNCHANGED <<tree, heap, freed, bigcount, pair, scan, rows>>

(* doRation *)
Other(e) == <<e[2], e[1]>>

LoserNone(e) == {}

LoserLower(e) ==
  IF e \in cleared \/ Other(e) \in cleared THEN {}
  ELSE IF e[1] < e[2] THEN {e} ELSE {Other(e)}

LoserBoth(e) == {Other(e)}

Loser(e) ==
  IF e \in cleared \/ Other(e) \in cleared THEN {}
  ELSE IF e[1] > e[2] THEN {e} ELSE {Other(e)}

Rationalise(e) ==
  /\ pc = "rationalise"
  /\ Visit(e)
  /\ cleared' = cleared \cup Loser(e)
  /\ UNCHANGED <<starts, leaves, counter, heap, freed, bigcount, pc, pair, scan, rows>>

EndRationalise ==
  /\ pc = "rationalise" /\ todo = {}
  /\ StartWalk
  /\ pc' = "write"
  /\ UNCHANGED <<tree, heap, freed, bigcount, pair, scan, rows>>

(* writequery *)
Wanted(e) == e \notin cleared /\ (printZeroCounts \/ heap[counter[e]] # 0)

WriteQuery(e) ==
  /\ pc = "write"
  /\ Visit(e)
  /\ rows' = IF Wanted(e) THEN Append(rows, <<e, heap[counter[e]]>>) ELSE rows
  /\ UNCHANGED <<tree, heap, freed, bigcount, pc, pair, scan>>

EndWrite ==
  /\ pc = "write" /\ todo = {}
  /\ StartWalk
  /\ pc' = "kill"
  /\ UNCHANGED <<tree, heap, freed, bigcount, pair, scan, rows>>

(* hshkill with freeset and freeexact.  free(NULL) does nothing; a second  *)
(* free of the same counter is the end of the process.                     *)
FreeExact(e) ==
  /\ pc = "kill"
  /\ Visit(e)
  /\ IF e \in cleared THEN UNCHANGED <<freed, pc>>
     ELSE /\ freed' = freed \cup {counter[e]}
          /\ pc' = IF counter[e] \in freed THEN "double free" ELSE pc
  /\ UNCHANGED <<tree, heap, bigcount, pair, scan, rows>>

EndKill ==
  /\ pc = "kill" /\ todo = {}
  /\ pc' = "end"
  /\ UNCHANGED <<tree, heap, freed, bigcount, pair, scan, walk, rows>>
-----------------------------------------------------------------------------
Init ==
  /\ starts = {} /\ leaves = {} /\ cleared = {}
  /\ counter = [e \in Item |-> NULL]
  /\ heap = <<>> /\ freed = {} /\ bigcount = 0
  /\ pc = "queries"
  /\ wstarts = <<>> /\ thecount = NULL
  /\ line = <<>> /\ curcount = 0 /\ i = 1 /\ j = 1
  /\ hitstarts = <<>> /\ counthits = <<>>
  /\ table = NULL /\ todo = {}
  /\ rows = <<>>

addTokPair == AddOtherOrder \/ AddReturns

incrementCooc == LookupPair \/ OverrunHits \/ LookupStart \/ EndLine

Output ==
  \/ \E e \in Item : Rationalise(e) \/ WriteQuery(e) \/ FreeExact(e)
  \/ EndRationalise \/ EndWrite \/ EndKill

Next ==
  \/ \E f, s \in Words : AddTokPair(f, s)
  \/ addTokPair
  \/ EndQueries
  \/ \E l \in Line, c \in Counts : ReadLine(l, c)
  \/ incrementCooc
  \/ EndCorpus
  \/ Output

(* One thread, which waits for nothing once it has a line or none is left. *)
Fairness == WF_vars(addTokPair \/ incrementCooc \/ Output)

Spec == Init /\ [][Next]_vars /\ Fairness
-----------------------------------------------------------------------------
PairOf(e) == {e[1], e[2]}

PairItem(p) == CHOOSE e \in Item : PairOf(e) = p /\ e \in leaves

Asked == {PairOf(e) : e \in leaves}

Cooccurs(p) == \E k, l \in 1..n : k < l /\ {line[k], line[l]} = p

(* What the line in progress has still to add to p. *)
Pending(p) ==
  /\ pc \in {"incrementCooc", "crashed"}
  /\ Cooccurs(p)
  /\ UseCount(counter[PairItem(p)])

FinalCount ==
  [p \in {PairOf(e) : e \in Item} |->
     IF p \notin Asked THEN 0
     ELSE heap[counter[PairItem(p)]] + IF Pending(p) THEN curcount ELSE 0]

Phase ==
  CASE pc \in {"queries", "addTokPair", "return"} -> "queries"
    [] pc \in {"corpus", "incrementCooc", "crashed"} -> "corpus"
    [] pc \in {"rationalise", "write"} -> "output"
    [] OTHER -> "end"

Promise == INSTANCE PairCounts WITH
  phase <- Phase,
  asked <- Asked,
  count <- FinalCount

PromiseSpec == Promise!Spec
-----------------------------------------------------------------------------
(* Every variable has its type, and hitstarts the room procPrep gave it.   *)
TypeOK ==
  /\ starts \subseteq Words /\ leaves \subseteq Item /\ cleared \subseteq leaves
  /\ heap \in Seq(Nat)
  /\ counter \in [Item -> 0..Len(heap)]
  /\ freed \subseteq 1..Len(heap)
  /\ bigcount \in Nat /\ curcount \in Nat
  /\ pc \in {"queries", "addTokPair", "return", "corpus", "incrementCooc", "crashed",
             "rationalise", "write", "kill", "double free", "end"}
  /\ wstarts \in Seq(Words) /\ (pc = "addTokPair" => Len(wstarts) = 2)
  /\ thecount \in 0..Len(heap)
  /\ line = <<>> \/ line \in Line
  /\ i \in 1..n+1 /\ j \in 1..Len(hitstarts)+1
  /\ hitstarts \in Seq(Words) /\ Len(hitstarts) <= n - 1
  /\ counthits \in Seq(1..Len(heap))
  /\ table \in Words \cup {NULL} /\ todo \subseteq leaves
  /\ rows \in Seq(Item \X Nat)

(* Between calls both orders of a pair have an item, the two point to the  *)
(* same counter, and no counter serves two pairs: comparing pointers       *)
(* (g1tproc.c:145) is comparing pairs.                                     *)
CounterPerPair ==
  pc \notin {"addTokPair", "return"} =>
    /\ \A e \in leaves : Other(e) \in leaves /\ e[1] \in starts
    /\ \A e, d \in leaves : counter[e] = counter[d] <=> PairOf(e) = PairOf(d)

(* destroyCounters never frees a counter twice, in whatever order the      *)
(* tables were walked.                                                     *)
FreedOnce == pc # "double free"

(* No counter is left behind either, except those of tokens paired with    *)
(* themselves, which doRation clears without another item to keep them.    *)
AllFreed ==
  pc = "end" => \A e \in leaves : e[1] # e[2] => counter[e] \in freed

(* Every walk, and the line in progress, comes to an end. *)
Finishes ==
  pc \notin {"queries", "corpus"} ~> pc \in {"queries", "corpus", "crashed", "end"}

(* "the totals for each query" (README.txt): with -z, every pair asked for *)
(* is in the output.                                                       *)
EveryPairWritten ==
  pc = "end" /\ printZeroCounts =>
    \A e \in leaves : \E k \in 1..Len(rows) : PairOf(rows[k][1]) = PairOf(e)
=============================================================================

-------------------------- MODULE QueryTrieProofs --------------------------
(***************************************************************************)
(* Proofs about QueryTrie. IInv is inductive: it says that the table       *)
(* addQuery is at is the one at the end of the tokens it has dealt with,   *)
(* and that the tree has these tables. The refinement rests on Pending: a  *)
(* query is pending until the walk has settled it, each lookup settles the *)
(* queries it finds and hides none, so that FinalCount stands still while  *)
(* the line is worked on. The relations between counts are then proved of  *)
(* the promise's steps and carried over to the idle states.                *)
(***************************************************************************)
EXTENDS QueryTrie, TLAPS, FiniteSetTheorems, SequenceTheorems

(* Where addQuery is: in the table its tokens so far lead to.              *)
LevelRight ==
  at \in AddSteps \cup {"aborted"} =>
    /\ asking \in Query
    /\ Len(level) = IF at = "word" /\ InnerToken THEN pos ELSE pos - 1
    /\ \A d \in 1..Len(level) : level[d] = asking[d] /\ Prefix(asking, d) \in sets

(* The words a query names, which are counted unless one was lost. *)
WordOf(q, w) == \E j \in 1..n : q[j] = w /\ w # WILDCARD

WordsKept ==
  failures = 0 /\ doWords # "dontCount" =>
    \A q \in FinalQueries, w \in Words : WordOf(q, w) => w \in FinalWords

(* The phases of main. *)
Phases ==
  /\ loading => at \in {"idle", "aborted"} \cup AddSteps /\ ~found
  /\ ~loading => at \in {"idle", "crashed"} \cup WalkSteps
  /\ at \in {"words", "crashed"} => choice = <<>> /\ ~found /\ doWords # "dontCount"
  /\ at = "wild" => Len(choice) < LeafDepth

(* The inductive invariant: types, the closed tree, its words, and where   *)
(* addQuery and the walk are.                                              *)
IInv ==
  /\ TypeOK
  /\ TreeHoldsQueries
  /\ LevelRight
  /\ WordsKept
  /\ Phases

(* main starts with empty tables, so the invariant holds at first. *)
LEMMA InitTypes == Init => IInv
<1> SUFFICES ASSUME Init PROVE IInv
  OBVIOUS
<1> USE NAssumption, WordsAssumption, ModesAssumption, FailuresAssumption
<1>1. line \in Line
  BY DEF Init, Line
<1>2. count \in [Query -> Nat] /\ wordCount \in [Words -> Nat]
  BY DEF Init
<1>3. i \in 1..n+1 /\ pos \in 1..n /\ failures \in 0..MaxFailures
  BY DEF Init
<1>4. /\ sets \subseteq UNION {[1..d -> Token] : d \in 1..n-1}
      /\ matched \in Seq(Line)
      /\ counthits \in Seq(Words)
      /\ choice \in Seq(Kinds)
      /\ Len(choice) <= n - 1
      /\ level \in Seq(Token)
      /\ Len(level) <= n - 1
  BY DEF Init
<1>5. TypeOK
  BY <1>1, <1>2, <1>3, <1>4 DEF Init, TypeOK, Steps
<1>6. FinalQueries = {}
  BY DEF Init, FinalQueries
<1> QED
  BY <1>5, <1>6 DEF Init, IInv, TreeHoldsQueries, LevelRight, WordsKept, Phases, AddSteps, WalkSteps

(* The table addQuery looks its token up in, and what it finds or inserts  *)
(* there: the path of the query as far as this token.                      *)
LEMMA EntryPath ==
  ASSUME IInv, at = "set"
  PROVE  /\ Entry = Prefix(asking, pos)
         /\ Entry \in [1..pos -> Token] /\ Entry \in Seq(Token) /\ Len(Entry) = pos
         /\ \A d \in 1..pos : Entry[d] = asking[d]
         /\ pos = n => Entry = asking
<1> USE NAssumption
<1>1. /\ asking \in [1..n -> Token] /\ pos \in 1..n
      /\ level \in Seq(Token) /\ Len(level) = pos - 1
      /\ \A d \in 1..pos-1 : level[d] = asking[d]
  BY DEF IInv, TypeOK, LevelRight, AddSteps, Query
<1>2. asking[pos] \in Token
  BY <1>1
<1>3. /\ Entry \in Seq(Token) /\ Len(Entry) = pos
      /\ \A d \in 1..pos-1 : Entry[d] = level[d]
      /\ Entry[pos] = asking[pos]
  BY <1>1, <1>2 DEF Entry
<1>4. \A d \in 1..pos : Entry[d] = asking[d]
  BY <1>1, <1>3
<1>5. Entry \in [1..pos -> Token]
  BY <1>1, <1>3
<1>6. Entry = [d \in 1..pos |-> asking[d]]
  BY <1>4, <1>5
<1>7. pos = n => Entry = asking
  BY <1>1, <1>4, <1>5
<1> QED
  BY <1>3, <1>4, <1>5, <1>6, <1>7 DEF Prefix

(* A recursive call of incrementQueries pushes one choice. *)
LEMMA StackPush == ASSUME NEW ch \in Seq(Kinds), NEW k \in Kinds
  PROVE /\ Append(ch, k) \in Seq(Kinds)
        /\ Len(Append(ch, k)) = Len(ch) + 1
        /\ Append(ch, k)[Len(ch) + 1] = k
        /\ \A j \in 1..Len(ch) : Append(ch, k)[j] = ch[j]
        /\ Append(ch, k) # <<>>
BY DEF Kinds

(* A prefix of a stack is a stack. *)
LEMMA SubSeqTop == ASSUME NEW ch, NEW m \in Nat, \A j \in 1..m : ch[j] \in Kinds
  PROVE /\ SubSeq(ch, 1, m) \in Seq(Kinds)
        /\ Len(SubSeq(ch, 1, m)) = m
        /\ \A j \in 1..m : SubSeq(ch, 1, m)[j] = ch[j]
<1> SUFFICES ASSUME NEW top, top = SubSeq(ch, 1, m)
             PROVE  top \in Seq(Kinds) /\ Len(top) = m /\ \A j \in 1..m : top[j] = ch[j]
  OBVIOUS
<1>1. 1 \in Int /\ m \in Int
  OBVIOUS
<1>2. /\ top \in Seq(Kinds)
      /\ Len(top) = IF 1 <= m THEN m - 1 + 1 ELSE 0
      /\ \A j \in 1..(m - 1 + 1) : top[j] = ch[1 + j - 1]
  BY <1>1, SubSeqProperties
<1>3. Len(top) = m
  BY <1>2
<1>4. \A j \in 1..m : top[j] = ch[j]
  <2> SUFFICES ASSUME NEW j \in 1..m PROVE top[j] = ch[j]
    OBVIOUS
  <2>1. j \in 1..(m - 1 + 1) /\ 1 + j - 1 = j
    OBVIOUS
  <2>2. top[j] = ch[1 + j - 1]
    BY <1>2, <2>1, Zenon
  <2> QED
    BY <2>1, <2>2
<1> QED
  BY <1>2, <1>3, <1>4

(* A return of incrementQueries pops the last choice. *)
LEMMA StackPop == ASSUME NEW ch \in Seq(Kinds), ch # <<>>
  PROVE /\ Caller(ch) \in Seq(Kinds)
        /\ Len(ch) \in Nat \ {0}
        /\ ch[Len(ch)] \in Kinds
        /\ Len(Caller(ch)) = Len(ch) - 1
        /\ \A j \in 1..Len(ch) - 1 : Caller(ch)[j] = ch[j]
<1>1. Len(ch) \in Nat
  BY LenProperties
<1>2. Len(ch) # 0
  BY <1>1, SMT
<1>3. ch[Len(ch)] \in Kinds
  BY <1>1, <1>2, ElementOfSeq
<1>4. \A j \in 1..Len(ch) - 1 : ch[j] \in Kinds
  BY <1>1, ElementOfSeq
<1>5. /\ Caller(ch) \in Seq(Kinds)
      /\ Len(Caller(ch)) = Len(ch) - 1
      /\ \A j \in 1..Len(ch) - 1 : Caller(ch)[j] = ch[j]
  <2>1. Len(ch) - 1 \in Nat
    BY <1>1, <1>2
  <2> QED
    BY <2>1, <1>4, SubSeqTop, Zenon DEF Caller
<1> QED
  BY <1>1, <1>2, <1>3, <1>5

(* Nothing of addQuery is in progress: the queries of the promise are      *)
(* those of the tree.                                                      *)
LEMMA NoneAdding ==
  at \notin AddSteps \cup {"aborted"} => FinalQueries = leaves /\ FinalWords = words
BY DEF FinalQueries, FinalWords, AddSteps

(* The tokens addQuery has still to deal with. *)
LEMMA LaterTokens ==
  ASSUME NEW f, NEW p \in 1..n
  PROVE  {f[j] : j \in p..n} = {f[p]} \cup {f[j] : j \in p+1..n}
BY NAssumption

(* A word that is inserted after its token has been settled as it was to   *)
(* be; one that is not is lost, unless the query has it again.             *)
LEMMA WordStep ==
  ASSUME IInv, at = "word", NextToken, UNCHANGED <<doWords, leaves>>
  PROVE  /\ UNCHANGED FinalQueries
         /\ words' = words \cup WantedWords => UNCHANGED FinalWords
         /\ words' = words => FinalWords = FinalWords' \cup WantedWords
<1> USE NAssumption
<1>2. pos \in 1..n
  BY DEF IInv, TypeOK
<1>3. {asking[j] : j \in pos..n} = {asking[pos]} \cup {asking[j] : j \in pos+1..n}
  BY <1>2, LaterTokens
<1>4. CASE pos < n
  <2>1. at' = "set" /\ pos' = pos + 1 /\ UNCHANGED <<asking, level>>
    BY <1>4 DEF NextToken
  <2>2. UNCHANGED FinalQueries
    BY <1>2, <1>4, <2>1 DEF FinalQueries, InnerToken
  <2>3. /\ FinalWords = words \cup IF doWords # "dontCount" THEN {asking[j] : j \in pos..n} \ {WILDCARD} ELSE {}
        /\ FinalWords' = words' \cup IF doWords # "dontCount" THEN {asking[j] : j \in pos+1..n} \ {WILDCARD} ELSE {}
    BY <2>1 DEF FinalWords, AddSteps
  <2> QED
    BY <1>3, <2>2, <2>3 DEF WantedWords
<1>5. CASE ~(pos < n)
  <2>1. at' = "idle" /\ pos = n
    BY <1>2, <1>5 DEF NextToken
  <2>2. UNCHANGED FinalQueries
    BY <2>1 DEF FinalQueries, InnerToken
  <2>3. {asking[j] : j \in pos+1..n} = {}
    BY <2>1
  <2>4. /\ FinalWords = words \cup IF doWords # "dontCount" THEN {asking[j] : j \in pos..n} \ {WILDCARD} ELSE {}
        /\ FinalWords' = words'
    BY <2>1 DEF FinalWords, AddSteps
  <2> QED
    BY <1>3, <2>2, <2>3, <2>4 DEF WantedWords
<1> QED
  BY <1>4, <1>5

(* What the steps of addQuery do to the queries and words of the promise.  *)
LEMMA SetStep ==
  ASSUME IInv, at = "set", UNCHANGED <<doWords, words, asking, pos>>, at' \in {"word", "aborted"}
  PROVE  /\ UNCHANGED FinalWords
         /\ leaves' = leaves /\ (InnerToken \/ at' = "aborted") => UNCHANGED FinalQueries
         /\ ~InnerToken /\ at' = "word" => FinalQueries = leaves \cup {asking} /\ FinalQueries' = leaves'
BY DEF FinalWords, FinalQueries, InnerToken, AddSteps

(* Every step of loading and of the pass over the corpus keeps the         *)
(* invariant.  The steps of the pass leave all of the tree alone.          *)
LEMMA TreeStays ==
  ASSUME IInv, UNCHANGED tree, at \notin AddSteps \cup {"aborted"}, at' \notin AddSteps \cup {"aborted"}
  PROVE  TreeHoldsQueries' /\ LevelRight' /\ WordsKept'
<1>1. /\ FinalQueries = leaves /\ FinalWords = words
      /\ FinalQueries' = leaves' /\ FinalWords' = words'
  BY NoneAdding DEF FinalQueries, FinalWords, AddSteps
<1>2. TreeHoldsQueries' /\ WordsKept'
  BY <1>1 DEF IInv, TreeHoldsQueries, WordsKept, tree, Prefix, WordOf
<1> QED
  BY <1>2 DEF LevelRight

(* The steps of addQuery. *)
LEMMA AddTypes ==
  ASSUME IInv, (\E q \in Queries : AddQuery(q)) \/ ProcessQuery PROVE IInv'
<1> USE NAssumption, WordsAssumption, ModesAssumption, FailuresAssumption
<1>0. UNCHANGED <<counters, walk, doWords, loading>>
  BY DEF AddQuery, ProcessQuery, AddSet, AddSetFails, AddLeaf, AddLeafFails, AddWord, AddWordFails, tree
<1>1. ASSUME NEW q \in Query, AddQuery(q) PROVE IInv'
  <2>1. /\ at = "idle" /\ at' = "set" /\ asking' = q /\ pos' = 1 /\ level' = <<>>
        /\ loading /\ UNCHANGED <<sets, leaves, words, failures>>
    BY <1>1 DEF AddQuery
  <2>2. FinalQueries = leaves /\ FinalWords = words /\ FinalQueries' = leaves \cup {q}
    BY <2>1, NoneAdding DEF FinalQueries, AddSteps
  <2>3. FinalWords' = words \cup IF doWords # "dontCount" THEN {q[j] : j \in 1..n} \ {WILDCARD} ELSE {}
    BY <1>0, <2>1 DEF FinalWords, AddSteps
  <2>4. /\ level' \in Seq(Token) /\ Len(level') = 0 /\ pos' \in 1..n
    BY <2>1
  <2>5. TypeOK'
    BY <1>0, <2>1, <2>4 DEF IInv, TypeOK, counters, walk, Steps, AddSteps
  <2>6. TreeHoldsQueries'
    BY <2>1, <2>2 DEF IInv, TreeHoldsQueries, Prefix
  <2>7. LevelRight'
    BY <2>1, <2>4 DEF LevelRight, InnerToken
  <2>8. WordsKept'
    BY <1>0, <2>1, <2>2, <2>3 DEF IInv, WordsKept, WordOf
  <2>9. Phases'
    BY <1>0, <2>1 DEF IInv, Phases, AddSteps, WalkSteps, walk
  <2> QED
    BY <2>5, <2>6, <2>7, <2>8, <2>9 DEF IInv
<1>2. CASE AddSet
  <2>1. /\ at = "set" /\ at' = "word" /\ pos \in 1..n-1 /\ InnerToken /\ InnerToken'
        /\ sets' = sets \cup {Entry} /\ level' = Entry
        /\ UNCHANGED <<leaves, words, asking, pos, failures>>
    BY <1>2 DEF AddSet, InnerToken, NextLevel, IInv, TypeOK
  <2>2. /\ Entry = Prefix(asking, pos)
        /\ Entry \in [1..pos -> Token] /\ Entry \in Seq(Token) /\ Len(Entry) = pos
        /\ \A d \in 1..pos : Entry[d] = asking[d]
    BY <2>1, EntryPath
  <2>3. UNCHANGED <<FinalQueries, FinalWords>>
    BY <1>0, <2>1, SetStep
  <2>4. asking \in Query /\ Len(level) = pos - 1 /\ asking \in FinalQueries
    BY <2>1 DEF IInv, LevelRight, AddSteps, FinalQueries
  <2>5. TypeOK'
    <3>1. sets' \subseteq UNION {[1..d -> Token] : d \in 1..n-1}
      BY <2>1, <2>2 DEF IInv, TypeOK
    <3>2. level' \in Seq(Token) /\ Len(level') <= n - 1
      BY <2>1, <2>2
    <3> QED
      BY <1>0, <2>1, <3>1, <3>2 DEF IInv, TypeOK, counters, walk, Steps, AddSteps
  <2>6. TreeHoldsQueries'
    <3>1. \A q, d : Prefix(q, d)' = Prefix(q, d)
      BY DEF Prefix
    <3> QED
      BY <2>1, <2>2, <2>3, <2>4, <3>1 DEF IInv, TreeHoldsQueries
  <2>7. LevelRight'
    <3>1. \A d \in 1..pos-1 : Prefix(asking, d) \in sets
      BY <2>1, <2>4 DEF IInv, LevelRight, AddSteps
    <3>2. Len(level') = pos
      BY <2>1, <2>2
    <3>3. \A d \in 1..pos : level'[d] = asking[d] /\ Prefix(asking, d) \in sets'
      BY <2>1, <2>2, <3>1
    <3> QED
      BY <2>1, <2>4, <3>2, <3>3 DEF LevelRight, Prefix
  <2>8. WordsKept'
    BY <1>0, <2>1, <2>3 DEF IInv, WordsKept, WordOf
  <2>9. Phases'
    BY <1>0, <2>1 DEF IInv, Phases, AddSteps, WalkSteps, walk
  <2> QED
    BY <2>5, <2>6, <2>7, <2>8, <2>9 DEF IInv
<1>3. CASE AddSetFails
  <2>1. /\ at = "set" /\ at' = "aborted" /\ failures' = failures + 1 /\ failures < MaxFailures
        /\ UNCHANGED <<sets, leaves, words, asking, pos, level>>
    BY <1>3 DEF AddSetFails, Fail, adding
  <2>2. failures \in Nat /\ failures' \in 0..MaxFailures /\ failures' # 0
    BY <2>1 DEF IInv, TypeOK
  <2>3. TypeOK'
    BY <1>0, <2>1, <2>2 DEF IInv, TypeOK, counters, walk, Steps, Stopped
  <2>4. TreeHoldsQueries' /\ WordsKept'
    BY <2>1, <2>2 DEF IInv, TreeHoldsQueries, WordsKept, Prefix
  <2>5. LevelRight'
    BY <2>1 DEF IInv, LevelRight, AddSteps, Prefix
  <2>6. Phases'
    BY <1>0, <2>1 DEF IInv, Phases, AddSteps, WalkSteps, walk
  <2> QED
    BY <2>3, <2>4, <2>5, <2>6 DEF IInv
<1>4. CASE AddLeaf \/ AddLeafFails
  <2>1. /\ at = "set" /\ at' = "word" /\ pos = n /\ ~InnerToken /\ ~InnerToken'
        /\ UNCHANGED <<sets, words, asking, pos, level>>
    BY <1>4 DEF AddLeaf, AddLeafFails, InnerToken, IInv, TypeOK, adding
  <2>2. /\ Entry = asking /\ asking \in Query /\ Len(level) = n - 1
        /\ \A d \in 1..n-1 : Prefix(asking, d) \in sets
    BY <2>1, EntryPath DEF IInv, LevelRight, AddSteps
  <2>3. /\ leaves' \in {leaves, leaves \cup {asking}} /\ failures' \in 0..MaxFailures
        /\ failures' = 0 => failures = 0 /\ leaves' = leaves \cup {asking}
    BY SMTT(30), <1>4, <2>2 DEF AddLeaf, AddLeafFails, Fail, IInv, TypeOK
  <2>4. /\ UNCHANGED FinalWords
        /\ FinalQueries = leaves \cup {asking} /\ FinalQueries' = leaves'
    BY <1>0, <2>1, SetStep
  <2>5. TypeOK'
    BY <1>0, <2>1, <2>2, <2>3 DEF IInv, TypeOK, counters, walk, Steps, AddSteps
  <2>6. TreeHoldsQueries'
    <3>1. \A q, d : Prefix(q, d)' = Prefix(q, d)
      BY DEF Prefix
    <3> QED
      BY <2>1, <2>2, <2>3, <2>4, <3>1 DEF IInv, TreeHoldsQueries
  <2>7. LevelRight'
    BY <2>1 DEF IInv, LevelRight, AddSteps, Prefix
  <2>8. WordsKept'
    BY <1>0, <2>3, <2>4 DEF IInv, WordsKept, WordOf
  <2>9. Phases'
    BY <1>0, <2>1 DEF IInv, Phases, AddSteps, WalkSteps, walk
  <2> QED
    BY <2>5, <2>6, <2>7, <2>8, <2>9 DEF IInv
<1>5. CASE AddWord \/ AddWordFails
  <2>1. at = "word" /\ NextToken /\ UNCHANGED <<sets, leaves>>
    BY <1>5 DEF AddWord, AddWordFails
  <2>2. /\ words' \in {words, words \cup WantedWords} /\ failures' \in 0..MaxFailures
        /\ failures' = 0 => failures = 0 /\ words' = words \cup WantedWords
    BY <1>5 DEF AddWord, AddWordFails, Fail, IInv, TypeOK
  <2>3. UNCHANGED FinalQueries /\ (failures' = 0 => UNCHANGED FinalWords)
    BY <1>0, <2>1, <2>2, WordStep
  <2>4. asking \in Query /\ pos \in 1..n
    BY <2>1 DEF IInv, TypeOK, LevelRight, AddSteps
  <2>5. words' \subseteq Words
    <3>1. asking[pos] \in Words \cup {WILDCARD}
      BY <2>4 DEF Query, Token
    <3> QED
      BY <2>2, <3>1 DEF WantedWords, IInv, TypeOK
  <2>6. TreeHoldsQueries' /\ WordsKept'
    BY <1>0, <2>1, <2>2, <2>3 DEF IInv, TreeHoldsQueries, WordsKept, Prefix, WordOf
  <2>7. CASE pos < n
    <3>1. at' = "set" /\ pos' = pos + 1 /\ UNCHANGED <<asking, level>>
      BY <2>1, <2>7 DEF NextToken
    <3>2. pos' \in 1..n
      BY <2>4, <2>7, <3>1
    <3>3. TypeOK'
      BY <1>0, <2>1, <2>2, <2>5, <3>1, <3>2 DEF IInv, TypeOK, counters, walk, Steps, AddSteps
    <3>4. LevelRight'
      <4>1. Len(level) = pos /\ pos' - 1 = pos
        BY <2>1, <2>4, <2>7, <3>1 DEF IInv, LevelRight, AddSteps, InnerToken
      <4> QED
        BY <2>1, <2>4, <3>1, <4>1 DEF IInv, LevelRight, AddSteps, Prefix
    <3>5. Phases'
      BY <1>0, <2>1, <3>1 DEF IInv, Phases, AddSteps, WalkSteps, walk
    <3> QED
      BY <2>6, <3>3, <3>4, <3>5 DEF IInv
  <2>8. CASE ~(pos < n)
    <3>1. at' = "idle" /\ asking' = <<>> /\ pos' = 1 /\ level' = <<>>
      BY <2>1, <2>8 DEF NextToken
    <3>2. level' \in Seq(Token) /\ Len(level') <= n - 1 /\ pos' \in 1..n
      BY <3>1
    <3>3. TypeOK'
      BY <1>0, <2>1, <2>2, <2>5, <3>1, <3>2 DEF IInv, TypeOK, counters, walk, Steps
    <3>4. LevelRight'
      BY <3>1 DEF LevelRight, AddSteps
    <3>5. Phases'
      BY <1>0, <2>1, <3>1 DEF IInv, Phases, AddSteps, WalkSteps, walk
    <3> QED
      BY <2>6, <3>3, <3>4, <3>5 DEF IInv
  <2> QED
    BY <2>7, <2>8
<1> QED
  BY InputsAssumption, <1>1, <1>2, <1>3, <1>4, <1>5 DEF ProcessQuery

(* The steps of the pass over the corpus. *)
LEMMA WalkStepTypes ==
  ASSUME IInv, EndQueries \/ (\E l \in Lines, c \in Counts : ReadLine(l, c)) \/ ProcessLine
  PROVE  IInv'
<1> USE NAssumption, WordsAssumption, CountsAssumption, ModesAssumption, FailuresAssumption
<1>1. ASSUME EndQueries PROVE IInv'
  <2>1. /\ at = "idle" /\ at' = "idle" /\ loading' = FALSE
        /\ UNCHANGED <<doWords, sets, leaves, words, adding, failures, counters, walk>>
    BY <1>1 DEF EndQueries
  <2>2. FinalQueries = leaves /\ FinalWords = words /\ FinalQueries' = leaves /\ FinalWords' = words
    BY <2>1 DEF FinalQueries, FinalWords, AddSteps
  <2>3. TreeHoldsQueries' /\ WordsKept' /\ LevelRight'
    BY <2>1, <2>2 DEF IInv, TreeHoldsQueries, WordsKept, Prefix, WordOf, LevelRight, AddSteps
  <2>4. Phases'
    BY <2>1 DEF Phases
  <2> QED
    BY <2>1, <2>3, <2>4 DEF IInv, TypeOK, adding, counters, walk
<1>t. ASSUME UNCHANGED tree, at \in WalkSteps \cup {"idle"}, at' \in WalkSteps \cup {"idle", "crashed"},
             TypeOK', Phases'
      PROVE  IInv'
  <2>1. at \notin AddSteps \cup {"aborted"} /\ at' \notin AddSteps \cup {"aborted"}
    BY <1>t DEF WalkSteps, AddSteps
  <2> QED
    BY <1>t, <2>1, TreeStays DEF IInv
<1>3. ASSUME NEW l \in Line, NEW c \in Counts, ReadLine(l, c) PROVE IInv'
  <2>1. choice' \in Seq(Kinds) /\ Len(choice') <= n - 1 /\ counthits' \in Seq(Words)
    BY <1>3 DEF ReadLine, NoHits
  <2>2. i' \in 1..n+1 /\ bigcount' \in Nat /\ curcount' \in Nat
    <3>1. bigcount \in Nat /\ c \in Nat
      BY DEF IInv, TypeOK
    <3> QED
      BY <1>3, <3>1 DEF ReadLine
  <2>3. at = "idle" /\ at' \in WalkSteps /\ UNCHANGED tree
    BY <1>3 DEF ReadLine, WalkSteps
  <2>4. TypeOK'
    BY <1>3, <2>1, <2>2, <2>3 DEF ReadLine, IInv, TypeOK, Steps, tree, adding
  <2>5. Phases'
    BY <1>3 DEF ReadLine, Phases, tree, WalkSteps
  <2> QED
    BY <1>t, <2>3, <2>4, <2>5
<1>4. ASSUME IncrementWord PROVE IInv'
  <2>1. line[i] \in Words /\ i' \in 1..n+1
    BY SMTT(30), <1>4 DEF IncrementWord, IInv, TypeOK, Line
  <2>2. wordCount' \in [Words -> Nat]
    <3>1. wordCount \in [Words -> Nat] /\ curcount \in Nat
      BY DEF IInv, TypeOK
    <3> QED
      BY <1>4, <2>1, <3>1 DEF IncrementWord
  <2>3. counthits' \in Seq(Words)
    <3>1. counthits \in Seq(Words)
      BY DEF IInv, TypeOK
    <3>2. Remember(line[i]) \in Seq(Words)
      BY <2>1, <3>1 DEF Remember
    <3> QED
      BY <1>4, <3>1, <3>2 DEF IncrementWord
  <2>4. at = "words" /\ at' = "words" /\ UNCHANGED tree
    BY <1>4 DEF IncrementWord
  <2>5. TypeOK'
    BY <1>4, <2>1, <2>2, <2>3 DEF IncrementWord, IInv, TypeOK, tree, adding
  <2>6. Phases'
    BY <1>4 DEF IncrementWord, IInv, Phases, tree
  <2> QED
    BY <1>t, <2>4, <2>5, <2>6 DEF WalkSteps
<1>5. ASSUME OverrunHits PROVE IInv'
  <2>1. TypeOK'
    BY <1>5 DEF OverrunHits, IInv, TypeOK, Steps, Stopped, tree, adding
  <2>2. Phases' /\ at = "words" /\ at' = "crashed" /\ UNCHANGED tree
    BY <1>5 DEF OverrunHits, IInv, Phases, tree, AddSteps
  <2> QED
    BY <1>t, <2>1, <2>2 DEF WalkSteps
<1>6. ASSUME EndWords PROVE IInv'
  <2>1. TypeOK'
    BY <1>6 DEF EndWords, IInv, TypeOK, Steps, WalkSteps, tree, adding
  <2>2. Phases' /\ at = "words" /\ at' = "exact" /\ UNCHANGED tree
    BY <1>6 DEF EndWords, IInv, Phases, tree, AddSteps, WalkSteps
  <2> QED
    BY <1>t, <2>1, <2>2 DEF WalkSteps
<1>7. ASSUME NEW k \in Kinds, NEW o \in {"exact", "wild", "return"},
             o = "wild" => k = "exact", Lookup(k, o)
      PROVE IInv'
  <2>1. choice' \in Seq(Kinds) /\ Len(choice') <= n - 1
    <3>1. choice \in Seq(Kinds) /\ Len(choice) <= n - 1 /\ Len(choice) < LeafDepth
      BY <1>7 DEF Lookup, IInv, TypeOK
    <3>2. Append(choice, k) \in Seq(Kinds) /\ Len(Append(choice, k)) = Len(choice) + 1
      BY <3>1, StackPush
    <3>3. choice' \in {choice, Append(choice, k)} /\ Len(choice) \in Nat
      BY <1>7, <3>1, LenProperties DEF Lookup
    <3> QED
      BY <3>1, <3>2, <3>3 DEF LeafDepth
  <2>2. /\ at = k /\ at' \in {"exact", o}
        /\ at' = "wild" => choice' = choice /\ Len(choice) < LeafDepth
        /\ UNCHANGED tree
    BY <1>7 DEF Lookup, Unchanged
  <2>3. at \in WalkSteps /\ at' \in WalkSteps /\ at' # "words"
    BY <2>2 DEF WalkSteps, Kinds
  <2>4. ~loading /\ loading' = loading
    BY <2>2, <2>3 DEF IInv, Phases, WalkSteps, AddSteps, tree
  <2>5. TypeOK'
    BY <1>7, <2>1, <2>3 DEF Lookup, Unchanged, IInv, TypeOK, Steps, tree, adding
  <2>6. Phases'
    BY <2>2, <2>3, <2>4 DEF Phases, LeafDepth, WalkSteps
  <2> QED
    BY <1>t, <2>2, <2>3, <2>5, <2>6
<1>8. ASSUME LookupLeaf PROVE IInv'
  <2>1. ASSUME NEW cnt \in [Query -> Nat], NEW q PROVE Bump(cnt, q) \in [Query -> Nat]
    BY SMTT(30) DEF Bump, IInv, TypeOK
  <2>2. count' \in [Query -> Nat]
    BY <1>8, <2>1 DEF LookupLeaf, IInv, TypeOK
  <2>3. found' \in BOOLEAN /\ at = "exact" /\ at' = "return" /\ UNCHANGED tree
    BY <1>8 DEF LookupLeaf, IInv, TypeOK, Unchanged
  <2>4. TypeOK'
    BY <1>8, <2>2, <2>3 DEF LookupLeaf, Unchanged, IInv, TypeOK, Steps, WalkSteps, tree, adding
  <2>5. Phases'
    BY <2>3 DEF IInv, Phases, AddSteps, WalkSteps, tree
  <2> QED
    BY <1>t, <2>3, <2>4, <2>5 DEF WalkSteps
<1>9. ASSUME Return PROVE IInv'
  <2>1. /\ choice' \in Seq(Kinds)
        /\ Len(choice') = Len(choice) - 1
        /\ Len(choice) \in Nat \ {0}
    BY <1>9, StackPop DEF Return, IInv, TypeOK
  <2>2. at = "return" /\ at' \in {"wild", "return"} /\ UNCHANGED tree
    BY <1>9 DEF Return, Resume, Unchanged
  <2>3. TypeOK'
    BY <1>9, <2>1, <2>2 DEF Return, Unchanged, IInv, TypeOK, Steps, WalkSteps, tree, adding
  <2>4. Phases'
    BY <2>1, <2>2 DEF IInv, TypeOK, Phases, AddSteps, WalkSteps, tree, LeafDepth
  <2> QED
    BY <1>t, <2>2, <2>3, <2>4 DEF WalkSteps
<1>10. ASSUME EndLine PROVE IInv'
  <2>1. matched' \in Seq(Line)
    BY <1>10 DEF EndLine, IInv, TypeOK
  <2>2. at = "return" /\ at' = "idle" /\ UNCHANGED tree
    BY <1>10 DEF EndLine, Unchanged
  <2>3. TypeOK'
    BY <1>10, <2>1 DEF EndLine, Unchanged, IInv, TypeOK, Steps, tree, adding
  <2>4. Phases'
    BY <2>2 DEF IInv, Phases, AddSteps, WalkSteps, tree
  <2> QED
    BY <1>t, <2>2, <2>3, <2>4 DEF WalkSteps
<1> QED
  BY InputsAssumption, <1>1, <1>3, <1>4, <1>5, <1>6, <1>7, <1>8, <1>9, <1>10
     DEF ProcessLine, LookupExact, LookupWild, Kinds

(* Every step keeps the invariant. *)
LEMMA StepTypes == IInv /\ [Next]_vars => IInv'
<1> SUFFICES ASSUME IInv, [Next]_vars PROVE IInv'
  OBVIOUS
<1>1. CASE UNCHANGED vars
  <2>1. UNCHANGED <<FinalQueries, FinalWords>>
    BY <1>1 DEF vars, tree, adding, FinalQueries, FinalWords, InnerToken
  <2>2. TreeHoldsQueries' /\ LevelRight' /\ WordsKept'
    BY <1>1, <2>1 DEF IInv, TreeHoldsQueries, LevelRight, WordsKept, WordOf, Prefix, InnerToken,
                      vars, tree, adding
  <2>3. TypeOK' /\ Phases'
    BY <1>1 DEF IInv, TypeOK, Phases, vars, tree, adding, counters, walk
  <2> QED
    BY <2>2, <2>3 DEF IInv
<1> QED
  BY <1>1, InputsAssumption, AddTypes, WalkStepTypes DEF Next

(* Neither addQuery nor the walk of incrementQueries ever leaves the tree  *)
(* (their depth stays below n) and counters, hits and queries keep their   *)
(* types, for every n and every set of words.                              *)
THEOREM TypeCorrect == Spec => []TypeOK
<1>1. IInv => TypeOK
  BY DEF IInv
<1> QED
  BY InitTypes, StepTypes, <1>1, PTL DEF Spec
-----------------------------------------------------------------------------
(* ch2 is the call stack ch with one more call, made for choice k. *)
Deeper(ch2, ch, k) ==
  /\ Len(ch) \in Nat
  /\ Len(ch2) = Len(ch) + 1
  /\ \A j \in 1..Len(ch) : ch2[j] = ch[j]
  /\ ch2[Len(ch) + 1] = k

(* A query lies below the table one call deeper iff it lies below this one *)
(* and its next token is the one looked up (the line's own or <*>).        *)
LEMMA DeeperAgree ==
  ASSUME NEW ch, NEW ch2, NEW k \in Kinds, Deeper(ch2, ch, k), NEW q
  PROVE  /\ \A d \in 0..Len(ch) : Agree(q, ch2, d) <=> Agree(q, ch, d)
         /\ Below(q, ch2) <=> /\ Below(q, ch)
                              /\ q[Len(ch) + 1] = IF k = "exact" THEN line[Len(ch) + 1] ELSE WILDCARD
<1>1. \A j \in 1..Len(ch) : TokenOf(ch2, j) = TokenOf(ch, j)
  BY DEF Deeper, TokenOf
<1>2. \A d \in 0..Len(ch) : Agree(q, ch2, d) <=> Agree(q, ch, d)
  BY <1>1 DEF Deeper, Agree
<1>3. Below(q, ch2) <=> Agree(q, ch2, Len(ch)) /\ q[Len(ch) + 1] = TokenOf(ch2, Len(ch) + 1)
  BY DEF Below, Agree, Deeper
<1>4. TokenOf(ch2, Len(ch) + 1) = IF k = "exact" THEN line[Len(ch) + 1] ELSE WILDCARD
  BY DEF TokenOf, Deeper
<1>5. Len(ch) \in 0..Len(ch)
  BY DEF Deeper
<1> QED
  BY <1>2, <1>3, <1>4, <1>5 DEF Below

(* One call deeper, the callers still owe a query exactly what they owed   *)
(* before, and the <*> branch of this table if the call was for the line's *)
(* token.                                                                  *)
LEMMA DeeperLater ==
  ASSUME NEW ch, NEW ch2, NEW k \in Kinds, Deeper(ch2, ch, k), NEW q
  PROVE  Later(q, ch2) <=> \/ Later(q, ch)
                           \/ k = "exact" /\ Below(q, ch) /\ q[Len(ch) + 1] = WILDCARD
<1>1. \A d \in 0..Len(ch) : Agree(q, ch2, d) <=> Agree(q, ch, d)
  BY DeeperAgree
<1>2. \A e \in 1..Len(ch) : ch2[e] = ch[e] /\ (Agree(q, ch2, e - 1) <=> Agree(q, ch, e - 1))
  BY <1>1 DEF Deeper
<1>3. Agree(q, ch2, (Len(ch) + 1) - 1) <=> Below(q, ch)
  BY <1>1 DEF Deeper, Below
<1>4. 1..Len(ch2) = 1..Len(ch) \cup {Len(ch) + 1}
  BY DEF Deeper
<1> DEFINE Hit(c, e) == c[e] = "exact" /\ Agree(q, c, e - 1) /\ q[e] = WILDCARD
<1>5. \A e \in 1..Len(ch) : Hit(ch2, e) <=> Hit(ch, e)
  BY <1>2
<1>6. Hit(ch2, Len(ch) + 1) <=> k = "exact" /\ Below(q, ch) /\ q[Len(ch) + 1] = WILDCARD
  BY <1>3 DEF Deeper
<1>7. /\ Later(q, ch2) <=> \E e \in 1..Len(ch2) : Hit(ch2, e)
      /\ Later(q, ch) <=> \E e \in 1..Len(ch) : Hit(ch, e)
  BY DEF Later
<1> HIDE DEF Hit
<1>8. Later(q, ch2) <=> (\E e \in 1..Len(ch) : Hit(ch2, e)) \/ Hit(ch2, Len(ch) + 1)
  BY <1>4, <1>7, Zenon
<1> QED
  BY <1>5, <1>6, <1>7, <1>8, Zenon

(* A lookup that misses a table misses no query: addQuery made every       *)
(* prefix.                                                                 *)
LEMMA NoPath ==
  ASSUME IInv, NEW k \in Kinds, Len(choice) < LeafDepth, NEW q \in leaves,
         PathOf(Append(choice, k)) \notin sets
  PROVE  ~Below(q, Append(choice, k))
<1> DEFINE ch2 == Append(choice, k)
<1>1. Len(ch2) \in 1..n-1
  BY StackPush, NAssumption, LenProperties DEF IInv, TypeOK, LeafDepth
<1>2. Prefix(q, Len(ch2)) \in sets
  BY <1>1 DEF IInv, TreeHoldsQueries
<1> HIDE DEF ch2
<1>3. ASSUME Below(q, ch2) PROVE Prefix(q, Len(ch2)) = PathOf(ch2)
  BY <1>3 DEF Below, Agree, Prefix, PathOf
<1> QED
  BY <1>2, <1>3 DEF ch2

(* What the walk needs to know of the invariant; a line holds no <*>. *)
LEMMA WalkTypes == ASSUME IInv
  PROVE  /\ choice \in Seq(Kinds) /\ Len(choice) \in Nat /\ Len(choice) <= n - 1
         /\ line \in Line /\ leaves \subseteq Query
         /\ \A j \in 1..n : line[j] \in Words /\ line[j] # WILDCARD
BY LenProperties, WordsAssumption DEF IInv, TypeOK, Line

(* Looking a token up among the setitems, found or not, changes the set of *)
(* queries the line has still to be added to by none.                      *)
LEMMA LookupPending ==
  ASSUME IInv, NEW k \in Kinds, NEW o, Lookup(k, o),
         o = IF k = "exact" THEN "wild" ELSE "return",
         NEW q
  PROVE  Pending(q)' <=> Pending(q)
<1> USE NAssumption
<1> DEFINE ch2 == Append(choice, k)
           tok == IF k = "exact" THEN line[Len(choice) + 1] ELSE WILDCARD
<1>1. ch2 \in Seq(Kinds) /\ Deeper(ch2, choice, k)
  BY WalkTypes, StackPush DEF Deeper
<1>2. /\ Below(q, ch2) <=> Below(q, choice) /\ q[Len(choice) + 1] = tok
      /\ Later(q, ch2) <=> \/ Later(q, choice)
                           \/ k = "exact" /\ Below(q, choice) /\ q[Len(choice) + 1] = WILDCARD
  BY <1>1, DeeperAgree, DeeperLater
<1>3. ASSUME q \in leaves, PathOf(ch2) \notin sets
      PROVE  ~Below(q, ch2)
  BY <1>3, NoPath DEF Lookup
<1>4. Matches(q) => q[Len(choice) + 1] \in {line[Len(choice) + 1], WILDCARD}
  BY WalkTypes DEF Matches, Lookup, LeafDepth
<1>5. /\ line' = line /\ leaves' = leaves /\ at = k /\ at' \in {"exact", o}
      /\ \/ PathOf(ch2) \in sets /\ choice' = ch2 /\ at' = "exact"
         \/ PathOf(ch2) \notin sets /\ choice' = choice /\ at' = o
  BY DEF Lookup, Unchanged, tree
<1>6. /\ Matches(q)' <=> Matches(q)
      /\ Below(q, choice)' <=> Below(q, choice')
      /\ Later(q, choice)' <=> Later(q, choice')
  BY <1>5 DEF Matches, Below, Later, Agree, TokenOf
<1> HIDE DEF ch2
<1>7. CASE PathOf(ch2) \in sets
  BY <1>2, <1>4, <1>5, <1>6, <1>7 DEF Pending, Kinds
<1>8. CASE PathOf(ch2) \notin sets
  BY <1>2, <1>3, <1>4, <1>5, <1>6, <1>8 DEF Pending, Kinds
<1> QED
  BY <1>7, <1>8

(* Nor does returning to the caller, who goes on behind its call. *)
LEMMA ReturnPending ==
  ASSUME IInv, Return, NEW q
  PROVE  Pending(q)' <=> Pending(q)
<1> DEFINE up == Caller(choice)
           k  == choice[Len(choice)]
<1>1. k \in Kinds /\ Deeper(choice, up, k)
  <2>1. choice \in Seq(Kinds) /\ choice # <<>>
    BY WalkTypes DEF Return
  <2>2. /\ k \in Kinds /\ Len(choice) \in Nat \ {0} /\ Len(up) = Len(choice) - 1
        /\ \A j \in 1..Len(choice) - 1 : up[j] = choice[j]
    BY <2>1, StackPop
  <2> HIDE DEF up
  <2> QED
    BY <2>2 DEF Deeper
<1>2. Later(q, choice) <=> \/ Later(q, up)
                           \/ k = "exact" /\ Below(q, up) /\ q[Len(up) + 1] = WILDCARD
  BY <1>1, DeeperLater
<1>3. /\ line' = line /\ leaves' = leaves /\ choice' = up
      /\ at = "return" /\ at' = IF k = "exact" THEN "wild" ELSE "return"
  BY DEF Return, Unchanged, tree, Resume
<1>4. /\ Matches(q)' <=> Matches(q)
      /\ Below(q, choice)' <=> Below(q, choice')
      /\ Later(q, choice)' <=> Later(q, choice')
  BY <1>3 DEF Matches, Below, Later, Agree, TokenOf
<1> HIDE DEF up, k
<1> QED
  BY <1>1, <1>2, <1>3, <1>4 DEF Pending, Kinds

(* The two lookups in a table of exactitems settle exactly the queries     *)
(* they find, each of them once.                                           *)
LEMMA LeafPending ==
  ASSUME IInv, LookupLeaf, NEW q \in Query
  PROVE  LET e == PathOf(Append(choice, "exact"))
             w == PathOf(Append(choice, "wild"))
         IN  /\ e # w
             /\ Pending(q)' => Pending(q)
             /\ Pending(q) <=> Pending(q)' \/ (q \in leaves /\ q \in {e, w})
             /\ Pending(q)' => q \notin {e, w}
<1> USE NAssumption
<1> DEFINE che == Append(choice, "exact")
           chw == Append(choice, "wild")
<1>1. /\ che \in Seq(Kinds) /\ Deeper(che, choice, "exact")
      /\ chw \in Seq(Kinds) /\ Deeper(chw, choice, "wild")
      /\ Len(che) = n /\ Len(chw) = n /\ Len(choice) + 1 = n
  BY WalkTypes, StackPush DEF Deeper, Kinds, LookupLeaf, LeafDepth
<1>2. /\ line' = line /\ leaves' = leaves /\ choice' = choice
      /\ at = "exact" /\ at' = "return"
  BY DEF LookupLeaf, Unchanged, tree
<1>3. /\ Matches(q)' <=> Matches(q)
      /\ Below(q, choice)' <=> Below(q, choice)
      /\ Later(q, choice)' <=> Later(q, choice)
  BY <1>2 DEF Matches, Below, Later, Agree, TokenOf
<1>4. /\ Below(q, che) <=> Below(q, choice) /\ q[n] = line[n]
      /\ Below(q, chw) <=> Below(q, choice) /\ q[n] = WILDCARD
  BY <1>1, DeeperAgree DEF Kinds
<1>5. Matches(q) => q[n] \in {line[n], WILDCARD}
  BY DEF Matches
<1> HIDE DEF che, chw
<1>6. /\ q = PathOf(che) <=> Below(q, che)
      /\ q = PathOf(chw) <=> Below(q, chw)
  BY <1>1 DEF PathOf, Below, Agree, Query
<1>7. PathOf(che) # PathOf(chw)
  <2>1. PathOf(che)[n] = line[n] /\ PathOf(chw)[n] = WILDCARD
    BY <1>1 DEF PathOf, TokenOf, Deeper
  <2> QED
    BY <2>1, WalkTypes
<1>8. ASSUME Below(q, choice) PROVE ~Later(q, choice)
  BY <1>8, WalkTypes DEF Below, Later, Agree, TokenOf
<1>9. Below(q, che) \/ Below(q, chw) => Matches(q)
  BY <1>1, <1>6 DEF PathOf, Matches, TokenOf
<1> QED
  BY <1>2, <1>3, <1>4, <1>5, <1>6, <1>7, <1>8, <1>9 DEF Pending, che, chw

(* Nothing the promise speaks of changes. *)
Silent == UNCHANGED <<doWords, loading, FinalQueries, FinalCount, FinalWords, FinalWordCount,
                      bigcount, FinalMatched>>

(* Nothing the promise speaks of changes: a stuttering step of it. *)
LEMMA SilentStutters == Silent => UNCHANGED Promise!vars
BY DEF Silent, Promise!vars

(* Between lines nothing is pending, the counters are the reported counts. *)
Quiet == at \in {"idle", "aborted"} \cup AddSteps

LEMMA IdleFinal ==
  IInv /\ Quiet => /\ FinalCount = count
                   /\ FinalWordCount = wordCount
                   /\ FinalMatched = matched
<1> SUFFICES ASSUME IInv, Quiet
             PROVE  FinalCount = count /\ FinalWordCount = wordCount /\ FinalMatched = matched
  OBVIOUS
<1>1. count \in [Query -> Nat] /\ wordCount \in [Words -> Nat]
  BY DEF IInv, TypeOK
<1>2. \A q : ~Pending(q)
  BY DEF Pending, Quiet, AddSteps
<1>3. \A w : PendingWord(w) = 0
  BY DEF PendingWord, Quiet, AddSteps
<1>4. FinalCount = count
  BY <1>1, <1>2 DEF FinalCount
<1>5. FinalWordCount = wordCount
  BY <1>1, <1>3 DEF FinalWordCount
<1>6. FinalMatched = matched
  BY <1>2 DEF FinalMatched, IInv, Phases, Quiet, AddSteps, WalkSteps
<1> QED
  BY <1>4, <1>5, <1>6

(* While the pass is on, or no addQuery, the queries are those of the      *)
(* tree, before and after a step of the pass.                              *)
LEMMA WalkQueries ==
  ASSUME UNCHANGED tree, at \notin AddSteps \cup {"aborted"}, at' \notin AddSteps \cup {"aborted"}
  PROVE  UNCHANGED <<doWords, loading, leaves, words, FinalQueries, FinalWords>>
BY DEF tree, FinalQueries, FinalWords, AddSteps

(* A step of the walk that settles no query is invisible. *)
LEMMA WalkSilent ==
  ASSUME at \in {"exact", "wild", "return"}, at' \in {"exact", "wild", "return"},
         \A q \in Query : Pending(q)' <=> Pending(q), leaves \subseteq Query,
         UNCHANGED <<tree, count, wordCount, bigcount, matched, line, curcount, found>>
  PROVE  Silent
<1>1. UNCHANGED <<doWords, loading, leaves, words, bigcount, FinalQueries, FinalWords>>
  BY WalkQueries DEF AddSteps
<1>2. UNCHANGED FinalCount
  BY DEF FinalCount
<1>3. \A w : PendingWord(w)' = 0 /\ PendingWord(w) = 0
  BY DEF PendingWord
<1>4. UNCHANGED FinalWordCount
  BY <1>3 DEF FinalWordCount
<1>5. (\E q \in leaves : Pending(q))' <=> (\E q \in leaves : Pending(q))
  BY <1>1
<1>6. UNCHANGED FinalMatched
  BY <1>5 DEF FinalMatched
<1> QED
  BY <1>1, <1>2, <1>4, <1>6 DEF Silent

(* LookupExact and LookupWild are invisible to the promise. *)
LEMMA LookupSilent ==
  ASSUME IInv, NEW k \in Kinds, NEW o, Lookup(k, o),
         o = IF k = "exact" THEN "wild" ELSE "return"
  PROVE  Silent
<1>1. \A q \in Query : Pending(q)' <=> Pending(q)
  BY LookupPending
<1>2. /\ at \in {"exact", "wild", "return"} /\ at' \in {"exact", "wild", "return"}
      /\ UNCHANGED <<tree, count, wordCount, bigcount, matched, line, curcount, found>>
  BY DEF Lookup, Kinds, Unchanged
<1> QED
  BY <1>1, <1>2, WalkTypes, WalkSilent

(* So is a return of incrementQueries. *)
LEMMA ReturnSilent == ASSUME IInv, Return PROVE Silent
<1>1. \A q \in Query : Pending(q)' <=> Pending(q)
  BY ReturnPending
<1>2. /\ at \in {"exact", "wild", "return"} /\ at' \in {"exact", "wild", "return"}
      /\ UNCHANGED <<tree, count, wordCount, bigcount, matched, line, curcount, found>>
  BY DEF Return, Resume, Unchanged
<1> QED
  BY <1>1, <1>2, WalkTypes, WalkSilent

(* So is incrementing leaves: what it adds was pending, and no longer is. *)
LEMMA LeafSilent == ASSUME IInv, LookupLeaf PROVE Silent
<1> DEFINE e == PathOf(Append(choice, "exact"))
           w == PathOf(Append(choice, "wild"))
<1>1. \A q \in Query : /\ Pending(q)' => Pending(q)
                       /\ Pending(q) <=> Pending(q)' \/ (q \in leaves /\ q \in {e, w})
                       /\ Pending(q)' => q \notin {e, w}
  BY LeafPending
<1>2. e # w
  <2>1. [j \in 1..n |-> WILDCARD] \in Query
    BY DEF Query, Token
  <2> QED
    BY <2>1, LeafPending
<1>3. /\ at = "exact" /\ at' = "return"
      /\ count' = Bump(Bump(count, e), w)
      /\ found' = (found \/ e \in leaves \/ w \in leaves)
      /\ UNCHANGED <<doWords, loading, leaves, words, wordCount, bigcount, matched, line, curcount>>
      /\ UNCHANGED <<FinalQueries, FinalWords>>
  BY WalkQueries DEF LookupLeaf, Unchanged, AddSteps
<1>4. count \in [Query -> Nat] /\ curcount \in Nat /\ leaves \subseteq Query /\ found \in BOOLEAN
  BY DEF IInv, TypeOK
<1> HIDE DEF e, w
<1>5. \A q \in Query : count'[q] = count[q] + IF q \in leaves /\ q \in {e, w} THEN curcount ELSE 0
  <2> SUFFICES ASSUME NEW q \in Query
               PROVE  count'[q] = count[q] + IF q \in leaves /\ q \in {e, w} THEN curcount ELSE 0
    OBVIOUS
  <2> DEFINE mid == Bump(count, e)
  <2>1. mid \in [Query -> Nat] /\ mid[q] = count[q] + IF q \in leaves /\ q = e THEN curcount ELSE 0
    BY <1>4 DEF Bump
  <2> HIDE DEF mid
  <2>2. Bump(mid, w)[q] = mid[q] + IF q \in leaves /\ q = w THEN curcount ELSE 0
    BY <1>4, <2>1 DEF Bump
  <2> QED
    BY <1>2, <1>3, <1>4, <2>1, <2>2 DEF mid
<1>6. UNCHANGED FinalCount
  <2> SUFFICES ASSUME NEW q \in Query
               PROVE  count'[q] + (IF Pending(q)' THEN curcount' ELSE 0)
                        = count[q] + (IF Pending(q) THEN curcount ELSE 0)
    BY DEF FinalCount
  <2>1. /\ Pending(q)' => Pending(q)
        /\ Pending(q) <=> Pending(q)' \/ (q \in leaves /\ q \in {e, w})
        /\ Pending(q)' => q \notin {e, w}
    BY <1>1
  <2>2. count[q] \in Nat
    BY <1>4
  <2> QED
    BY <1>3, <1>4, <1>5, <2>1, <2>2
<1>7. \A v : PendingWord(v)' = 0 /\ PendingWord(v) = 0
  BY <1>3 DEF PendingWord
<1>8. UNCHANGED FinalWordCount
  BY <1>3, <1>7 DEF FinalWordCount
<1>9. found' \/ (\E q \in leaves : Pending(q))' <=> found \/ \E q \in leaves : Pending(q)
  BY <1>1, <1>3, <1>4
<1>10. UNCHANGED FinalMatched
  BY <1>3, <1>9 DEF FinalMatched
<1> QED
  BY <1>3, <1>6, <1>8, <1>10 DEF Silent

(* So is writing the line to wildF after the walk. *)
LEMMA EndLineSilent == ASSUME IInv, EndLine PROVE Silent
<1>1. \A q : ~Pending(q) /\ ~Pending(q)'
  BY DEF EndLine, Pending, Later, Unchanged, tree
<1>2. \A w : PendingWord(w)' = 0 /\ PendingWord(w) = 0
  BY DEF EndLine, PendingWord
<1>3. /\ at = "return" /\ at' = "idle"
      /\ matched' = IF printIndividualCounts /\ found THEN Append(matched, line) ELSE matched
      /\ UNCHANGED <<doWords, loading, leaves, count, words, wordCount, bigcount, line, curcount>>
      /\ UNCHANGED <<FinalQueries, FinalWords>>
  BY WalkQueries DEF EndLine, Unchanged, AddSteps
<1>4. UNCHANGED FinalCount
  BY <1>1, <1>3 DEF FinalCount
<1>5. UNCHANGED FinalWordCount
  BY <1>2, <1>3 DEF FinalWordCount
<1>6. UNCHANGED FinalMatched
  BY <1>1, <1>3 DEF FinalMatched
<1> QED
  BY <1>3, <1>4, <1>5, <1>6 DEF Silent
-----------------------------------------------------------------------------
(* What incrementWords needs to know of the types. *)
WordTypes ==
  /\ line \in Line /\ i \in 1..n+1 /\ curcount \in Nat
  /\ wordCount \in [Words -> Nat] /\ counthits \in Seq(Words)

(* The tokens incrementWords has not reached are finitely many. *)
LEMMA RemainingCard == ASSUME IInv, NEW w
  PROVE  IsFiniteSet(Remaining(w)) /\ Cardinality(Remaining(w)) \in Nat
<1>1. i \in Int /\ n \in Int
  BY NAssumption DEF IInv, TypeOK
<1>2. IsFiniteSet(i..n) /\ Remaining(w) \subseteq i..n
  BY <1>1, FS_Interval DEF Remaining
<1>3. IsFiniteSet(Remaining(w))
  BY <1>2, FS_Subset
<1> QED
  BY <1>3, FS_CardinalityType

(* A step of incrementWords that moves as much from pending to the         *)
(* counters as it adds is invisible.                                       *)
LEMMA WordsSilent ==
  ASSUME IInv, at = "words", at' \in {"words", "crashed", "exact"},
         at' = "exact" => choice' = <<>>,
         \A w \in Words : wordCount'[w] + PendingWord(w)' = wordCount[w] + PendingWord(w),
         UNCHANGED <<tree, count, bigcount, matched, line, curcount, found>>
  PROVE  Silent
<1>1. /\ UNCHANGED <<doWords, loading, leaves, words, bigcount, line, FinalQueries, FinalWords>>
      /\ Len(<<>>) = 0
  BY WalkQueries DEF AddSteps
<1>2. \A q : Pending(q)' <=> Pending(q)
  <2> SUFFICES ASSUME NEW q, q \in leaves, Matches(q) PROVE Pending(q)' /\ Pending(q)
    BY <1>1 DEF Pending, Matches
  <2>1. at' = "exact" => Below(q, choice)'
    BY <1>1 DEF Below, Agree
  <2>2. Matches(q)'
    BY <1>1 DEF Matches
  <2> QED
    BY <1>1, <2>1, <2>2 DEF Pending
<1>3. UNCHANGED FinalCount
  BY <1>2 DEF FinalCount
<1>4. UNCHANGED FinalWordCount
  BY DEF FinalWordCount
<1>5. UNCHANGED FinalMatched
  BY <1>1, <1>2 DEF FinalMatched
<1> QED
  BY <1>1, <1>3, <1>4, <1>5 DEF Silent

(* Counting one token is such a step: under -s each occurrence, under -r   *)
(* the first one only, which counthits remembers.                          *)
LEMMA IncrementWordSilent == ASSUME IInv, IncrementWord PROVE Silent
<1> USE NAssumption
<1> DEFINE now == line[i]
<1>1. /\ WordTypes /\ now \in Words /\ i \in 1..n
      /\ doWords \in {"countInst", "countOcc"}
  <2>1. WordTypes /\ doWords \in {"dontCount", "countInst", "countOcc"}
    BY ModesAssumption DEF IInv, TypeOK, WordTypes
  <2>2. i \in 1..n /\ doWords # "dontCount"
    BY <2>1 DEF IncrementWord, WordTypes, IInv, Phases
  <2> QED
    BY <2>1, <2>2 DEF WordTypes, Line
<1>2. /\ at = "words" /\ at' = "words" /\ i' = i + 1
      /\ UNCHANGED <<tree, words, doWords, count, bigcount, matched, line, curcount, found>>
  BY DEF IncrementWord, tree
<1> HIDE DEF now
<1>3. /\ CountsNow(now) => /\ wordCount' = [wordCount EXCEPT ![now] = @ + curcount]
                           /\ counthits' = Remember(now)
      /\ ~CountsNow(now) => wordCount' = wordCount /\ counthits' = counthits
  BY DEF IncrementWord, now
<1>4. ASSUME NEW w \in Words
      PROVE  Remaining(w)' = IF w = now THEN Remaining(w) \ {i} ELSE Remaining(w)
  BY <1>1, <1>2 DEF Remaining, now
<1>5. i \in Remaining(now)
  BY <1>1 DEF Remaining, now
<1>6. ASSUME NEW w \in Words
      PROVE  Seen(w)' <=> Seen(w) \/ (doWords = "countOcc" /\ w = now /\ now \in words)
  <2>1. CASE CountsNow(now) /\ doWords = "countOcc"
    <3>1. counthits' = Append(counthits, now)
      BY <1>3, <2>1 DEF Remember
    <3>2. /\ Len(counthits) \in Nat /\ Len(counthits') = Len(counthits) + 1
          /\ \A j \in 1..Len(counthits) : counthits'[j] = counthits[j]
          /\ counthits'[Len(counthits) + 1] = now
      BY <1>1, <3>1, LenProperties DEF WordTypes
    <3>3. Seen(w)' <=> Seen(w) \/ w = now
      BY <3>2 DEF Seen
    <3> QED
      BY <2>1, <3>3 DEF CountsNow
  <2>2. CASE CountsNow(now) /\ doWords # "countOcc"
    <3>1. counthits' = counthits
      BY <1>3, <2>2 DEF Remember
    <3> QED
      BY <2>2, <3>1 DEF Seen
  <2>3. CASE ~CountsNow(now)
    <3>1. counthits' = counthits
      BY <1>3, <2>3
    <3> QED
      BY <2>3, <3>1 DEF Seen, CountsNow
  <2> QED
    BY <2>1, <2>2, <2>3
<1>7. ASSUME NEW w \in Words
      PROVE  wordCount'[w] + PendingWord(w)' = wordCount[w] + PendingWord(w)
  <2>1. /\ wordCount[w] \in Nat /\ curcount \in Nat
        /\ wordCount'[w] = wordCount[w] + IF w = now /\ CountsNow(now) THEN curcount ELSE 0
    BY <1>1, <1>3 DEF WordTypes
  <2>2. CASE w \notin words
    BY <1>2, <2>1, <2>2 DEF PendingWord, CountsNow
  <2>3. CASE w \in words /\ doWords = "countInst"
    <3> DEFINE r == Cardinality(Remaining(w))
    <3>1. r \in Nat /\ Cardinality(Remaining(w))' = IF w = now THEN r - 1 ELSE r
      BY <1>4, <1>5, RemainingCard, FS_RemoveElement
    <3> HIDE DEF r
    <3>2. PendingWord(w) = curcount * r /\ PendingWord(w)' = curcount * Cardinality(Remaining(w))'
      BY <1>2, <2>3 DEF PendingWord, r
    <3>3. curcount * (r - 1) + curcount = curcount * r /\ curcount * r \in Nat /\ curcount * (r - 1) \in Int
      BY <2>1, <3>1
    <3>4. CASE w = now
      BY <2>1, <2>3, <3>1, <3>2, <3>3, <3>4 DEF CountsNow
    <3>5. CASE w # now
      BY <2>1, <3>1, <3>2, <3>3, <3>5
    <3> QED
      BY <3>4, <3>5
  <2>4. CASE w \in words /\ doWords = "countOcc"
    <3>1. /\ PendingWord(w) = IF ~Seen(w) /\ Remaining(w) # {} THEN curcount ELSE 0
          /\ PendingWord(w)' = IF ~Seen(w)' /\ Remaining(w)' # {} THEN curcount ELSE 0
      BY <1>2, <2>4 DEF PendingWord
    <3>2. CASE w = now
      BY <1>5, <1>6, <2>1, <2>4, <3>1, <3>2 DEF CountsNow
    <3>3. CASE w # now
      BY <1>4, <1>6, <2>1, <3>1, <3>3
    <3> QED
      BY <3>2, <3>3
  <2> QED
    BY <1>1, <2>2, <2>3, <2>4
<1> QED
  BY <1>2, <1>7, WordsSilent

(* The abort behind counthits loses the line in progress, and no count of  *)
(* it.                                                                     *)
LEMMA OverrunSilent == ASSUME IInv, OverrunHits PROVE Silent
<1>1. /\ at = "words" /\ at' = "crashed"
      /\ UNCHANGED <<tree, words, doWords, count, wordCount, bigcount, matched, line, curcount,
                     i, counthits, found>>
  BY DEF OverrunHits, tree
<1>2. ASSUME NEW w \in Words PROVE PendingWord(w)' = PendingWord(w)
  BY <1>1 DEF PendingWord, Remaining, Seen
<1> QED
  BY <1>1, <1>2, WordsSilent

(* After incrementWords no word is pending and every query is. *)
LEMMA EndWordsSilent == ASSUME IInv, EndWords PROVE Silent
<1>1. /\ at = "words" /\ at' = "exact" /\ i > n /\ i \in Nat /\ curcount \in Nat
      /\ UNCHANGED <<tree, words, doWords, count, wordCount, bigcount, matched, line, curcount, found>>
      /\ choice' = <<>>
  <2>1. i \in Nat /\ curcount \in Nat
    BY NAssumption DEF IInv, TypeOK
  <2> QED
    BY <2>1 DEF EndWords, tree, IInv, Phases
<1>2. ASSUME NEW w \in Words PROVE PendingWord(w)' = PendingWord(w)
  <2>1. Remaining(w) = {}
    BY <1>1, NAssumption DEF Remaining
  <2> QED
    BY <1>1, <2>1, FS_EmptySet DEF PendingWord
<1> QED
  BY <1>1, <1>2, WordsSilent
-----------------------------------------------------------------------------
(* Both modules speak of the same queries, lines and matches. *)
LEMMA PromiseSets == /\ Promise!Query = Query
                     /\ Promise!Line = Line
                     /\ \A q, l : Promise!Matches(q, l) <=> \A j \in 1..n : q[j] \in {l[j], WILDCARD}
BY DEF Promise!Query, Query, Promise!Token, Token, Promise!Line, Line, Promise!Matches

(* Before the first query the promise is in its initial state. *)
LEMMA InitMaps == Init => Promise!Init
<1> SUFFICES ASSUME Init PROVE Promise!Init
  OBVIOUS
<1>1. IInv /\ Quiet /\ FinalQueries = leaves /\ FinalWords = words
  BY InitTypes, NoneAdding DEF Init, Quiet, AddSteps
<1> QED
  BY <1>1, IdleFinal, PromiseSets DEF Init, Promise!Init

(* While queries are added, counters and matches are not changed.          *)
LEMMA QuietFinal ==
  ASSUME IInv, IInv', Quiet, Quiet', UNCHANGED counters
  PROVE  UNCHANGED <<FinalCount, FinalWordCount, bigcount, FinalMatched>>
<1>1. FinalCount = count /\ FinalWordCount = wordCount /\ FinalMatched = matched
  BY IdleFinal
<1>2. (FinalCount = count /\ FinalWordCount = wordCount /\ FinalMatched = matched)'
  <2>1. (IInv /\ Quiet)'
    OBVIOUS
  <2> QED
    BY <2>1, IdleFinal, PTL
<1> QED
  BY <1>1, <1>2 DEF counters

(* The call of addQuery is the promise's Ask. *)
LEMMA AddQueryAsks ==
  ASSUME IInv, IInv', NEW q \in Query, AddQuery(q) PROVE Promise!Ask(q)
<1>1. /\ at = "idle" /\ at' = "set" /\ asking' = q /\ pos' = 1 /\ loading
      /\ UNCHANGED <<doWords, loading, leaves, words, counters>>
  BY DEF AddQuery
<1>2. FinalQueries = leaves /\ FinalWords = words /\ FinalQueries' = leaves \cup {q}
  BY <1>1, NoneAdding DEF FinalQueries, AddSteps
<1>3. FinalWords' = words \cup IF doWords # "dontCount" THEN {q[j] : j \in 1..n} \ {WILDCARD} ELSE {}
  BY <1>1 DEF FinalWords, AddSteps
<1>4. UNCHANGED <<FinalCount, FinalWordCount, bigcount, FinalMatched>>
  BY <1>1, QuietFinal DEF Quiet, AddSteps
<1> QED
  BY <1>1, <1>2, <1>3, <1>4 DEF Promise!Ask

(* Its steps are invisible, except for insertions that fail unnoticed.     *)
LEMMA ProcessQueryMaps ==
  ASSUME IInv, IInv', ProcessQuery PROVE Promise!Next \/ Silent
<1> USE NAssumption, FailuresAssumption
<1>1. /\ at \in AddSteps /\ at' \in {"idle", "aborted"} \cup AddSteps
      /\ UNCHANGED <<doWords, loading, counters>>
  BY DEF ProcessQuery, AddSet, AddSetFails, AddLeaf, AddLeafFails, AddWord, AddWordFails,
         NextToken, AddSteps
<1>2. /\ UNCHANGED <<doWords, loading, FinalCount, FinalWordCount, bigcount, FinalMatched>>
      /\ loading
  BY <1>1, QuietFinal DEF Quiet, IInv, Phases, AddSteps, WalkSteps
<1>3. CASE AddSet \/ AddSetFails
  <2>1. UNCHANGED <<FinalQueries, FinalWords>>
    BY <1>3, SetStep DEF AddSet, AddSetFails, adding
  <2> QED
    BY <1>2, <2>1 DEF Silent
<1>4. ASSUME AddLeaf \/ AddLeafFails
      PROVE  /\ UNCHANGED FinalWords
             /\ FinalQueries = leaves \cup {asking} /\ FinalQueries' = leaves'
             /\ Entry = asking /\ asking \in Query
  <2>1. at = "set" /\ pos = n
    BY <1>4 DEF AddLeaf, AddLeafFails, InnerToken, IInv, TypeOK
  <2>2. Entry = asking /\ asking \in Query
    BY <2>1, EntryPath DEF IInv, LevelRight, AddSteps
  <2> QED
    BY <1>4, <2>2, SetStep DEF AddLeaf, AddLeafFails, adding
<1>5. CASE AddLeaf
  BY <1>2, <1>4, <1>5 DEF AddLeaf, Silent
<1>6. CASE AddLeafFails
  <2>1. /\ leaves' = leaves /\ asking \notin leaves /\ MaxFailures > 0
    BY SMTT(30), <1>4, <1>6 DEF AddLeafFails, Fail, IInv, TypeOK
  <2>2. Promise!Lose(asking)
    BY <1>2, <1>4, <1>6, <2>1 DEF Promise!Lose
  <2> QED
    BY <1>4, <1>6, <2>2, PromiseSets DEF Promise!Next
<1>7. CASE AddWord
  <2>1. UNCHANGED <<FinalQueries, FinalWords>>
    BY <1>1, <1>7, WordStep DEF AddWord
  <2> QED
    BY <1>2, <2>1 DEF Silent
<1>8. CASE AddWordFails
  <2>1. /\ UNCHANGED FinalQueries /\ FinalWords = FinalWords' \cup WantedWords
        /\ MaxFailures > 0
    BY SMTT(30), <1>1, <1>8, WordStep DEF AddWordFails, Fail, IInv, TypeOK
  <2>2. at = "word" /\ WantedWords # {}
    BY <1>8 DEF AddWordFails
  <2>3. asking[pos] \in Token
    BY <2>2 DEF IInv, TypeOK, LevelRight, AddSteps, Query
  <2>4. WantedWords = {asking[pos]} /\ asking[pos] \in Words
    BY <2>2, <2>3 DEF WantedWords, Token
  <2>5. CASE asking[pos] \in FinalWords'
    BY <1>2, <2>1, <2>4, <2>5 DEF Silent
  <2>6. CASE asking[pos] \notin FinalWords'
    <3>1. FinalWords' = FinalWords \ {asking[pos]}
      BY <2>1, <2>4, <2>6
    <3>2. Promise!LoseWord(asking[pos])
      BY <1>2, <2>1, <3>1 DEF Promise!LoseWord
    <3> QED
      BY <2>4, <3>2 DEF Promise!Next
  <2> QED
    BY <2>5, <2>6
<1> QED
  BY <1>3, <1>5, <1>6, <1>7, <1>8 DEF ProcessQuery

(* The end of the query file starts the scan. *)
LEMMA EndQueriesStarts == ASSUME IInv, IInv', EndQueries PROVE Promise!StartScan
<1>1. /\ at = "idle" /\ at' = "idle" /\ loading /\ loading' = FALSE
      /\ UNCHANGED <<doWords, leaves, words, counters>>
  BY DEF EndQueries
<1>2. UNCHANGED <<FinalCount, FinalWordCount, bigcount, FinalMatched>>
  BY <1>1, QuietFinal DEF Quiet
<1>3. UNCHANGED <<FinalQueries, FinalWords>>
  BY <1>1 DEF FinalQueries, FinalWords, AddSteps
<1> QED
  BY <1>1, <1>2, <1>3 DEF Promise!StartScan

(* Reading a line is the promise's Scan: all it will add is pending at     *)
(* once.                                                                   *)
LEMMA ReadLineScans ==
  ASSUME IInv, NEW l \in Line, NEW c \in Counts, ReadLine(l, c) PROVE Promise!Scan(l, c)
<1> USE ModesAssumption
<1>1. FinalCount = count /\ FinalWordCount = wordCount /\ FinalMatched = matched
  BY IdleFinal DEF ReadLine, Quiet
<1>q. FinalQueries = leaves /\ FinalWords = words /\ UNCHANGED <<FinalQueries, FinalWords>>
  BY WalkQueries, NoneAdding DEF ReadLine, AddSteps
<1>2. /\ ~loading /\ bigcount' = bigcount + c
      /\ line' = l /\ curcount' = c /\ i' = 1 /\ choice' = <<>> /\ ~found' /\ counthits' = <<>>
      /\ Len(<<>>) = 0
      /\ at' = IF doWords = "dontCount" THEN "exact" ELSE "words"
      /\ UNCHANGED <<doWords, loading, sets, leaves, words, count, wordCount, matched>>
  BY DEF ReadLine, tree, NoHits
<1>3. doWords \in {"dontCount", "countInst", "countOcc"} /\ leaves \subseteq Query
  BY DEF IInv, TypeOK
<1>4. ASSUME NEW q PROVE Pending(q)' <=> q \in leaves /\ Promise!Matches(q, l)
  <2>1. Matches(q)' <=> Promise!Matches(q, l)
    BY <1>2, PromiseSets DEF Matches
  <2>2. Below(q, choice)'
    BY <1>2 DEF Below, Agree
  <2> QED
    BY <1>2, <2>1, <2>2 DEF Pending
<1>5. FinalCount' = [q \in Query |->
                       count[q] + IF q \in leaves /\ Promise!Matches(q, l) THEN c ELSE 0]
  BY <1>2, <1>4 DEF FinalCount
<1>6. ASSUME NEW w \in Words
      PROVE  PendingWord(w)' = IF w \in words THEN Promise!WordShare(w, l, c) ELSE 0
  <2>1. Remaining(w)' = Promise!Occurrences(w, l, 1)
    BY <1>2 DEF Remaining, Promise!Occurrences
  <2>2. ~Seen(w)'
    BY <1>2 DEF Seen
  <2>3. CASE doWords = "dontCount"
    <3>1. Promise!WordShare(w, l, c) = 0
      BY <2>3 DEF Promise!WordShare
    <3> QED
      BY <1>2, <2>3, <3>1 DEF PendingWord
  <2>4. CASE doWords = "countInst"
    <3>1. Promise!WordShare(w, l, c) = c * Cardinality(Promise!Occurrences(w, l, 1))
      BY <2>4 DEF Promise!WordShare, Promise!Cardinality, Cardinality
    <3> QED
      BY <1>2, <2>1, <2>4, <3>1 DEF PendingWord
  <2>5. CASE doWords = "countOcc"
    <3>1. Promise!WordShare(w, l, c) = IF Promise!Occurrences(w, l, 1) # {} THEN c ELSE 0
      BY <2>5 DEF Promise!WordShare
    <3> QED
      BY <1>2, <2>1, <2>2, <2>5, <3>1 DEF PendingWord
  <2> QED
    BY <1>3, <2>3, <2>4, <2>5
<1>7. FinalWordCount' = [w \in Words |->
                           wordCount[w] + IF w \in words THEN Promise!WordShare(w, l, c) ELSE 0]
  BY <1>2, <1>6 DEF FinalWordCount
<1>8. FinalMatched' = IF printIndividualCounts /\ \E q \in leaves : Promise!Matches(q, l)
                      THEN Append(matched, l) ELSE matched
  <2>1. at' # "idle"
    BY <1>2
  <2>2. (\E q \in leaves : Pending(q))' <=> \E q \in leaves : Promise!Matches(q, l)
    BY <1>2, <1>4
  <2> QED
    BY <1>2, <2>1, <2>2 DEF FinalMatched
<1> QED
  BY <1>1, <1>q, <1>2, <1>5, <1>7, <1>8, PromiseSets DEF Promise!Scan

(* Every step is a step of the promise or invisible to it. *)
LEMMA StepRefines == IInv /\ IInv' /\ [Next]_vars => [Promise!Next]_(Promise!vars)
<1> SUFFICES ASSUME IInv, IInv', [Next]_vars
             PROVE  Promise!Next \/ Silent
  BY SilentStutters
<1>1. CASE UNCHANGED vars
  <2>1. UNCHANGED <<FinalCount, FinalWordCount, FinalMatched>>
    BY <1>1 DEF vars, tree, counters, walk, FinalCount, FinalWordCount, FinalMatched, Pending,
                PendingWord, Matches, Below, Later, Agree, TokenOf, Remaining, Seen
  <2>2. UNCHANGED <<FinalQueries, FinalWords>>
    BY <1>1 DEF vars, tree, adding, FinalQueries, FinalWords, InnerToken
  <2> QED
    BY <1>1, <2>1, <2>2 DEF vars, tree, counters, Silent
<1>2. ASSUME NEW q \in Queries, AddQuery(q) PROVE Promise!Next
  BY <1>2, InputsAssumption, AddQueryAsks, PromiseSets DEF Promise!Next
<1>3. CASE EndQueries
  BY <1>3, EndQueriesStarts DEF Promise!Next
<1>4. ASSUME NEW l \in Lines, NEW c \in Counts, ReadLine(l, c) PROVE Promise!Next
  BY <1>4, InputsAssumption, ReadLineScans, PromiseSets DEF Promise!Next
<1>5. CASE ProcessLine
  BY <1>5, IncrementWordSilent, OverrunSilent, EndWordsSilent, LookupSilent, LeafSilent,
     ReturnSilent, EndLineSilent DEF ProcessLine, LookupExact, LookupWild, Kinds
<1> QED
  BY <1>1, <1>2, <1>3, <1>4, <1>5, ProcessQueryMaps DEF Next

(* get1t keeps its promise of an n-gram search, for every n, every set of  *)
(* words and queries: addQuery adds the query it was called for and no     *)
(* other (or, without memory, none), the walk of the tree adds the count   *)
(* of a line to every matching query exactly once, whichever branches the  *)
(* queries share; the words counted under -s and -r and the lines listed   *)
(* under -i are the promised ones.                                         *)
THEOREM TreeKeepsPromise == Spec => PromiseSpec
<1>1. Spec => []IInv
  BY InitTypes, StepTypes, PTL DEF Spec
<1> QED
  BY <1>1, InitMaps, StepRefines, PTL DEF Spec, PromiseSpec, Promise!Spec
-----------------------------------------------------------------------------
(* The loop of addQuery, through tables that earlier queries share, never  *)
(* leaves a query without its path, nor, unless an insertion has failed, a *)
(* path without a query (g1tquery.c addQuery).                             *)
THEOREM TreeClosed == Spec => []TreeHoldsQueries
<1>1. IInv => TreeHoldsQueries
  BY DEF IInv
<1> QED
  BY InitTypes, StepTypes, <1>1, PTL DEF Spec

(* Queries of <*> only. *)
AllWild(q) == \A j \in 1..n : q[j] = WILDCARD

(* The relations between the promised counts, at every moment. *)
Sums ==
  /\ loading => /\ bigcount = 0
                /\ \A q \in Query : FinalCount[q] = 0
                /\ \A w \in Words : FinalWordCount[w] = 0
  /\ \A q \in FinalQueries : AllWild(q) => FinalCount[q] = bigcount
  /\ \A p, q \in FinalQueries : Generalises(p, q) => FinalCount[p] >= FinalCount[q]
  /\ doWords # "dontCount" =>
       \A q \in FinalQueries, w \in FinalWords : WordOf(q, w) =>
         /\ FinalWordCount[w] >= FinalCount[q]
         /\ doWords = "countOcc" => FinalWordCount[w] <= bigcount

(* The queries and words of the promise are queries and words. *)
LEMMA FinalSets == IInv => FinalQueries \subseteq Query /\ FinalWords \subseteq Words
<1> SUFFICES ASSUME IInv PROVE FinalQueries \subseteq Query /\ FinalWords \subseteq Words
  OBVIOUS
<1> USE NAssumption
<1>1. leaves \subseteq Query /\ words \subseteq Words /\ pos \in 1..n
  BY DEF IInv, TypeOK
<1>2. at \in AddSteps \cup {"aborted"} => asking \in Query
  BY DEF IInv, LevelRight
<1>3. asking \in Query => {asking[j] : j \in pos..n} \ {WILDCARD} \subseteq Words
  BY <1>1 DEF Query, Token
<1> QED
  BY <1>1, <1>2, <1>3 DEF FinalQueries, FinalWords, AddSteps

(* The counts of the promise are natural numbers. *)
LEMMA FinalTypes == IInv => /\ FinalCount \in [Query -> Nat]
                            /\ FinalWordCount \in [Words -> Nat]
<1> SUFFICES ASSUME IInv PROVE FinalCount \in [Query -> Nat] /\ FinalWordCount \in [Words -> Nat]
  OBVIOUS
<1>1. /\ count \in [Query -> Nat] /\ curcount \in Nat /\ wordCount \in [Words -> Nat]
  BY DEF IInv, TypeOK
<1>2. ASSUME NEW w PROVE PendingWord(w) \in Nat
  <2>1. curcount * Cardinality(Remaining(w)) \in Nat
    BY <1>1, RemainingCard
  <2> QED
    BY <1>1, <2>1 DEF PendingWord
<1> QED
  BY <1>1, <1>2 DEF FinalCount, FinalWordCount

(* Before the first line every sum is zero. *)
LEMMA SumsInit == Init => Sums
<1> SUFFICES ASSUME Init PROVE Sums
  OBVIOUS
<1>1. IInv /\ Quiet /\ FinalQueries = leaves
  BY InitTypes, NoneAdding DEF Init, Quiet, AddSteps
<1> QED
  BY <1>1, IdleFinal DEF Init, Sums

(* A word that stands on a line occurs at least once. *)
LEMMA OccurrencesCard == ASSUME NEW w, NEW l, NEW j \in 1..n, l[j] = w
  PROVE Cardinality(Promise!Occurrences(w, l, 1)) \in Nat \ {0}
<1>1. /\ IsFiniteSet(1..n)
      /\ Promise!Occurrences(w, l, 1) \subseteq 1..n /\ j \in Promise!Occurrences(w, l, 1)
  BY NAssumption, FS_Interval DEF Promise!Occurrences
<1>2. IsFiniteSet(Promise!Occurrences(w, l, 1))
  BY <1>1, FS_Subset
<1> QED
  BY <1>1, <1>2, FS_CardinalityType, FS_EmptySet

(* Adding one line keeps the relations between the counts. *)
LEMMA SumsScan ==
  ASSUME IInv, Sums, NEW l \in Line, NEW c \in Counts, Promise!Scan(l, c) PROVE Sums'
<1> DEFINE add(q) == IF q \in FinalQueries /\ Promise!Matches(q, l) THEN c ELSE 0
           addw(w) == IF w \in FinalWords THEN Promise!WordShare(w, l, c) ELSE 0
<1>1. /\ ~loading /\ bigcount' = bigcount + c
      /\ UNCHANGED <<doWords, loading, FinalQueries, FinalWords>>
      /\ \A q \in Query : FinalCount'[q] = FinalCount[q] + add(q)
      /\ \A w \in Words : FinalWordCount'[w] = FinalWordCount[w] + addw(w)
  BY PromiseSets DEF Promise!Scan
<1>2. /\ c \in Nat /\ bigcount \in Nat /\ FinalQueries \subseteq Query /\ FinalWords \subseteq Words
      /\ doWords \in {"dontCount", "countInst", "countOcc"}
      /\ \A q \in Query : FinalCount[q] \in Nat
      /\ \A w \in Words : FinalWordCount[w] \in Nat
  BY CountsAssumption, ModesAssumption, FinalTypes, FinalSets DEF IInv, TypeOK
<1>3. ASSUME NEW q \in FinalQueries, AllWild(q) PROVE add(q) = c
  BY <1>3, PromiseSets DEF AllWild
<1>4. ASSUME NEW p \in FinalQueries, NEW q \in FinalQueries, Generalises(p, q)
      PROVE  Promise!Matches(q, l) => Promise!Matches(p, l)
  BY <1>4, PromiseSets DEF Generalises
<1>5. ASSUME NEW q \in FinalQueries, NEW w \in FinalWords, WordOf(q, w), doWords # "dontCount"
      PROVE  /\ addw(w) \in Nat /\ addw(w) >= add(q)
             /\ doWords = "countOcc" => addw(w) <= c
  <2>1. w \in FinalWords /\ w \in Words
    BY <1>2, <1>5
  <2>2. PICK j \in 1..n : q[j] = w /\ w # WILDCARD
    BY <1>5 DEF WordOf
  <2> DEFINE occ == Promise!Occurrences(w, l, 1)
  <2>3. /\ Cardinality(occ) \in Nat
        /\ Promise!Matches(q, l) => occ # {} /\ Cardinality(occ) # 0
    <3>1. IsFiniteSet(1..n) /\ occ \subseteq 1..n
      BY NAssumption, FS_Interval DEF Promise!Occurrences
    <3>2. Cardinality(occ) \in Nat
      BY <3>1, FS_Subset, FS_CardinalityType
    <3>3. ASSUME Promise!Matches(q, l) PROVE occ # {} /\ Cardinality(occ) # 0
      <4>1. l[j] = w
        BY <2>2, <3>3, PromiseSets
      <4>2. j \in occ
        BY <4>1, NAssumption DEF Promise!Occurrences
      <4> QED
        BY <4>1, <4>2, OccurrencesCard
    <3> QED
      BY <3>2, <3>3
  <2>4. CASE doWords = "countInst"
    <3>1. addw(w) = c * Cardinality(occ)
      BY <2>1, <2>4 DEF Promise!WordShare, Promise!Cardinality, Cardinality
    <3> HIDE DEF occ
    <3>2. ASSUME NEW k \in Nat PROVE c * k \in Nat /\ (k # 0 => c * k >= c)
      BY <1>2
    <3> QED
      BY <1>2, <2>3, <2>4, <3>1, <3>2
  <2>5. CASE doWords = "countOcc"
    <3>1. addw(w) = IF occ # {} THEN c ELSE 0
      BY <2>1, <2>5 DEF Promise!WordShare
    <3> QED
      BY <1>2, <2>3, <3>1
  <2> QED
    BY <1>2, <1>5, <2>4, <2>5
<1> HIDE DEF addw
<1>6. ASSUME NEW q \in FinalQueries, AllWild(q) PROVE FinalCount'[q] = bigcount'
  BY <1>1, <1>2, <1>3, <1>6 DEF Sums
<1>7. ASSUME NEW p \in FinalQueries, NEW q \in FinalQueries, Generalises(p, q)
      PROVE  FinalCount'[p] >= FinalCount'[q]
  <2>1. FinalCount[p] >= FinalCount[q] /\ FinalCount[p] \in Nat /\ FinalCount[q] \in Nat
    BY <1>2, <1>7 DEF Sums
  <2> QED
    BY <1>1, <1>2, <1>4, <1>7, <2>1
<1>8. ASSUME NEW q \in FinalQueries, NEW w \in FinalWords, WordOf(q, w), doWords # "dontCount"
      PROVE  /\ FinalWordCount'[w] >= FinalCount'[q]
             /\ doWords = "countOcc" => FinalWordCount'[w] <= bigcount'
  <2>1. /\ FinalWordCount[w] >= FinalCount[q] /\ w \in Words
        /\ doWords = "countOcc" => FinalWordCount[w] <= bigcount
    BY <1>2, <1>8 DEF Sums
  <2>2. /\ addw(w) \in Nat /\ addw(w) >= add(q) /\ add(q) \in Nat
        /\ doWords = "countOcc" => addw(w) <= c
    BY <1>2, <1>5, <1>8
  <2> HIDE DEF add
  <2> QED
    BY <1>1, <1>2, <2>1, <2>2
<1> QED
  BY <1>1, <1>6, <1>7, <1>8 DEF Sums, AllWild, WordOf, Generalises

(* Before the pass all counts are zero, whatever the queries and words.    *)
LEMMA LoadingSums ==
  ASSUME Sums, loading, UNCHANGED <<doWords, loading, FinalCount, FinalWordCount, bigcount>>,
         FinalQueries' \subseteq Query, FinalWords' \subseteq Words
  PROVE  Sums'
<1>1. /\ bigcount = 0
      /\ \A q \in Query : FinalCount[q] = 0
      /\ \A w \in Words : FinalWordCount[w] = 0
  BY DEF Sums
<1> QED
  BY <1>1 DEF Sums

(* Hence every step does: the others add nothing. *)
LEMMA SumsStep == IInv /\ IInv' /\ Sums /\ [Next]_vars => Sums'
<1> SUFFICES ASSUME IInv, IInv', Sums, [Next]_vars PROVE Sums'
  OBVIOUS
<1>1. CASE Silent
  BY <1>1 DEF Silent, Sums, AllWild, WordOf, Generalises
<1>2. CASE UNCHANGED Promise!vars
  BY <1>2 DEF Promise!vars, Sums, AllWild, WordOf, Generalises
<1>0. (FinalQueries \subseteq Query /\ FinalWords \subseteq Words)'
  <2>1. IInv'
    OBVIOUS
  <2> QED
    BY <2>1, FinalSets, PTL
<1>3. CASE Promise!Next
  <2>l. ASSUME (\E q \in Query : Promise!Lose(q)) \/ (\E w \in Words : Promise!LoseWord(w)) PROVE Sums'
    <3>1. loading /\ UNCHANGED <<doWords, loading, FinalCount, FinalWordCount, bigcount>>
      BY <2>l DEF Promise!Lose, Promise!LoseWord
    <3> QED
      BY <1>0, <3>1, LoadingSums
  <2>1. ASSUME NEW q \in Query, Promise!Ask(q) PROVE Sums'
    <3>1. loading /\ UNCHANGED <<doWords, loading, FinalCount, FinalWordCount, bigcount>>
      BY <2>1 DEF Promise!Ask
    <3> QED
      BY <1>0, <3>1, LoadingSums
  <2>2. CASE Promise!StartScan
    BY <2>2 DEF Promise!StartScan, Sums, AllWild, WordOf, Generalises
  <2>3. ASSUME NEW l \in Line, NEW c \in Counts, Promise!Scan(l, c) PROVE Sums'
    BY <2>3, SumsScan
  <2> QED
    BY <1>3, <2>l, <2>1, <2>2, <2>3, PromiseSets DEF Promise!Next
<1> QED
  BY <1>2, <1>3, StepRefines

(* The relations between the promised counts always hold. *)
LEMMA SumsCorrect == Spec => [](IInv /\ Sums)
BY InitTypes, StepTypes, SumsInit, SumsStep, PTL DEF Spec

(* The counter of an all-wildcard query agrees with bigcount, the sum      *)
(* findFileHits keeps apart from the tree.                                 *)
THEOREM WildcardTotalCorrect == Spec => []WildcardTotal
<1>1. IInv /\ Sums => WildcardTotal
  BY IdleFinal, NoneAdding DEF Sums, WildcardTotal, AllWild, Quiet, AddSteps
<1> QED
  BY SumsCorrect, <1>1, PTL

(* A more general query never reports less than a special one, though      *)
(* incrementQueries collects the two in different branches.                *)
THEOREM GeneralCountsMoreCorrect == Spec => []GeneralCountsMore
<1>1. IInv /\ Sums => GeneralCountsMore
  BY IdleFinal, NoneAdding DEF Sums, GeneralCountsMore, Quiet, AddSteps
<1> QED
  BY SumsCorrect, <1>1, PTL

(* A word is counted on every line its query matches, and under -r at most *)
(* once on each: incrementWords and incrementQueries agree.                *)
THEOREM WordsCoverQueriesCorrect == Spec => []WordsCoverQueries
<1>1. IInv /\ Sums => WordsCoverQueries
  <2> SUFFICES ASSUME IInv, Sums, at = "idle", doWords # "dontCount",
                      NEW q \in leaves, NEW j \in 1..n, q[j] # WILDCARD,
                      failures > 0 => q[j] \in words
               PROVE  /\ wordCount[q[j]] >= count[q]
                      /\ doWords = "countOcc" => wordCount[q[j]] <= bigcount
    BY DEF WordsCoverQueries
  <2>1. q[j] \in Words /\ WordOf(q, q[j])
    BY DEF IInv, TypeOK, Query, Token, WordOf
  <2>2. FinalQueries = leaves /\ FinalWords = words /\ failures \in Nat
    BY NoneAdding DEF AddSteps, IInv, TypeOK
  <2>3. q[j] \in FinalWords
    BY <2>1, <2>2 DEF IInv, WordsKept
  <2> QED
    BY <2>1, <2>2, <2>3, IdleFinal DEF Sums, Quiet
<1> QED
  BY SumsCorrect, <1>1, PTL
=============================================================================

---------------------------- MODULE Get1tProofs ----------------------------
(***************************************************************************)
(* Proofs about Get1t: for every n, every set of queries, every database   *)
(* and all options, the walk of g1tout.c reports each query once, with the *)
(* count that is its own, although all levels share an array and a depth.  *)
(***************************************************************************)
EXTENDS Get1t, TLAPS, FiniteSetTheorems, SequenceTheorems,
        WellFoundedInduction

WalkType == [path : Seq(Token), todo : SUBSET Token, leaves : BOOLEAN]

(* The counters and the corpus that the output is made of. *)
Counters ==
  /\ queries \subseteq Query /\ unread \in Seq(Query)
  /\ count \in [Query -> Nat]
  /\ entries \in Directories /\ file \in Nat \ {0} /\ linenum \in Nat

(* The walk of level k goes through the table at the end of the first k-1  *)
(* tokens of query, of which each is done with at its own level.           *)
Level(k) ==
  /\ Len(walks[k].path) = k-1
  /\ walks[k].leaves <=> k = n
  /\ \A j \in 1..k-1 : walks[k].path[j] = query[j]
  /\ \A t \in walks[k].todo : \E q \in queries : q[k] = t /\ \A j \in 1..k-1 : q[j] = query[j]
  /\ k < Len(walks) => query[k] \notin walks[k].todo

(* The walks in progress. *)
Nested ==
  /\ walks \in Seq(WalkType) /\ Len(walks) <= n
  /\ walks # <<>> => pc = "walk"
  /\ pc = "walk" => query \in [1..n-1 -> Token \cup {NULL}]
  /\ currentDepth = IF walks = <<>> THEN 1 ELSE IF Len(walks) = n THEN n-1 ELSE Len(walks)
  /\ \A k \in 1..Len(walks) : Level(k)

(* A query is still to be written if a walk has it in front of it. *)
Pending(q) ==
  \E k \in 1..Len(walks) : q[k] \in walks[k].todo /\ \A j \in 1..k-1 : q[j] = query[j]

Due(q) == q \in queries /\ (printZeroCounts \/ count[q] # 0) /\ ~Pending(q)

(* The others have been written. *)
Written ==
  /\ rows \in Seq(Query \X Nat)
  /\ pc \notin {"walk", "exit"} => rows = <<>>
  /\ pc = "walk" \/ (pc = "exit" /\ status = 0) =>
       /\ \A k \in 1..Len(rows) : Due(rows[k][1]) /\ rows[k][2] = count[rows[k][1]]
       /\ \A q \in Query : Due(q) => \E k \in 1..Len(rows) : rows[k][1] = q
       /\ \A j, k \in 1..Len(rows) : rows[j][1] = rows[k][1] => j = k

IInv == TypeOK /\ Counters /\ Nested /\ Written
-----------------------------------------------------------------------------
(* A nonempty set of numbers has a least one. *)
LEMMA LeastNumber == ASSUME NEW T, T \subseteq Nat, T # {}
  PROVE \E m \in T : \A y \in T : m <= y
<1> DEFINE R == OpToRel(<, Nat)
<1>1. IsWellFoundedOn(R, Nat)
  BY NatLessThanWellFounded
<1>2. \A x, y \in Nat : x < y => <<x, y>> \in R
  BY DEF OpToRel
<1> HIDE DEF R
<1>3. PICK m \in T : \A y \in T : ~ (<<y, m>> \in R)
  BY <1>1, WFMin
<1>4. \A y \in T : ~ (y < m)
  BY <1>2, <1>3
<1> QED
  BY <1>4

LEMMA Constants ==
  /\ n \in Nat /\ n >= 2 /\ 1..n-1 \subseteq 1..n
  /\ Query = [1..n -> Token] /\ NULL \notin Token
BY NAssumption DEF Query, Token, Quiet!Query

(* Outside the walk. *)
LEMMA OutsideKeeps ==
  ASSUME Nested, Written, pc \notin {"walk", "exit"}, pc' # "walk",
         pc' = "exit" => status' # 0, UNCHANGED <<rows, state>>
  PROVE  Nested' /\ Written'
<1>1. walks = <<>> /\ rows = <<>>
  BY DEF Nested, Written
<1>2. walks' = <<>> /\ currentDepth' = currentDepth /\ rows' = <<>>
  BY <1>1 DEF state
<1>3. Len(<<>>) = 0 /\ <<>> \in Seq(WalkType) /\ <<>> \in Seq(Query \X Nat) /\ 0 <= n
  BY Constants
<1>4. Nested'
  BY <1>1, <1>2, <1>3 DEF Nested
<1>5. Written'
  BY <1>2, <1>3 DEF Written
<1> QED
  BY <1>4, <1>5

(* The tokens of a table are those that follow the path in some query.     *)
LEMMA TableIs ==
  ASSUME NEW path, NEW t
  PROVE  t \in Table(path) <=>
           \E q \in queries : q[Len(path) + 1] = t /\ \A j \in 1..Len(path) : q[j] = path[j]
BY DEF Table

LEMMA TableTokens ==
  ASSUME Counters, NEW path, Len(path) \in 0..n-1
  PROVE  Table(path) \subseteq Token
<1>1. Len(path) + 1 \in 1..n
  BY Constants
<1> QED
  BY <1>1, Constants DEF Table, Counters

LEMMA InitInv == Init => IInv
<1> SUFFICES ASSUME Init PROVE IInv
  OBVIOUS
<1>1. Len(<<>>) = 0 /\ <<>> \in Seq(WalkType) /\ <<>> \in Seq(Query \X Nat) /\ 0 <= n
  BY Constants
<1>2. Counters
  <2>1. queries = {} /\ count = [q \in Query |-> 0]
    BY DEF Init, Quiet!Init, Query
  <2>2. entries \in Directories /\ file = 1 /\ linenum = 0 /\ unread \in Seq(Query)
    BY QueryFilesAssumption DEF Init, Stream!Init
  <2> QED
    BY <2>1, <2>2 DEF Counters
<1>3. Nested
  BY <1>1 DEF Init, Nested
<1>4. Written
  BY <1>1 DEF Init, Written
<1>5. TypeOK
  <2>1. /\ rows = <<>> /\ walks = <<>> /\ query = <<>> /\ currentDepth = 1 /\ status = 0
        /\ pc = "queries" /\ wildF = FALSE
        /\ printIndividualCounts \in BOOLEAN /\ printZeroCounts \in BOOLEAN
    BY DEF Init
  <2>2. 1 \in 1..n-1 /\ 1..Len(<<>>) = {}
    BY Constants
  <2> QED
    BY <1>2, <2>1, <2>2 DEF TypeOK, Counters
<1> QED
  BY <1>2, <1>3, <1>4, <1>5 DEF IInv
-----------------------------------------------------------------------------
LEMMA AskKeeps == ASSUME IInv, Ask PROVE IInv'
<1>1. unread \in Seq(Query) /\ unread # <<>>
  BY DEF Ask, IInv, Counters
<1>2. Head(unread) \in Query /\ Tail(unread) \in Seq(Query)
  BY <1>1
<1>3. queries' = queries \cup {Head(unread)} /\ UNCHANGED <<count, entries, file, linenum>>
      /\ unread' = Tail(unread)
  BY DEF Ask, Quiet!Ask, corpus
<1>4. Counters'
  BY <1>2, <1>3 DEF IInv, Counters
<1>5. UNCHANGED <<rows, query, currentDepth, walks, wildF, printIndividualCounts, printZeroCounts,
                  pc, status>>
      /\ pc = "queries"
  BY DEF Ask, output, state
<1>6. Nested' /\ Written'
  BY <1>5, OutsideKeeps DEF IInv, state
<1>7. TypeOK'
  BY <1>2, <1>3, <1>4, <1>5 DEF IInv, TypeOK, Counters
<1> QED
  BY <1>4, <1>6, <1>7 DEF IInv

(* The steps that leave counters and the walk alone. *)
LEMMA QuietKeeps ==
  ASSUME IInv, UNCHANGED <<queries, count, entries, unread, rows, state>>,
         UNCHANGED <<printIndividualCounts, printZeroCounts>>,
         file' \in Nat \ {0}, linenum' \in Nat,
         pc \notin {"walk", "exit"}, pc' # "walk", pc' = "exit" => status' # 0,
         wildF' \in BOOLEAN, wildF' => printIndividualCounts,
         status' \in {0, -1},
         pc' \in {"queries", "opendir", "corpus", "total", "words", "ngrams", "exit", "crashed"}
  PROVE  IInv'
<1>1. Counters'
  BY DEF IInv, Counters
<1>2. Nested' /\ Written'
  BY OutsideKeeps DEF IInv
<1>3. TypeOK'
  BY DEF IInv, TypeOK, state
<1> QED
  BY <1>1, <1>2, <1>3 DEF IInv

LEMMA PhaseKeeps ==
  ASSUME IInv,
         \/ EndQueries \/ Opendir \/ OpendirFails \/ NextFile \/ EndCorpus
         \/ FopenFails \/ WriteTotal \/ WriteWordCounts
  PROVE  IInv'
<1> USE DEF options, counters, corpus, output
<1>0. /\ file \in Nat \ {0} /\ linenum \in Nat /\ wildF \in BOOLEAN /\ status \in {0, -1}
      /\ printIndividualCounts \in BOOLEAN /\ (wildF => printIndividualCounts)
  BY DEF IInv, Counters, TypeOK
<1>1. CASE EndQueries
  <2>1. wildF' = FALSE \/ wildF' = printIndividualCounts
    BY <1>1 DEF EndQueries
  <2>2. wildF' \in BOOLEAN
    BY <1>0, <2>1, Zenon
  <2>3. wildF' => printIndividualCounts
    BY <2>1, Zenon
  <2> QED
    BY <1>0, <1>1, <2>2, <2>3, QuietKeeps DEF EndQueries, Quiet!StartScan
<1>2. CASE Opendir
  BY <1>0, <1>2, QuietKeeps DEF Opendir
<1>3. CASE OpendirFails
  BY <1>0, <1>3, QuietKeeps DEF OpendirFails
<1>4. CASE NextFile
  <2>1. file' = file + 1 /\ linenum' = 0 /\ UNCHANGED entries
    BY <1>4 DEF NextFile, Stream!EndFile, Stream!GiveUp, Stream!NextFile
  <2>2. file' \in Nat \ {0} /\ linenum' \in Nat
    BY <1>0, <2>1
  <2> QED
    BY <1>0, <1>4, <2>1, <2>2, QuietKeeps DEF NextFile
<1>5. CASE EndCorpus
  BY <1>0, <1>5, QuietKeeps DEF EndCorpus
<1>6. CASE FopenFails
  BY <1>0, <1>6, QuietKeeps DEF FopenFails
<1>7. CASE WriteTotal
  BY <1>0, <1>7, QuietKeeps DEF WriteTotal
<1>8. CASE WriteWordCounts
  BY <1>0, <1>8, QuietKeeps DEF WriteWordCounts
<1> QED
  BY <1>1, <1>2, <1>3, <1>4, <1>5, <1>6, <1>7, <1>8
-----------------------------------------------------------------------------
(* A line of the database: its tokens, and how often it occurs. *)
Record == [tokens : Quiet!Line, count : Counts]

LEMMA TextTypes ==
  ASSUME Counters, NEW f \in 1..Len(entries)
  PROVE  /\ entries[f].text \in Seq(Record \cup {NL}) /\ entries[f].db \in BOOLEAN
         /\ DOMAIN entries = 1..Len(entries) /\ Len(entries) \in Nat
         /\ \A p \in 1..Len(entries[f].text) : entries[f].text[p] # NL =>
              p < Len(entries[f].text) /\ entries[f].text[p+1] = NL
<1> DEFINE E == [text : Seq(Record \cup {NL}), db : BOOLEAN]
<1>1. entries \in Directories /\ Directories \subseteq Seq(E)
  BY DirectoriesAssumption DEF Counters, Record
<1> HIDE DEF E
<1>2. entries \in Seq(E)
  BY <1>1
<1>3. DOMAIN entries = 1..Len(entries) /\ Len(entries) \in Nat /\ entries[f] \in E
  BY <1>2
<1>4. entries[f].text \in Seq(Record \cup {NL}) /\ entries[f].db \in BOOLEAN
  BY <1>3 DEF E
<1>5. \A p \in DOMAIN entries[f].text : entries[f].text[p] # NL =>
              p < Len(entries[f].text) /\ entries[f].text[p+1] = NL
  BY <1>1, <1>3, DirectoriesAssumption
<1> QED
  BY <1>3, <1>4, <1>5

(* The ends of lines up to place k of a text. *)
Upto(t, k) == {q \in Stream!Ends(t) : q <= k}

LEMMA SameCardinality == ASSUME NEW S PROVE Stream!Cardinality(S) = Cardinality(S)
BY DEF Stream!Cardinality, Cardinality

LEMMA EndsFinite ==
  ASSUME NEW t, Len(t) \in Nat, NEW k
  PROVE  /\ Stream!Ends(t) \subseteq 1..Len(t)
         /\ IsFiniteSet(Stream!Ends(t)) /\ Cardinality(Stream!Ends(t)) \in Nat
         /\ IsFiniteSet(Upto(t, k)) /\ Cardinality(Upto(t, k)) \in Nat
<1>1. Stream!Ends(t) \subseteq 1..Len(t)
  BY DEF Stream!Ends
<1>2. IsFiniteSet(Stream!Ends(t))
  <2>1. IsFiniteSet(1..Len(t))
    BY FS_Interval
  <2> QED
    BY <1>1, <2>1, FS_Subset
<1>3. Upto(t, k) \subseteq Stream!Ends(t)
  BY DEF Upto
<1> QED
  BY <1>1, <1>2, <1>3, FS_Subset, FS_CardinalityType

(* There is an end for every number up to that of the ends. *)
LEMMA NthEndIn ==
  ASSUME NEW t, Len(t) \in Nat, NEW m \in Nat, m < Cardinality(Stream!Ends(t))
  PROVE  /\ Stream!NthEnd(t, m + 1) \in Stream!Ends(t)
         /\ Cardinality(Upto(t, Stream!NthEnd(t, m + 1))) = m + 1
<1> DEFINE T == {k \in Nat : m < Cardinality(Upto(t, k))}
<1>1. Len(t) \in T
  <2>1. Stream!Ends(t) \subseteq 1..Len(t)
    BY EndsFinite
  <2>2. Upto(t, Len(t)) = Stream!Ends(t)
    BY <2>1 DEF Upto
  <2> QED
    BY <2>2
<1>2. PICK k \in T : \A y \in T : k <= y
  <2>1. T \subseteq Nat /\ T # {}
    BY <1>1
  <2> HIDE DEF T
  <2> QED
    BY <2>1, LeastNumber
<1>3. k \in Nat /\ m < Cardinality(Upto(t, k)) /\ Cardinality(Upto(t, k)) \in Nat
  BY <1>2, EndsFinite
<1>4. k # 0
  <2>1. Upto(t, 0) = {}
    <3>1. Stream!Ends(t) \subseteq 1..Len(t)
      BY EndsFinite
    <3> QED
      BY <3>1 DEF Upto
  <2>2. Cardinality(Upto(t, 0)) = 0
    BY <2>1, FS_EmptySet
  <2> QED
    BY <1>3, <2>2
<1>5. k-1 \in Nat /\ Cardinality(Upto(t, k-1)) \in Nat /\ ~(m < Cardinality(Upto(t, k-1)))
  <2>1. k-1 \in Nat /\ ~(k <= k-1)
    BY <1>3, <1>4
  <2>2. k-1 \notin T
    BY <1>2, <2>1
  <2> QED
    BY <2>1, <2>2, EndsFinite
<1>6. k \in Stream!Ends(t) /\ Cardinality(Upto(t, k)) = m + 1
  <2>0. Stream!Ends(t) \subseteq 1..Len(t)
    BY EndsFinite
  <2>1. CASE k \in Stream!Ends(t)
    <3>1. Upto(t, k) = Upto(t, k-1) \cup {k} /\ k \notin Upto(t, k-1)
      BY <1>3, <2>0, <2>1 DEF Upto
    <3>2. Cardinality(Upto(t, k)) = Cardinality(Upto(t, k-1)) + 1
      BY <3>1, EndsFinite, FS_AddElement
    <3> QED
      BY <1>3, <1>5, <2>1, <3>2
  <2>2. CASE k \notin Stream!Ends(t)
    <3>1. Upto(t, k) = Upto(t, k-1)
      BY <1>3, <2>0, <2>2 DEF Upto
    <3> QED
      BY <1>3, <1>5, <3>1
  <2> QED
    BY <2>1, <2>2
<1>7. Stream!NthEnd(t, m + 1) = CHOOSE q \in Stream!Ends(t) : Cardinality(Upto(t, q)) = m + 1
  BY SameCardinality DEF Stream!NthEnd, Upto
<1> HIDE DEF T
<1> QED
  BY <1>6, <1>7

(* A line begins behind a newline or with the text. *)
LEMMA LineStartIn ==
  ASSUME NEW t, Len(t) \in Nat, NEW p \in Stream!Ends(t)
  PROVE  /\ Stream!LineStart(t, p) \in 1..p-1
         /\ \A q \in Stream!LineStart(t, p)..p-1 : t[q] # NL
<1>1. p \in Nat /\ p-1 \in 1..p-1 /\ t[p-1] # NL
  BY DEF Stream!Ends
<1> DEFINE T == {s \in 1..p-1 : \A q \in s..p-1 : t[q] # NL}
<1>2. p-1 \in T
  BY <1>1
<1>3. PICK s \in T : \A y \in T : s <= y
  <2>1. T \subseteq Nat
    BY <1>1
  <2> HIDE DEF T
  <2> QED
    BY <1>2, <2>1, LeastNumber
<1>4. s = 1 \/ t[s-1] = NL
  <2> SUFFICES ASSUME s # 1, t[s-1] # NL PROVE FALSE
    OBVIOUS
  <2>1. s-1 \in T /\ ~(s <= s-1)
    BY <1>1, <1>3
  <2> QED
    BY <1>3, <2>1
<1>5. \E r \in 1..p-1 : (\A q \in r..p-1 : t[q] # NL) /\ (r = 1 \/ t[r-1] = NL)
  BY <1>3, <1>4
<1> QED
  BY <1>5 DEF Stream!LineStart

(* A line that the reader delivers begins with a gram. *)
LEMMA DeliveredGram ==
  ASSUME Counters, Stream!Deliver
  PROVE  /\ file \in 1..Len(entries) /\ entries[file].db /\ linenum < Cardinality(Stream!Ends(entries[file].text))
         /\ line'[1] = <<file, Stream!LineStart(entries[file].text,
                                               Stream!NthEnd(entries[file].text, linenum + 1))>>
         /\ Gram(line'[1]) \in Record
<1> DEFINE t == entries[file].text
           p == Stream!NthEnd(t, linenum + 1)
           s == Stream!LineStart(t, p)
<1>1. file \in 1..Len(entries) /\ linenum \in Nat /\ linenum < Stream!Lines(file)
      /\ line' = Stream!Line(file, linenum + 1)
  <2>1. Len(entries) \in Nat
    BY DirectoriesAssumption DEF Counters
  <2> QED
    BY <2>1 DEF Counters, Stream!Deliver
<1>2. t \in Seq(Record \cup {NL}) /\ Len(t) \in Nat
  BY <1>1, TextTypes
<1>3. entries[file].db /\ linenum < Cardinality(Stream!Ends(t))
  BY <1>1, SameCardinality DEF Stream!Lines
<1>4. p \in Stream!Ends(t)
  <2> HIDE DEF t
  <2> QED
    BY <1>1, <1>2, <1>3, NthEndIn
<1>5. s \in 1..p-1 /\ (\A q \in s..p-1 : t[q] # NL) /\ p \in 1..Len(t)
  <2> HIDE DEF t, p
  <2> QED
    BY <1>2, <1>4, LineStartIn, EndsFinite
<1>6. line' = [e \in 1..p-s+1 |-> <<file, s + e - 1>>]
  BY <1>1 DEF Stream!Line
<1>7. 1 \in 1..p-s+1 /\ s + 1 - 1 = s /\ s \in s..p-1 /\ s \in 1..Len(t)
  <2> HIDE DEF t, p, s
  <2> QED
    BY <1>2, <1>5
<1>8. line'[1] = <<file, s>>
  <2> HIDE DEF t, p, s
  <2> QED
    BY <1>6, <1>7
<1>9. Gram(<<file, s>>) = t[s]
  BY DEF Gram
<1>10. t[s] \in Record
  <2> HIDE DEF t, p, s
  <2> QED
    BY <1>2, <1>5, <1>7
<1>11. Gram(line'[1]) \in Record
  <2> HIDE DEF t, p, s
  <2> QED
    BY <1>8, <1>9, <1>10
<1> QED
  BY <1>1, <1>3, <1>8, <1>11

LEMMA CountLineKeeps == ASSUME IInv, CountLine PROVE IInv'
<1> DEFINE g == Gram(line'[1])
<1>1. g.count \in Nat
  <2>1. g \in Record /\ Counts \subseteq Nat
    BY DeliveredGram, DirectoriesAssumption DEF IInv, CountLine
  <2> HIDE DEF g
  <2> QED
    BY <2>1 DEF Record
<1>2. /\ UNCHANGED <<queries, entries, file, unread, wildF, printIndividualCounts, printZeroCounts>>
      /\ UNCHANGED <<rows, state, pc, status>>
      /\ linenum' = linenum + 1 /\ pc = "corpus"
  BY DEF CountLine, Stream!Deliver, Listing!Scan, Quiet!Scan, output
<1>3. count' = [q \in Query |-> count[q] + IF q \in queries /\ Quiet!Matches(q, g.tokens) THEN g.count ELSE 0]
  <2>1. Listing!Scan(g.tokens, g.count) \/ Quiet!Scan(g.tokens, g.count)
    BY DEF CountLine
  <2> HIDE DEF g
  <2>2. Listing!Query = Query /\ Quiet!Query = Query
    BY DEF Query, Quiet!Query, Listing!Query, Quiet!Token, Listing!Token
  <2>3. \A q : Listing!Matches(q, g.tokens) = Quiet!Matches(q, g.tokens)
    BY DEF Listing!Matches, Quiet!Matches
  <2>4. CASE Listing!Scan(g.tokens, g.count)
    BY <2>2, <2>3, <2>4 DEF Listing!Scan
  <2>5. CASE Quiet!Scan(g.tokens, g.count)
    BY <2>2, <2>5 DEF Quiet!Scan
  <2> QED
    BY <2>1, <2>4, <2>5
<1> HIDE DEF g
<1>4. count' \in [Query -> Nat]
  <2>1. ASSUME NEW q \in Query
        PROVE  count[q] + (IF q \in queries /\ Quiet!Matches(q, g.tokens) THEN g.count ELSE 0) \in Nat
    <3>1. count[q] \in Nat
      BY DEF IInv, Counters
    <3> QED
      BY <1>1, <3>1
  <2> QED
    BY <1>3, <2>1
<1>5. Counters'
  BY <1>2, <1>4 DEF IInv, Counters
<1>6. Nested' /\ Written'
  BY <1>2, OutsideKeeps DEF IInv
<1>7. TypeOK'
  BY <1>2 DEF IInv, TypeOK, state
<1> QED
  BY <1>5, <1>6, <1>7 DEF IInv
-----------------------------------------------------------------------------
(* The output reads the counters. *)
LEMMA CountersSame ==
  ASSUME Counters, UNCHANGED <<counters, corpus, unread>>
  PROVE  Counters'
BY DEF Counters, counters, corpus

(* The types of the walks and rows follow from what is kept of them. *)
LEMMA TypesFollow ==
  ASSUME TypeOK, Counters', Nested', Written',
         UNCHANGED <<printIndividualCounts, printZeroCounts, unread, wildF>>,
         query' = <<>> \/ query' \in [1..n-1 -> Token \cup {NULL}],
         pc' \in {"ngrams", "walk", "exit"}, status' \in {0, -1}
  PROVE  TypeOK'
<1>1. currentDepth' \in 1..n-1
  <2>1. Len(walks') \in 0..n /\ (walks' # <<>> => Len(walks') # 0)
    BY Constants DEF Nested
  <2> QED
    BY <2>1, Constants DEF Nested
<1>2. \A k \in 1..Len(walks') : walks'[k] \in WalkType
  BY DEF Nested
<1>3. \A k \in 1..Len(rows') : rows'[k] \in Query \X Nat
  BY DEF Written
<1>4. queries' \subseteq Query
  BY DEF Counters
<1> QED
  BY <1>1, <1>2, <1>3, <1>4 DEF TypeOK, WalkType

LEMMA StartNgramsKeeps == ASSUME IInv, StartNgrams PROVE IInv'
<1>1. /\ UNCHANGED <<options, counters, corpus, unread, wildF, rows, status>>
      /\ query' = [k \in 1..n-1 |-> NULL] /\ currentDepth' = 1 /\ pc' = "walk" /\ pc = "ngrams"
      /\ walks' = <<Walk(<<>>, FALSE)>> /\ UNCHANGED <<queries, count>>
  BY DEF StartNgrams, counters
<1> DEFINE w == Walk(<<>>, FALSE)
<1>2. w.path = <<>> /\ w.todo = Table(<<>>) /\ w.leaves = FALSE /\ w \in WalkType
  <2>1. Table(<<>>) \subseteq Token
    BY TableTokens, Constants DEF IInv
  <2> QED
    BY <2>1 DEF Walk, WalkType
<1> HIDE DEF w
<1>3. walks' = <<w>> /\ walks' \in Seq(WalkType) /\ Len(walks') = 1 /\ walks'[1] = w /\ walks' # <<>>
  <2>1. walks' = <<w>>
    BY <1>1 DEF w
  <2> QED
    BY <1>2, <2>1
<1>4. Counters'
  BY <1>1, CountersSame DEF IInv
<1>5. \A t \in w.todo : \E q \in queries : q[1] = t
  BY <1>2, TableIs
<1>6. Nested'
  <2>1. query' \in [1..n-1 -> Token \cup {NULL}]
    BY <1>1
  <2>2. currentDepth' = IF walks' = <<>> THEN 1 ELSE IF Len(walks') = n THEN n-1 ELSE Len(walks')
    BY <1>1, <1>3, Constants
  <2>3. ASSUME NEW k \in 1..Len(walks')
        PROVE  /\ k = 1 /\ Len(walks'[k].path) = k-1
               /\ walks'[k].leaves <=> k = n
               /\ \A j \in 1..k-1 : walks'[k].path[j] = query'[j]
               /\ \A t \in walks'[k].todo : \E q \in queries' : q[k] = t /\ \A j \in 1..k-1 : q[j] = query'[j]
    <3>1. k = 1 /\ walks'[k] = w
      BY <1>3
    <3>2. \A t \in walks'[k].todo : \E q \in queries' : q[k] = t /\ \A j \in 1..k-1 : q[j] = query'[j]
      <4>1. 1..k-1 = {}
        BY <3>1
      <4>2. walks'[k].todo = w.todo /\ queries' = queries
        BY <1>1, <3>1
      <4> QED
        BY <1>5, <3>1, <4>1, <4>2
    <3> QED
      BY <1>2, <3>1, <3>2, Constants
  <2> QED
    <3>0. pc' = "walk" /\ walks' \in Seq(WalkType) /\ Len(walks') = 1
      BY <1>1, <1>3
    <3>1. 1 <= n
      BY Constants
    <3>2. \A k \in 1..Len(walks') : k < Len(walks') => query'[k] \notin walks'[k].todo
      BY <3>0
    <3>3. \A k \in 1..Len(walks') : Level(k)'
      BY <2>3, <3>2 DEF Level
    <3> QED
      BY <2>1, <2>2, <3>0, <3>1, <3>3 DEF Nested
<1>7. Written'
  <2>1. rows' = <<>>
    BY <1>1 DEF IInv, Written
  <2>2. ASSUME NEW q \in Query, Due(q)' PROVE FALSE
    <3>1. q \in queries /\ ~Pending(q)'
      BY <1>1, <2>2 DEF Due
    <3>2. q[1] \in Table(<<>>)
      BY <3>1, TableIs
    <3>3. 1 \in 1..Len(walks')
      BY <1>3
    <3> QED
      BY <1>2, <1>3, <3>1, <3>2, <3>3 DEF Pending
  <2> QED
    BY <1>1, <2>1, <2>2 DEF Written
<1>8. TypeOK'
  <2>1. query' \in [1..n-1 -> Token \cup {NULL}]
    BY <1>1
  <2> QED
    BY <1>1, <1>4, <1>6, <1>7, <2>1, TypesFollow DEF IInv, TypeOK, options
<1> QED
  BY <1>4, <1>6, <1>7, <1>8 DEF IInv

LEMMA ExitKeeps == ASSUME IInv, Exit PROVE IInv'
<1>1. /\ UNCHANGED <<options, counters, corpus, unread, wildF, rows, query, currentDepth, walks>>
      /\ pc = "walk" /\ walks = <<>> /\ pc' = "exit" /\ status' = 0
      /\ UNCHANGED <<queries, count, printZeroCounts>>
  BY DEF Exit, output, state, counters, options
<1>2. Counters'
  BY <1>1, CountersSame DEF IInv
<1>3. Nested'
  BY <1>1 DEF IInv, Nested
<1>4. Written'
  <2>1. \A q : Due(q)' <=> Due(q)
    BY <1>1 DEF Due, Pending
  <2> QED
    BY <1>1, <2>1 DEF IInv, Written
<1>5. TypeOK'
  BY <1>1, <1>2, <1>3, <1>4, TypesFollow DEF IInv, TypeOK, options
<1> QED
  BY <1>2, <1>3, <1>4, <1>5 DEF IInv
-----------------------------------------------------------------------------
(* The walk at the top of the stack. *)
LEMMA InnerIs ==
  ASSUME Nested, walks # <<>>, NEW L, L = Len(walks)
  PROVE  /\ L \in 1..n /\ L \in Nat /\ inner = walks[L] /\ inner \in WalkType /\ pc = "walk"
         /\ Len(inner.path) = L-1 /\ inner.path \in Seq(Token) /\ (inner.leaves <=> L = n)
         /\ inner.todo \subseteq Token
         /\ \A j \in 1..L-1 : inner.path[j] = query[j]
         /\ \A t \in inner.todo : \E q \in queries : q[L] = t /\ \A j \in 1..L-1 : q[j] = query[j]
         /\ query \in [1..n-1 -> Token \cup {NULL}]
<1>1. L \in 1..n /\ walks \in Seq(WalkType)
  BY Constants DEF Nested
<1>2. L \in 1..Len(walks) /\ walks[L] \in WalkType
  BY <1>1
<1>3. inner = walks[L]
  BY DEF inner
<1>4. inner.path \in Seq(Token) /\ inner.todo \subseteq Token
  BY <1>2, <1>3 DEF WalkType
<1>5. Level(L) /\ L \in Nat
  BY <1>1, <1>2 DEF Nested
<1>6. /\ Len(inner.path) = L-1 /\ (inner.leaves <=> L = n)
      /\ \A j \in 1..L-1 : inner.path[j] = query[j]
      /\ \A t \in inner.todo : \E q \in queries : q[L] = t /\ \A j \in 1..L-1 : q[j] = query[j]
  BY <1>3, <1>5 DEF Level
<1>7. pc = "walk" /\ query \in [1..n-1 -> Token \cup {NULL}]
  BY DEF Nested
<1> QED
  BY <1>1, <1>2, <1>3, <1>4, <1>5, <1>6, <1>7

(* Going on to the next entry of the innermost table. *)
LEMMA RestIs ==
  ASSUME Nested, walks # <<>>, NEW t, NEW L, L = Len(walks)
  PROVE  /\ Rest(t) \in Seq(WalkType) /\ Len(Rest(t)) = L
         /\ \A k \in 1..L : /\ Rest(t)[k].path = walks[k].path /\ Rest(t)[k].leaves = walks[k].leaves
                           /\ Rest(t)[k].todo = IF k = L THEN walks[k].todo \ {t} ELSE walks[k].todo
<1>0. L \in Nat /\ L \in 1..L /\ walks \in [1..L -> WalkType] /\ walks[L] \in WalkType
  BY InnerIs DEF Nested
<1> DEFINE w == [walks[L] EXCEPT !.todo = @ \ {t}]
<1>1. w \in WalkType /\ w.path = walks[L].path /\ w.leaves = walks[L].leaves
      /\ w.todo = walks[L].todo \ {t}
  BY <1>0 DEF WalkType
<1>2. Rest(t) = [walks EXCEPT ![L] = w]
  BY DEF Rest
<1> HIDE DEF w
<1>3. Rest(t) \in [1..L -> WalkType]
  BY <1>0, <1>1, <1>2
<1>4. \A k \in 1..L : Rest(t)[k] = IF k = L THEN w ELSE walks[k]
  BY <1>0, <1>2
<1>5. Rest(t) \in Seq(WalkType) /\ Len(Rest(t)) = L
  BY <1>0, <1>3
<1> QED
  BY <1>1, <1>4, <1>5

(* Going deeper leaves what is due as it was: what was in front of the     *)
(* outer walk is now in front of the inner one.                            *)
LEMMA EnterSetKeeps == ASSUME IInv, NEW t \in Token, EnterSet(t) PROVE IInv'
<1> DEFINE L == Len(walks)
           w == Walk(Append(inner.path, t), LastLevel)
<1>0. Nested /\ walks # <<>> /\ ~inner.leaves /\ t \in inner.todo
  BY DEF IInv, EnterSet
<1>1. /\ L \in Nat /\ inner = walks[L] /\ pc = "walk"
      /\ Len(inner.path) = L-1 /\ inner.path \in Seq(Token)
      /\ \A j \in 1..L-1 : inner.path[j] = query[j]
      /\ \A x \in inner.todo : \E q \in queries : q[L] = x /\ \A j \in 1..L-1 : q[j] = query[j]
      /\ query \in [1..n-1 -> Token \cup {NULL}] /\ L \in 1..n-1
  <2>1. L \in 1..n /\ L # n
    BY <1>0, InnerIs
  <2>2. L \in 1..n-1
    BY <2>1, Constants
  <2> QED
    BY <1>0, <2>2, InnerIs
<1>2. currentDepth = L /\ (LastLevel <=> L = n-1)
  BY <1>0, <1>1, Constants DEF Nested, LastLevel
<1>3. /\ query' = [query EXCEPT ![L] = t]
      /\ currentDepth' = IF L = n-1 THEN L ELSE L + 1
      /\ walks' = Append(Rest(t), w)
      /\ UNCHANGED <<options, counters, corpus, unread, wildF, rows, pc, status, queries, count,
                     printZeroCounts>>
  BY <1>2 DEF EnterSet, counters, options
<1>4. /\ query' \in [1..n-1 -> Token \cup {NULL}] /\ query'[L] = t
      /\ \A j \in 1..L-1 : query'[j] = query[j]
  BY <1>1, <1>3
<1>5. /\ w \in WalkType /\ Len(w.path) = L /\ (w.leaves <=> L + 1 = n)
      /\ \A j \in 1..L : w.path[j] = query'[j]
      /\ \A x : x \in w.todo <=> \E q \in queries : q[L+1] = x /\ \A j \in 1..L : q[j] = query'[j]
  <2> DEFINE path == Append(inner.path, t)
  <2>1. path \in Seq(Token) /\ Len(path) = L /\ \A j \in 1..L : path[j] = query'[j]
    BY <1>1, <1>4
  <2>2. w.path = path /\ w.todo = Table(path) /\ w.leaves = LastLevel
    BY DEF Walk
  <2> HIDE DEF path
  <2>3. Table(path) \subseteq Token
    BY <1>1, <2>1, TableTokens, Constants DEF IInv
  <2>4. w = [path |-> path, todo |-> Table(path), leaves |-> LastLevel]
    BY DEF Walk, path
  <2>5. LastLevel \in BOOLEAN
    BY DEF LastLevel
  <2>6. w \in WalkType
    BY <2>1, <2>3, <2>4, <2>5 DEF WalkType
  <2>7. L + 1 = n <=> L = n-1
    BY <1>1, Constants
  <2>8. \A x : x \in w.todo <=> \E q \in queries : q[L+1] = x /\ \A j \in 1..L : q[j] = query'[j]
    BY <2>1, <2>2, TableIs
  <2> QED
    BY <1>2, <2>1, <2>2, <2>6, <2>7, <2>8
<1> HIDE DEF w
<1>6. /\ walks' \in Seq(WalkType) /\ Len(walks') = L + 1 /\ walks'[L+1] = w /\ walks' # <<>>
      /\ \A k \in 1..L : /\ walks'[k].path = walks[k].path /\ walks'[k].leaves = walks[k].leaves
                        /\ walks'[k].todo = IF k = L THEN walks[k].todo \ {t} ELSE walks[k].todo
  <2>1. /\ Rest(t) \in Seq(WalkType) /\ Len(Rest(t)) = L
        /\ \A k \in 1..L : /\ Rest(t)[k].path = walks[k].path /\ Rest(t)[k].leaves = walks[k].leaves
                          /\ Rest(t)[k].todo = IF k = L THEN walks[k].todo \ {t} ELSE walks[k].todo
    BY <1>0, RestIs
  <2>2. /\ walks' \in Seq(WalkType) /\ Len(walks') = L + 1 /\ walks'[L+1] = w
        /\ \A k \in 1..L : walks'[k] = Rest(t)[k]
    BY <1>1, <1>3, <1>5, <2>1
  <2>3. walks' # <<>>
    BY <1>1, <2>2
  <2> QED
    BY <2>1, <2>2, <2>3
<1> HIDE DEF L
<1>7. Counters'
  BY <1>3, CountersSame DEF IInv
<1>8. \A k \in 1..L : Level(k)
  BY <1>0 DEF Nested, L
<1>9. Nested'
  <2>1. ASSUME NEW k \in 1..L+1 PROVE Level(k)'
    <3>1. CASE k = L + 1
      <4>1. k-1 = L
        BY <1>1, <3>1
      <4> QED
        BY <1>3, <1>5, <1>6, <3>1, <4>1 DEF Level
    <3>2. CASE k # L + 1
      <4>1. k \in 1..L /\ 1..k-1 \subseteq 1..L-1
        BY <1>1, <3>2
      <4>2. Level(k)
        BY <1>8, <4>1
      <4>3. /\ Len(walks'[k].path) = k-1 /\ (walks'[k].leaves <=> k = n)
            /\ \A j \in 1..k-1 : walks'[k].path[j] = query'[j]
        BY <1>4, <1>6, <4>1, <4>2 DEF Level
      <4>4. \A x \in walks'[k].todo : \E q \in queries : q[k] = x /\ \A j \in 1..k-1 : q[j] = query'[j]
        <5>1. \A x \in walks'[k].todo : x \in walks[k].todo
          BY <1>6, <4>1
        <5> QED
          BY <1>4, <4>1, <4>2, <5>1 DEF Level
      <4>5. query'[k] \notin walks'[k].todo
        <5>1. CASE k = L
          BY <1>4, <1>6, <4>1, <5>1
        <5>2. CASE k # L
          <6>1. k \in 1..L-1 /\ k < L
            BY <1>1, <4>1, <5>2
          <6> QED
            BY <1>4, <1>6, <4>1, <4>2, <5>2, <6>1 DEF Level, L
        <5> QED
          BY <5>1, <5>2
      <4> QED
        BY <1>3, <4>3, <4>4, <4>5 DEF Level
    <3> QED
      BY <3>1, <3>2
  <2>2. Len(walks') <= n /\ pc' = "walk" /\ currentDepth' = IF Len(walks') = n THEN n-1 ELSE Len(walks')
    BY <1>1, <1>3, <1>6, Constants
  <2> QED
    BY <1>4, <1>6, <2>1, <2>2 DEF Nested
<1>10. ASSUME NEW q \in queries PROVE Pending(q)' <=> Pending(q)
  <2>1. ASSUME Pending(q)' PROVE Pending(q)
    <3>1. PICK k \in 1..L+1 : q[k] \in walks'[k].todo /\ \A j \in 1..k-1 : q[j] = query'[j]
      BY <1>6, <2>1 DEF Pending
    <3>2. CASE k = L + 1
      <4>1. q[L] = t /\ \A j \in 1..L-1 : q[j] = query[j]
        BY <1>1, <1>4, <3>1, <3>2
      <4> QED
        BY <1>0, <1>1, <4>1 DEF Pending, L
    <3>3. CASE k # L + 1
      <4>1. k \in 1..L /\ 1..k-1 \subseteq 1..L-1
        BY <1>1, <3>3
      <4>2. q[k] \in walks[k].todo /\ \A j \in 1..k-1 : q[j] = query[j]
        BY <1>4, <1>6, <3>1, <4>1
      <4> QED
        BY <4>1, <4>2 DEF Pending, L
    <3> QED
      BY <3>2, <3>3
  <2>2. ASSUME Pending(q) PROVE Pending(q)'
    <3>1. PICK k \in 1..L : q[k] \in walks[k].todo /\ \A j \in 1..k-1 : q[j] = query[j]
      BY <2>2 DEF Pending, L
    <3>2. CASE k = L /\ q[k] = t
      <4>1. \A j \in 1..L : q[j] = query'[j]
        BY <1>1, <1>4, <3>1, <3>2
      <4>2. L + 1 \in 1..Len(walks') /\ (L + 1) - 1 = L
        BY <1>1, <1>6
      <4>3. q[L+1] \in walks'[L+1].todo
        BY <1>5, <1>6, <4>1
      <4> QED
        BY <4>1, <4>2, <4>3 DEF Pending
    <3>3. CASE ~(k = L /\ q[k] = t)
      <4>1. k \in 1..Len(walks') /\ 1..k-1 \subseteq 1..L-1
        BY <1>1, <1>6
      <4>2. q[k] \in walks'[k].todo /\ \A j \in 1..k-1 : q[j] = query'[j]
        BY <1>4, <1>6, <3>1, <3>3, <4>1
      <4> QED
        BY <4>1, <4>2 DEF Pending
    <3> QED
      BY <3>2, <3>3
  <2> QED
    BY <2>1, <2>2
<1>11. Written'
  <2>1. \A q : Due(q)' <=> Due(q)
    BY <1>3, <1>10 DEF Due
  <2> QED
    BY <1>3, <2>1 DEF IInv, Written
<1>12. TypeOK'
  BY <1>1, <1>3, <1>4, <1>7, <1>9, <1>11, TypesFollow DEF IInv, TypeOK, options
<1> QED
  BY <1>7, <1>9, <1>11, <1>12 DEF IInv
(* A leaf is one query, the one that the path and the token make; no other *)
(* ceases to be pending.                                                   *)
LEMMA WriteQueryKeeps == ASSUME IInv, NEW t \in Token, WriteQuery(t) PROVE IInv'
<1> DEFINE L == Len(walks)
           c == count[[k \in 1..n |-> Append(inner.path, t)[k]]]
<1>0. Nested /\ Written /\ walks # <<>> /\ inner.leaves /\ t \in inner.todo
  BY DEF IInv, WriteQuery
<1>1. /\ L = n /\ inner = walks[L] /\ pc = "walk"
      /\ Len(inner.path) = L-1 /\ inner.path \in Seq(Token)
      /\ \A j \in 1..L-1 : inner.path[j] = query[j]
      /\ \A x \in inner.todo : \E q \in queries : q[L] = x /\ \A j \in 1..L-1 : q[j] = query[j]
      /\ query \in [1..n-1 -> Token \cup {NULL}]
  BY <1>0, InnerIs
<1>2. PICK r \in queries : r[n] = t /\ \A j \in 1..n-1 : r[j] = query[j]
  BY <1>0, <1>1
<1>3. r \in Query /\ count[r] \in Nat
  BY DEF IInv, Counters
<1>4. c = count[r]
  <2>1. \A k \in 1..n : Append(inner.path, t)[k] = r[k]
    BY <1>1, <1>2, Constants
  <2>2. r = [k \in 1..n |-> r[k]]
    BY <1>3, Constants
  <2>3. [k \in 1..n |-> Append(inner.path, t)[k]] = r
    BY <2>1, <2>2
  <2> QED
    BY <2>3
<1>5. Append(query, t) = r
  <2>1. query \in Seq(Token \cup {NULL}) /\ Len(query) = n-1
    BY <1>1, Constants
  <2>2. Append(query, t) \in Seq(Token \cup {NULL}) /\ Len(Append(query, t)) = n
        /\ \A k \in 1..n : Append(query, t)[k] = r[k]
    BY <1>2, <2>1, Constants
  <2>3. r = [k \in 1..n |-> r[k]]
    BY <1>3, Constants
  <2>4. Append(query, t) = [k \in 1..n |-> Append(query, t)[k]]
    <3> DEFINE v == Append(query, t)
    <3>1. v \in Seq(Token \cup {NULL}) /\ Len(v) = n
      BY <2>2
    <3> HIDE DEF v
    <3>2. v = [k \in 1..n |-> v[k]]
      BY <3>1
    <3> QED
      BY <3>2 DEF v
  <2> QED
    BY <2>2, <2>3, <2>4
<1> HIDE DEF c
<1>6. /\ walks' = Rest(t)
      /\ rows' = IF Wanted(count[r]) THEN Append(rows, <<r, count[r]>>) ELSE rows
      /\ UNCHANGED <<options, counters, corpus, unread, wildF, query, currentDepth, pc, status, queries,
                     count, printZeroCounts>>
  BY <1>4, <1>5 DEF WriteQuery, c, counters, options
<1>7. /\ walks' \in Seq(WalkType) /\ Len(walks') = L /\ walks' # <<>>
      /\ \A k \in 1..L : /\ walks'[k].path = walks[k].path /\ walks'[k].leaves = walks[k].leaves
                        /\ walks'[k].todo = IF k = L THEN walks[k].todo \ {t} ELSE walks[k].todo
  <2>1. Len(Rest(t)) = L /\ L # 0
    BY <1>0, <1>1, RestIs, Constants
  <2>2. Len(walks') = L /\ walks' # <<>>
    BY <1>6, <2>1
  <2>3. walks' \in Seq(WalkType) /\ \A k \in 1..L :
           /\ walks'[k].path = walks[k].path /\ walks'[k].leaves = walks[k].leaves
           /\ walks'[k].todo = IF k = L THEN walks[k].todo \ {t} ELSE walks[k].todo
    <3>1. walks' = Rest(t)
      BY <1>6
    <3>2. Rest(t) \in Seq(WalkType) /\ \A k \in 1..L :
             /\ Rest(t)[k].path = walks[k].path /\ Rest(t)[k].leaves = walks[k].leaves
             /\ Rest(t)[k].todo = IF k = L THEN walks[k].todo \ {t} ELSE walks[k].todo
      BY <1>0, RestIs
    <3> HIDE DEF L
    <3> QED
      BY <3>1, <3>2
  <2> QED
    BY <2>2, <2>3
<1>8. Counters'
  BY <1>6, CountersSame DEF IInv
<1>9. \A k \in 1..L : Level(k)
  BY <1>0 DEF Nested
<1> HIDE DEF L
<1>10. Nested'
  <2>1. ASSUME NEW k \in 1..L PROVE Level(k)'
    <3>1. Level(k) /\ walks'[k].todo \subseteq walks[k].todo /\ Len(walks') = Len(walks)
          /\ walks'[k].path = walks[k].path /\ walks'[k].leaves = walks[k].leaves
      BY <1>7, <1>9 DEF L
    <3>2. query' = query /\ queries' = queries
      BY <1>6
    <3> QED
      BY <3>1, <3>2 DEF Level
  <2>2. Len(walks') = n /\ pc' = "walk" /\ currentDepth' = n-1 /\ n <= n
    BY <1>0, <1>1, <1>6, <1>7, Constants DEF Nested, L
  <2> QED
    BY <1>1, <1>6, <1>7, <2>1, <2>2 DEF Nested
<1>11. ASSUME NEW q \in queries PROVE Pending(q)' <=> Pending(q) /\ q # r
  <2>1. ASSUME Pending(q)' PROVE Pending(q) /\ q # r
    <3>1. PICK k \in 1..L : q[k] \in walks'[k].todo /\ \A j \in 1..k-1 : q[j] = query[j]
      BY <1>6, <1>7, <2>1 DEF Pending
    <3>2. Pending(q)
      BY <1>7, <3>1 DEF Pending, L
    <3>3. CASE k = L
      BY <1>1, <1>2, <1>7, <3>1, <3>2, <3>3
    <3>4. CASE k # L
      <4>1. k \in 1..n-1 /\ k < L
        BY <1>1, <3>4, Constants
      <4>2. query[k] \notin walks'[k].todo
        BY <1>7, <1>9, <3>4, <4>1 DEF Level, L
      <4> QED
        BY <1>2, <3>1, <3>2, <4>1, <4>2
    <3> QED
      BY <3>3, <3>4
  <2>2. ASSUME Pending(q), q # r PROVE Pending(q)'
    <3>1. PICK k \in 1..L : q[k] \in walks[k].todo /\ \A j \in 1..k-1 : q[j] = query[j]
      BY <2>2 DEF Pending, L
    <3>2. q[k] \in walks'[k].todo
      <4> SUFFICES ASSUME k = L, q[k] = t PROVE FALSE
        BY <1>7, <3>1
      <4>1. \A j \in 1..n : q[j] = r[j]
        BY <1>1, <1>2, <3>1, Constants
      <4>2. q \in Query /\ q = [j \in 1..n |-> q[j]] /\ r = [j \in 1..n |-> r[j]]
        BY <1>3, Constants DEF IInv, Counters
      <4> QED
        BY <2>2, <4>1, <4>2
    <3> QED
      BY <1>6, <1>7, <3>1, <3>2 DEF Pending
  <2> QED
    BY <2>1, <2>2
<1>12. Pending(r)
  <2>1. r[L] \in walks[L].todo /\ (\A j \in 1..L-1 : r[j] = query[j]) /\ L \in 1..L
    BY <1>0, <1>1, <1>2, Constants
  <2> QED
    BY <2>1 DEF Pending, L
<1>13. /\ \A k \in 1..Len(rows) : Due(rows[k][1]) /\ rows[k][2] = count[rows[k][1]]
       /\ \A q \in Query : Due(q) => \E k \in 1..Len(rows) : rows[k][1] = q
       /\ \A j, k \in 1..Len(rows) : rows[j][1] = rows[k][1] => j = k
       /\ rows \in Seq(Query \X Nat)
  BY <1>0, <1>1 DEF Written
<1>14. \A q : Due(q)' <=> Due(q) \/ (q = r /\ (printZeroCounts \/ count[r] # 0))
  BY <1>6, <1>11, <1>12 DEF Due
<1>15. Written'
  <2>1. CASE ~Wanted(count[r])
    <3>1. \A q : Due(q)' <=> Due(q)
      BY <1>14, <2>1 DEF Wanted
    <3> QED
      BY <1>1, <1>6, <1>13, <2>1, <3>1 DEF Written
  <2>2. CASE Wanted(count[r])
    <3>1. /\ rows' \in Seq(Query \X Nat) /\ Len(rows') = Len(rows) + 1 /\ Len(rows) \in Nat
          /\ rows'[Len(rows) + 1] = <<r, count[r]>>
          /\ \A k \in 1..Len(rows) : rows'[k] = rows[k]
      BY <1>3, <1>6, <1>13, <2>2
    <3>2. \A q : Due(q)' <=> Due(q) \/ q = r
      BY <1>14, <2>2 DEF Wanted
    <3>3. ~Due(r)
      BY <1>12 DEF Due
    <3>4. \A k \in 1..Len(rows) : rows'[k][1] # r
      <4> SUFFICES ASSUME NEW k \in 1..Len(rows), rows[k][1] = r PROVE FALSE
        BY <3>1
      <4>1. Due(rows[k][1])
        BY <1>13
      <4> HIDE DEF Due
      <4> QED
        BY ONLY <3>3, <4>1, rows[k][1] = r
    <3>5. \A k \in 1..Len(rows') : Due(rows[k][1])' /\ rows'[k][2] = count[rows'[k][1]]
      <4> TAKE k \in 1..Len(rows')
      <4>1. CASE k = Len(rows) + 1
        BY <3>1, <3>2, <4>1
      <4>2. CASE k # Len(rows) + 1
        <5>1. k \in 1..Len(rows)
          BY <3>1, <4>2
        <5> QED
          BY <1>13, <3>1, <3>2, <5>1
      <4> QED
        BY <4>1, <4>2
    <3>6. ASSUME NEW q \in Query, Due(q)' PROVE \E k \in 1..Len(rows') : rows'[k][1] = q
      <4>1. CASE q = r
        <5>1. Len(rows) + 1 \in 1..Len(rows')
          BY <3>1
        <5> QED
          BY <3>1, <4>1, <5>1
      <4>2. CASE q # r
        <5>1. PICK k \in 1..Len(rows) : rows[k][1] = q
          BY <1>13, <3>2, <3>6, <4>2
        <5>2. k \in 1..Len(rows') /\ rows'[k][1] = q
          BY <3>1, <5>1
        <5> QED
          BY <5>2
      <4> QED
        BY <4>1, <4>2
    <3>7. ASSUME NEW j \in 1..Len(rows'), NEW k \in 1..Len(rows'), rows'[j][1] = rows'[k][1] PROVE j = k
      <4>1. \A m \in 1..Len(rows') : m \in 1..Len(rows) \/ m = Len(rows) + 1
        BY <3>1
      <4>2. CASE j \in 1..Len(rows) /\ k \in 1..Len(rows)
        BY <1>13, <3>1, <3>7, <4>2
      <4>3. CASE ~(j \in 1..Len(rows) /\ k \in 1..Len(rows))
        BY <3>1, <3>4, <3>7, <4>1, <4>3
      <4> QED
        BY <4>2, <4>3
    <3> QED
      BY <1>1, <1>6, <3>1, <3>5, <3>6, <3>7 DEF Written
  <2> QED
    BY <2>1, <2>2
<1>16. TypeOK'
  BY <1>1, <1>6, <1>8, <1>10, <1>15, TypesFollow DEF IInv, TypeOK, options
<1> QED
  BY <1>8, <1>10, <1>15, <1>16 DEF IInv

(* A table that has been gone through holds nothing that is pending. *)
LEMMA LeaveSetKeeps == ASSUME IInv, LeaveSet PROVE IInv'
<1> DEFINE L == Len(walks)
<1>0. Nested /\ walks # <<>> /\ inner.todo = {}
  BY DEF IInv, LeaveSet
<1>1. /\ L \in 1..n /\ L \in Nat /\ inner = walks[L] /\ pc = "walk" /\ (inner.leaves <=> L = n)
      /\ query \in [1..n-1 -> Token \cup {NULL}] /\ walks \in Seq(WalkType)
  BY <1>0, InnerIs DEF Nested
<1>2. /\ walks' = SubSeq(walks, 1, L-1) /\ currentDepth' = DepthBefore
      /\ UNCHANGED <<options, counters, corpus, unread, wildF, rows, query, pc, status, queries,
                     count, printZeroCounts>>
  BY DEF LeaveSet, Outer, counters, options
<1>3. /\ walks' \in Seq(WalkType) /\ Len(walks') = L-1
      /\ \A k \in 1..L-1 : walks'[k] = walks[k]
  <2>1. L-1 \in Int /\ \A k \in 1..L-1 : walks[k] \in WalkType
    BY <1>1
  <2>2. walks' = SubSeq(walks, 1, L-1)
    BY <1>2
  <2> HIDE DEF L
  <2>3. walks' \in Seq(WalkType) /\ Len(walks') = (IF 1 <= L-1 THEN L-1 - 1 + 1 ELSE 0)
        /\ \A k \in 1..L-1 - 1 + 1 : walks'[k] = walks[1 + k - 1]
    BY <2>1, <2>2, SubSeqProperties
  <2> QED
    BY <1>1, <2>3
<1>4. Counters'
  BY <1>2, CountersSame DEF IInv
<1>5. \A k \in 1..L : Level(k)
  BY <1>0 DEF Nested
<1>6. currentDepth' = IF L-1 = 0 THEN 1 ELSE L-1
  <2>1. currentDepth = IF L = n THEN n-1 ELSE L
    BY <1>0, <1>1 DEF Nested
  <2> QED
    BY <1>1, <1>2, <2>1, Constants DEF DepthBefore
<1> HIDE DEF L
<1>7. Nested'
  <2>1. ASSUME NEW k \in 1..L-1 PROVE Level(k)'
    <3>1. Level(k) /\ walks'[k] = walks[k] /\ k < L
      BY <1>1, <1>3, <1>5
    <3> QED
      BY <1>2, <3>1 DEF Level, L
  <2>2. Len(walks') <= n /\ Len(walks') # n /\ pc' = "walk" /\ (walks' = <<>> <=> L-1 = 0)
    <3>1. walks' = <<>> <=> L-1 = 0
      <4>1. walks' \in Seq(WalkType) /\ Len(walks') = L-1
        BY <1>3
      <4> QED
        BY <4>1, EmptySeq
    <3> QED
      BY <1>1, <1>2, <1>3, <3>1, Constants
  <2> QED
    BY <1>1, <1>2, <1>3, <1>6, <2>1, <2>2 DEF Nested
<1>8. ASSUME NEW q PROVE Pending(q)' <=> Pending(q)
  <2>1. ASSUME NEW k \in 1..L PROVE walks[k].todo # {} => k \in 1..L-1
    BY <1>0, <1>1
  <2>2. ASSUME NEW k \in 1..L-1 PROVE k \in 1..L
    BY <1>1
  <2> QED
    BY <1>2, <1>3, <2>1, <2>2 DEF Pending, L
<1>9. Written'
  <2>1. \A q : Due(q)' <=> Due(q)
    BY <1>2, <1>8 DEF Due
  <2> QED
    BY <1>2, <2>1 DEF IInv, Written
<1>10. TypeOK'
  BY <1>1, <1>2, <1>4, <1>7, <1>9, TypesFollow DEF IInv, TypeOK, options
<1> QED
  BY <1>4, <1>7, <1>9, <1>10 DEF IInv
-----------------------------------------------------------------------------
LEMMA StutterKeeps == ASSUME IInv, UNCHANGED vars PROVE IInv'
<1>1. UNCHANGED <<printIndividualCounts, printZeroCounts, queries, count, entries, file, linenum, unread,
                  wildF, rows, query, currentDepth, walks, pc, status>>
  BY DEF vars, options, counters, corpus, output, state
<1>2. \A k : Level(k)' <=> Level(k)
  BY <1>1 DEF Level
<1>3. \A q : Due(q)' <=> Due(q)
  BY <1>1 DEF Due, Pending
<1>4. TypeOK'
  BY <1>1 DEF IInv, TypeOK
<1>5. Counters'
  BY <1>1 DEF IInv, Counters
<1>6. Nested'
  BY <1>1, <1>2 DEF IInv, Nested
<1>7. Written'
  BY <1>1, <1>3 DEF IInv, Written
<1> QED
  BY <1>4, <1>5, <1>6, <1>7 DEF IInv

LEMMA NextKeeps == IInv /\ [Next]_vars => IInv'
<1> SUFFICES ASSUME IInv, [Next]_vars PROVE IInv'
  OBVIOUS
<1>1. CASE Ask
  BY <1>1, AskKeeps
<1>2. CASE \/ EndQueries \/ Opendir \/ OpendirFails \/ NextFile \/ EndCorpus
           \/ FopenFails \/ WriteTotal \/ WriteWordCounts
  BY <1>2, PhaseKeeps
<1>3. CASE CountLine
  BY <1>3, CountLineKeeps
<1>4. CASE StartNgrams
  BY <1>4, StartNgramsKeeps
<1>5. ASSUME NEW t \in Token, EnterSet(t) PROVE IInv'
  BY <1>5, EnterSetKeeps
<1>6. ASSUME NEW t \in Token, WriteQuery(t) PROVE IInv'
  BY <1>6, WriteQueryKeeps
<1>7. CASE LeaveSet
  BY <1>7, LeaveSetKeeps
<1>8. CASE Exit
  BY <1>8, ExitKeeps
<1>9. CASE UNCHANGED vars
  BY <1>9, StutterKeeps
<1> QED
  BY <1>1, <1>2, <1>3, <1>4, <1>5, <1>6, <1>7, <1>8, <1>9 DEF Next

LEMMA Invariant == Spec => []IInv
BY InitInv, NextKeeps, PTL DEF Spec

(* Every variable of main has its type, in every phase: no NULL and no     *)
(* token of another level gets into a row of the output.                   *)
THEOREM TypeCorrect == Spec => []TypeOK
BY Invariant, PTL DEF IInv

LEMMA NestedNames == Nested => PathNamed
<1> SUFFICES ASSUME Nested, walks # <<>>
             PROVE  /\ inner.path = SubSeq(query, 1, Len(inner.path))
                    /\ Len(inner.path) = IF inner.leaves THEN currentDepth ELSE currentDepth - 1
                    /\ inner.leaves <=> Len(inner.path) = n - 1
  BY DEF PathNamed
<1> DEFINE L == Len(walks)
<1>1. /\ L \in 1..n /\ Len(inner.path) = L-1 /\ inner.path \in Seq(Token) /\ (inner.leaves <=> L = n)
      /\ \A j \in 1..L-1 : inner.path[j] = query[j]
      /\ query \in [1..n-1 -> Token \cup {NULL}]
  BY InnerIs
<1>2. currentDepth = IF L = n THEN n-1 ELSE L
  BY DEF Nested
<1> HIDE DEF L
<1>3. inner.path = SubSeq(query, 1, L-1)
  <2>1. query \in Seq(Token \cup {NULL}) /\ Len(query) = n-1
    BY <1>1, Constants
  <2>2. SubSeq(query, 1, L-1) = [k \in 1..L-1 |-> query[k]]
    BY <1>1, <2>1, Constants
  <2>3. inner.path = [k \in 1..L-1 |-> inner.path[k]]
    BY <1>1
  <2> QED
    BY <1>1, <2>2, <2>3
<1> QED
  BY <1>1, <1>2, <1>3, Constants

(* At every level of the walk, the array and the depth that all levels     *)
(* share name the table being walked, and the last level is taken for the  *)
(* last: writeNgramAndWildCountsR restores what it changed (g1tout.c:83).  *)
THEOREM PathNamedCorrect == Spec => []PathNamed
<1>1. IInv => PathNamed
  BY NestedNames DEF IInv
<1> QED
  BY <1>1, Invariant, PTL

LEMMA WrittenRight == IInv => RowsRight
<1> SUFFICES ASSUME IInv, pc = "exit", status = 0
             PROVE  /\ {rows[k] : k \in 1..Len(rows)}
                         = {<<q, count[q]>> : q \in {r \in queries : printZeroCounts \/ count[r] # 0}}
                    /\ \A j, k \in 1..Len(rows) : rows[j][1] = rows[k][1] => j = k
  BY DEF RowsRight
<1>1. walks = <<>> /\ Len(<<>>) = 0
  BY DEF IInv, Nested
<1>2. \A q : Due(q) <=> q \in queries /\ (printZeroCounts \/ count[q] # 0)
  BY <1>1 DEF Due, Pending
<1>3. /\ \A k \in 1..Len(rows) : Due(rows[k][1]) /\ rows[k][2] = count[rows[k][1]]
      /\ \A q \in Query : Due(q) => \E k \in 1..Len(rows) : rows[k][1] = q
      /\ \A j, k \in 1..Len(rows) : rows[j][1] = rows[k][1] => j = k
      /\ \A k \in 1..Len(rows) : rows[k] \in Query \X Nat
  BY DEF IInv, Written
<1>4. \A k \in 1..Len(rows) : rows[k] = <<rows[k][1], count[rows[k][1]]>>
  BY <1>3
<1>5. queries \subseteq Query
  BY DEF IInv, Counters
<1> QED
  BY <1>2, <1>3, <1>4, <1>5

(* At exit 0, every query is in the output once and with its own count     *)
(* (those without hits under -z only), and nothing else is: whatever the   *)
(* order in which hshwalk visits the entries of each table.                *)
THEOREM RowsRightCorrect == Spec => []RowsRight
BY Invariant, WrittenRight, PTL
=============================================================================

------------------------- MODULE CoocCounterProofs -------------------------
(***************************************************************************)
(* Proofs about CoocCounter.  Who owns a counter is settled in two steps:  *)
(* while queries are added, a pair has one counter and both its orders     *)
(* have it (Counters, Orders); rationaliseCounts then takes it from one of *)
(* them, and never from both (Kept), so that freeing what is left frees    *)
(* every counter at most once (Freeing).                                   *)
(***************************************************************************)
EXTENDS CoocCounter, TLAPS

(* Every item has the counter of its pair. *)
Counters ==
  /\ \A e \in leaves : counter[e] \in 1..Len(heap) /\ e[1] \in starts
  /\ \A e, d \in leaves : counter[e] = counter[d] <=> PairOf(e) = PairOf(d)

(* Only between the turns of addTokPair's loop may an item be without the  *)
(* other order, and then thecount is its counter.                          *)
Orders ==
  /\ \A e \in leaves : Other(e) \in leaves \/ (pc = "addTokPair" /\ e = wstarts)
  /\ pc = "queries" => thecount = NULL
  /\ pc = "addTokPair" =>
       /\ wstarts \in leaves
       /\ thecount \in {NULL, counter[wstarts]}
       /\ thecount = NULL => Other(wstarts) \in leaves

(* Where incrementCooc is: it has found a table at most for each token.    *)
Scanning ==
  /\ i \in 1..n /\ Len(hitstarts) <= i - 1
  /\ pc = "incrementCooc" => line \in Line

Rationalised(e) == e \in cleared \/ Other(e) \in cleared

(* Items lose their counters in the first walk, one of the two orders of a *)
(* pair for each item that was visited: the one that strcmp has last.      *)
Kept ==
  /\ pc \notin {"rationalise", "write", "kill", "double free", "end"} => cleared = {}
  /\ \A e \in leaves : e[1] # e[2] => ~(e \in cleared /\ Other(e) \in cleared)
  /\ \A e \in cleared : e[2] <= e[1]
  /\ pc = "rationalise" => \A e \in leaves \ todo : Rationalised(e)
  /\ pc \in {"write", "kill", "end"} => \A e \in leaves : Rationalised(e)

(* What the last walk has freed: the counters of the items it has visited. *)
Freeing ==
  /\ pc # "double free"
  /\ pc \notin {"kill", "end"} => freed = {}
  /\ pc = "kill" => freed = {counter[e] : e \in (leaves \ cleared) \ todo}
  /\ pc = "end" => freed = {counter[e] : e \in leaves \ cleared}

IInv == TypeOK /\ Counters /\ Orders /\ Scanning /\ Kept /\ Freeing
-----------------------------------------------------------------------------
(* An item is one of two orders of its pair. *)
LEMMA PairCases == ASSUME NEW e \in Item, NEW d \in Item
  PROVE PairOf(e) = PairOf(d) <=> d = e \/ d = Other(e)
BY DEF Item, PairOf, Other

LEMMA OtherOther == ASSUME NEW e \in Item
  PROVE /\ Other(e) \in Item /\ Other(Other(e)) = e
        /\ PairOf(Other(e)) = PairOf(e)
        /\ Other(e) = e <=> e[1] = e[2]
BY DEF Item, PairOf, Other

(* makeCounters starts with empty tables. *)
LEMMA InitInv == Init => IInv
<1> SUFFICES ASSUME Init PROVE IInv
  OBVIOUS
<1> USE NAssumption
<1>1. TypeOK
  BY DEF Init, TypeOK, NULL
<1>2. Counters /\ Orders /\ Kept /\ Freeing
  BY DEF Init, Counters, Orders, Kept, Freeing, NULL
<1>3. Scanning
  BY DEF Init, Scanning
<1> QED
  BY <1>1, <1>2, <1>3 DEF IInv

(* One turn of addTokPair's loop gives the item the counter of its pair,   *)
(* provided thecount is that counter, or is NULL and the pair has none.    *)
LEMMA AddItemKeeps ==
  ASSUME TypeOK, Counters, NEW e \in Item, AddItem(e),
         thecount = NULL => (Other(e) \in leaves => e \in leaves),
         thecount # NULL => Other(e) \in leaves /\ thecount = counter[Other(e)]
  PROVE  /\ Counters'
         /\ starts' \subseteq Words /\ leaves' = leaves \cup {e}
         /\ heap' \in Seq(Nat) /\ Len(heap') >= Len(heap)
         /\ counter' \in [Item -> 0..Len(heap')]
         /\ \A d \in leaves : counter'[d] = counter[d]
         /\ thecount' \in 0..Len(heap')
         /\ thecount' \in {thecount, counter'[e]}
         /\ e \notin leaves => thecount' # NULL
<1> USE DEF NULL
<1>0. /\ leaves \subseteq Item /\ counter \in [Item -> 0..Len(heap)] /\ heap \in Seq(Nat)
      /\ thecount \in 0..Len(heap) /\ starts \subseteq Words /\ e[1] \in Words
  BY DEF TypeOK, Item
<1>1. CASE e \in leaves
  <2>1. UNCHANGED <<leaves, counter, heap, thecount>> /\ starts' = starts \cup {e[1]}
    BY <1>1 DEF AddItem
  <2> QED
    BY <2>1, <1>0, <1>1 DEF Counters
<1>2. CASE e \notin leaves
  <2>1. /\ leaves' = leaves \cup {e} /\ counter' = [counter EXCEPT ![e] = Address]
        /\ heap' = IF Address = NewCount THEN Append(heap, 0) ELSE heap
        /\ thecount' = Address /\ starts' = starts \cup {e[1]}
    BY <1>2 DEF AddItem, dupexact
  <2>2. Address \in 1..Len(heap)+1 /\ (Address = Len(heap) + 1 <=> thecount = NULL)
    BY <1>0 DEF Address, NewCount
  <2>3. heap' \in Seq(Nat) /\ Len(heap') >= Len(heap) /\ Address \in 1..Len(heap')
    BY <2>1, <2>2, <1>0 DEF NewCount
  <2>4. counter'[e] = Address /\ \A d \in leaves : counter'[d] = counter[d]
    BY <2>1, <1>0, <1>2
  <2>5. counter' \in [Item -> 0..Len(heap')]
    BY <2>1, <2>3, <1>0
  <2>6. \A d \in leaves : counter[d] = Address <=> PairOf(d) = PairOf(e)
    <3>1. CASE thecount = NULL
      <4>1. Other(e) \notin leaves
        BY <3>1, <1>2
      <4>2. \A d \in leaves : PairOf(d) # PairOf(e)
        BY <4>1, <1>0, <1>2, PairCases
      <4>3. \A d \in leaves : counter[d] # Address
        BY <3>1, <2>2, <1>0 DEF Counters
      <4> QED
        BY <4>2, <4>3
    <3>2. CASE thecount # NULL
      <4>1. Address = counter[Other(e)] /\ Other(e) \in leaves
        BY <3>2 DEF Address
      <4>2. PairOf(Other(e)) = PairOf(e)
        BY OtherOther
      <4> QED
        BY <4>1, <4>2 DEF Counters
    <3> QED
      BY <3>1, <3>2
  <2>7. Counters'
    <3>1. \A d \in leaves' : counter'[d] \in 1..Len(heap') /\ d[1] \in starts'
      BY <2>1, <2>3, <2>4 DEF Counters
    <3>2. \A d, c \in leaves' : counter'[d] = counter'[c] <=> PairOf(d) = PairOf(c)
      BY <2>1, <2>4, <2>6 DEF Counters
    <3> QED
      BY <3>1, <3>2 DEF Counters, PairOf
  <2> QED
    BY <2>1, <2>2, <2>3, <2>4, <2>5, <2>7, <1>0
<1> QED
  BY <1>1, <1>2

(* The first turn: the pair is new, or has both its items. *)
LEMMA AddTokPairKeeps ==
  ASSUME IInv, NEW f \in Words, NEW s \in Words, AddTokPair(f, s)
  PROVE  (TypeOK /\ Counters /\ Orders)'
<1> DEFINE e == <<f, s>>
<1> USE DEF NULL
<1>1. /\ AddItem(e) /\ wstarts' = e /\ pc = "queries" /\ pc' = "addTokPair"
      /\ UNCHANGED <<cleared, freed, bigcount, scan, walk, rows>>
  BY DEF AddTokPair
<1>2. /\ TypeOK /\ Counters /\ Orders /\ thecount = NULL /\ e \in Item
      /\ e[1] = f /\ e[2] = s /\ leaves \subseteq Item
  BY <1>1 DEF IInv, Orders, Item, TypeOK
<1>3. Other(e) \in leaves => e \in leaves
  BY <1>1, <1>2, OtherOther DEF Orders
<1>4. /\ Counters'
      /\ starts' \subseteq Words /\ leaves' = leaves \cup {e}
      /\ heap' \in Seq(Nat) /\ Len(heap') >= Len(heap)
      /\ counter' \in [Item -> 0..Len(heap')]
      /\ thecount' \in 0..Len(heap')
      /\ thecount' \in {thecount, counter'[e]}
      /\ e \notin leaves => thecount' # NULL
  BY <1>1, <1>2, <1>3, AddItemKeeps
<1>5. TypeOK'
  <2>1. Len(heap) \in Nat /\ Len(heap') \in Nat
    <3>1. heap \in Seq(Nat)
      BY <1>2 DEF TypeOK
    <3> QED
      BY <3>1, <1>4
  <2>2. freed' \subseteq 1..Len(heap') /\ counthits' \in Seq(1..Len(heap'))
    BY <1>1, <1>2, <1>4, <2>1 DEF TypeOK, scan
  <2>3. leaves' \subseteq Item /\ cleared' \subseteq leaves' /\ todo' \subseteq leaves'
    BY <1>1, <1>2, <1>4 DEF TypeOK, walk
  <2>4. wstarts' \in Seq(Words) /\ Len(wstarts') = 2
    BY <1>1
  <2> QED
    BY <1>1, <1>2, <1>4, <2>2, <2>3, <2>4 DEF TypeOK, scan, walk
<1>6. Orders'
  <2>1. \A d \in leaves : Other(d) \in leaves
    BY <1>1, <1>2 DEF Orders
  <2> QED
    BY <1>1, <1>2, <1>4, <2>1 DEF Orders
<1> QED
  BY <1>4, <1>5, <1>6

(* The second turn: afterwards either order of every pair has an item. *)
LEMMA AddOtherOrderKeeps ==
  ASSUME IInv, AddOtherOrder
  PROVE  (TypeOK /\ Counters /\ Orders)'
<1> DEFINE e == <<wstarts[2], wstarts[1]>>
<1> USE DEF NULL
<1>1. /\ AddItem(e) /\ pc = "addTokPair" /\ pc' = "return"
      /\ UNCHANGED <<cleared, freed, bigcount, wstarts, scan, walk, rows>>
  BY DEF AddOtherOrder
<1>2. /\ TypeOK /\ Counters /\ Orders /\ leaves \subseteq Item
      /\ wstarts \in leaves /\ wstarts \in Item
      /\ thecount \in {NULL, counter[wstarts]}
      /\ thecount = NULL => Other(wstarts) \in leaves
  BY <1>1 DEF IInv, Orders, TypeOK
<1>3. e = Other(wstarts) /\ e \in Item /\ Other(e) = wstarts
  BY <1>2, OtherOther DEF Other
<1>4. /\ Counters'
      /\ starts' \subseteq Words /\ leaves' = leaves \cup {e}
      /\ heap' \in Seq(Nat) /\ Len(heap') >= Len(heap)
      /\ counter' \in [Item -> 0..Len(heap')]
      /\ thecount' \in 0..Len(heap')
  BY <1>1, <1>2, <1>3, AddItemKeeps
<1>5. TypeOK'
  <2>1. Len(heap) \in Nat /\ Len(heap') \in Nat
    <3>1. heap \in Seq(Nat)
      BY <1>2 DEF TypeOK
    <3> QED
      BY <3>1, <1>4
  <2>2. freed' \subseteq 1..Len(heap') /\ counthits' \in Seq(1..Len(heap'))
    BY SMTT(20), <1>1, <1>2, <1>4, <2>1 DEF TypeOK, scan
  <2>3. leaves' \subseteq Item /\ cleared' \subseteq leaves' /\ todo' \subseteq leaves'
    BY <1>1, <1>2, <1>3, <1>4 DEF TypeOK, walk
  <2> QED
    BY <1>1, <1>2, <1>4, <2>2, <2>3 DEF TypeOK, scan, walk
<1>6. Orders'
  BY <1>1, <1>2, <1>3, <1>4 DEF Orders
<1> QED
  BY <1>4, <1>5, <1>6

(* Nothing else gives items a counter: they may lose theirs, and counters  *)
(* may be increased, but which belongs to which pair stays.                *)
LEMMA OwnersKept ==
  ASSUME IInv, UNCHANGED <<starts, leaves, counter>>, Len(heap') = Len(heap),
         pc # "addTokPair", pc' # "addTokPair", pc' = "queries" => thecount' = NULL
  PROVE  (Counters /\ Orders)'
BY DEF IInv, Counters, Orders, PairOf, Other

(* Types, of the rest of the query phase and of incrementCooc. *)
LEMMA CountingTypes ==
  ASSUME IInv,
         \/ AddReturns \/ EndQueries \/ EndCorpus
         \/ \E l \in Line, c \in Counts : ReadLine(l, c)
         \/ incrementCooc
  PROVE  TypeOK' /\ UNCHANGED <<starts, leaves, counter, cleared, freed, rows>>
         /\ Len(heap') = Len(heap)
<1> USE DEF NULL
<1>0. TypeOK /\ Scanning /\ Counters
  BY DEF IInv
<1>1. CASE AddReturns
  BY <1>0, <1>1 DEF AddReturns, TypeOK, tree, scan, walk
<1>2. CASE EndQueries
  BY <1>0, <1>2 DEF EndQueries, TypeOK, tree, scan, walk, pair
<1>3. CASE EndCorpus
  BY <1>0, <1>3 DEF EndCorpus, StartWalk, TypeOK, tree, scan, pair
<1>4. ASSUME NEW l \in Line, NEW c \in Counts, ReadLine(l, c)
      PROVE  TypeOK' /\ UNCHANGED <<starts, leaves, counter, cleared, freed, rows>>
             /\ Len(heap') = Len(heap)
  BY <1>0, <1>4, NAssumption, CountsAssumption DEF ReadLine, TypeOK, tree, walk, pair
<1>5. CASE LookupPair
  <2>1. j' = j + 1 /\ j' \in 1..Len(hitstarts)+1
    BY <1>0, <1>5 DEF LookupPair, TypeOK
  <2>0. /\ heap \in Seq(Nat) /\ curcount \in Nat /\ counthits \in Seq(1..Len(heap))
        /\ Found \in leaves => counter[Found] \in 1..Len(heap)
    BY <1>0 DEF TypeOK, Counters
  <2>2. heap' \in Seq(Nat) /\ Len(heap') = Len(heap) /\ counthits' \in Seq(1..Len(heap'))
    <3>1. CASE Found \in leaves /\ UseCount(counter[Found])
      <4> DEFINE c == counter[Found]
      <4>1. /\ heap' = [heap EXCEPT ![c] = @ + curcount]
            /\ counthits' = Append(counthits, c) /\ c \in 1..Len(heap)
        BY <1>5, <2>0, <3>1 DEF LookupPair
      <4> HIDE DEF c
      <4>2. heap' \in Seq(Nat) /\ Len(heap') = Len(heap)
        BY <2>0, <4>1
      <4> QED
        BY <2>0, <4>1, <4>2
    <3>2. CASE ~(Found \in leaves /\ UseCount(counter[Found]))
      BY <1>5, <2>0, <3>2 DEF LookupPair
    <3> QED
      BY <3>1, <3>2
  <2> QED
    BY <1>0, <1>5, <2>1, <2>2 DEF LookupPair, TypeOK, tree, walk, pair
<1>6. CASE OverrunHits
  BY <1>0, <1>6 DEF OverrunHits, TypeOK, tree, scan, walk, pair
<1>7. CASE LookupStart
  <2>1. i \in 1..n-1 /\ i' = i + 1 /\ line \in Line
    BY <1>0, <1>7, NAssumption DEF LookupStart, Last, Scanning
  <2>2. hitstarts' \in Seq(Words) /\ Len(hitstarts') <= n - 1
    BY <1>0, <1>7, <2>1, NAssumption DEF LookupStart, TypeOK, Scanning, Line
  <2>3. j' \in 1..Len(hitstarts')+1
    BY <1>7, <2>2 DEF LookupStart
  <2> QED
    BY <1>0, <1>7, <2>1, <2>2, <2>3, NAssumption DEF LookupStart, TypeOK, tree, walk, pair
<1>8. CASE EndLine
  BY <1>0, <1>8, NAssumption DEF EndLine, TypeOK, tree, walk, pair
<1> QED
  BY <1>1, <1>2, <1>3, <1>4, <1>5, <1>6, <1>7, <1>8 DEF incrementCooc
-----------------------------------------------------------------------------
(* A walk visits an item that it has not visited yet. *)
LEMMA VisitTodo == ASSUME NEW e \in Item, Visit(e)
  PROVE e \in todo /\ todo' = todo \ {e} /\ table' = e[1]
BY DEF Visit, ToVisit

(* The output changes cleared, freed and rows, and nothing of the counts. *)
LEMMA OutputTypes ==
  ASSUME IInv, Output
  PROVE  TypeOK' /\ UNCHANGED <<starts, leaves, counter, heap, i, hitstarts, line>>
         /\ pc' \notin {"queries", "addTokPair", "incrementCooc"} /\ pc # "addTokPair"
<1> USE DEF NULL
<1>0. TypeOK /\ Counters /\ Orders
  BY DEF IInv
<1>1. ASSUME NEW e \in Item, Rationalise(e)
      PROVE  TypeOK' /\ UNCHANGED <<starts, leaves, counter, heap, i, hitstarts, line>>
             /\ pc' \notin {"queries", "addTokPair", "incrementCooc"} /\ pc # "addTokPair"
  <2>1. e \in todo /\ todo' = todo \ {e} /\ table' = e[1] /\ e \in leaves /\ e[1] \in Words
    BY <1>0, <1>1, VisitTodo DEF Rationalise, TypeOK, Item
  <2>2. Loser(e) \subseteq leaves
    BY <1>0, <1>1, <2>1 DEF Loser, Orders, Rationalise
  <2> QED
    BY <1>0, <1>1, <2>1, <2>2 DEF Rationalise, TypeOK, pair, scan
<1>2. CASE EndRationalise
  BY <1>0, <1>2 DEF EndRationalise, StartWalk, TypeOK, tree, pair, scan
<1>3. ASSUME NEW e \in Item, WriteQuery(e)
      PROVE  TypeOK' /\ UNCHANGED <<starts, leaves, counter, heap, i, hitstarts, line>>
             /\ pc' \notin {"queries", "addTokPair", "incrementCooc"} /\ pc # "addTokPair"
  <2>1. e \in todo /\ todo' = todo \ {e} /\ table' = e[1] /\ e \in leaves /\ e[1] \in Words
    BY <1>0, <1>3, VisitTodo DEF WriteQuery, TypeOK, Item
  <2>2. heap[counter[e]] \in Nat
    <3> DEFINE c == counter[e]
    <3>1. heap \in Seq(Nat) /\ c \in 1..Len(heap)
      BY <1>0, <2>1 DEF TypeOK, Counters
    <3> HIDE DEF c
    <3>2. heap[c] \in Nat
      BY <3>1
    <3> QED
      BY <3>2 DEF c
  <2>3. rows' \in Seq(Item \X Nat)
    BY <1>0, <1>3, <2>2 DEF WriteQuery, TypeOK
  <2> QED
    BY <1>0, <1>3, <2>1, <2>3 DEF WriteQuery, TypeOK, tree, pair, scan
<1>4. CASE EndWrite
  BY <1>0, <1>4 DEF EndWrite, StartWalk, TypeOK, tree, pair, scan
<1>5. ASSUME NEW e \in Item, FreeExact(e)
      PROVE  TypeOK' /\ UNCHANGED <<starts, leaves, counter, heap, i, hitstarts, line>>
             /\ pc' \notin {"queries", "addTokPair", "incrementCooc"} /\ pc # "addTokPair"
  <2>1. e \in todo /\ todo' = todo \ {e} /\ table' = e[1] /\ e \in leaves /\ e[1] \in Words
    BY <1>0, <1>5, VisitTodo DEF FreeExact, TypeOK, Item
  <2>2. freed' \subseteq 1..Len(heap) /\ pc' \in {"kill", "double free"}
    BY <1>0, <1>5, <2>1 DEF FreeExact, TypeOK, Counters
  <2> QED
    BY <1>0, <1>5, <2>1, <2>2 DEF FreeExact, TypeOK, tree, pair, scan
<1>6. CASE EndKill
  BY <1>0, <1>6 DEF EndKill, TypeOK, tree, pair, scan, walk
<1> QED
  BY <1>1, <1>2, <1>3, <1>4, <1>5, <1>6 DEF Output

(* rationaliseCounts: of the two items of a pair the first visited decides *)
(* which is cleared, and the second finds this done.                       *)
LEMMA RationaliseKeeps ==
  ASSUME IInv, NEW e \in Item, Rationalise(e)
  PROVE  Kept'
<1>1. /\ e \in todo /\ todo' = todo \ {e} /\ pc = "rationalise" /\ pc' = pc
      /\ cleared' = cleared \cup Loser(e) /\ leaves' = leaves
  BY VisitTodo DEF Rationalise
<1>2. /\ Kept /\ e \in leaves /\ leaves \subseteq Item /\ cleared \subseteq leaves
  BY <1>1 DEF IInv, TypeOK
<1>3. /\ Loser(e) \subseteq {e, Other(e)} /\ Other(Other(e)) = e
      /\ Rationalised(e) => Loser(e) = {}
      /\ ~Rationalised(e) => Loser(e) = {e} \/ Loser(e) = {Other(e)}
  BY OtherOther DEF Loser, Rationalised
<1>6. \A d \in Loser(e) : d[2] <= d[1]
  <2>1. e[1] \in Nat /\ e[2] \in Nat
    BY <1>2, WordsAssumption DEF Item
  <2> QED
    BY <2>1 DEF Loser, Other
<1>7. \A d \in cleared' : d[2] <= d[1]
  BY <1>1, <1>2, <1>6 DEF Kept
<1>4. ASSUME NEW d \in leaves, d[1] # d[2] PROVE ~(d \in cleared' /\ Other(d) \in cleared')
  <2>1. d \in Item /\ Other(d) # d /\ Other(Other(d)) = d
    BY <1>2, <1>4, OtherOther
  <2>2. ~(d \in cleared /\ Other(d) \in cleared)
    BY <1>2, <1>4 DEF Kept
  <2>3. CASE Rationalised(e)
    BY <1>1, <1>3, <2>2, <2>3
  <2>4. CASE ~Rationalised(e)
    <3>1. d \in {e, Other(e)} => d \notin cleared /\ Other(d) \notin cleared
      BY <1>3, <2>4 DEF Rationalised
    <3>2. d \notin {e, Other(e)} => d \notin Loser(e) /\ Other(d) \notin Loser(e)
      BY <1>3, <2>1
    <3>3. ~(d \in Loser(e) /\ Other(d) \in Loser(e))
      BY <1>3, <2>1, <2>4
    <3> QED
      BY <1>1, <2>2, <3>1, <3>2, <3>3
  <2> QED
    BY <2>3, <2>4
<1>5. ASSUME NEW d \in leaves \ todo' PROVE d \in cleared' \/ Other(d) \in cleared'
  <2>1. CASE d = e
    BY <1>1, <1>3, <2>1 DEF Rationalised
  <2>2. CASE d # e
    BY <1>1, <1>2, <1>5, <2>2 DEF Kept, Rationalised
  <2> QED
    BY <2>1, <2>2
<1> QED
  BY <1>1, <1>2, <1>4, <1>5, <1>7 DEF Kept, Rationalised, Other

(* An item that has a counter when it is freed is the only one that has    *)
(* it: the other order was cleared.                                        *)
LEMMA FreeExactKeeps ==
  ASSUME IInv, NEW e \in Item, FreeExact(e)
  PROVE  Freeing'
<1>1. /\ e \in todo /\ todo' = todo \ {e} /\ pc = "kill"
      /\ UNCHANGED <<leaves, counter, cleared>>
  BY VisitTodo DEF FreeExact, tree
<1>2. /\ e \in leaves /\ leaves \subseteq Item /\ Counters /\ Kept
      /\ freed = {counter[d] : d \in (leaves \ cleared) \ todo}
  BY <1>1 DEF IInv, TypeOK, Freeing
<1>3. CASE e \in cleared
  <2>1. UNCHANGED <<freed, pc>>
    BY <1>3 DEF FreeExact
  <2>2. (leaves \ cleared) \ todo' = (leaves \ cleared) \ todo
    BY <1>1, <1>3
  <2> QED
    BY <1>1, <1>2, <2>1, <2>2 DEF Freeing
<1>4. CASE e \notin cleared
  <2>1. counter[e] \notin freed
    <3> SUFFICES ASSUME NEW d \in (leaves \ cleared) \ todo, counter[d] = counter[e]
                 PROVE  FALSE
      BY <1>2
    <3>1. d = e \/ d = Other(e)
      BY <1>2, PairCases DEF Counters
    <3>2. d # e
      BY <1>1
    <3>3. e \in cleared \/ Other(e) \in cleared
      BY <1>1, <1>2 DEF Kept, Rationalised
    <3> QED
      BY <1>4, <3>1, <3>2, <3>3
  <2>2. freed' = freed \cup {counter[e]} /\ pc' = "kill"
    BY <1>1, <1>4, <2>1 DEF FreeExact
  <2>3. (leaves \ cleared) \ todo' = ((leaves \ cleared) \ todo) \cup {e}
    BY <1>1, <1>2, <1>4
  <2>4. freed' = {counter[d] : d \in (leaves \ cleared) \ todo'}
    BY <1>2, <2>2, <2>3
  <2> QED
    BY <1>1, <2>2, <2>4 DEF Freeing
<1> QED
  BY <1>3, <1>4
-----------------------------------------------------------------------------
(* incrementCooc and its caller. *)
LEMMA CountingKeeps ==
  ASSUME IInv,
         \/ AddReturns \/ EndQueries \/ EndCorpus
         \/ \E l \in Line, c \in Counts : ReadLine(l, c)
         \/ incrementCooc
  PROVE  IInv'
<1> USE DEF NULL
<1>0. TypeOK /\ Scanning /\ Kept /\ Freeing
  BY DEF IInv
<1>1. TypeOK' /\ UNCHANGED <<starts, leaves, counter, cleared, freed, rows>>
      /\ Len(heap') = Len(heap)
  BY CountingTypes
<1>2. /\ pc \in {"return", "queries", "corpus", "incrementCooc"}
      /\ pc' \in {"queries", "corpus", "incrementCooc", "crashed", "rationalise"}
      /\ pc' = "queries" => thecount' = NULL
      /\ pc' = "rationalise" => todo' = leaves
  BY DEF AddReturns, EndQueries, EndCorpus, ReadLine, incrementCooc, LookupPair,
         OverrunHits, LookupStart, EndLine, StartWalk
<1>3. (Counters /\ Orders)'
  BY <1>1, <1>2, OwnersKept
<1>4. Kept'
  BY <1>0, <1>1, <1>2 DEF Kept, Rationalised, Other
<1>5. Freeing'
  BY <1>0, <1>1, <1>2 DEF Freeing
<1>6. Scanning'
  <2>1. CASE \/ AddReturns \/ EndQueries \/ EndCorpus \/ LookupPair \/ OverrunHits
    BY <1>0, <2>1 DEF Scanning, AddReturns, EndQueries, EndCorpus, LookupPair,
                      OverrunHits, scan
  <2>2. ASSUME NEW l \in Line, NEW c \in Counts, ReadLine(l, c) PROVE Scanning'
    BY <2>2, NAssumption DEF Scanning, ReadLine
  <2>3. CASE LookupStart
    <3>1. i' = i + 1 /\ i # n /\ pc' = pc /\ line' = line
          /\ hitstarts' \in {hitstarts, Append(hitstarts, line[i])}
      BY <2>3 DEF LookupStart, Last
    <3>2. /\ i \in 1..n /\ Len(hitstarts) <= i - 1 /\ hitstarts \in Seq(Words)
          /\ line \in Line /\ line[i] \in Words
      BY <2>3, <1>0 DEF LookupStart, Scanning, TypeOK, Line
    <3>3. Len(hitstarts') <= Len(hitstarts) + 1 /\ Len(hitstarts) \in Nat
                                                /\ Len(hitstarts') \in Nat
      BY <3>1, <3>2
    <3> QED
      BY <3>1, <3>2, <3>3, NAssumption DEF Scanning
  <2>4. CASE EndLine
    BY <2>4, NAssumption DEF Scanning, EndLine
  <2> QED
    BY <2>1, <2>2, <2>3, <2>4, <1>2 DEF incrementCooc
<1> QED
  BY <1>1, <1>3, <1>4, <1>5, <1>6 DEF IInv

(* rationaliseCounts, writequeries and destroyCounters. *)
LEMMA OutputKeeps ==
  ASSUME IInv, Output
  PROVE  IInv'
<1>0. TypeOK /\ Scanning /\ Kept /\ Freeing
  BY DEF IInv
<1>1. TypeOK' /\ UNCHANGED <<starts, leaves, counter, heap, i, hitstarts, line>>
      /\ pc' \notin {"queries", "addTokPair", "incrementCooc"} /\ pc # "addTokPair"
  BY OutputTypes
<1>2. (Counters /\ Orders)'
  BY <1>1, OwnersKept
<1>3. Scanning'
  BY <1>0, <1>1 DEF Scanning
<1>4. Kept'
  <2>1. ASSUME NEW e \in Item, Rationalise(e) PROVE Kept'
    BY <2>1, RationaliseKeeps
  <2>2. CASE EndRationalise
    BY <1>0, <1>1, <2>2 DEF EndRationalise, Kept, Rationalised, Other, tree
  <2>3. ASSUME NEW e \in Item, WriteQuery(e) PROVE Kept'
    BY <1>0, <1>1, <2>3 DEF WriteQuery, Kept, Rationalised, Other, tree
  <2>4. CASE EndWrite
    BY <1>0, <1>1, <2>4 DEF EndWrite, Kept, Rationalised, Other, tree
  <2>5. ASSUME NEW e \in Item, FreeExact(e) PROVE Kept'
    <3>1. cleared' = cleared /\ pc = "kill" /\ pc' \in {"kill", "double free"}
      BY <2>5 DEF FreeExact, tree
    <3> QED
      BY <1>0, <1>1, <3>1 DEF Kept, Rationalised, Other
  <2>6. CASE EndKill
    BY <1>0, <1>1, <2>6 DEF EndKill, Kept, Rationalised, Other, tree
  <2> QED
    BY <2>1, <2>2, <2>3, <2>4, <2>5, <2>6 DEF Output
<1>5. Freeing'
  <2>1. ASSUME NEW e \in Item, Rationalise(e) PROVE Freeing'
    BY <1>0, <2>1 DEF Rationalise, Freeing
  <2>2. CASE EndRationalise
    BY <1>0, <2>2 DEF EndRationalise, Freeing
  <2>3. ASSUME NEW e \in Item, WriteQuery(e) PROVE Freeing'
    BY <1>0, <2>3 DEF WriteQuery, Freeing
  <2>4. CASE EndWrite
    <3>1. pc' = "kill" /\ freed' = {} /\ todo' = leaves' /\ leaves' = leaves
      BY <1>0, <2>4 DEF EndWrite, StartWalk, Freeing, tree
    <3> QED
      BY <3>1 DEF Freeing
  <2>5. ASSUME NEW e \in Item, FreeExact(e) PROVE Freeing'
    BY <2>5, FreeExactKeeps
  <2>6. CASE EndKill
    <3>1. /\ freed = {counter[e] : e \in (leaves \ cleared) \ todo} /\ todo = {}
          /\ pc' = "end" /\ UNCHANGED <<freed, leaves, cleared, counter>>
      BY <1>0, <2>6 DEF EndKill, Freeing, tree
    <3>2. (leaves \ cleared) \ todo = leaves \ cleared
      BY <3>1
    <3> QED
      BY <3>1, <3>2 DEF Freeing
  <2> QED
    BY <2>1, <2>2, <2>3, <2>4, <2>5, <2>6 DEF Output
<1> QED
  BY <1>1, <1>2, <1>3, <1>4, <1>5 DEF IInv

(* Every step keeps the invariant. *)
LEMMA StepInv == IInv /\ [Next]_vars => IInv'
<1> SUFFICES ASSUME IInv, [Next]_vars PROVE IInv'
  OBVIOUS
<1>1. ASSUME NEW f \in Words, NEW s \in Words, AddTokPair(f, s) PROVE IInv'
  <2>1. (TypeOK /\ Counters /\ Orders)'
    BY <1>1, AddTokPairKeeps
  <2>2. /\ Scanning /\ cleared = {} /\ freed = {} /\ pc = "queries" /\ pc' = "addTokPair"
        /\ UNCHANGED <<cleared, freed, i, line, hitstarts>>
    BY <1>1 DEF AddTokPair, IInv, Kept, Freeing, scan
  <2>3. (Scanning /\ Kept /\ Freeing)'
    BY <2>2 DEF Scanning, Kept, Freeing
  <2> QED
    BY <2>1, <2>3 DEF IInv
<1>2. CASE AddOtherOrder
  <2>1. (TypeOK /\ Counters /\ Orders)'
    BY <1>2, AddOtherOrderKeeps
  <2>2. /\ Scanning /\ cleared = {} /\ freed = {} /\ pc = "addTokPair" /\ pc' = "return"
        /\ UNCHANGED <<cleared, freed, i, line, hitstarts>>
    BY <1>2 DEF AddOtherOrder, IInv, Kept, Freeing, scan
  <2>3. (Scanning /\ Kept /\ Freeing)'
    BY <2>2 DEF Scanning, Kept, Freeing
  <2> QED
    BY <2>1, <2>3 DEF IInv
<1>3. CASE \/ AddReturns \/ EndQueries \/ EndCorpus
           \/ \E l \in Line, c \in Counts : ReadLine(l, c)
           \/ incrementCooc
  BY <1>3, CountingKeeps
<1>4. CASE Output
  BY <1>4, OutputKeeps
<1>5. CASE UNCHANGED vars
  <2> USE <1>5 DEF vars, tree, pair, scan, walk
  <2>1. TypeOK'
    BY DEF IInv, TypeOK
  <2>2. (Counters /\ Orders /\ Scanning)'
    BY DEF IInv, Counters, Orders, Scanning, PairOf, Other
  <2>3. (Kept /\ Freeing)'
    BY DEF IInv, Kept, Freeing, Rationalised, Other
  <2> QED
    BY <2>1, <2>2, <2>3 DEF IInv
<1> QED
  BY <1>1, <1>2, <1>3, <1>4, <1>5 DEF Next, addTokPair

LEMMA InvCorrect == Spec => []IInv
BY InitInv, StepInv, PTL DEF Spec
-----------------------------------------------------------------------------
(* Every variable of the co-occurrence mode keeps its type; in particular  *)
(* incrementCooc never has more tables in hitstarts than there is room     *)
(* for, whatever the queries, the lines and their length.                  *)
THEOREM TypeCorrect == Spec => []TypeOK
<1>1. IInv => TypeOK
  BY DEF IInv
<1> QED
  BY <1>1, InvCorrect, PTL

(* When addTokPair has returned, the two orders of a pair have items that  *)
(* share a counter, and no two pairs share one: the comparison of counters *)
(* by address in incrementCooc tells pairs apart.                          *)
THEOREM CounterPerPairCorrect == Spec => []CounterPerPair
<1>1. IInv => CounterPerPair
  BY DEF IInv, Counters, Orders, CounterPerPair
<1> QED
  BY <1>1, InvCorrect, PTL

(* destroyCounters frees no counter twice, in whatever order the two       *)
(* walks, of rationaliseCounts and of hshkill, meet the items.             *)
THEOREM FreedOnceCorrect == Spec => []FreedOnce
<1>1. IInv => FreedOnce
  BY DEF IInv, Freeing, FreedOnce
<1> QED
  BY <1>1, InvCorrect, PTL

(* destroyCounters frees the counter of every pair of different tokens.    *)
THEOREM AllFreedCorrect == Spec => []AllFreed
<1>1. IInv => AllFreed
  <2> SUFFICES ASSUME IInv, pc = "end", NEW e \in leaves, e[1] # e[2]
               PROVE  counter[e] \in freed
    BY DEF AllFreed
  <2>1. /\ e \in Item /\ freed = {counter[d] : d \in leaves \ cleared}
        /\ ~(e \in cleared /\ Other(e) \in cleared)
    BY DEF IInv, TypeOK, Freeing, Kept
  <2>2. CASE e \notin cleared
    BY <2>1, <2>2
  <2>3. CASE Other(e) \notin cleared
    <3>1. Other(e) \in leaves
      BY DEF IInv, Orders
    <3>2. counter[Other(e)] = counter[e]
      BY <2>1, <3>1, OtherOther DEF IInv, Counters
    <3> QED
      BY <2>1, <2>3, <3>1, <3>2
  <2> QED
    BY <2>1, <2>2, <2>3
<1> QED
  BY <1>1, InvCorrect, PTL
-----------------------------------------------------------------------------
(* The rest is the refinement: CoocCounter implements PairCounts.          *)

(* incrementCooc has in hitstarts the tables of the tokens before i that   *)
(* start a pair, and has seen to every pair it has passed.                 *)
Looking ==
  pc \in {"incrementCooc", "crashed"} =>
    /\ \A m \in 1..Len(hitstarts) : \E k \in 1..i-1 : hitstarts[m] = line[k]
    /\ \A k \in 1..i-1 :
         line[k] \in starts => \E m \in 1..Len(hitstarts) : hitstarts[m] = line[k]
    /\ \A k, l \in 1..n :
         /\ k < l /\ <<line[k], line[l]>> \in leaves
         /\ l < i \/ (l = i /\ \E m \in 1..j-1 : hitstarts[m] = line[k])
         => ~UseCount(counter[<<line[k], line[l]>>])

(* The rows are of visited items that kept their counter. *)
Writing ==
  /\ pc \notin {"write", "kill", "double free", "end"} => rows = <<>>
  /\ pc = "write" =>
       /\ \A k \in 1..Len(rows) : rows[k][1] \in (leaves \ cleared) \ todo
       /\ \A e \in (leaves \ cleared) \ todo :
            Wanted(e) => \E k \in 1..Len(rows) : rows[k][1] = e

(* The line in progress has still to be added to the counter of e. *)
Adding(e) ==
  /\ pc \in {"incrementCooc", "crashed"}
  /\ Cooccurs(PairOf(e))
  /\ UseCount(counter[e])

Sum(e) == heap[counter[e]] + IF Adding(e) THEN curcount ELSE 0

(* The mapping calls items by their pair. *)
LEMMA PairsOfItems ==
  /\ {PairOf(e) : e \in Item} = Promise!Pair
  /\ Promise!Line = Line
<1>1. {PairOf(e) : e \in Item} \subseteq Promise!Pair
  BY DEF Item, PairOf, Promise!Pair
<1>2. ASSUME NEW x \in Words, NEW y \in Words PROVE {x, y} \in {PairOf(e) : e \in Item}
  <2>1. <<x, y>> \in Item /\ PairOf(<<x, y>>) = {x, y}
    BY DEF Item, PairOf
  <2> QED
    BY <2>1
<1>3. Promise!Pair \subseteq {PairOf(e) : e \in Item}
  BY <1>2 DEF Promise!Pair
<1> QED
  BY <1>1, <1>3 DEF Promise!Line, Line

(* The promised counts, item by item: it does not matter which of the two  *)
(* items of a pair PairItem takes.                                         *)
FinalSums ==
  /\ FinalCount = [p \in Promise!Pair |-> FinalCount[p]]
  /\ Asked \subseteq Promise!Pair
  /\ \A p \in Promise!Pair \ Asked : FinalCount[p] = 0
  /\ \A e \in leaves : FinalCount[PairOf(e)] = Sum(e)

LEMMA FinalCounts == IInv => FinalSums
<1> SUFFICES ASSUME IInv PROVE FinalSums
  OBVIOUS
<1>1. leaves \subseteq Item /\ Counters
  BY DEF IInv, TypeOK
<1>2. Asked \subseteq Promise!Pair
  BY <1>1, PairsOfItems DEF Asked
<1>3. FinalCount = [p \in Promise!Pair |-> FinalCount[p]]
  BY PairsOfItems DEF FinalCount
<1>4. \A p \in Promise!Pair \ Asked : FinalCount[p] = 0
  BY PairsOfItems DEF FinalCount
<1>5. ASSUME NEW e \in leaves PROVE FinalCount[PairOf(e)] = Sum(e)
  <2> DEFINE d == PairItem(PairOf(e))
  <2>1. d \in leaves /\ PairOf(d) = PairOf(e)
    BY <1>1 DEF PairItem
  <2>2. counter[d] = counter[e]
    BY <1>1, <2>1 DEF Counters
  <2>3. PairOf(e) \in Asked /\ PairOf(e) \in Promise!Pair
    BY <1>2 DEF Asked
  <2>4. Pending(PairOf(e)) <=> Adding(e)
    BY <2>2 DEF Pending, Adding
  <2>5. FinalCount[PairOf(e)] = heap[counter[d]] + IF Pending(PairOf(e)) THEN curcount ELSE 0
    BY <2>3, PairsOfItems DEF FinalCount
  <2> QED
    BY <2>2, <2>4, <2>5 DEF Sum
<1> QED
  BY <1>2, <1>3, <1>4, <1>5 DEF FinalSums

LEMMA FinalCountsNext == IInv' => FinalSums'
BY FinalCounts, PTL

(* The counter of an item is on the heap. *)
LEMMA HeapNat == ASSUME IInv, NEW e \in leaves PROVE heap[counter[e]] \in Nat
<1> DEFINE c == counter[e]
<1>1. heap \in Seq(Nat) /\ c \in 1..Len(heap)
  BY DEF IInv, TypeOK, Counters
<1> HIDE DEF c
<1>2. heap[c] \in Nat
  BY <1>1
<1> QED
  BY <1>2 DEF c

(* A step leaves the promised counts alone if it asks nothing new and each *)
(* item still has the sum it had.                                          *)
LEMMA SameCounts ==
  ASSUME IInv, IInv', leaves \subseteq leaves', Asked' = Asked,
         \A e \in leaves : Sum(e)' = Sum(e)
  PROVE  FinalCount' = FinalCount
<1>1. ASSUME NEW p \in Promise!Pair PROVE FinalCount'[p] = FinalCount[p]
  <2>1. CASE p \notin Asked
    BY <2>1, FinalCounts, FinalCountsNext DEF FinalSums
  <2>2. CASE p \in Asked
    <3>1. PICK e \in leaves : p = PairOf(e)
      BY <2>2 DEF Asked
    <3> QED
      BY <3>1, FinalCounts, FinalCountsNext DEF FinalSums
  <2> QED
    BY <2>1, <2>2
<1> QED
  BY <1>1, FinalCounts, FinalCountsNext DEF FinalSums

(* A lookup settles its pair, whether it was to be counted or not. *)
LEMMA LookupPairLooking ==
  ASSUME IInv, Looking, LookupPair
  PROVE  Looking'
<1>1. /\ pc = "incrementCooc" /\ j' = j + 1 /\ j \in Nat
      /\ counthits \in Seq(1..Len(heap))
      /\ UNCHANGED <<starts, leaves, counter, pc, line, i, hitstarts>>
  BY DEF LookupPair, IInv, TypeOK, tree
<1>2. PICK e, c : e = Found /\ c = counter[e]
  OBVIOUS
<1>3. /\ e \in leaves => c \in 1..Len(heap)
      /\ counthits' = IF e \in leaves /\ UseCount(c) THEN Append(counthits, c) ELSE counthits
  BY <1>2 DEF LookupPair, IInv, Counters
<1>4. /\ \A d : ~UseCount(d) => ~UseCount(d)'
      /\ e \in leaves => ~UseCount(c)'
  <2>1. CASE e \in leaves /\ UseCount(c)
    <3>1. /\ Len(counthits') = Len(counthits) + 1 /\ Len(counthits) \in Nat
          /\ counthits'[Len(counthits) + 1] = c
          /\ \A m \in 1..Len(counthits) : counthits'[m] = counthits[m]
      BY <1>1, <1>3, <2>1
    <3> QED
      BY <3>1 DEF UseCount
  <2>2. CASE ~(e \in leaves /\ UseCount(c))
    BY <1>3, <2>2 DEF UseCount
  <2> QED
    BY <2>1, <2>2
<1>5. ASSUME NEW k \in 1..n, NEW l \in 1..n, k < l, <<line[k], line[l]>> \in leaves,
             l < i \/ (l = i /\ \E m \in 1..j : hitstarts[m] = line[k])
      PROVE  ~UseCount(counter[<<line[k], line[l]>>])'
  <2>1. CASE l < i \/ (l = i /\ \E m \in 1..j-1 : hitstarts[m] = line[k])
    <3>1. ~UseCount(counter[<<line[k], line[l]>>])
      BY <1>1, <1>5, <2>1 DEF Looking
    <3> QED
      BY <1>1, <1>4, <3>1
  <2>2. CASE l = i /\ hitstarts[j] = line[k]
    <3>1. <<line[k], line[l]>> = e
      BY <1>2, <2>2 DEF Found
    <3> QED
      BY <1>1, <1>2, <1>4, <1>5, <3>1
  <2> QED
    BY <1>1, <1>5, <2>1, <2>2
<1> QED
  BY <1>1, <1>5 DEF Looking

(* The next token: all pairs that the last one ends have been looked up,   *)
(* as every first token of one has its table in hitstarts.                 *)
LEMMA LookupStartLooking ==
  ASSUME IInv, Looking, LookupStart
  PROVE  Looking'
<1>1. /\ pc = "incrementCooc" /\ i' = i + 1 /\ j' = 1 /\ i \in 1..n /\ i < n
      /\ j = Len(hitstarts) + 1 /\ hitstarts \in Seq(Words)
      /\ hitstarts' = IF line[i] \in starts THEN Append(hitstarts, line[i]) ELSE hitstarts
      /\ UNCHANGED <<starts, leaves, counter, pc, line, counthits>>
  BY NAssumption DEF LookupStart, Last, IInv, TypeOK, Scanning, tree
<1>2. line[i] \in Words
  BY <1>1 DEF IInv, Scanning, Line
<1>3. /\ \A m \in 1..Len(hitstarts) :
           m \in 1..Len(hitstarts') /\ hitstarts'[m] = hitstarts[m]
      /\ \A m \in 1..Len(hitstarts') : m \in 1..Len(hitstarts) \/ hitstarts'[m] = line[i]
      /\ line[i] \in starts => \E m \in 1..Len(hitstarts') : hitstarts'[m] = line[i]
  <2>1. CASE line[i] \in starts
    <3>1. /\ Len(hitstarts') = Len(hitstarts) + 1 /\ Len(hitstarts) \in Nat
          /\ hitstarts'[Len(hitstarts) + 1] = line[i]
          /\ \A m \in 1..Len(hitstarts) : hitstarts'[m] = hitstarts[m]
      BY <1>1, <1>2, <2>1
    <3> QED
      BY <3>1
  <2>2. CASE line[i] \notin starts
    BY <1>1, <2>2
  <2> QED
    BY <2>1, <2>2
<1>4. \A m \in 1..Len(hitstarts') : \E k \in 1..i'-1 : hitstarts'[m] = line'[k]
  <2> TAKE m \in 1..Len(hitstarts')
  <2>1. CASE m \in 1..Len(hitstarts)
    <3>1. PICK k \in 1..i-1 : hitstarts[m] = line[k]
      BY <1>1, <2>1 DEF Looking
    <3> QED
      BY <1>1, <1>3, <2>1, <3>1
  <2>2. CASE hitstarts'[m] = line[i]
    BY <1>1, <2>2
  <2> QED
    BY <1>3, <2>1, <2>2
<1>5. ASSUME NEW k \in 1..i'-1, line'[k] \in starts'
      PROVE  \E m \in 1..Len(hitstarts') : hitstarts'[m] = line'[k]
  <2>1. CASE k = i
    BY <1>1, <1>3, <1>5, <2>1
  <2>2. CASE k # i
    <3>1. PICK m \in 1..Len(hitstarts) : hitstarts[m] = line[k]
      BY <1>1, <1>5, <2>2 DEF Looking
    <3> QED
      BY <1>1, <1>3, <3>1
  <2> QED
    BY <2>1, <2>2
<1>6. ASSUME NEW k \in 1..n, NEW l \in 1..n, k < l, <<line[k], line[l]>> \in leaves, l <= i
      PROVE  ~UseCount(counter[<<line[k], line[l]>>])
  <2>1. CASE l < i
    BY <1>1, <1>6, <2>1 DEF Looking
  <2>2. CASE l = i
    <3>1. line[k] \in starts
      <4>1. \A e \in leaves : e[1] \in starts
        BY DEF IInv, Counters
      <4> QED
        BY <1>6, <4>1
    <3>2. PICK m \in 1..Len(hitstarts) : hitstarts[m] = line[k]
      BY <1>1, <1>6, <2>2, <3>1 DEF Looking
    <3> QED
      BY <1>1, <1>6, <2>2, <3>2 DEF Looking
  <2> QED
    BY <1>1, <1>6, <2>1, <2>2
<1>7. ASSUME NEW k \in 1..n, NEW l \in 1..n, k < l, <<line[k], line[l]>> \in leaves,
             l < i' \/ (l = i' /\ \E m \in 1..j'-1 : hitstarts'[m] = line[k])
      PROVE  ~UseCount(counter[<<line[k], line[l]>>])'
  <2>1. l <= i
    BY <1>1, <1>7
  <2>2. ~UseCount(counter[<<line[k], line[l]>>])
    BY <1>6, <1>7, <2>1
  <2> QED
    BY <1>1, <2>2 DEF UseCount
<1> QED
  BY <1>1, <1>4, <1>5, <1>7 DEF Looking

LEMMA LookingKeeps == IInv /\ Looking /\ [Next]_vars => Looking'
<1> SUFFICES ASSUME IInv, Looking, [Next]_vars PROVE Looking'
  OBVIOUS
<1>1. ASSUME NEW l \in Line, NEW c \in Counts, ReadLine(l, c) PROVE Looking'
  BY <1>1, NAssumption DEF Looking, ReadLine
<1>2. CASE LookupPair
  BY <1>2, LookupPairLooking
<1>3. CASE LookupStart
  BY <1>3, LookupStartLooking
<1>4. CASE OverrunHits \/ UNCHANGED vars
  <2>1. /\ UNCHANGED <<starts, leaves, counter, line, i, j, hitstarts, counthits>>
        /\ pc' \in {"incrementCooc", "crashed"} => pc \in {"incrementCooc", "crashed"}
    BY <1>4 DEF OverrunHits, vars, tree, scan
  <2> QED
    BY <2>1 DEF Looking, UseCount
<1>5. CASE EndLine \/ AddReturns \/ AddOtherOrder \/ EndQueries \/ EndCorpus
  BY <1>5 DEF EndLine, AddReturns, AddOtherOrder, EndQueries, EndCorpus, Looking
<1>6. ASSUME NEW f \in Words, NEW s \in Words, AddTokPair(f, s) PROVE Looking'
  BY <1>6 DEF AddTokPair, Looking
<1>7. CASE Output
  <2>1. pc' \notin {"incrementCooc", "crashed"}
    BY <1>7 DEF Output, Rationalise, EndRationalise, WriteQuery, EndWrite, FreeExact, EndKill
  <2> QED
    BY <2>1 DEF Looking
<1> QED
  BY <1>1, <1>2, <1>3, <1>4, <1>5, <1>6, <1>7 DEF Next, addTokPair, incrementCooc

(* What WriteQuery does to the rows. *)
LEMMA WriteQueryRows ==
  ASSUME IInv, NEW e \in Item, WriteQuery(e)
  PROVE  /\ e \in leaves /\ e \in todo /\ todo' = todo \ {e} /\ pc = "write" /\ pc' = "write"
         /\ rows \in Seq(Item \X Nat) /\ heap[counter[e]] \in Nat
         /\ \A k \in 1..Len(rows) : k \in 1..Len(rows') /\ rows'[k] = rows[k]
         /\ Wanted(e) =>
              /\ rows' = Append(rows, <<e, heap[counter[e]]>>)
              /\ Len(rows') = Len(rows) + 1
              /\ rows'[Len(rows) + 1] = <<e, heap[counter[e]]>>
         /\ ~Wanted(e) => rows' = rows
         /\ UNCHANGED <<tree, heap, scan>>
<1> DEFINE c == counter[e]
           r == <<e, heap[c]>>
<1>1. /\ e \in todo /\ todo' = todo \ {e} /\ pc = "write" /\ pc' = "write"
      /\ Wanted(e) => rows' = Append(rows, r)
      /\ ~Wanted(e) => rows' = rows
      /\ UNCHANGED <<tree, heap, scan>>
  BY VisitTodo DEF WriteQuery
<1>2. /\ e \in leaves /\ rows \in Seq(Item \X Nat)
      /\ heap \in Seq(Nat) /\ c \in 1..Len(heap)
  BY <1>1 DEF IInv, TypeOK, Counters
<1> HIDE DEF c
<1>3. heap[c] \in Nat /\ r \in Item \X Nat
  BY <1>2
<1> HIDE DEF r
<1>4. Wanted(e) => /\ Len(rows') = Len(rows) + 1
                   /\ rows'[Len(rows) + 1] = r
                   /\ \A k \in 1..Len(rows) : k \in 1..Len(rows') /\ rows'[k] = rows[k]
  BY <1>1, <1>2, <1>3
<1> QED
  BY <1>1, <1>2, <1>3, <1>4 DEF r, c

LEMMA WritingKeeps == IInv /\ Writing /\ [Next]_vars => Writing'
<1> SUFFICES ASSUME IInv, Writing, [Next]_vars PROVE Writing'
  OBVIOUS
<1>1. ASSUME NEW e \in Item, WriteQuery(e) PROVE Writing'
  <2>1. /\ e \in leaves /\ e \in todo /\ todo' = todo \ {e} /\ pc = "write" /\ pc' = "write"
        /\ rows \in Seq(Item \X Nat)
        /\ UNCHANGED <<leaves, cleared, counter, heap>>
        /\ \A k \in 1..Len(rows) : k \in 1..Len(rows') /\ rows'[k] = rows[k]
        /\ ~Wanted(e) => rows' = rows
        /\ Wanted(e) => Len(rows') = Len(rows) + 1 /\ rows'[Len(rows) + 1][1] = e
    BY <1>1, WriteQueryRows DEF tree
  <2>2. ASSUME NEW k \in 1..Len(rows') PROVE rows'[k][1] \in (leaves \ cleared) \ todo'
    <3>1. CASE k \in 1..Len(rows)
      <4>1. rows[k][1] \in (leaves \ cleared) \ todo
        BY <2>1, <3>1 DEF Writing
      <4> QED
        BY <2>1, <3>1, <4>1
    <3>2. CASE Wanted(e) /\ k = Len(rows) + 1
      BY <2>1, <3>2 DEF Wanted
    <3> QED
      BY <2>1, <2>2, <3>1, <3>2
  <2>3. ASSUME NEW d \in (leaves \ cleared) \ todo', Wanted(d)
        PROVE  \E k \in 1..Len(rows') : rows'[k][1] = d
    <3>1. CASE d = e
      BY <2>1, <2>3, <3>1
    <3>2. CASE d # e
      <4>1. PICK k \in 1..Len(rows) : rows[k][1] = d
        BY <2>1, <2>3, <3>2 DEF Writing
      <4> QED
        BY <2>1, <4>1
    <3> QED
      BY <3>1, <3>2
  <2>4. \A d \in leaves : Wanted(d)' = Wanted(d)
    BY <2>1 DEF Wanted
  <2> QED
    BY <2>1, <2>2, <2>3, <2>4 DEF Writing
<1>2. CASE EndRationalise
  BY <1>2 DEF EndRationalise, StartWalk, Writing, tree
<1>3. CASE EndWrite \/ EndKill \/ \E e \in Item : FreeExact(e)
  <2>1. pc \in {"write", "kill"} /\ pc' \in {"kill", "double free", "end"}
    BY <1>3 DEF EndWrite, EndKill, FreeExact
  <2> QED
    BY <2>1 DEF Writing
<1>4. CASE \/ addTokPair \/ EndQueries \/ EndCorpus \/ incrementCooc
           \/ \E e \in Item : Rationalise(e)
           \/ \E f, s \in Words : AddTokPair(f, s)
           \/ \E l \in Line, c \in Counts : ReadLine(l, c)
  <2>1. /\ pc \notin {"write", "kill", "double free", "end"} /\ rows' = rows
        /\ pc' \notin {"write", "kill", "double free", "end"}
    BY <1>4 DEF addTokPair, EndQueries, EndCorpus, incrementCooc, Rationalise, AddTokPair,
                ReadLine, AddOtherOrder, AddReturns, LookupPair, OverrunHits, LookupStart, EndLine
  <2> QED
    BY <2>1 DEF Writing
<1>5. CASE UNCHANGED vars
  BY <1>5 DEF Writing, Wanted, vars, tree, walk
<1> QED
  BY <1>1, <1>2, <1>3, <1>4, <1>5 DEF Next, Output
-----------------------------------------------------------------------------
(* makeCounters starts with no pair asked for. *)
LEMMA InitMaps == Init => Promise!Init
<1> SUFFICES ASSUME Init PROVE Promise!Init
  OBVIOUS
<1>1. IInv /\ leaves = {} /\ rows = <<>> /\ pc = "queries"
  BY InitInv DEF Init
<1>2. Asked = {}
  BY <1>1 DEF Asked
<1>3. FinalCount = [p \in Promise!Pair |-> 0]
  BY <1>1, <1>2, FinalCounts DEF FinalSums
<1> QED
  BY <1>1, <1>2, <1>3 DEF Promise!Init, Phase

(* A step that changes none of what the mapping looks at. *)
LEMMA SilentStutters ==
  ASSUME Asked' = Asked, FinalCount' = FinalCount, rows' = rows, Phase' = Phase
  PROVE  UNCHANGED Promise!vars
BY DEF Promise!vars

(* The counters an item already had keep their values in addTokPair, and a *)
(* new one starts from 0.                                                  *)
LEMMA AddItemHeap ==
  ASSUME TypeOK, Counters, NEW e \in Item, AddItem(e)
  PROVE  /\ \A d \in leaves : counter'[d] = counter[d] /\ heap'[counter'[d]] = heap[counter[d]]
         /\ e \notin leaves /\ thecount = NULL => heap'[counter'[e]] = 0
<1>1. /\ counter \in [Item -> 0..Len(heap)] /\ heap \in Seq(Nat) /\ thecount \in 0..Len(heap)
      /\ leaves \subseteq Item
  BY DEF TypeOK
<1>2. CASE e \in leaves
  BY <1>2 DEF AddItem
<1>3. CASE e \notin leaves
  <2>1. /\ counter' = [counter EXCEPT ![e] = Address]
        /\ heap' = IF Address = NewCount THEN Append(heap, 0) ELSE heap
    BY <1>3 DEF AddItem, dupexact
  <2>2. \A c \in 1..Len(heap) : heap'[c] = heap[c]
    BY <1>1, <2>1
  <2>3. \A d \in leaves : counter'[d] = counter[d] /\ counter[d] \in 1..Len(heap)
    BY <1>1, <1>3, <2>1 DEF Counters
  <2>4. thecount = NULL => heap'[counter'[e]] = 0
    BY <1>1, <2>1 DEF Address, NewCount
  <2> QED
    BY <2>2, <2>3, <2>4
<1> QED
  BY <1>2, <1>3

(* The first turn of addTokPair's loop asks for the pair. *)
LEMMA AddTokPairAsks ==
  ASSUME IInv, IInv', NEW f \in Words, NEW s \in Words, AddTokPair(f, s)
  PROVE  \E p \in Promise!Pair : Promise!Ask(p)
<1> DEFINE e == <<f, s>>
<1>1. /\ AddItem(e) /\ e \in Item /\ pc = "queries" /\ pc' = "addTokPair" /\ rows' = rows
      /\ TypeOK /\ Counters /\ thecount = NULL
  BY DEF AddTokPair, IInv, Orders, Item
<1>2. leaves' = leaves \cup {e}
  BY <1>1 DEF AddItem, dupexact
<1>3. Asked' = Asked \cup {PairOf(e)}
  BY <1>2 DEF Asked
<1>4. PairOf(e) \in Promise!Pair
  BY <1>1, PairsOfItems
<1>5. /\ \A d \in leaves : counter'[d] = counter[d] /\ heap'[counter'[d]] = heap[counter[d]]
      /\ e \notin leaves => heap'[counter'[e]] = 0
  BY <1>1, AddItemHeap
<1>6. /\ \A d \in leaves : Sum(d)' = Sum(d)
      /\ e \notin leaves => Sum(e)' = 0
  BY <1>1, <1>5 DEF Sum, Adding
<1>7. ASSUME NEW p \in Promise!Pair PROVE FinalCount'[p] = FinalCount[p]
  <2>1. CASE p \notin Asked'
    BY <1>3, <2>1, FinalCounts, FinalCountsNext DEF FinalSums
  <2>2. CASE p \in Asked
    <3>1. PICK d \in leaves : p = PairOf(d)
      BY <2>2 DEF Asked
    <3> QED
      BY <1>2, <1>6, <3>1, FinalCounts, FinalCountsNext DEF FinalSums
  <2>3. CASE p = PairOf(e) /\ p \notin Asked
    <3>1. e \notin leaves
      BY <2>3 DEF Asked
    <3> QED
      BY <1>2, <1>6, <2>3, <3>1, FinalCounts, FinalCountsNext DEF FinalSums
  <2> QED
    BY <1>3, <2>1, <2>2, <2>3
<1>8. FinalCount' = FinalCount
  BY <1>7, FinalCounts, FinalCountsNext DEF FinalSums
<1> QED
  BY <1>1, <1>3, <1>4, <1>8 DEF Promise!Ask, Phase

(* The second turn gives the pair its other order, and asks nothing. *)
LEMMA AddOtherOrderSilent ==
  ASSUME IInv, IInv', AddOtherOrder
  PROVE  UNCHANGED Promise!vars
<1> DEFINE e == <<wstarts[2], wstarts[1]>>
<1>1. /\ AddItem(e) /\ pc = "addTokPair" /\ pc' = "return" /\ rows' = rows
      /\ TypeOK /\ Counters /\ wstarts \in leaves /\ wstarts \in Item
  BY DEF AddOtherOrder, IInv, Orders, TypeOK
<1>2. e = Other(wstarts) /\ e \in Item /\ PairOf(e) = PairOf(wstarts)
  BY <1>1, OtherOther DEF Other
<1>3. leaves' = leaves \/ leaves' = leaves \cup {e}
  BY <1>1 DEF AddItem, dupexact
<1>4. Asked' = Asked
  BY <1>1, <1>2, <1>3 DEF Asked
<1>5. \A d \in leaves : Sum(d)' = Sum(d)
  BY <1>1, <1>2, AddItemHeap DEF Sum, Adding
<1> QED
  BY <1>1, <1>3, <1>4, <1>5, SameCounts, SilentStutters DEF Phase

(* Reading a line is the promise's Scan: all it will add is pending from   *)
(* here on.                                                                *)
LEMMA ReadLineScans ==
  ASSUME IInv, IInv', NEW l \in Line, NEW c \in Counts, ReadLine(l, c)
  PROVE  Promise!Scan(l, c)
<1>1. /\ pc = "corpus" /\ pc' = "incrementCooc" /\ rows' = rows
      /\ line' = l /\ curcount' = c /\ counthits' = <<>> /\ Len(<<>>) = 0
      /\ UNCHANGED <<leaves, counter, heap>>
  BY DEF ReadLine, tree
<1>2. Asked' = Asked
  BY <1>1 DEF Asked
<1>3. /\ \A d \in leaves : heap[counter[d]] \in Nat
      /\ c \in Nat
  BY HeapNat, CountsAssumption
<1>4. ASSUME NEW d \in leaves
      PROVE  Sum(d)' = IF Promise!Cooccur(PairOf(d), l) THEN Sum(d) + c ELSE Sum(d)
  <2>1. Adding(d)' <=> Promise!Cooccur(PairOf(d), l)
    <3>1. Cooccurs(PairOf(d))' <=> Promise!Cooccur(PairOf(d), l)
      BY <1>1 DEF Cooccurs, Promise!Cooccur, PairOf
    <3>2. UseCount(counter[d])'
      BY <1>1 DEF UseCount
    <3> QED
      BY <1>1, <3>1, <3>2 DEF Adding
  <2>2. ~Adding(d)
    BY <1>1 DEF Adding
  <2> QED
    BY <1>1, <1>3, <2>1, <2>2 DEF Sum
<1>5. ASSUME NEW p \in Promise!Pair
      PROVE  FinalCount'[p] = IF p \in Asked /\ Promise!Cooccur(p, l)
                              THEN FinalCount[p] + c ELSE FinalCount[p]
  <2>1. CASE p \notin Asked
    BY <1>2, <2>1, FinalCounts, FinalCountsNext DEF FinalSums
  <2>2. CASE p \in Asked
    <3>1. PICK d \in leaves : p = PairOf(d)
      BY <2>2 DEF Asked
    <3>2. FinalCount[p] = Sum(d) /\ FinalCount'[p] = Sum(d)'
      BY <1>1, <3>1, FinalCounts, FinalCountsNext DEF FinalSums
    <3> QED
      BY <1>4, <2>2, <3>1, <3>2
  <2> QED
    BY <2>1, <2>2
<1>6. FinalCount' = [p \in Promise!Pair |-> IF p \in Asked /\ Promise!Cooccur(p, l)
                                           THEN FinalCount[p] + c ELSE FinalCount[p]]
  BY <1>5, FinalCountsNext DEF FinalSums
<1> QED
  BY <1>1, <1>2, <1>6 DEF Promise!Scan, Phase

(* A lookup moves the count of the line from what is pending to the        *)
(* counter, or finds that it was moved before.                             *)
LEMMA LookupPairSilent ==
  ASSUME IInv, IInv', Looking, LookupPair
  PROVE  UNCHANGED Promise!vars
<1>1. /\ pc = "incrementCooc" /\ pc' = pc /\ rows' = rows
      /\ i \in 1..n /\ j \in 1..Len(hitstarts)
      /\ heap \in Seq(Nat) /\ curcount \in Nat /\ counthits \in Seq(1..Len(heap))
      /\ UNCHANGED <<leaves, counter, line, curcount>>
  BY DEF LookupPair, IInv, TypeOK, Scanning, tree
<1>2. Asked' = Asked
  BY <1>1 DEF Asked
<1>3. \A d \in leaves : counter[d] \in 1..Len(heap)
  BY DEF IInv, Counters
<1>4. \A d : Cooccurs(PairOf(d))' <=> Cooccurs(PairOf(d))
  BY <1>1 DEF Cooccurs, PairOf
<1>5. CASE ~(Found \in leaves /\ UseCount(counter[Found]))
  <2>1. UNCHANGED <<heap, counthits>>
    BY <1>5 DEF LookupPair
  <2>2. \A d \in leaves : Sum(d)' = Sum(d)
    BY <1>1, <1>4, <2>1 DEF Sum, Adding, UseCount
  <2> QED
    BY <1>1, <1>2, <2>2, SameCounts, SilentStutters DEF Phase
<1>6. CASE Found \in leaves /\ UseCount(counter[Found])
  <2>1. PICK e, c : e = Found /\ c = counter[e]
    OBVIOUS
  <2>2. /\ e \in leaves /\ UseCount(c) /\ c \in 1..Len(heap)
        /\ heap' = [heap EXCEPT ![c] = @ + curcount]
        /\ counthits' = Append(counthits, c)
    BY <1>3, <1>6, <2>1 DEF LookupPair
  <2>3. /\ heap'[c] = heap[c] + curcount /\ heap[c] \in Nat
        /\ \A d \in 1..Len(heap) : d # c => heap'[d] = heap[d]
    BY <1>1, <2>2
  <2>4. ~UseCount(c)' /\ \A d : d # c => (UseCount(d)' <=> UseCount(d))
    <3>1. /\ Len(counthits') = Len(counthits) + 1 /\ Len(counthits) \in Nat
          /\ counthits'[Len(counthits) + 1] = c
          /\ \A m \in 1..Len(counthits) : counthits'[m] = counthits[m]
      BY <1>1, <2>2
    <3> QED
      BY <3>1 DEF UseCount
  <2>5. Cooccurs(PairOf(e))
    <3>1. PICK k \in 1..i-1 : hitstarts[j] = line[k]
      BY <1>1 DEF Looking
    <3>2. e = <<line[k], line[i]>>
      BY <2>1, <3>1 DEF Found
    <3>3. PairOf(e) = {line[k], line[i]}
      BY <3>2 DEF PairOf
    <3>4. k \in 1..n /\ k < i
      BY <1>1, NAssumption
    <3> QED
      BY <1>1, <3>3, <3>4 DEF Cooccurs
  <2>6. ASSUME NEW d \in leaves PROVE Sum(d)' = Sum(d)
    <3>1. CASE counter[d] = c
      <4>1. PairOf(d) = PairOf(e)
        BY <2>1, <2>2, <3>1 DEF IInv, Counters
      <4>2. Adding(d)
        BY <1>1, <2>2, <2>5, <3>1, <4>1 DEF Adding
      <4>3. ~Adding(d)'
        BY <1>1, <2>4, <3>1 DEF Adding
      <4> QED
        BY <1>1, <2>3, <3>1, <4>2, <4>3 DEF Sum
    <3>2. CASE counter[d] # c
      <4>1. Adding(d)' <=> Adding(d)
        BY <1>1, <1>4, <2>4, <3>2 DEF Adding
      <4> QED
        BY <1>1, <1>3, <2>3, <3>2, <4>1 DEF Sum
    <3> QED
      BY <3>1, <3>2
  <2> QED
    BY <1>1, <1>2, <2>6, SameCounts, SilentStutters DEF Phase
<1> QED
  BY <1>5, <1>6

(* When incrementCooc returns nothing is pending: a pair of the line was   *)
(* looked up in at least one of its orders.                                *)
LEMMA EndLineSilent ==
  ASSUME IInv, IInv', Looking, EndLine
  PROVE  UNCHANGED Promise!vars
<1>1. /\ pc = "incrementCooc" /\ pc' = "corpus" /\ rows' = rows /\ i = n
      /\ j = Len(hitstarts) + 1 /\ hitstarts \in Seq(Words) /\ line \in Line
      /\ UNCHANGED <<leaves, counter, heap>>
  <2>1. /\ pc = "incrementCooc" /\ pc' = "corpus" /\ rows' = rows
        /\ i > n \/ (i = n /\ j > Len(hitstarts))
        /\ UNCHANGED <<leaves, counter, heap>>
    BY DEF EndLine, Last, tree
  <2>2. /\ i \in 1..n /\ hitstarts \in Seq(Words) /\ line \in Line
        /\ j \in 1..Len(hitstarts)+1
    BY <2>1 DEF IInv, TypeOK, Scanning
  <2> QED
    BY <2>1, <2>2, NAssumption
<1>2. Asked' = Asked
  BY <1>1 DEF Asked
<1>3. ASSUME NEW d \in leaves PROVE ~Adding(d)
  <2> SUFFICES ASSUME Cooccurs(PairOf(d)) PROVE ~UseCount(counter[d])
    BY DEF Adding
  <2>1. PICK k, l \in 1..n : k < l /\ {line[k], line[l]} = PairOf(d)
    BY DEF Cooccurs
  <2> DEFINE e == <<line[k], line[l]>>
  <2>2. e \in Item /\ PairOf(e) = PairOf(d) /\ e[1] = line[k]
    BY <1>1, <2>1 DEF Line, Item, PairOf
  <2>3. d \in Item /\ Other(d) \in leaves
    BY <1>1 DEF IInv, TypeOK, Orders
  <2>4. e \in leaves
    BY <2>2, <2>3, PairCases
  <2>5. counter[e] = counter[d] /\ line[k] \in starts
    BY <2>2, <2>4 DEF IInv, Counters
  <2>6. ~UseCount(counter[e])
    <3>1. CASE l < n
      BY <1>1, <2>1, <2>4, <3>1 DEF Looking
    <3>2. CASE l = n
      <4>1. PICK m \in 1..Len(hitstarts) : hitstarts[m] = line[k]
        BY <1>1, <2>1, <2>5, <3>2 DEF Looking
      <4> QED
        BY <1>1, <2>1, <2>4, <3>2, <4>1 DEF Looking
    <3> QED
      BY <2>1, <3>1, <3>2, NAssumption
  <2> QED
    BY <2>5, <2>6
<1>4. \A d \in leaves : Sum(d)' = Sum(d)
  BY <1>1, <1>3 DEF Sum, Adding
<1> QED
  BY <1>1, <1>2, <1>4, SameCounts, SilentStutters DEF Phase

(* The steps of the counting phase that neither count nor ask. *)
LEMMA CountingSilent ==
  ASSUME IInv, IInv', AddReturns \/ OverrunHits \/ LookupStart
  PROVE  UNCHANGED Promise!vars
<1>1. /\ UNCHANGED <<leaves, counter, heap, line, curcount, counthits, rows>>
      /\ pc' \in {"incrementCooc", "crashed"} <=> pc \in {"incrementCooc", "crashed"}
      /\ Phase' = Phase
  BY DEF AddReturns, OverrunHits, LookupStart, tree, scan, Phase
<1>2. Asked' = Asked
  BY <1>1 DEF Asked
<1>3. \A d \in leaves : Sum(d)' = Sum(d)
  BY <1>1 DEF Sum, Adding, Cooccurs, UseCount
<1> QED
  BY <1>1, <1>2, <1>3, SameCounts, SilentStutters

(* Outside of a line the promised counts are those on the heap. *)
LEMMA IdleCounts ==
  ASSUME IInv, IInv', UNCHANGED <<leaves, counter, heap>>,
         pc \notin {"incrementCooc", "crashed"}, pc' \notin {"incrementCooc", "crashed"}
  PROVE  Asked' = Asked /\ FinalCount' = FinalCount
<1>1. Asked' = Asked
  BY DEF Asked
<1>2. \A d \in leaves : Sum(d)' = Sum(d)
  BY DEF Sum, Adding
<1> QED
  BY <1>1, <1>2, SameCounts

(* writequery writes a pair at most once: of its two items one is cleared, *)
(* the one whose tokens are not in order, and the other is visited once.   *)
(* A pair of equal tokens has one item only, which is cleared.             *)
LEMMA WriteQueryWrites ==
  ASSUME IInv, IInv', Writing, NEW e \in Item, WriteQuery(e), Wanted(e)
  PROVE  \E x, y \in Words : Promise!Write(x, y)
<1> DEFINE x == e[1]
           y == e[2]
           p == {x, y}
<1>1. /\ e \in leaves /\ e \in todo /\ pc = "write" /\ pc' = "write"
      /\ rows' = Append(rows, <<e, heap[counter[e]]>>)
      /\ UNCHANGED <<leaves, counter, heap>>
      /\ e \notin cleared /\ (printZeroCounts \/ heap[counter[e]] # 0)
  BY WriteQueryRows DEF tree, Wanted
<1>2. x \in Words /\ y \in Words /\ e = <<x, y>> /\ p = PairOf(e)
  BY DEF Item, PairOf
<1>3. Asked' = Asked /\ FinalCount' = FinalCount /\ p \in Asked
  <2>1. Asked' = Asked /\ FinalCount' = FinalCount
    BY <1>1, IdleCounts
  <2> QED
    BY <1>1, <1>2, <2>1 DEF Asked
<1>4. FinalCount[p] = heap[counter[e]]
  <2>1. FinalCount[p] = Sum(e)
    BY <1>1, <1>2, FinalCounts DEF FinalSums
  <2> QED
    BY <1>1, <2>1, HeapNat DEF Sum, Adding
<1>5. x < y
  <2>1. Other(e) \in cleared
    BY <1>1 DEF IInv, Kept, Rationalised
  <2>2. Other(e)[2] <= Other(e)[1] /\ Other(e)[1] = y /\ Other(e)[2] = x
    BY <2>1 DEF IInv, Kept, Other
  <2>3. x # y
    BY <1>1, <1>2, <2>1, OtherOther
  <2>4. x \in Nat /\ y \in Nat
    BY <1>2, WordsAssumption
  <2> QED
    BY <2>2, <2>3, <2>4
<1>6. Promise!Due(x, y)
  BY <1>1, <1>3, <1>4, <1>5 DEF Promise!Due
<1>7. ~Promise!Written(x, y)
  <2>1. \A k \in 1..Len(rows) : rows[k][1] \notin todo
    BY <1>1 DEF Writing
  <2> QED
    BY SMTT(20), <1>1, <1>2, <2>1 DEF Promise!Written
<1>8. rows' = Append(rows, <<<<x, y>>, FinalCount[p]>>)
  BY <1>1, <1>2, <1>4
<1>9. Phase = "output" /\ Phase' = "output"
  BY <1>1 DEF Phase
<1>10. Promise!Write(x, y)
  BY <1>3, <1>6, <1>7, <1>8, <1>9 DEF Promise!Write
<1> QED
  BY <1>2, <1>10

(* At the end of the walk every pair that is due was written. *)
LEMMA EndWriteEnds ==
  ASSUME IInv, IInv', Writing, EndWrite
  PROVE  Promise!EndOutput
<1>1. /\ pc = "write" /\ pc' = "kill" /\ todo = {} /\ rows' = rows
      /\ UNCHANGED <<leaves, counter, heap>>
  BY DEF EndWrite, tree
<1>2. Asked' = Asked /\ FinalCount' = FinalCount
  BY <1>1, IdleCounts
<1>3. ASSUME NEW x \in Words, NEW y \in Words, Promise!Due(x, y) PROVE Promise!Written(x, y)
  <2>1. {x, y} \in Asked /\ x < y /\ (printZeroCounts \/ FinalCount[{x, y}] # 0)
    BY <1>3 DEF Promise!Due
  <2>2. PICK e \in leaves : {x, y} = PairOf(e)
    BY <2>1 DEF Asked
  <2> DEFINE d == <<x, y>>
  <2>3. d \in leaves /\ PairOf(d) = {x, y}
    <3>1. e \in Item /\ Other(e) \in leaves /\ e = <<e[1], e[2]>>
      BY SMTT(30), <1>1, <2>2 DEF IInv, TypeOK, Orders, Item
    <3>2. d = e \/ d = Other(e)
      BY <2>2, <3>1 DEF PairOf, Other
    <3> QED
      BY <3>1, <3>2 DEF PairOf
  <2>4. d \notin cleared
    <3> SUFFICES ASSUME d \in cleared PROVE FALSE
      OBVIOUS
    <3>1. d[2] <= d[1]
      BY DEF IInv, Kept
    <3>2. x \in Nat /\ y \in Nat /\ y <= x
      BY <3>1, WordsAssumption
    <3> QED
      BY <2>1, <3>2
  <2> HIDE DEF d
  <2>5. d \in (leaves \ cleared) \ todo
    BY <1>1, <2>3, <2>4
  <2>6. FinalCount[{x, y}] = heap[counter[d]]
    <3>1. FinalCount[{x, y}] = Sum(d)
      BY <2>3, FinalCounts DEF FinalSums
    <3> QED
      BY <1>1, <2>5, <3>1, HeapNat DEF Sum, Adding
  <2>7. Wanted(d)
    BY <2>1, <2>4, <2>6 DEF Wanted
  <2>8. PICK k \in 1..Len(rows) : rows[k][1] = d
    BY <1>1, <2>5, <2>7 DEF Writing
  <2> QED
    BY <2>8 DEF Promise!Written, d
<1>4. Phase = "output" /\ Phase' = "end"
  BY <1>1 DEF Phase
<1> QED
  BY <1>1, <1>2, <1>3, <1>4 DEF Promise!EndOutput, Promise!Advance

(* Every step is a step of the promise, or none. *)
LEMMA StepRefines ==
  IInv /\ IInv' /\ Looking /\ Writing /\ [Next]_vars => [Promise!Next]_(Promise!vars)
<1> SUFFICES ASSUME IInv, IInv', Looking, Writing, [Next]_vars
             PROVE  Promise!Next \/ UNCHANGED Promise!vars
  OBVIOUS
<1>1. ASSUME NEW f \in Words, NEW s \in Words, AddTokPair(f, s) PROVE Promise!Next
  BY <1>1, AddTokPairAsks DEF Promise!Next
<1>2. CASE AddOtherOrder
  BY <1>2, AddOtherOrderSilent
<1>3. CASE AddReturns \/ OverrunHits \/ LookupStart
  BY <1>3, CountingSilent
<1>4. CASE EndQueries
  <2>1. /\ pc = "queries" /\ pc' = "corpus" /\ UNCHANGED <<leaves, counter, heap, rows>>
    BY <1>4 DEF EndQueries, tree
  <2> QED
    BY <2>1, IdleCounts DEF Promise!Next, Promise!Advance, Phase
<1>5. ASSUME NEW l \in Line, NEW c \in Counts, ReadLine(l, c) PROVE Promise!Next
  BY <1>5, ReadLineScans, PairsOfItems DEF Promise!Next
<1>6. CASE LookupPair
  BY <1>6, LookupPairSilent
<1>7. CASE EndLine
  BY <1>7, EndLineSilent
<1>8. CASE EndCorpus
  <2>1. /\ pc = "corpus" /\ pc' = "rationalise" /\ UNCHANGED <<leaves, counter, heap, rows>>
    BY <1>8 DEF EndCorpus, tree
  <2> QED
    BY <2>1, IdleCounts DEF Promise!Next, Promise!Advance, Phase
<1>9. ASSUME NEW e \in Item, WriteQuery(e) PROVE Promise!Next \/ UNCHANGED Promise!vars
  <2>1. CASE Wanted(e)
    BY <1>9, <2>1, WriteQueryWrites DEF Promise!Next
  <2>2. CASE ~Wanted(e)
    <3>1. /\ pc = "write" /\ pc' = "write" /\ UNCHANGED <<leaves, counter, heap, rows>>
      BY <1>9, <2>2 DEF WriteQuery, tree
    <3> QED
      BY <3>1, IdleCounts, SilentStutters DEF Phase
  <2> QED
    BY <2>1, <2>2
<1>10. CASE EndWrite
  BY <1>10, EndWriteEnds DEF Promise!Next
<1>11. CASE EndRationalise \/ EndKill \/ \E e \in Item : Rationalise(e) \/ FreeExact(e)
  <2>1. /\ pc \in {"rationalise", "kill"} /\ UNCHANGED <<leaves, counter, heap, rows>>
        /\ pc = "rationalise" => pc' \in {"rationalise", "write"}
        /\ pc = "kill" => pc' \in {"kill", "double free", "end"}
    BY <1>11 DEF EndRationalise, EndKill, Rationalise, FreeExact, tree
  <2> QED
    BY <2>1, IdleCounts, SilentStutters DEF Phase
<1>12. CASE UNCHANGED vars
  <2>1. /\ UNCHANGED <<leaves, counter, heap, line, curcount, counthits, rows, pc>>
    BY <1>12 DEF vars, tree, scan
  <2>2. Asked' = Asked
    BY <2>1 DEF Asked
  <2>3. \A d \in leaves : Sum(d)' = Sum(d)
    BY <2>1 DEF Sum, Adding, Cooccurs, UseCount
  <2> QED
    BY <2>1, <2>2, <2>3, SameCounts, SilentStutters DEF Phase
<1> QED
  BY <1>1, <1>2, <1>3, <1>4, <1>5, <1>6, <1>7, <1>8, <1>9, <1>10, <1>11, <1>12
     DEF Next, addTokPair, incrementCooc, Output

(* get1t -o keeps its promise, for every vocabulary, length of a line and  *)
(* set of pairs: a line adds its count once to every pair of which it has  *)
(* both tokens, in whichever orders and however often incrementCooc meets  *)
(* them, and every pair of different tokens is written once, in the order  *)
(* of strcmp, in whatever order the tables were walked.                    *)
THEOREM PairsKeepPromise == Spec => PromiseSpec
<1>1. Init => Looking /\ Writing
  BY DEF Init, Looking, Writing
<1>2. Spec => [](Looking /\ Writing)
  BY <1>1, LookingKeeps, WritingKeeps, InvCorrect, PTL DEF Spec
<1> QED
  BY <1>2, InvCorrect, InitMaps, StepRefines, PTL DEF Spec, PromiseSpec, Promise!Spec
=============================================================================

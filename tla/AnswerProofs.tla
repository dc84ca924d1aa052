---------------------------- MODULE AnswerProofs ----------------------------
(***************************************************************************)
(* Proofs about the answers of Get1t: whatever the database and the        *)
(* queries, what main reports at its end are the sums over all lines, as   *)
(* long as no file was given up.                                           *)
(***************************************************************************)
EXTENDS Get1tProofs

(* What SumFunctionOnSet chooses: it takes an element at a time. *)
IsFold(F, S, f) ==
  f = [s \in SUBSET S |->
         IF s = {} THEN 0 ELSE F[CHOOSE x \in s : TRUE] + f[s \ {CHOOSE x \in s : TRUE}]]

(* A sum over every part of S, whatever the order of the summands. *)
Adds(F, S, g) ==
  /\ g \in [SUBSET S -> Nat] /\ g[{}] = 0
  /\ \A s \in SUBSET S : \A x \in S \ s : g[s \cup {x}] = g[s] + F[x]

LEMMA SumFolds ==
  ASSUME NEW F, NEW S
  PROVE  SumFunctionOnSet(F, S) = (CHOOSE f : IsFold(F, S, f))[S]
BY DEF SumFunctionOnSet, FoldFunctionOnSet, MapThenFoldSet, IsFold

LEMMA AddsFold ==
  ASSUME NEW S, NEW F, \A x \in S : F[x] \in Nat, NEW g, Adds(F, S, g)
  PROVE  IsFold(F, S, g)
<1>1. ASSUME NEW s \in SUBSET S, NEW x \in s
      PROVE  g[s] = F[x] + g[s \ {x}]
  <2>1. s \ {x} \in SUBSET S /\ x \in S \ (s \ {x}) /\ (s \ {x}) \cup {x} = s
    BY <1>1
  <2>2. g[s] = g[s \ {x}] + F[x] /\ g[s \ {x}] \in Nat /\ F[x] \in Nat
    BY <2>1 DEF Adds
  <2> QED
    BY <2>2
<1>2. \A s \in SUBSET S :
        g[s] = IF s = {} THEN 0 ELSE F[CHOOSE x \in s : TRUE] + g[s \ {CHOOSE x \in s : TRUE}]
  BY <1>1 DEF Adds
<1> QED
  BY <1>2 DEF Adds, IsFold

LEMMA FoldUnique ==
  ASSUME NEW S, IsFiniteSet(S), NEW F, NEW f, IsFold(F, S, f), NEW g, IsFold(F, S, g)
  PROVE  f[S] = g[S]
<1> DEFINE Bad == {s \in SUBSET S : f[s] # g[s]}
           T   == {Cardinality(s) : s \in Bad}
<1>1. ASSUME NEW s \in Bad PROVE \E r \in Bad : Cardinality(r) < Cardinality(s)
  <2>1. f[s] # g[s] /\ s \subseteq S
    OBVIOUS
  <2>2. s # {}
    BY <2>1 DEF IsFold
  <2> DEFINE x == CHOOSE y \in s : TRUE
             r == s \ {x}
  <2>3. x \in s
    BY <2>2
  <2>4. f[s] = F[x] + f[r] /\ g[s] = F[x] + g[r]
    BY <2>1, <2>2 DEF IsFold
  <2>5. r \in Bad
    BY <2>1, <2>4
  <2> HIDE DEF x
  <2>6. IsFiniteSet(s) /\ Cardinality(r) = Cardinality(s) - 1
        /\ Cardinality(s) \in Nat
    BY <2>1, <2>3, FS_Subset, FS_RemoveElement, FS_CardinalityType
  <2> QED
    BY <2>5, <2>6
<1>2. T \subseteq Nat
  BY FS_Subset, FS_CardinalityType
<1> SUFFICES ASSUME S \in Bad PROVE FALSE
  OBVIOUS
<1>3. T # {}
  OBVIOUS
<1>4. PICK m \in T : \A y \in T : m <= y
  <2> HIDE DEF T
  <2> QED
    BY <1>2, <1>3, LeastNumber
<1>5. PICK s \in Bad : Cardinality(s) = m
  BY <1>4
<1>6. PICK r \in Bad : Cardinality(r) < m
  BY <1>1, <1>5
<1>7. Cardinality(r) \in T
  BY <1>6
<1>8. m <= Cardinality(r)
  BY <1>4, <1>7
<1>9. m \in Nat /\ Cardinality(r) \in Nat
  <2> HIDE DEF T
  <2> QED
    BY <1>2, <1>4, <1>7
<1> HIDE DEF T, Bad
<1> QED
  BY <1>6, <1>8, <1>9

LEMMA AddsExists ==
  ASSUME NEW S, IsFiniteSet(S), NEW F, \A x \in S : F[x] \in Nat
  PROVE  \E g : Adds(F, S, g)
<1> DEFINE Bad == {s \in SUBSET S : ~ \E g : Adds(F, s, g)}
           T   == {Cardinality(s) : s \in Bad}
<1>1. ASSUME NEW s \in Bad PROVE \E r \in Bad : Cardinality(r) < Cardinality(s)
  <2>1. s # {}
    <3>1. Adds(F, {}, [r \in SUBSET {} |-> 0])
      BY DEF Adds
    <3> QED
      BY <3>1
  <2>2. PICK x : x \in s
    BY <2>1
  <2> DEFINE r == s \ {x}
  <2>3. r \in SUBSET S /\ IsFiniteSet(s) /\ Cardinality(r) < Cardinality(s)
    BY <2>2, FS_Subset, FS_RemoveElement, FS_CardinalityType
  <2>4. ASSUME NEW h, Adds(F, r, h) PROVE FALSE
    <3> DEFINE g == [q \in SUBSET s |-> h[q \ {x}] + IF x \in q THEN F[x] ELSE 0]
    <3>1. \A q \in SUBSET s : q \ {x} \in SUBSET r /\ h[q \ {x}] \in Nat
      BY <2>4 DEF Adds
    <3>2. F[x] \in Nat
      BY <2>2
    <3>3. g \in [SUBSET s -> Nat]
      <4>1. \A q \in SUBSET s : h[q \ {x}] + (IF x \in q THEN F[x] ELSE 0) \in Nat
        BY <3>1, <3>2
      <4> QED
        BY <4>1
    <3>4. g[{}] = 0
      <4>1. {} \in SUBSET s /\ {} \ {x} = {} /\ x \notin {} /\ h[{}] = 0
        BY <2>4 DEF Adds
      <4> QED
        BY <4>1
    <3>5. ASSUME NEW q \in SUBSET s, NEW y \in s \ q PROVE g[q \cup {y}] = g[q] + F[y]
      <4>0. q \cup {y} \in SUBSET s /\ F[y] \in Nat
        OBVIOUS
      <4>1. CASE y = x
        <5>1. x \notin q /\ (q \cup {y}) \ {x} = q \ {x} /\ x \in q \cup {y}
          BY <4>1
        <5> DEFINE a == h[q \ {x}]
        <5>2. g[q \cup {y}] = a + F[x] /\ g[q] = a + 0
          BY <4>0, <5>1
        <5>3. a \in Nat
          BY <3>1
        <5> HIDE DEF a, g
        <5> QED
          BY <3>2, <4>1, <5>2, <5>3
      <4>2. CASE y # x
        <5>1. /\ q \ {x} \in SUBSET r /\ y \in r \ (q \ {x})
              /\ (q \cup {y}) \ {x} = (q \ {x}) \cup {y}
              /\ x \in q \cup {y} <=> x \in q
          BY <4>2
        <5>2. h[(q \cup {y}) \ {x}] = h[q \ {x}] + F[y] /\ h[q \ {x}] \in Nat
          BY <2>4, <5>1 DEF Adds
        <5> DEFINE a == h[q \ {x}]
                   b == h[(q \cup {y}) \ {x}]
        <5>3. g[q \cup {y}] = b + (IF x \in q THEN F[x] ELSE 0) /\ g[q] = a + (IF x \in q THEN F[x] ELSE 0)
          BY <4>0, <5>1
        <5> HIDE DEF a, b, g
        <5>4. b = a + F[y] /\ a \in Nat
          BY <5>2 DEF a, b
        <5> QED
          BY <3>2, <4>0, <5>3, <5>4
      <4> QED
        BY <4>1, <4>2
    <3> HIDE DEF g
    <3>6. Adds(F, s, g)
      BY <3>3, <3>4, <3>5 DEF Adds
    <3> QED
      BY <3>6
  <2> QED
    BY <2>3, <2>4
<1>2. T \subseteq Nat
  BY FS_Subset, FS_CardinalityType
<1> SUFFICES ASSUME S \in Bad PROVE FALSE
  OBVIOUS
<1>3. T # {}
  OBVIOUS
<1>4. PICK m \in T : \A y \in T : m <= y
  <2> HIDE DEF T
  <2> QED
    BY <1>2, <1>3, LeastNumber
<1>5. PICK s \in Bad : Cardinality(s) = m
  BY <1>4
<1>6. PICK r \in Bad : Cardinality(r) < m
  BY <1>1, <1>5
<1>7. Cardinality(r) \in T
  BY <1>6
<1>8. m <= Cardinality(r)
  BY <1>4, <1>7
<1>9. m \in Nat /\ Cardinality(r) \in Nat
  <2> HIDE DEF T
  <2> QED
    BY <1>2, <1>4, <1>7
<1> HIDE DEF T, Bad
<1> QED
  BY <1>6, <1>8, <1>9

LEMMA SumIs ==
  ASSUME NEW S, IsFiniteSet(S), NEW F, \A x \in S : F[x] \in Nat, NEW g, Adds(F, S, g)
  PROVE  SumFunctionOnSet(F, S) = g[S] /\ g[S] \in Nat
<1>1. IsFold(F, S, g)
  BY AddsFold
<1> DEFINE f == CHOOSE h : IsFold(F, S, h)
<1>2. IsFold(F, S, f)
  BY <1>1
<1>3. SumFunctionOnSet(F, S) = f[S]
  BY SumFolds
<1> HIDE DEF f
<1>4. f[S] = g[S]
  BY <1>1, <1>2, FoldUnique
<1> QED
  BY <1>3, <1>4 DEF Adds

(* Nothing adds up to 0, and one element more adds its own. *)
LEMMA SumEmpty == ASSUME NEW F PROVE SumFunctionOnSet(F, {}) = 0
<1>1. Adds(F, {}, [r \in SUBSET {} |-> 0])
  BY DEF Adds
<1>2. IsFiniteSet({})
  BY FS_EmptySet
<1> QED
  BY <1>1, <1>2, SumIs

LEMMA SumMore ==
  ASSUME NEW S, IsFiniteSet(S), NEW x, x \notin S, NEW F, \A y \in S \cup {x} : F[y] \in Nat
  PROVE  /\ SumFunctionOnSet(F, S) \in Nat
         /\ SumFunctionOnSet(F, S \cup {x}) = SumFunctionOnSet(F, S) + F[x]
<1> DEFINE R == S \cup {x}
<1>1. IsFiniteSet(R)
  BY FS_AddElement
<1>2. PICK g : Adds(F, R, g)
  BY <1>1, AddsExists
<1> DEFINE h == [s \in SUBSET S |-> g[s]]
<1>3. Adds(F, S, h)
  <2>1. g \in [SUBSET R -> Nat] /\ SUBSET S \subseteq SUBSET R /\ {} \in SUBSET S /\ g[{}] = 0
    BY <1>2 DEF Adds
  <2>2. h \in [SUBSET S -> Nat] /\ h[{}] = 0
    BY <2>1
  <2>3. ASSUME NEW s \in SUBSET S, NEW y \in S \ s PROVE h[s \cup {y}] = h[s] + F[y]
    <3>1. s \in SUBSET R /\ y \in R \ s /\ s \cup {y} \in SUBSET S
      OBVIOUS
    <3> QED
      BY <1>2, <3>1 DEF Adds
  <2> HIDE DEF h
  <2> QED
    BY <2>2, <2>3 DEF Adds
<1>4. SumFunctionOnSet(F, R) = g[R]
  BY <1>1, <1>2, SumIs
<1>5. SumFunctionOnSet(F, S) = h[S] /\ h[S] \in Nat
  <2> HIDE DEF h
  <2> QED
    BY <1>3, SumIs
<1>6. h[S] = g[S]
  OBVIOUS
<1>7. g[R] = g[S] + F[x]
  BY <1>2 DEF Adds
<1> QED
  BY <1>4, <1>5, <1>6, <1>7
-----------------------------------------------------------------------------
(* The lines the corpus has delivered so far, if none was given up. *)
Delivered ==
  {p \in Grams : \/ p[1] < file
                 \/ p[1] = file /\ Cardinality(Upto(entries[file].text, p[2] + 1)) <= linenum}

(* A line is a gram and the end of line behind it. *)
LEMMA GramPlace ==
  ASSUME Counters, NEW p \in Grams
  PROVE  /\ p = <<p[1], p[2]>> /\ p[1] \in 1..Len(entries) /\ entries[p[1]].db
         /\ p[2] \in 1..Len(entries[p[1]].text)
         /\ p[2] + 1 \in Stream!Ends(entries[p[1]].text)
         /\ Gram(p) \in Record
<1>1. PICK f \in DOMAIN entries : entries[f].db /\ p \in {f} \X DOMAIN entries[f].text
  BY DEF Grams
<1>2. Gram(p) # NL
  BY DEF Grams
<1>3. f \in 1..Len(entries)
  <2>1. \E E : entries \in Seq(E)
    BY DirectoriesAssumption DEF Counters
  <2> QED
    BY <1>1, <2>1
<1> DEFINE t == entries[f].text
<1>4. /\ t \in Seq(Record \cup {NL})
      /\ \A k \in 1..Len(t) : t[k] # NL => k < Len(t) /\ t[k+1] = NL
  BY <1>3, TextTypes
<1>5. p = <<f, p[2]>> /\ p[1] = f /\ p[2] \in DOMAIN t
  BY <1>1
<1>6. Gram(p) = t[p[2]]
  BY <1>5 DEF Gram
<1> DEFINE k == p[2]
<1>7. k \in 1..Len(t) /\ k + 1 \in Stream!Ends(t) /\ t[k] \in Record
  <2>1. k \in DOMAIN t /\ t[k] # NL
    BY <1>2, <1>5, <1>6
  <2> HIDE DEF t, k
  <2>2. k \in 1..Len(t) /\ Len(t) \in Nat /\ t[k] \in Record
    BY <1>4, <2>1
  <2>3. k + 1 \in 2..Len(t) /\ t[k+1] = NL /\ k + 1 - 1 = k
    BY <1>4, <2>1, <2>2
  <2> QED
    BY <2>1, <2>2, <2>3 DEF Stream!Ends
<1> QED
  BY <1>1, <1>3, <1>5, <1>6, <1>7

LEMMA PlaceGram ==
  ASSUME Counters, NEW f \in 1..Len(entries), entries[f].db,
         NEW k \in 1..Len(entries[f].text), entries[f].text[k] # NL
  PROVE  <<f, k>> \in Grams
<1>1. f \in DOMAIN entries /\ entries[f].text \in Seq(Record \cup {NL})
  BY TextTypes
<1>2. k \in DOMAIN entries[f].text
  BY <1>1
<1>3. Gram(<<f, k>>) # NL
  BY DEF Gram
<1>4. <<f, k>> \in {f} \X DOMAIN entries[f].text
  BY <1>2
<1> QED
  BY <1>1, <1>3, <1>4 DEF Grams

(* No two ends have the same number. *)
LEMMA EndsNumbered ==
  ASSUME NEW t, Len(t) \in Nat, NEW p \in Stream!Ends(t), NEW q \in Stream!Ends(t),
         Cardinality(Upto(t, p)) = Cardinality(Upto(t, q))
  PROVE  p = q
<1>1. ASSUME NEW x \in Stream!Ends(t), NEW y \in Stream!Ends(t), x < y
      PROVE  Cardinality(Upto(t, x)) # Cardinality(Upto(t, y))
  <2>1. Stream!Ends(t) \subseteq 1..Len(t)
    BY EndsFinite
  <2>2. Upto(t, x) \subseteq Upto(t, y) /\ y \in Upto(t, y) /\ y \notin Upto(t, x)
    BY <1>1, <2>1 DEF Upto
  <2>3. IsFiniteSet(Upto(t, y)) /\ Upto(t, x) # Upto(t, y)
    BY <2>2, EndsFinite
  <2> QED
    BY <2>2, <2>3, FS_Subset
<1>2. p \in Nat /\ q \in Nat
  BY EndsFinite
<1> QED
  BY <1>1, <1>2

(* Before the first line there is none. *)
LEMMA NoneDelivered == ASSUME Counters, file = 1, linenum = 0 PROVE Delivered = {}
<1> SUFFICES ASSUME NEW p \in Delivered PROVE FALSE
  OBVIOUS
<1>1. p \in Grams /\ p[1] \in 1..Len(entries)
  BY GramPlace DEF Delivered
<1>2. p[1] = file /\ Cardinality(Upto(entries[p[1]].text, p[2] + 1)) <= 0
  BY <1>1 DEF Delivered
<1> DEFINE t == entries[p[1]].text
<1>3. p[2] + 1 \in Stream!Ends(t) /\ Len(t) \in Nat
  BY <1>1, GramPlace, TextTypes
<1> QED
  <2> DEFINE U == Upto(t, p[2] + 1)
  <2>1. p[2] + 1 \in U
    <3>1. Stream!Ends(t) \subseteq 1..Len(t)
      BY <1>3, EndsFinite
    <3> HIDE DEF t
    <3> QED
      BY <1>3, <3>1 DEF Upto
  <2>2. IsFiniteSet(U) /\ Cardinality(U) <= 0 /\ Cardinality(U) \in Nat
    BY <1>2, <1>3, EndsFinite
  <2> HIDE DEF U
  <2>3. Cardinality(U) = 0
    BY <2>2
  <2> QED
    BY <2>1, <2>2, <2>3, FS_EmptySet

(* Behind the last file all have been. *)
LEMMA AllDelivered == ASSUME Counters, file > Len(entries) PROVE Delivered = Grams
<1> SUFFICES ASSUME NEW p \in Grams PROVE p \in Delivered
  BY DEF Delivered
<1>1. p[1] \in 1..Len(entries) /\ Len(entries) \in Nat
  <2>1. \E E : entries \in Seq(E)
    BY DirectoriesAssumption DEF Counters
  <2> QED
    BY <2>1, GramPlace
<1>2. p[1] < file
  BY <1>1 DEF Counters
<1> QED
  BY <1>2 DEF Delivered

LEMMA SameGrams == entries' = entries => Grams' = Grams /\ GramCount' = GramCount
<1> SUFFICES ASSUME entries' = entries PROVE Grams' = Grams /\ GramCount' = GramCount
  OBVIOUS
<1>1. \A p : Gram(p)' = Gram(p)
  BY DEF Gram
<1>2. Grams' = Grams
  BY <1>1 DEF Grams
<1> QED
  BY <1>1, <1>2 DEF GramCount

(* The reader delivers one line more. *)
LEMMA DeliverAdds ==
  ASSUME Counters, Stream!Deliver
  PROVE  /\ line'[1] \in Grams /\ line'[1] \notin Delivered
         /\ Delivered' = Delivered \cup {line'[1]}
<1> DEFINE t == entries[file].text
           e == Stream!NthEnd(t, linenum + 1)
           s == Stream!LineStart(t, e)
<1>1. /\ file \in 1..Len(entries) /\ entries[file].db /\ linenum \in Nat
      /\ linenum < Cardinality(Stream!Ends(t)) /\ line'[1] = <<file, s>>
  BY DeliveredGram DEF Counters
<1>2. Len(t) \in Nat /\ \A k \in 1..Len(t) : t[k] # NL => k < Len(t) /\ t[k+1] = NL
  <2>1. /\ t \in Seq(Record \cup {NL})
        /\ \A k \in 1..Len(t) : t[k] # NL => k < Len(t) /\ t[k+1] = NL
    BY <1>1, TextTypes
  <2> HIDE DEF t
  <2> QED
    BY <2>1
<1>3. e \in Stream!Ends(t) /\ Cardinality(Upto(t, e)) = linenum + 1 /\ e \in 1..Len(t)
  <2>1. e \in Stream!Ends(t) /\ Cardinality(Upto(t, e)) = linenum + 1
    BY <1>1, <1>2, NthEndIn
  <2> QED
    BY <1>2, <2>1, EndsFinite
<1>4. s \in 1..e-1 /\ \A q \in s..e-1 : t[q] # NL
  BY <1>2, <1>3, LineStartIn
<1>5. s + 1 = e /\ t[s] # NL /\ s \in 1..Len(t)
  <2> HIDE DEF t, e, s
  <2>1. s \in 1..Len(t) /\ t[s] # NL /\ s \in Nat /\ e \in Nat /\ s <= e-1
    BY <1>2, <1>3, <1>4
  <2>2. t[s+1] = NL
    BY <1>2, <2>1
  <2>3. ~(s + 1 \in s..e-1)
    BY <1>4, <2>2
  <2> QED
    BY <2>1, <2>3
<1>6. <<file, s>> \in Grams
  BY <1>1, <1>5, PlaceGram
<1>7. <<file, s>> \notin Delivered
  <2>1. <<file, s>>[1] = file /\ <<file, s>>[2] = s
    OBVIOUS
  <2>2. ~(Cardinality(Upto(t, s + 1)) <= linenum) /\ ~(file < file)
    <3> HIDE DEF t, e, s
    <3> QED
      BY <1>1, <1>3, <1>5
  <2> HIDE DEF s
  <2> QED
    BY <2>1, <2>2 DEF Delivered
<1>8. /\ linenum' = linenum + 1 /\ file' = file /\ entries' = entries /\ Grams' = Grams
  BY SameGrams DEF Stream!Deliver
<1>9. ASSUME NEW p \in Grams
      PROVE  p \in Delivered' <=> p \in Delivered \/ p = <<file, s>>
  <2>1. p = <<p[1], p[2]>> /\ p[1] \in Nat /\ p[2] \in Nat
    BY GramPlace DEF IInv
  <2>2. CASE p[1] # file
    BY <1>8, <2>2 DEF Delivered
  <2>3. CASE p[1] = file
    <3> DEFINE c == Cardinality(Upto(t, p[2] + 1))
    <3>1. p[2] + 1 \in Stream!Ends(t)
      BY <2>3, GramPlace
    <3>2. c \in Nat
      BY <1>2, EndsFinite
    <3>3. c = linenum + 1 <=> p[2] + 1 = e
      BY <1>2, <1>3, <3>1, EndsNumbered
    <3>4. p \in Delivered <=> c <= linenum
      BY <1>1, <2>3, GramPlace DEF Delivered
    <3>5. p \in Delivered' <=> c <= linenum + 1
      BY <1>1, <1>8, <2>3, GramPlace DEF Delivered
    <3> HIDE DEF c, e, t, s
    <3>6. p[2] + 1 = e <=> p[2] = s
      BY <1>3, <1>4, <1>5, <2>1
    <3>7. p = <<file, s>> <=> p[2] = s
      BY <2>1, <2>3
    <3> QED
      BY <1>1, <3>2, <3>3, <3>4, <3>5, <3>6, <3>7
  <2> QED
    BY <2>2, <2>3
<1> HIDE DEF s
<1>10. Delivered' = Delivered \cup {<<file, s>>}
  <2>1. Delivered \subseteq Grams /\ Delivered' \subseteq Grams
    BY <1>8 DEF Delivered
  <2> QED
    BY <1>6, <1>9, <2>1
<1> QED
  BY <1>1, <1>6, <1>7, <1>10

(* A file that has been read to its end has no other lines. *)
LEMMA EndFileSame == ASSUME Counters, Stream!EndFile PROVE Delivered' = Delivered
<1>1. /\ linenum = Stream!Lines(file) /\ file \in 1..Len(entries) /\ file \in Nat
      /\ file' = file + 1 /\ linenum' = 0 /\ entries' = entries /\ Grams' = Grams
  <2>1. \E E : entries \in Seq(E)
    BY DirectoriesAssumption DEF Counters
  <2> QED
    BY <2>1, SameGrams DEF Stream!EndFile, Stream!NextFile, Counters
<1>2. ASSUME NEW p \in Grams
      PROVE  p \in Delivered' <=> p \in Delivered
  <2> DEFINE t == entries[p[1]].text
             U == Upto(t, p[2] + 1)
  <2>1. p[1] \in 1..Len(entries) /\ p[1] \in Nat /\ p[2] + 1 \in Stream!Ends(t) /\ entries[p[1]].db
    BY GramPlace
  <2>2. Len(t) \in Nat
    BY <2>1, TextTypes
  <2>3. IsFiniteSet(U) /\ Cardinality(U) \in Nat /\ IsFiniteSet(Stream!Ends(t))
        /\ U \subseteq Stream!Ends(t) /\ Stream!Ends(t) \subseteq 1..Len(t)
    BY <2>2, EndsFinite DEF Upto
  <2>4. p[2] + 1 \in U
    <3> HIDE DEF t
    <3> QED
      BY <2>1, <2>3 DEF Upto
  <2>5. Cardinality(U) # 0 /\ Cardinality(U) <= Cardinality(Stream!Ends(t))
    <3> HIDE DEF U, t
    <3> QED
      BY <2>3, <2>4, FS_EmptySet, FS_Subset
  <2>6. p[1] = file => linenum = Cardinality(Stream!Ends(t))
    BY <1>1, <2>1, SameCardinality DEF Stream!Lines
  <2>7. p \in Delivered <=> p[1] < file \/ (p[1] = file /\ Cardinality(U) <= linenum)
    BY DEF Delivered
  <2>8. p \in Delivered' <=> p[1] < file + 1 \/ (p[1] = file + 1 /\ Cardinality(U) <= 0)
    <3>1. p \in Delivered' <=> \/ p[1] < file'
                               \/ p[1] = file' /\ Cardinality(Upto(entries'[file'].text, p[2] + 1)) <= linenum'
      BY <1>1 DEF Delivered, Upto
    <3>2. p[1] = file' => Upto(entries'[file'].text, p[2] + 1) = U
      BY <1>1
    <3> HIDE DEF U, t
    <3> QED
      BY <1>1, <3>1, <3>2
  <2> HIDE DEF U, t
  <2>9. ~(Cardinality(U) <= 0) /\ (p[1] = file => Cardinality(U) <= linenum)
    BY <2>3, <2>5, <2>6
  <2> QED
    BY <1>1, <2>1, <2>7, <2>8, <2>9
<1>3. Delivered \subseteq Grams /\ Delivered' \subseteq Grams
  BY <1>1 DEF Delivered
<1> QED
  BY <1>2, <1>3
-----------------------------------------------------------------------------
(* The lines that a query, or some query, matches. *)
Hits(q) == {p \in Delivered : Quiet!Matches(q, Gram(p).tokens)}
Listed  == {p \in Delivered : \E q \in queries : Quiet!Matches(q, Gram(p).tokens)}

Shares(w) == [p \in Grams |-> Quiet!WordShare(w, Gram(p).tokens, Gram(p).count)]

WordTypes ==
  /\ bigcount \in Nat /\ matched \in Seq(Quiet!Line)
  /\ words \subseteq Words /\ wordCount \in [Words -> Nat]

(* While queries are added, nothing has been counted. *)
Fresh ==
  pc \in {"queries", "opendir"} =>
    /\ file = 1 /\ linenum = 0 /\ bigcount = 0 /\ matched = <<>>
    /\ count = [q \in Query |-> 0] /\ wordCount = [w \in Words |-> 0]

(* The counters hold the sums over the lines delivered. *)
Sums ==
  reported = {} =>
    /\ IsFiniteSet(Delivered)
    /\ bigcount = SumFunctionOnSet(GramCount, Delivered)
    /\ \A q \in queries : count[q] = SumFunctionOnSet(GramCount, Hits(q))
    /\ \A w \in words : wordCount[w] = SumFunctionOnSet(Shares(w), Delivered)
    /\ wildF => Len(matched) = Cardinality(Listed)

AllRead == pc \in {"total", "words", "ngrams", "walk"} \/ (pc = "exit" /\ status = 0)
Read    == AllRead => file > Len(entries)

(* What has been written is what the counters hold. *)
Printed ==
  /\ AllRead /\ pc # "total" => totalout = <<bigcount>>
  /\ AllRead /\ pc \notin {"total", "words"} /\ doWords # "dontCount" =>
       wordout = <<{<<w, wordCount[w]>> : w \in {x \in words : Wanted(wordCount[x])}}>>

JInv == WordTypes /\ Fresh /\ Sums /\ Read /\ Printed

(* The numbers that are added up. *)
LEMMA GramCounts ==
  ASSUME Counters, NEW p \in Grams
  PROVE  GramCount[p] = Gram(p).count /\ Gram(p).count \in Nat /\ Gram(p).tokens \in Quiet!Line
<1>1. Gram(p) \in Record /\ Counts \subseteq Nat
  BY GramPlace, DirectoriesAssumption
<1>2. Gram(p).count \in Nat /\ Gram(p).tokens \in Quiet!Line
  BY <1>1 DEF Record
<1> QED
  BY <1>2 DEF GramCount

LEMMA WordShareNat ==
  ASSUME NEW w, NEW l, NEW c \in Nat PROVE Quiet!WordShare(w, l, c) \in Nat
<1> DEFINE O == Quiet!Occurrences(w, l, 1)
<1>1. Quiet!Cardinality(O) \in Nat
  <2>1. IsFiniteSet(1..n) /\ O \subseteq 1..n
    BY Constants, FS_Interval DEF Quiet!Occurrences
  <2>2. Quiet!Cardinality(O) = Cardinality(O)
    BY DEF Quiet!Cardinality, Cardinality
  <2> HIDE DEF O
  <2> QED
    BY <2>1, <2>2, FS_Subset, FS_CardinalityType
<1>2. c * Quiet!Cardinality(O) \in Nat
  BY <1>1
<1> HIDE DEF O
<1> QED
  BY <1>2 DEF Quiet!WordShare, O

LEMMA ShareCounts ==
  ASSUME Counters, NEW w, NEW p \in Grams
  PROVE  Shares(w)[p] = Quiet!WordShare(w, Gram(p).tokens, Gram(p).count) /\ Shares(w)[p] \in Nat
BY GramCounts, WordShareNat DEF Shares

LEMMA FreshSums ==
  ASSUME Counters, words \subseteq Words, Fresh, pc \in {"queries", "opendir"}
  PROVE  Sums
<1>1. Delivered = {} /\ IsFiniteSet({}) /\ Cardinality({}) = 0
  BY NoneDelivered, FS_EmptySet DEF Fresh
<1>2. bigcount = 0 /\ matched = <<>> /\ Len(<<>>) = 0
      /\ (\A q \in queries : count[q] = 0) /\ (\A w \in words : wordCount[w] = 0)
  BY DEF Fresh, Counters
<1>3. Listed = {} /\ \A q : Hits(q) = {}
  BY <1>1 DEF Listed, Hits
<1> QED
  BY <1>1, <1>2, <1>3, SumEmpty DEF Sums

LEMMA SumsSame ==
  ASSUME Sums, UNCHANGED <<doWords, queries, count, words, wordCount, bigcount, matched, entries, wildF>>,
         reported' = {} => reported = {} /\ Delivered' = Delivered
  PROVE  Sums'
<1> SUFFICES ASSUME reported' = {} PROVE Sums'
  BY DEF Sums
<1>1. reported = {} /\ Delivered' = Delivered /\ Grams' = Grams /\ GramCount' = GramCount
  BY SameGrams
<1>2. \A p : Gram(p)' = Gram(p)
  BY DEF Gram
<1>3. Listed' = Listed /\ \A q : Hits(q)' = Hits(q)
  BY <1>1, <1>2 DEF Listed, Hits
<1>4. \A w : Shares(w)' = Shares(w)
  <2>1. \A w, l, c : Quiet!WordShare(w, l, c)' = Quiet!WordShare(w, l, c)
    BY DEF Quiet!WordShare
  <2> QED
    BY <1>1, <1>2, <2>1 DEF Shares
<1> QED
  BY <1>1, <1>3, <1>4 DEF Sums

(* What a line adds, whether or not it is also listed. *)
LEMMA ScanIs ==
  ASSUME CountLine, NEW g, g = Gram(line'[1])
  PROVE  /\ bigcount' = bigcount + g.count
         /\ count' = [q \in Query |-> count[q] + IF q \in queries /\ Quiet!Matches(q, g.tokens)
                                                 THEN g.count ELSE 0]
         /\ wordCount' = [w \in Words |-> wordCount[w] + IF w \in words
                                            THEN Quiet!WordShare(w, g.tokens, g.count) ELSE 0]
         /\ matched' = IF wildF /\ \E q \in queries : Quiet!Matches(q, g.tokens)
                       THEN Append(matched, g.tokens) ELSE matched
         /\ UNCHANGED <<doWords, loading, queries, words>>
<1>1. IF wildF THEN Listing!Scan(g.tokens, g.count) ELSE Quiet!Scan(g.tokens, g.count)
  BY DEF CountLine
<1>2. Listing!Query = Query /\ Quiet!Query = Query
  BY DEF Query, Quiet!Query, Listing!Query, Quiet!Token, Listing!Token
<1>3. \A q : Listing!Matches(q, g.tokens) = Quiet!Matches(q, g.tokens)
  BY DEF Listing!Matches, Quiet!Matches
<1>4. \A w : Listing!WordShare(w, g.tokens, g.count) = Quiet!WordShare(w, g.tokens, g.count)
  BY DEF Listing!WordShare, Quiet!WordShare, Listing!Occurrences, Quiet!Occurrences,
         Listing!Cardinality, Quiet!Cardinality
<1>5. CASE wildF
  BY <1>1, <1>2, <1>3, <1>4, <1>5 DEF Listing!Scan
<1>6. CASE ~wildF
  BY <1>1, <1>2, <1>6 DEF Quiet!Scan
<1> QED
  BY <1>5, <1>6

LEMMA CountLineSums ==
  ASSUME Counters, WordTypes, Sums, CountLine
  PROVE  WordTypes' /\ Sums'
<1> DEFINE x == line'[1]
           g == Gram(x)
<1>1. /\ Stream!Deliver /\ entries' = entries /\ reported' = reported /\ wildF' = wildF
      /\ Grams' = Grams /\ GramCount' = GramCount
  BY SameGrams DEF CountLine, Stream!Deliver
<1>2. x \in Grams /\ x \notin Delivered /\ Delivered' = Delivered \cup {x}
  BY <1>1, DeliverAdds
<1>3. GramCount[x] = g.count /\ g.count \in Nat /\ g.tokens \in Quiet!Line
  BY <1>2, GramCounts
<1>4. /\ bigcount' = bigcount + g.count
      /\ count' = [q \in Query |-> count[q] + IF q \in queries /\ Quiet!Matches(q, g.tokens)
                                              THEN g.count ELSE 0]
      /\ wordCount' = [w \in Words |-> wordCount[w] + IF w \in words
                                         THEN Quiet!WordShare(w, g.tokens, g.count) ELSE 0]
      /\ matched' = IF wildF /\ \E q \in queries : Quiet!Matches(q, g.tokens)
                    THEN Append(matched, g.tokens) ELSE matched
      /\ UNCHANGED <<doWords, loading, queries, words>>
  BY ScanIs
<1>5. \A w : Shares(w)[x] = Quiet!WordShare(w, g.tokens, g.count) /\ Shares(w)[x] \in Nat
  BY <1>2, ShareCounts
<1>6. (\A p : Gram(p)' = Gram(p)) /\ \A w : Shares(w)' = Shares(w)
  <2>1. \A p : Gram(p)' = Gram(p)
    BY <1>1 DEF Gram
  <2>2. \A w, l, c : Quiet!WordShare(w, l, c)' = Quiet!WordShare(w, l, c)
    BY <1>4 DEF Quiet!WordShare
  <2> QED
    BY <1>1, <2>1, <2>2 DEF Shares
<1>7. \A p \in Delivered : GramCount[p] \in Nat /\ \A w : Shares(w)[p] \in Nat
  BY GramCounts, ShareCounts DEF Delivered
<1>8. \A q : Hits(q)' = IF Quiet!Matches(q, g.tokens) THEN Hits(q) \cup {x} ELSE Hits(q)
  <2> SUFFICES ASSUME NEW q
               PROVE  Hits(q)' = IF Quiet!Matches(q, g.tokens) THEN Hits(q) \cup {x} ELSE Hits(q)
    OBVIOUS
  <2>1. Hits(q)' = {p \in Delivered \cup {x} : Quiet!Matches(q, Gram(p).tokens)}
    BY <1>2, <1>6 DEF Hits
  <2> HIDE DEF x
  <2> QED
    BY <2>1 DEF Hits
<1>9. Listed' = IF \E q \in queries : Quiet!Matches(q, g.tokens) THEN Listed \cup {x} ELSE Listed
  <2>1. Listed' = {p \in Delivered \cup {x} : \E q \in queries : Quiet!Matches(q, Gram(p).tokens)}
    BY <1>2, <1>4, <1>6 DEF Listed
  <2> HIDE DEF x
  <2> QED
    BY <2>1 DEF Listed
<1> HIDE DEF g, x
<1>10. WordTypes'
  <2>1. bigcount' \in Nat
    BY <1>3, <1>4 DEF WordTypes
  <2>2. matched' \in Seq(Quiet!Line)
    BY <1>3, <1>4 DEF WordTypes
  <2>3. \A w \in Words : wordCount[w] + (IF w \in words
                           THEN Quiet!WordShare(w, g.tokens, g.count) ELSE 0) \in Nat
    BY <1>3, WordShareNat DEF WordTypes
  <2>4. wordCount' \in [Words -> Nat]
    BY <1>4, <2>3
  <2> QED
    BY <1>4, <2>1, <2>2, <2>4 DEF WordTypes
<1>11. Sums'
  <2> SUFFICES ASSUME reported' = {} PROVE Sums'
    BY DEF Sums
  <2>1. /\ IsFiniteSet(Delivered)
        /\ bigcount = SumFunctionOnSet(GramCount, Delivered)
        /\ \A q \in queries : count[q] = SumFunctionOnSet(GramCount, Hits(q))
        /\ \A w \in words : wordCount[w] = SumFunctionOnSet(Shares(w), Delivered)
        /\ wildF => Len(matched) = Cardinality(Listed)
    BY <1>1 DEF Sums
  <2>2. IsFiniteSet(Delivered')
    BY <1>2, <2>1, FS_AddElement
  <2>3. bigcount' = SumFunctionOnSet(GramCount', Delivered')
    <3>1. \A y \in Delivered \cup {x} : GramCount[y] \in Nat
      BY <1>3, <1>7
    <3>2. SumFunctionOnSet(GramCount, Delivered \cup {x}) = SumFunctionOnSet(GramCount, Delivered) + g.count
      <4>1. IsFiniteSet(Delivered) /\ x \notin Delivered
        BY <1>2, <2>1
      <4> QED
        BY <1>3, <3>1, <4>1, SumMore
    <3> QED
      BY <1>1, <1>2, <1>4, <2>1, <3>2
  <2>4. ASSUME NEW q \in queries PROVE count'[q] = SumFunctionOnSet(GramCount', Hits(q)')
    <3>1. IsFiniteSet(Hits(q)) /\ x \notin Hits(q) /\ \A y \in Hits(q) \cup {x} : GramCount[y] \in Nat
      BY <1>2, <1>3, <1>7, <2>1, FS_Subset DEF Hits
    <3>2. /\ SumFunctionOnSet(GramCount, Hits(q)) \in Nat
          /\ SumFunctionOnSet(GramCount, Hits(q) \cup {x}) = SumFunctionOnSet(GramCount, Hits(q)) + g.count
      BY <1>3, <3>1, SumMore
    <3>3. q \in Query /\ count'[q] = count[q] + IF Quiet!Matches(q, g.tokens) THEN g.count ELSE 0
      BY <1>4 DEF Counters
    <3>4. count[q] = SumFunctionOnSet(GramCount, Hits(q))
      BY <2>1
    <3>5. CASE Quiet!Matches(q, g.tokens)
      BY <1>1, <1>8, <3>2, <3>3, <3>4, <3>5
    <3>6. CASE ~Quiet!Matches(q, g.tokens)
      BY <1>1, <1>8, <3>2, <3>3, <3>4, <3>6
    <3> QED
      BY <3>5, <3>6
  <2>5. ASSUME NEW w \in words PROVE wordCount'[w] = SumFunctionOnSet(Shares(w)', Delivered')
    <3>1. \A y \in Delivered \cup {x} : Shares(w)[y] \in Nat
      BY <1>5, <1>7
    <3>2. SumFunctionOnSet(Shares(w), Delivered \cup {x})
            = SumFunctionOnSet(Shares(w), Delivered) + Quiet!WordShare(w, g.tokens, g.count)
      <4>1. IsFiniteSet(Delivered) /\ x \notin Delivered
        BY <1>2, <2>1
      <4>2. SumFunctionOnSet(Shares(w), Delivered \cup {x})
              = SumFunctionOnSet(Shares(w), Delivered) + Shares(w)[x]
        BY <3>1, <4>1, SumMore
      <4> QED
        BY <1>5, <4>2
    <3>3. w \in Words /\ wordCount'[w] = wordCount[w] + Quiet!WordShare(w, g.tokens, g.count)
      BY <1>4 DEF WordTypes
    <3> QED
      BY <1>2, <1>6, <2>1, <3>2, <3>3
  <2>6. ASSUME wildF PROVE Len(matched') = Cardinality(Listed')
    <3>1. IsFiniteSet(Listed) /\ x \notin Listed /\ Len(matched) = Cardinality(Listed)
      BY <1>2, <2>1, <2>6, FS_Subset DEF Listed
    <3>2. Cardinality(Listed \cup {x}) = Cardinality(Listed) + 1
      BY <3>1, FS_AddElement
    <3>3. Len(Append(matched, g.tokens)) = Len(matched) + 1
      BY <1>3 DEF WordTypes
    <3> QED
      BY <1>4, <1>9, <2>6, <3>1, <3>2, <3>3
  <2> QED
    BY <1>1, <1>4, <2>2, <2>3, <2>4, <2>5, <2>6 DEF Sums
<1> QED
  BY <1>10, <1>11
-----------------------------------------------------------------------------
LEMMA InitAnswers == Init => JInv
<1> SUFFICES ASSUME Init PROVE JInv
  OBVIOUS
<1>1. Counters
  BY InitInv DEF IInv
<1>2. /\ bigcount = 0 /\ matched = <<>> /\ words = {} /\ wordCount = [w \in Words |-> 0]
      /\ count = [q \in Query |-> 0] /\ file = 1 /\ linenum = 0 /\ pc = "queries"
  BY DEF Init, Quiet!Init, Stream!Init, Query
<1>3. WordTypes
  BY <1>2 DEF WordTypes
<1>4. Fresh
  BY <1>2 DEF Fresh
<1>5. Sums
  BY <1>1, <1>2, <1>4, FreshSums
<1>6. ~AllRead
  BY <1>2 DEF AllRead
<1> QED
  BY <1>3, <1>4, <1>5, <1>6 DEF JInv, Read, Printed

Adding == Counters /\ words \subseteq Words /\ Fresh /\ pc \in {"queries", "opendir"}

LEMMA AddingSums == Adding => Sums
BY FreshSums DEF Adding

LEMMA FreshSumsNext ==
  ASSUME Counters', words' \subseteq Words, Fresh', pc' \in {"queries", "opendir"}
  PROVE  Sums'
<1>1. Adding' => Sums'
  BY AddingSums, PTL
<1> QED
  BY <1>1 DEF Adding

LEMMA AskAnswers == ASSUME IInv, IInv', JInv, Ask PROVE JInv'
<1> DEFINE q == Head(unread)
<1>1. q \in Query /\ words \subseteq Words
  BY DEF Ask, IInv, Counters, JInv, WordTypes
<1>2. /\ pc = "queries" /\ UNCHANGED <<pc, file, linenum, bigcount, matched, count, wordCount>>
      /\ words' = IF doWords = "dontCount" THEN words
                  ELSE words \cup ({q[j] : j \in 1..n} \ {WILDCARD})
  BY DEF Ask, Quiet!Ask, corpus
<1> HIDE DEF q
<1>3. words' \subseteq Words
  <2>1. \A j \in 1..n : q[j] \in Words \cup {WILDCARD}
    BY <1>1, Constants DEF Token, Quiet!Token
  <2> QED
    BY <1>1, <1>2, <2>1
<1>4. WordTypes'
  BY <1>2, <1>3 DEF JInv, WordTypes
<1>5. Fresh'
  BY <1>2 DEF JInv, Fresh
<1>6. Sums'
  BY <1>2, <1>3, <1>5, FreshSumsNext DEF IInv
<1>7. ~AllRead'
  BY <1>2 DEF AllRead
<1> QED
  BY <1>4, <1>5, <1>6, <1>7 DEF JInv, Read, Printed

LEMMA EndQueriesAnswers == ASSUME IInv, IInv', JInv, EndQueries PROVE JInv'
<1>1. /\ pc = "queries" /\ pc' = "opendir"
      /\ UNCHANGED <<file, linenum, bigcount, matched, count, words, wordCount>>
  BY DEF EndQueries, Quiet!StartScan, corpus
<1>2. WordTypes' /\ words' \subseteq Words
  BY <1>1 DEF JInv, WordTypes
<1>3. Fresh'
  BY <1>1 DEF JInv, Fresh
<1>4. Sums'
  BY <1>1, <1>2, <1>3, FreshSumsNext DEF IInv
<1>5. ~AllRead'
  BY <1>1 DEF AllRead
<1> QED
  BY <1>2, <1>3, <1>4, <1>5 DEF JInv, Read, Printed

LEMMA CountLineAnswers == ASSUME IInv, JInv, CountLine PROVE JInv'
<1>1. pc = "corpus" /\ pc' = pc
  BY DEF CountLine
<1>2. WordTypes' /\ Sums'
  BY CountLineSums DEF IInv, JInv
<1>3. Fresh' /\ ~AllRead'
  BY <1>1 DEF Fresh, AllRead
<1> QED
  BY <1>2, <1>3 DEF JInv, Read, Printed

LEMMA NextFileAnswers == ASSUME IInv, JInv, NextFile PROVE JInv'
<1>1. /\ pc = "corpus" /\ pc' = pc
      /\ UNCHANGED <<doWords, queries, count, words, wordCount, bigcount, matched, entries, wildF>>
  BY DEF NextFile, counters, options, Stream!EndFile, Stream!GiveUp, Stream!NextFile
<1>2. reported' = {} => reported = {} /\ Delivered' = Delivered
  <2>1. CASE Stream!EndFile
    BY <2>1, EndFileSame DEF IInv, Stream!EndFile
  <2>2. CASE Stream!GiveUp
    BY <2>2 DEF Stream!GiveUp
  <2> QED
    BY <2>1, <2>2 DEF NextFile
<1>3. Sums'
  BY <1>1, <1>2, SumsSame DEF JInv
<1>4. WordTypes'
  BY <1>1 DEF JInv, WordTypes
<1>5. Fresh' /\ ~AllRead'
  BY <1>1 DEF Fresh, AllRead
<1> QED
  BY <1>3, <1>4, <1>5 DEF JInv, Read, Printed

(* The steps that leave the counters and the corpus alone. *)
LEMMA KeptAnswers ==
  ASSUME JInv, UNCHANGED <<doWords, printZeroCounts, counters, corpus, wildF>>,
         pc' \in {"queries", "opendir"} => pc \in {"queries", "opendir"},
         AllRead' => file > Len(entries), Printed'
  PROVE  JInv'
<1>1. UNCHANGED <<doWords, queries, count, words, wordCount, bigcount, matched, entries, wildF, reported,
                  file, linenum>>
  BY DEF counters, corpus
<1>2. Delivered' = Delivered
  <2>1. Grams' = Grams
    BY <1>1, SameGrams
  <2> QED
    BY <1>1, <2>1 DEF Delivered
<1>3. Sums'
  BY <1>1, <1>2, SumsSame DEF JInv
<1>4. WordTypes'
  BY <1>1 DEF JInv, WordTypes
<1>5. Fresh'
  BY <1>1 DEF JInv, Fresh
<1>6. Read'
  BY <1>1 DEF Read
<1> QED
  BY <1>3, <1>4, <1>5, <1>6 DEF JInv

LEMMA PhaseAnswers ==
  ASSUME JInv,
         \/ Opendir \/ OpendirFails \/ EndCorpus \/ FopenFails \/ WriteTotal \/ WriteWordCounts
  PROVE  JInv'
<1>0. UNCHANGED <<doWords, printZeroCounts, counters, corpus, wildF>>
  BY DEF options, Opendir, OpendirFails, EndCorpus, FopenFails, WriteTotal, WriteWordCounts
<1>1. CASE Opendir
  <2>1. pc' = "corpus"
    BY <1>1 DEF Opendir
  <2>2. ~AllRead'
    BY <2>1 DEF AllRead
  <2> QED
    BY <1>0, <2>1, <2>2, KeptAnswers DEF Printed
<1>2. CASE OpendirFails
  <2>1. pc' = "exit" /\ status' = -1
    BY <1>2 DEF OpendirFails
  <2>2. ~AllRead'
    BY <2>1 DEF AllRead
  <2> QED
    BY <1>0, <2>1, <2>2, KeptAnswers DEF Printed
<1>3. CASE EndCorpus
  <2>1. pc' = "total" /\ file > Len(entries)
    BY <1>3 DEF EndCorpus
  <2>2. Printed'
    BY <2>1 DEF Printed
  <2> QED
    BY <1>0, <2>1, <2>2, KeptAnswers
<1>4. CASE FopenFails
  <2>1. pc' = "crashed"
    BY <1>4 DEF FopenFails
  <2>2. ~AllRead'
    BY <2>1 DEF AllRead
  <2> QED
    BY <1>0, <2>1, <2>2, KeptAnswers DEF Printed
<1>5. CASE WriteTotal
  <2>1. /\ pc = "total" /\ totalout' = <<bigcount>>
        /\ pc' = IF doWords = "dontCount" THEN "ngrams" ELSE "words"
    BY <1>5 DEF WriteTotal
  <2>2. file > Len(entries)
    BY <2>1 DEF JInv, Read, AllRead
  <2>3. Printed'
    BY <1>0, <2>1 DEF Printed, counters
  <2> QED
    BY <1>0, <2>1, <2>2, <2>3, KeptAnswers
<1>6. CASE WriteWordCounts
  <2>1. /\ pc = "words" /\ pc' = "ngrams" /\ totalout' = totalout
        /\ wordout' = <<{<<w, wordCount[w]>> : w \in {x \in words : Wanted(wordCount[x])}}>>
    BY <1>6 DEF WriteWordCounts
  <2>2. file > Len(entries) /\ totalout = <<bigcount>>
    BY <2>1 DEF JInv, Read, Printed, AllRead
  <2>3. UNCHANGED <<words, wordCount, bigcount, printZeroCounts, doWords>>
    BY <1>0 DEF counters
  <2>4. Printed'
    BY <2>1, <2>2, <2>3 DEF Printed, Wanted
  <2> QED
    BY <1>0, <2>1, <2>2, <2>4, KeptAnswers
<1> QED
  BY <1>1, <1>2, <1>3, <1>4, <1>5, <1>6

(* The walk leaves the other files alone. *)
LEMMA WalkAnswers ==
  ASSUME JInv,
         StartNgrams \/ (\E t \in Token : EnterSet(t) \/ WriteQuery(t)) \/ LeaveSet \/ Exit
  PROVE  JInv'
<1>1. /\ UNCHANGED <<doWords, printZeroCounts, counters, corpus, wildF, totalout, wordout>>
      /\ pc \in {"ngrams", "walk"} /\ (pc' = "walk" \/ (pc' = "exit" /\ status' = 0))
  BY DEF options, output, StartNgrams, EnterSet, WriteQuery, LeaveSet, Exit
<1>2. AllRead /\ pc \notin {"total", "words"}
  BY <1>1 DEF AllRead
<1>3. file > Len(entries) /\ totalout = <<bigcount>>
      /\ (doWords # "dontCount" =>
            wordout = <<{<<w, wordCount[w]>> : w \in {x \in words : Wanted(wordCount[x])}}>>)
  BY <1>1, <1>2 DEF JInv, Read, Printed
<1>4. UNCHANGED <<words, wordCount, bigcount, printZeroCounts, doWords, totalout, wordout>>
  BY <1>1 DEF counters
<1>5. Printed'
  BY <1>3, <1>4 DEF Printed, Wanted
<1> QED
  BY <1>1, <1>3, <1>5, KeptAnswers

LEMMA StutterAnswers == ASSUME JInv, UNCHANGED vars PROVE JInv'
<1>1. UNCHANGED <<doWords, printZeroCounts, counters, corpus, wildF, totalout, wordout, pc, status>>
  BY DEF vars, options, output
<1>2. UNCHANGED <<words, wordCount, bigcount, file, entries>> /\ (AllRead' <=> AllRead)
  BY <1>1 DEF AllRead, counters, corpus
<1>3. Printed'
  BY <1>1, <1>2 DEF JInv, Printed, Wanted
<1>4. AllRead' => file > Len(entries)
  BY <1>2 DEF JInv, Read
<1> QED
  BY <1>1, <1>3, <1>4, KeptAnswers

LEMMA NextAnswers == IInv /\ IInv' /\ JInv /\ [Next]_vars => JInv'
<1> SUFFICES ASSUME IInv, IInv', JInv, [Next]_vars PROVE JInv'
  OBVIOUS
<1>1. CASE Ask
  BY <1>1, AskAnswers
<1>2. CASE EndQueries
  BY <1>2, EndQueriesAnswers
<1>3. CASE CountLine
  BY <1>3, CountLineAnswers
<1>4. CASE NextFile
  BY <1>4, NextFileAnswers
<1>5. CASE \/ Opendir \/ OpendirFails \/ EndCorpus \/ FopenFails \/ WriteTotal \/ WriteWordCounts
  BY <1>5, PhaseAnswers
<1>6. CASE StartNgrams \/ (\E t \in Token : EnterSet(t) \/ WriteQuery(t)) \/ LeaveSet \/ Exit
  BY <1>6, WalkAnswers
<1>7. CASE UNCHANGED vars
  BY <1>7, StutterAnswers
<1> QED
  BY <1>1, <1>2, <1>3, <1>4, <1>5, <1>6, <1>7 DEF Next

LEMMA AnswersInvariant == Spec => [](IInv /\ JInv)
<1>1. Init => IInv /\ JInv
  BY InitInv, InitAnswers
<1>2. (IInv /\ JInv) /\ [Next]_vars => (IInv /\ JInv)'
  BY NextKeeps, NextAnswers
<1> QED
  BY <1>1, <1>2, PTL DEF Spec

LEMMA SumsAnswer == IInv /\ JInv => AnswersRight
<1> SUFFICES ASSUME IInv, JInv, pc = "exit", status = 0, reported = {}
             PROVE  /\ totalout = <<SumOf(Grams)>>
                    /\ {rows[k] : k \in 1..Len(rows)} = Reported(CountOf, queries)
                    /\ Len(rows) = Cardinality(Reported(CountOf, queries))
                    /\ doWords # "dontCount" => wordout = <<Reported(WordCountOf, words)>>
                    /\ wildF => Len(matched) = Cardinality({p \in Grams :
                                   \E q \in queries : Quiet!Matches(q, Gram(p).tokens)})
  BY DEF AnswersRight
<1>1. AllRead /\ file > Len(entries) /\ totalout = <<bigcount>>
      /\ (doWords # "dontCount" =>
            wordout = <<{<<w, wordCount[w]>> : w \in {x \in words : Wanted(wordCount[x])}}>>)
  BY DEF AllRead, JInv, Read, Printed
<1>2. Delivered = Grams
  BY <1>1, AllDelivered DEF IInv
<1>3. /\ bigcount = SumFunctionOnSet(GramCount, Grams)
      /\ \A q \in queries : count[q] = SumFunctionOnSet(GramCount, Hits(q))
      /\ \A w \in words : wordCount[w] = SumFunctionOnSet(Shares(w), Grams)
      /\ wildF => Len(matched) = Cardinality(Listed)
  BY <1>2 DEF JInv, Sums
<1>4. \A q \in queries : count[q] = CountOf(q)
  BY <1>2, <1>3 DEF Hits, CountOf, SumOf
<1>5. \A w \in words : wordCount[w] = WordCountOf(w)
  <2>1. \A w : DOMAIN Shares(w) = Grams
    BY DEF Shares
  <2> QED
    BY <1>3, <2>1 DEF WordCountOf, Shares, SumFunction
<1>6. Reported(CountOf, queries) = {<<q, count[q]>> : q \in {r \in queries : printZeroCounts \/ count[r] # 0}}
  BY <1>4 DEF Reported
<1>7. Reported(WordCountOf, words)
        = {<<w, wordCount[w]>> : w \in {x \in words : printZeroCounts \/ wordCount[x] # 0}}
  BY <1>5 DEF Reported
<1>8. /\ {rows[k] : k \in 1..Len(rows)} = Reported(CountOf, queries)
      /\ \A j, k \in 1..Len(rows) : rows[j][1] = rows[k][1] => j = k
  BY <1>6, WrittenRight DEF RowsRight
<1>9. Len(rows) = Cardinality(Reported(CountOf, queries))
  <2> DEFINE R == Reported(CountOf, queries)
             m == Len(rows)
  <2>1. m \in Nat /\ rows \in [1..m -> R] /\ R = {rows[k] : k \in 1..m}
    <3>1. rows \in Seq(Query \X Nat)
      BY DEF IInv, Written
    <3>2. m \in Nat /\ DOMAIN rows = 1..m /\ rows = [k \in 1..m |-> rows[k]]
      BY <3>1
    <3> HIDE DEF R, m
    <3> QED
      BY <1>8, <3>2 DEF R, m
  <2>2. \A j, k \in 1..m : rows[j] = rows[k] => j = k
    BY <1>8
  <2> HIDE DEF R, m
  <2>3. rows \in Bijection(1..m, R)
    BY <2>1, <2>2 DEF Bijection, Injection, Surjection, IsInjective
  <2>4. ExistsBijection(1..m, R)
    BY <2>3 DEF ExistsBijection
  <2>5. Cardinality(R) = m
    BY <2>1, <2>4, FS_CountingElements
  <2> QED
    BY <2>5 DEF R, m
<1>10. doWords # "dontCount" => wordout = <<Reported(WordCountOf, words)>>
  BY <1>1, <1>7 DEF Wanted
<1>11. Listed = {p \in Grams : \E q \in queries : Quiet!Matches(q, Gram(p).tokens)}
  BY <1>2 DEF Listed
<1> QED
  BY <1>1, <1>3, <1>8, <1>9, <1>10, <1>11 DEF SumOf

(* At exit 0, unless a file was given up, the total, the count of every    *)
(* query and that of every word are the sums over all lines of the         *)
(* database, each query has one row, and -i has listed as many lines as    *)
(* some query matches.                                                     *)
THEOREM AnswersRightCorrect == Spec => []AnswersRight
BY AnswersInvariant, SumsAnswer, PTL
=============================================================================

-------------------------- MODULE QueryFileProofs --------------------------
(***************************************************************************)
(* Proofs about QueryFile: for every query file, length of the buffer,     *)
(* number of tokens and earlier contents of the buffer, the queries that   *)
(* the loop of makeCounters hands on are those of the file.                *)
(***************************************************************************)
EXTENDS QueryFile, TLAPS, FiniteSetTheorems, SequenceTheorems, WellFoundedInduction

(* A nonempty set of numbers has a least one. *)
LEMMA LeastNumber == ASSUME NEW T, T \subseteq Nat, T # {}
  PROVE \E m \in T : \A y \in T : m <= y
<1> DEFINE R == OpToRel(<, Nat)
<1>1. IsWellFoundedOn(R, Nat)
  BY NatLessThanWellFounded
<1>2. \A x, y \in Nat : x < y => <<x, y>> \in R
  BY DEF OpToRel
<1> HIDE DEF R
<1>3. PICK m \in T : \A y \in T : ~ (<<y, m>> \in R)
  BY <1>1, WFMin
<1>4. \A y \in T : ~ (y < m)
  BY <1>2, <1>3
<1> QED
  BY <1>4
-----------------------------------------------------------------------------
(* Sets of numbers, in order. *)
Upto(S, x) == {y \in S : y <= x}

LEMMA UptoNumbers ==
  ASSUME NEW M \in Nat, NEW S \in SUBSET (0..M)
  PROVE  /\ \A y \in S : y \in Nat /\ y <= M
         /\ \A x, y : y \in Upto(S, x) <=> y \in S /\ y <= x
         /\ \A x : Upto(S, x) \subseteq S
  BY DEF Upto

LEMMA UptoFinite ==
  ASSUME NEW M \in Nat, NEW S \in SUBSET (0..M), NEW x
  PROVE  /\ IsFiniteSet(S) /\ Cardinality(S) \in Nat
         /\ IsFiniteSet(Upto(S, x)) /\ Cardinality(Upto(S, x)) \in Nat
         /\ Upto(S, x) \subseteq S /\ Cardinality(Upto(S, x)) <= Cardinality(S)
<1>1. IsFiniteSet(0..M)
  BY FS_Interval
<1>2. IsFiniteSet(S)
  BY <1>1, FS_Subset
<1>3. Upto(S, x) \subseteq S
  BY DEF Upto
<1> QED
  BY <1>2, <1>3, FS_Subset, FS_CardinalityType

(* No two members have the same number. *)
LEMMA UptoInjective ==
  ASSUME NEW M \in Nat, NEW S \in SUBSET (0..M), NEW x \in S, NEW y \in S,
         Cardinality(Upto(S, x)) = Cardinality(Upto(S, y))
  PROVE  x = y
<1>1. ASSUME NEW a \in S, NEW b \in S, a < b
      PROVE  Cardinality(Upto(S, a)) # Cardinality(Upto(S, b))
  <2>1. a \in Nat /\ b \in Nat
    OBVIOUS
  <2>2. Upto(S, a) \subseteq Upto(S, b) /\ b \in Upto(S, b) /\ b \notin Upto(S, a)
    <3>1. b \in Upto(S, b) /\ b \notin Upto(S, a)
      BY <1>1, <2>1, UptoNumbers
    <3>2. ASSUME NEW c \in Upto(S, a) PROVE c \in Upto(S, b)
      <4>1. c \in S /\ c <= a /\ c \in Nat
        BY UptoNumbers
      <4>2. c <= b
        BY <1>1, <2>1, <4>1
      <4> QED
        BY <4>1, <4>2, UptoNumbers
    <3> QED
      BY <3>1, <3>2
  <2>3. IsFiniteSet(Upto(S, b)) /\ Upto(S, a) # Upto(S, b)
    BY <2>2, UptoFinite
  <2> QED
    BY <2>2, <2>3, FS_Subset
<1>2. x \in Nat /\ y \in Nat
  OBVIOUS
<1>3. x < y \/ y < x \/ x = y
  BY <1>2
<1> QED
  BY <1>1, <1>3

LEMMA NthIs ==
  ASSUME NEW M \in Nat, NEW S \in SUBSET (0..M), NEW x \in S,
         NEW k, k = Cardinality(Upto(S, x))
  PROVE  Nth(S, k) = x
<1>1. \A y \in S : Cardinality(Upto(S, y)) = k => y = x
  BY UptoInjective
<1>2. \A y : Upto(S, y) = {z \in S : z <= y}
  BY DEF Upto
<1> QED
  BY <1>1, <1>2 DEF Nth

LEMMA NthIn ==
  ASSUME NEW M \in Nat, NEW S \in SUBSET (0..M), NEW k \in 1..Cardinality(S)
  PROVE  Nth(S, k) \in S /\ Cardinality(Upto(S, Nth(S, k))) = k
<1> DEFINE T == {m \in Nat : k <= Cardinality(Upto(S, m))}
<1>1. M \in T
  <2>1. Upto(S, M) = S
    BY UptoNumbers
  <2> QED
    BY <2>1
<1>2. PICK m \in T : \A y \in T : m <= y
  <2>1. T \subseteq Nat /\ T # {}
    BY <1>1
  <2> HIDE DEF T
  <2> QED
    BY <2>1, LeastNumber
<1>3. m \in Nat /\ k <= Cardinality(Upto(S, m)) /\ Cardinality(Upto(S, m)) \in Nat
  BY <1>2, UptoFinite
<1>4. m \in S /\ Cardinality(Upto(S, m)) = k
  <2>1. CASE m = 0
    <3>1. \A y \in Upto(S, 0) : y = 0
      <4>1. \A y \in S : y <= 0 => y = 0
        OBVIOUS
      <4> QED
        BY <4>1 DEF Upto
    <3>2. Upto(S, 0) # {}
      <4>1. Cardinality({}) = 0
        BY FS_EmptySet
      <4> QED
        BY <1>3, <2>1, <4>1
    <3>3. Upto(S, 0) = {0} /\ 0 \in S
      BY <3>1, <3>2, UptoNumbers
    <3>4. Cardinality({0}) = 1
      BY FS_Singleton
    <3> QED
      BY <1>3, <2>1, <3>3, <3>4
  <2>2. CASE m # 0
    <3>1. m-1 \in Nat /\ ~(m <= m-1)
      BY <1>3, <2>2
    <3>2. Cardinality(Upto(S, m-1)) \in Nat /\ ~(k <= Cardinality(Upto(S, m-1)))
      <4>1. m-1 \notin T
        BY <1>2, <3>1
      <4> QED
        BY <3>1, <4>1, UptoFinite
    <3>3. CASE m \in S
      <4>1. Upto(S, m) = Upto(S, m-1) \cup {m} /\ m \notin Upto(S, m-1)
        <5>1. \A y \in Nat : y <= m <=> y <= m-1 \/ y = m
          BY <1>3
        <5>2. \A y : y \in Upto(S, m) <=> y \in Upto(S, m-1) \/ y = m
          BY <3>3, <5>1, UptoNumbers
        <5> QED
          BY <3>1, <5>2, UptoNumbers
      <4>2. Cardinality(Upto(S, m)) = Cardinality(Upto(S, m-1)) + 1
        <5>1. IsFiniteSet(Upto(S, m-1))
          BY UptoFinite
        <5> QED
          BY <4>1, <5>1, FS_AddElement
      <4> QED
        BY <1>3, <3>2, <3>3, <4>2
    <3>4. CASE m \notin S
      <4>1. Upto(S, m) = Upto(S, m-1)
        <5>1. \A y \in Nat : y <= m <=> y <= m-1 \/ y = m
          BY <1>3
        <5>2. \A y : y \in Upto(S, m) <=> y \in Upto(S, m-1)
          <6>1. \A y \in S : y <= m <=> y <= m-1
            BY <3>4, <5>1
          <6> QED
            BY <6>1 DEF Upto
        <5> QED
          BY <5>2
      <4> QED
        BY <1>3, <3>2, <4>1
    <3> QED
      BY <3>3, <3>4
  <2> QED
    BY <2>1, <2>2
<1>5. Nth(S, k) = m
  BY <1>4, NthIs
<1> QED
  BY <1>4, <1>5

LEMMA InOrderType ==
  ASSUME NEW M \in Nat, NEW S \in SUBSET (0..M)
  PROVE  InOrder(S) \in Seq(S) /\ Len(InOrder(S)) = Cardinality(S) /\ Cardinality(S) \in Nat
<1>1. Cardinality(S) \in Nat
  BY UptoFinite
<1>2. \A k \in 1..Cardinality(S) : Nth(S, k) \in S
  BY NthIn
<1> QED
  BY <1>1, <1>2 DEF InOrder

(* The least member is the first. *)
LEMMA FirstIsLeast ==
  ASSUME NEW M \in Nat, NEW S \in SUBSET (0..M), NEW x \in S, \A y \in S : x <= y
  PROVE  Nth(S, 1) = x /\ 1 \in 1..Cardinality(S)
<1>1. Upto(S, x) = {x}
  <2>1. \A y \in S : y <= x <=> y = x
    OBVIOUS
  <2> QED
    BY <2>1 DEF Upto
<1>2. Cardinality(Upto(S, x)) = 1
  BY <1>1, FS_Singleton
<1>3. Nth(S, 1) = x
  BY <1>2, NthIs
<1>4. Cardinality(S) \in Nat /\ 1 <= Cardinality(S)
  <2>1. /\ Cardinality(S) \in Nat /\ Cardinality(Upto(S, x)) <= Cardinality(S)
    BY UptoFinite
  <2> QED
    BY <1>2, <2>1
<1> QED
  BY <1>3, <1>4

(* A greater number added to the set comes last. *)
LEMMA MemberAdded ==
  ASSUME NEW M \in Nat, NEW S \in SUBSET (0..M)
  PROVE  /\ Cardinality(S \cup {M + 1}) = Cardinality(S) + 1
         /\ Nth(S \cup {M + 1}, Cardinality(S) + 1) = M + 1
         /\ \A k \in 1..Cardinality(S) : Nth(S \cup {M + 1}, k) = Nth(S, k)
<1> DEFINE R == S \cup {M + 1}
<1>1. M + 1 \in Nat /\ R \in SUBSET (0..M+1) /\ M + 1 \notin S /\ M + 1 \in R
  OBVIOUS
<1>2. Cardinality(R) = Cardinality(S) + 1
  <2>1. IsFiniteSet(S)
    BY UptoFinite
  <2> QED
    BY <1>1, <2>1, FS_AddElement
<1>3. Nth(R, Cardinality(S) + 1) = M + 1
  <2>1. \A y \in R : y <= M + 1
    OBVIOUS
  <2> HIDE DEF R
  <2>2. Upto(R, M + 1) = R
    BY <2>1 DEF Upto
  <2> QED
    BY <1>1, <1>2, <2>2, NthIs
<1>4. ASSUME NEW k \in 1..Cardinality(S) PROVE Nth(R, k) = Nth(S, k)
  <2> DEFINE x == Nth(S, k)
  <2>1. x \in S /\ Cardinality(Upto(S, x)) = k
    BY NthIn
  <2> HIDE DEF x
  <2>2. Upto(R, x) = Upto(S, x) /\ x \in R
    <3>1. x \in Nat /\ x <= M
      BY <2>1
    <3>2. ~(M + 1 <= x)
      BY <3>1
    <3> QED
      BY <2>1, <3>2 DEF Upto
  <2> HIDE DEF R
  <2>3. Nth(R, k) = x
    BY <1>1, <2>1, <2>2, NthIs
  <2> QED
    BY <2>3 DEF x
<1> QED
  BY <1>2, <1>3, <1>4

(* Moving a set moves its members and keeps their number. *)
Shifted(S, R, d) ==
  (\A x \in S : x + d \in R) /\ (\A y \in R : \E x \in S : y = x + d)

LEMMA Moved ==
  ASSUME NEW M, M \in Nat, NEW S, S \in SUBSET (0..M), NEW d, d \in Nat,
         NEW R, Shifted(S, R, d)
  PROVE  /\ Cardinality(R) = Cardinality(S)
         /\ \A k \in 1..Cardinality(S) : Nth(R, k) = Nth(S, k) + d
<1>1. (\A x \in S : x + d \in R) /\ (\A y \in R : \E x \in S : y = x + d)
  BY DEF Shifted
<1>2. ASSUME NEW U \in SUBSET S
      PROVE  Cardinality({x + d : x \in U}) = Cardinality(U)
  <2> DEFINE V == {x + d : x \in U}
             f == [x \in U |-> x + d]
  <2>1. f \in [U -> V] /\ (\A y \in V : \E x \in U : f[x] = y)
    OBVIOUS
  <2>2. \A x, y \in U : f[x] = f[y] => x = y
    OBVIOUS
  <2> HIDE DEF f, V
  <2>3. f \in Bijection(U, V)
    BY <2>1, <2>2 DEF Bijection, Injection, Surjection, IsInjective
  <2>4. ExistsBijection(U, V)
    BY <2>3 DEF ExistsBijection
  <2>5. IsFiniteSet(U)
    BY UptoFinite, FS_Subset
  <2>6. Cardinality(V) = Cardinality(U)
    BY <2>4, <2>5, FS_Bijection
  <2> QED
    BY <2>6 DEF V
<1>3. Cardinality(R) = Cardinality(S)
  <2>1. R = {x + d : x \in S}
    BY <1>1
  <2> QED
    BY <1>2, <2>1
<1>4. R \in SUBSET (0..M+d) /\ M + d \in Nat
  BY <1>1
<1>5. ASSUME NEW k \in 1..Cardinality(S) PROVE Nth(R, k) = Nth(S, k) + d
  <2> DEFINE y == Nth(S, k)
  <2>1. y \in S /\ Cardinality(Upto(S, y)) = k
    BY NthIn
  <2> HIDE DEF y
  <2>2. Upto(R, y + d) = {x + d : x \in Upto(S, y)}
    <3>1. \A x \in S : x + d <= y + d <=> x <= y
      BY <2>1
    <3>2. \A z : z \in Upto(R, y + d) <=> \E x \in Upto(S, y) : z = x + d
      BY <1>1, <3>1 DEF Upto
    <3> QED
      BY <3>2
  <2>3. Cardinality(Upto(R, y + d)) = k
    <3>1. Upto(S, y) \in SUBSET S
      BY UptoFinite
    <3> QED
      BY <1>2, <2>1, <2>2, <3>1
  <2>4. y + d \in R
    BY <1>1, <2>1
  <2>5. Nth(R, k) = y + d
    BY <1>4, <2>3, <2>4, NthIs
  <2> QED
    BY <2>5 DEF y
<1> QED
  BY <1>3, <1>4, <1>5
-----------------------------------------------------------------------------
(* A file as fgets meets it. *)
Settled ==
  /\ text \in Seq(Char) /\ queryLength \in Nat \ {0} /\ ignoreCase \in BOOLEAN
  /\ \A p \in DOMAIN text : text[p] = CR => p < Len(text) /\ text[p+1] = NL

LEMMA SettledText ==
  Settled => Len(text) \in Nat /\ \A p \in 1..Len(text) : text[p] \in Char
  BY DEF Settled

(* fgets stops where it should, and gets somewhere unless it is at the end. *)
LEMMA StopIs ==
  ASSUME Settled, NEW p \in 0..Len(text)
  PROVE  /\ Stop(p) \in p..Len(text) /\ Stop(p) <= p + Room
         /\ Stop(p) = p + Room \/ Stop(p) = Len(text) \/ (Stop(p) > p /\ text[Stop(p)] = NL)
         /\ \A r \in p+1..Stop(p)-1 : text[r] # NL
         /\ p < Len(text) => Stop(p) > p
<1>1. Len(text) \in Nat /\ Room \in Nat /\ Room > 0
  BY SettledText, LengthsAssumption DEF Room
<1> DEFINE P(q) == q = p + Room \/ q = Len(text) \/ (q > p /\ text[q] = NL)
           T == {q \in p..Len(text) : P(q)}
<1>2. PICK m \in T : \A y \in T : m <= y
  <2>1. T \subseteq Nat /\ Len(text) \in T
    BY <1>1
  <2> HIDE DEF T
  <2> QED
    BY <2>1, LeastNumber
<1>3. m <= p + Room
  <2>1. CASE p + Room <= Len(text)
    <3>1. p + Room \in T
      BY <1>1, <2>1
    <3> QED
      BY <1>2, <3>1
  <2>2. CASE ~(p + Room <= Len(text))
    BY <1>1, <2>2
  <2> QED
    BY <2>1, <2>2
<1>4. ASSUME NEW r \in p+1..m-1 PROVE text[r] # NL
  <2>1. r \notin T
    BY <1>1, <1>2
  <2>2. r \in p..Len(text) /\ r > p
    BY <1>1
  <2> QED
    BY <2>1, <2>2
<1>5. m \in p..Len(text) /\ P(m) /\ m <= p + Room /\ \A r \in p+1..m-1 : text[r] # NL
  BY <1>3, <1>4
<1>6. /\ Stop(p) \in p..Len(text) /\ P(Stop(p)) /\ Stop(p) <= p + Room
      /\ \A r \in p+1..Stop(p)-1 : text[r] # NL
  BY <1>5 DEF Stop
<1>7. p < Len(text) => Stop(p) > p
  BY <1>1, <1>6
<1> QED
  BY <1>6, <1>7

(* A line that is not dropped ends where there is no room or with a newline. *)
LEMMA Delivered ==
  ASSUME Settled, NEW p \in 0..Len(text), ~MeetsEnd(p)
  PROVE  /\ p < Len(text) /\ Stop(p) \in p+1..Len(text) /\ Stop(p) - p \in 1..TENK-1
         /\ Stop(p) = p + Room \/ text[Stop(p)] = NL
         /\ \A r \in p+1..Stop(p)-1 : text[r] # NL
<1>1. Len(text) \in Nat /\ Room = TENK - 1 /\ TENK \in Nat
  BY SettledText, LengthsAssumption DEF Room
<1>2. p < Len(text)
  BY <1>1 DEF MeetsEnd
<1>3. /\ Stop(p) \in p..Len(text) /\ Stop(p) <= p + Room /\ Stop(p) > p
      /\ Stop(p) = p + Room \/ Stop(p) = Len(text) \/ text[Stop(p)] = NL
      /\ \A r \in p+1..Stop(p)-1 : text[r] # NL
  BY <1>2, StopIs
<1>4. Stop(p) = p + Room \/ text[Stop(p)] = NL
  <2>1. CASE Stop(p) = Len(text) /\ Stop(p) # p + Room
    <3>1. Stop(p) < p + Room
      BY <1>1, <1>3, <2>1
    <3> QED
      BY <2>1, <3>1 DEF MeetsEnd
  <2> QED
    BY <1>3, <2>1
<1> QED
  BY <1>1, <1>2, <1>3, <1>4
-----------------------------------------------------------------------------
(* What a file should contribute is defined by recursion from its end. *)
Piece(p) == IF IsQuery(p, Stop(p)) THEN <<QueryOf(p, Stop(p))>> ELSE <<>>

Owing(f) == [p \in 0..Len(text) |-> IF MeetsEnd(p) THEN <<>> ELSE Piece(p) \o f[Stop(p)]]

LEMMA OwedIs == Owed = CHOOSE f : f = Owing(f)
  BY DEF Owed, Owing, Piece

LEMMA OwedSolves ==
  ASSUME Settled
  PROVE  Owed = Owing(Owed)
<1>1. Len(text) \in Nat
  BY SettledText
<1> DEFINE L == Len(text)
           From(f, m) == \A p \in m..L :
                           f[p] = IF MeetsEnd(p) THEN <<>> ELSE Piece(p) \o f[Stop(p)]
           T == {m \in 0..L : \E f : From(f, m)}
<1>2. L \in T
  <2>1. MeetsEnd(L)
    BY DEF MeetsEnd
  <2>2. \A p \in L..L : p = L
    BY <1>1
  <2>3. From([p \in {L} |-> <<>>], L)
    BY <2>1, <2>2
  <2>4. \E f : From(f, L)
    <3> HIDE DEF From
    <3> QED
      BY <2>3
  <2> QED
    BY <1>1, <2>4
<1>3. PICK m \in T : \A y \in T : m <= y
  <2>1. T \subseteq Nat /\ T # {}
    BY <1>1, <1>2
  <2> HIDE DEF T
  <2> QED
    BY <2>1, LeastNumber
<1>4. PICK f : From(f, m)
  BY <1>3
<1>5. m = 0
  <2> SUFFICES ASSUME m # 0 PROVE FALSE
    OBVIOUS
  <2>1. m \in 1..L /\ m-1 \in 0..L /\ m-1 < m
    BY <1>1, <1>3
  <2> DEFINE v == IF MeetsEnd(m-1) THEN <<>> ELSE Piece(m-1) \o f[Stop(m-1)]
             g == [p \in m-1..L |-> IF p = m-1 THEN v ELSE f[p]]
  <2>2. ASSUME NEW p \in m-1..L, ~MeetsEnd(p) PROVE g[Stop(p)] = f[Stop(p)]
    <3>1. p \in 0..L
      BY <1>1, <2>1
    <3>2. Stop(p) \in p+1..L
      BY <2>2, <3>1, Delivered
    <3>3. Stop(p) \in m-1..L /\ Stop(p) # m-1
      BY <1>1, <2>1, <3>1, <3>2
    <3> QED
      BY <3>3
  <2>3. g[m-1] = v
    BY <1>1, <2>1
  <2>4. \A p \in m..L : g[p] = f[p]
    BY <1>1, <2>1
  <2>5. \A p \in m-1..L : p = m-1 \/ p \in m..L
    BY <1>1, <2>1
  <2>6. From(g, m-1)
    <3> SUFFICES ASSUME NEW p \in m-1..L
                 PROVE  g[p] = IF MeetsEnd(p) THEN <<>> ELSE Piece(p) \o g[Stop(p)]
      OBVIOUS
    <3> HIDE DEF g
    <3>1. CASE p = m-1
      BY <2>2, <2>3, <3>1
    <3>2. CASE p \in m..L
      BY <1>4, <2>2, <2>4, <3>2
    <3> QED
      BY <2>5, <3>1, <3>2
  <2>7. m-1 \in T
    <3> HIDE DEF From, g
    <3> QED
      BY <2>1, <2>6
  <2>8. m <= m-1
    <3> HIDE DEF T
    <3> QED
      BY <1>3, <2>7
  <2> QED
    BY <2>1, <2>8
<1>6. \E h : h = Owing(h)
  <2> DEFINE h == [p \in 0..L |-> f[p]]
  <2>1. \A p \in 0..L : f[p] = IF MeetsEnd(p) THEN <<>> ELSE Piece(p) \o f[Stop(p)]
    BY <1>4, <1>5
  <2>2. \A p \in 0..L : ~MeetsEnd(p) => h[Stop(p)] = f[Stop(p)]
    <3> SUFFICES ASSUME NEW p \in 0..L, ~MeetsEnd(p) PROVE Stop(p) \in 0..L
      OBVIOUS
    <3>1. Stop(p) \in p+1..L
      BY Delivered
    <3> QED
      BY <1>1, <3>1
  <2>3. h = [p \in 0..L |-> IF MeetsEnd(p) THEN <<>> ELSE Piece(p) \o h[Stop(p)]]
    <3>1. \A p \in 0..L : f[p] = IF MeetsEnd(p) THEN <<>> ELSE Piece(p) \o h[Stop(p)]
      BY <2>1, <2>2
    <3> QED
      BY <3>1
  <2> QED
    BY <2>3 DEF Owing
<1> QED
  BY <1>6, OwedIs

(* A query is a nonempty sequence, and a file contributes a sequence of queries. *)
AnyQuery == {QueryOf(p, Stop(p)) : p \in 0..Len(text)}

LEMMA OwedStep ==
  ASSUME Settled, NEW p \in 0..Len(text)
  PROVE  /\ MeetsEnd(p) => Owed[p] = <<>>
         /\ ~MeetsEnd(p) => Owed[p] = Piece(p) \o Owed[Stop(p)]
  BY OwedSolves DEF Owing

LEMMA OwedType ==
  ASSUME Settled, NEW p \in 0..Len(text)
  PROVE  Owed[p] \in Seq(AnyQuery)
<1>1. Len(text) \in Nat
  BY SettledText
<1> DEFINE L == Len(text)
           T == {m \in 0..L : \A y \in m..L : Owed[y] \in Seq(AnyQuery)}
<1>2. L \in T
  <2>1. MeetsEnd(L) /\ L \in 0..L
    BY <1>1 DEF MeetsEnd
  <2>2. Owed[L] = <<>>
    BY <2>1, OwedStep
  <2>3. \A y \in L..L : y = L
    BY <1>1
  <2>4. Owed[L] \in Seq(AnyQuery)
    BY <2>2
  <2>5. \A y \in L..L : Owed[y] \in Seq(AnyQuery)
    BY <2>3, <2>4
  <2> QED
    BY <2>1, <2>5
<1>3. PICK m \in T : \A y \in T : m <= y
  <2>1. T \subseteq Nat /\ T # {}
    BY <1>1, <1>2
  <2> HIDE DEF T
  <2> QED
    BY <2>1, LeastNumber
<1>4. m = 0
  <2> SUFFICES ASSUME m # 0 PROVE FALSE
    OBVIOUS
  <2>1. m \in 1..L /\ m-1 \in 0..L /\ m-1 < m
    BY <1>1, <1>3
  <2>2. Owed[m-1] \in Seq(AnyQuery)
    <3>1. CASE MeetsEnd(m-1)
      <4>1. Owed[m-1] = <<>>
        BY <2>1, <3>1, OwedStep
      <4> QED
        BY <4>1
    <3>2. CASE ~MeetsEnd(m-1)
      <4>1. Stop(m-1) \in m..L
        <5>1. Stop(m-1) \in (m-1)+1..L
          BY <2>1, <3>2, Delivered
        <5> QED
          BY <2>1, <5>1
      <4>2. Owed[Stop(m-1)] \in Seq(AnyQuery)
        BY <1>3, <4>1
      <4>3. Piece(m-1) \in Seq(AnyQuery)
        <5>1. QueryOf(m-1, Stop(m-1)) \in AnyQuery
          BY <2>1 DEF AnyQuery
        <5> QED
          BY <5>1 DEF Piece
      <4>4. Piece(m-1) \o Owed[Stop(m-1)] \in Seq(AnyQuery)
        BY <4>2, <4>3
      <4> QED
        BY <2>1, <3>2, <4>4, OwedStep
    <3> QED
      BY <3>1, <3>2
  <2>3. \A y \in m-1..L : y = m-1 \/ y \in m..L
    BY <1>1, <2>1
  <2>4. m-1 \in T
    BY <1>3, <2>1, <2>2, <2>3
  <2>5. m <= m-1
    <3> HIDE DEF T
    <3> QED
      BY <1>3, <2>4
  <2> QED
    BY <2>1, <2>5
<1> QED
  BY <1>3, <1>4
-----------------------------------------------------------------------------
(* All of this depends on the settings only. *)
LEMMA SameStop ==
  ASSUME UNCHANGED settings
  PROVE  /\ \A p : Stop(p)' = Stop(p)
         /\ \A p : MeetsEnd(p)' <=> MeetsEnd(p)
         /\ Settled' <=> Settled
<1>1. text' = text /\ queryLength' = queryLength /\ ignoreCase' = ignoreCase
  BY DEF settings
<1>2. \A p : Stop(p)' = Stop(p)
  BY <1>1 DEF Stop
<1> QED
  BY <1>1, <1>2 DEF MeetsEnd, Settled

LEMMA SamePiece ==
  ASSUME UNCHANGED settings
  PROVE  \A p : Piece(p)' = Piece(p)
<1>1. text' = text /\ queryLength' = queryLength /\ ignoreCase' = ignoreCase
  BY DEF settings
<1>2. \A p, q : TokenStarts(p, q)' = TokenStarts(p, q) /\ TokenAt(p, q)' = TokenAt(p, q)
  BY <1>1 DEF TokenStarts, TokenAt
<1>3. \A p, q : (IsQuery(p, q)' <=> IsQuery(p, q)) /\ QueryOf(p, q)' = QueryOf(p, q)
  <2>1. \A w : Read(w)' = Read(w)
    BY <1>1 DEF Read, Simplified
  <2>2. \A p, q : QueryOf(p, q)' = QueryOf(p, q)
    BY <1>1, <1>2, <2>1 DEF QueryOf
  <2> QED
    BY <1>1, <1>2, <2>2 DEF IsQuery
<1> QED
  BY <1>3, SameStop DEF Piece

LEMMA SameOwed ==
  ASSUME UNCHANGED settings
  PROVE  Owed' = Owed
<1>1. text' = text
  BY DEF settings
<1>2. \A f : Owing(f)' = Owing(f)
  BY <1>1, SameStop, SamePiece DEF Owing
<1>3. Owed = CHOOSE f : f = Owing(f)
  BY OwedIs
<1>4. Owed' = CHOOSE f : f = Owing(f)'
  BY DEF Owed, Owing, Piece
<1> QED
  BY <1>2, <1>3, <1>4
-----------------------------------------------------------------------------
(* The buffer, as cleanline and its caller look at it. *)
LEMMA BeginIs ==
  ASSUME linebuf \in Buffer, NEW c \in Cells, linebuf[c] \notin newline
  PROVE  /\ Begin \in Cells /\ linebuf[Begin] \notin newline
         /\ \A q \in 0..Begin-1 : linebuf[q] \in newline
<1>1. TENK \in Nat
  BY LengthsAssumption
<1> DEFINE T == {p \in Cells : linebuf[p] \notin newline}
<1>2. PICK m \in T : \A y \in T : m <= y
  <2>1. T \subseteq Nat /\ c \in T
    BY <1>1 DEF Cells
  <2> HIDE DEF T
  <2> QED
    BY <2>1, LeastNumber
<1>3. ASSUME NEW q \in 0..m-1 PROVE linebuf[q] \in newline
  <2>1. q \in Cells /\ ~(m <= q)
    BY <1>1, <1>2 DEF Cells
  <2> QED
    BY <1>2, <2>1
<1> QED
  BY <1>2, <1>3 DEF Begin

LEMMA BeginWhere ==
  ASSUME linebuf \in Buffer, NEW c \in Cells, linebuf[c] \notin newline,
         \A q \in 0..c-1 : linebuf[q] \in newline
  PROVE  Begin = c
<1>1. /\ Begin \in Cells /\ linebuf[Begin] \notin newline
      /\ \A q \in 0..Begin-1 : linebuf[q] \in newline
  BY BeginIs
<1>2. TENK \in Nat
  BY LengthsAssumption
<1>3. c < Begin \/ Begin < c \/ Begin = c
  BY <1>1, <1>2 DEF Cells
<1>4. ASSUME c < Begin PROVE FALSE
  <2>1. c \in 0..Begin-1
    BY <1>1, <1>2, <1>4 DEF Cells
  <2> QED
    BY <1>1, <2>1
<1>5. ASSUME Begin < c PROVE FALSE
  <2>1. Begin \in 0..c-1
    BY <1>1, <1>2, <1>5 DEF Cells
  <2> QED
    BY <1>1, <2>1
<1> QED
  BY <1>3, <1>4, <1>5

LEMMA EndIs ==
  ASSUME linebuf \in Buffer, NEW c \in Cells, linebuf[c] \notin newline
  PROVE  /\ End \in Begin+1..TENK /\ (End < TENK => linebuf[End] \in newline)
         /\ \A q \in Begin..End-1 : linebuf[q] \notin newline
<1>1. TENK \in Nat
  BY LengthsAssumption
<1>2. Begin \in Cells /\ linebuf[Begin] \notin newline
  BY BeginIs
<1> DEFINE T == {p \in Begin..TENK : p < TENK => linebuf[p] \in newline}
<1>3. PICK m \in T : \A y \in T : m <= y
  <2>1. T \subseteq Nat /\ TENK \in T
    BY <1>1, <1>2 DEF Cells
  <2> HIDE DEF T
  <2> QED
    BY <2>1, LeastNumber
<1>4. ASSUME NEW q \in Begin..m-1 PROVE linebuf[q] \notin newline
  <2>1. q \in Begin..TENK /\ ~(m <= q)
    BY <1>1, <1>2, <1>3 DEF Cells
  <2> QED
    BY <1>3, <2>1
<1>5. /\ End \in Begin..TENK /\ (End < TENK => linebuf[End] \in newline)
      /\ \A q \in Begin..End-1 : linebuf[q] \notin newline
  BY <1>3, <1>4 DEF End
<1>6. End # Begin
  BY <1>1, <1>2, <1>5 DEF Cells
<1> QED
  BY <1>1, <1>2, <1>5, <1>6 DEF Cells

LEMMA EndWhere ==
  ASSUME linebuf \in Buffer, NEW c \in Cells, linebuf[c] \notin newline,
         NEW e \in Begin..TENK, e < TENK => linebuf[e] \in newline,
         \A q \in Begin..e-1 : linebuf[q] \notin newline
  PROVE  End = e
<1>1. /\ End \in Begin+1..TENK /\ (End < TENK => linebuf[End] \in newline)
      /\ \A q \in Begin..End-1 : linebuf[q] \notin newline
  BY EndIs
<1>2. TENK \in Nat /\ Begin \in Nat
  BY BeginIs, LengthsAssumption DEF Cells
<1>3. e < End \/ End < e \/ End = e
  BY <1>1, <1>2
<1>4. ASSUME e < End PROVE FALSE
  <2>1. e \in Begin..End-1 /\ e < TENK
    BY <1>1, <1>2, <1>4
  <2> QED
    BY <1>1, <2>1
<1>5. ASSUME End < e PROVE FALSE
  <2>1. End \in Begin..e-1 /\ End < TENK
    BY <1>1, <1>2, <1>5
  <2> QED
    BY <1>1, <2>1
<1> QED
  BY <1>3, <1>4, <1>5

LEMMA StartsType ==
  ASSUME linebuf \in Buffer, NEW c \in Cells, linebuf[c] \notin newline
  PROVE  /\ Starts \in SUBSET (0..TENK-1) /\ TENK - 1 \in Nat
         /\ Cardinality(Starts) \in 0..TENK
         /\ tokens \in Seq(Cells) /\ Len(tokens) = Cardinality(Starts)
<1>1. TENK \in Nat \ {0} /\ Begin \in Cells /\ End \in Begin+1..TENK
  BY BeginIs, EndIs, LengthsAssumption
<1>2. Starts \in SUBSET (0..TENK-1) /\ TENK - 1 \in Nat
  BY <1>1 DEF Starts, Cells
<1>3. Cardinality(Starts) \in Nat /\ Cardinality(Starts) <= TENK
  <2>1. IsFiniteSet(0..TENK-1) /\ Cardinality(0..TENK-1) = TENK
    <3>1. TENK - 1 \in Int /\ ~(0 > TENK - 1) /\ TENK - 1 - 0 + 1 = TENK
      BY <1>1
    <3> QED
      BY <3>1, FS_Interval
  <2> QED
    BY <1>2, <2>1, FS_Subset, FS_CardinalityType
<1>4. tokens \in Seq(Starts) /\ Len(tokens) = Cardinality(Starts)
  BY <1>2, InOrderType DEF tokens
<1>5. Starts \subseteq Cells
  BY <1>2 DEF Cells
<1>6. tokens \in Seq(Cells)
  BY <1>4, <1>5
<1> QED
  BY <1>1, <1>2, <1>3, <1>4, <1>6

(* A string ends with the first NUL. *)
Ended(s, e) ==
  /\ e < TENK => linebuf[e] = NUL
  /\ \A q \in s..e-1 : linebuf[q] # NUL

StringsEnd == \A s \in Cells : \E e \in s..TENK :
                Ended(s, e) /\ String(s) = [k \in 1..e - s |-> linebuf[s + k - 1]]

LEMMA StringEnds == StringsEnd
<1> SUFFICES ASSUME NEW s \in Cells
             PROVE  \E e \in s..TENK :
                      Ended(s, e) /\ String(s) = [k \in 1..e - s |-> linebuf[s + k - 1]]
  BY DEF StringsEnd
<1>1. TENK \in Nat /\ s \in Nat /\ s < TENK
  BY LengthsAssumption DEF Cells
<1> DEFINE T == {p \in s..TENK : p < TENK => linebuf[p] = NUL}
<1>2. PICK m \in T : \A y \in T : m <= y
  <2>1. T \subseteq Nat /\ TENK \in T
    BY <1>1
  <2> HIDE DEF T
  <2> QED
    BY <2>1, LeastNumber
<1>3. ASSUME NEW q \in s..m-1 PROVE linebuf[q] # NUL
  <2>1. q \in s..TENK /\ ~(m <= q)
    BY <1>1, <1>2
  <2> QED
    BY <1>2, <2>1
<1>4. m \in s..TENK /\ Ended(s, m)
  BY <1>2, <1>3 DEF Ended
<1> DEFINE e == CHOOSE p \in s..TENK : Ended(s, p)
<1>5. e \in s..TENK /\ Ended(s, e)
  BY <1>4
<1>6. String(s) = [k \in 1..e - s |-> linebuf[s + k - 1]]
  BY DEF String, Ended
<1> QED
  BY <1>5, <1>6

(* A letter becomes a letter, and nothing else changes. *)
LEMMA SimplifiedIs ==
  ASSUME NEW ch
  PROVE  /\ ch \in Letters => Simplified(ch) \in Letters
         /\ ch \notin Letters => Simplified(ch) = ch
BY LowerAssumption DEF Simplified

(* What a line becomes that is cut: a token ends where its letters do. *)
LEMMA CutEnds ==
  ASSUME linebuf \in Buffer, NEW c \in Cells, linebuf[c] \notin newline, Complete,
         linebuf' = Cut, NEW s \in Starts
  PROVE  \E e \in s..End :
           /\ \A q \in s..e-1 : linebuf[q] \in Letters
           /\ linebuf[e] \notin Letters
           /\ String(s)' = [k \in 1..e - s |-> Simplified(linebuf[s + k - 1])]
<1>1. /\ TENK \in Nat /\ Begin \in Nat /\ End \in Begin+1..TENK /\ End < TENK
      /\ linebuf[End] \in newline
  BY BeginIs, EndIs, LengthsAssumption DEF Cells, Complete
<1>2. s \in Begin..End-1 /\ s \in Cells
  BY <1>1 DEF Starts, Cells
<1>3. StringsEnd'
  BY StringEnds, PTL
<1>4. PICK e \in s..TENK :
        Ended(s, e)' /\ String(s)' = [k \in 1..e - s |-> linebuf'[s + k - 1]]
  BY <1>2, <1>3 DEF StringsEnd
<1>5. \A q \in Cells : q \in Begin..End /\ linebuf[q] \in {SP} \cup newline => linebuf'[q] = NUL
  BY DEF Cut
<1>6. \A q \in Cells :
        q \in Begin..End /\ linebuf[q] \notin {SP} \cup newline
          => linebuf'[q] = Simplified(linebuf[q])
  BY DEF Cut
<1>7. e \in s..End
  <2> SUFFICES ASSUME End < e PROVE FALSE
    BY <1>1, <1>2
  <2>1. End \in Cells /\ End \in Begin..End /\ End \in s..e-1
    BY <1>1, <1>2 DEF Cells
  <2>2. linebuf'[End] = NUL
    BY <1>1, <1>5, <2>1
  <2> QED
    BY <1>4, <2>1, <2>2 DEF Ended
<1>8. ASSUME NEW q \in s..e-1
      PROVE  linebuf[q] \in Letters /\ linebuf'[q] = Simplified(linebuf[q])
  <2>1. q \in Cells /\ q \in Begin..End
    BY <1>1, <1>2, <1>7 DEF Cells
  <2>2. linebuf'[q] # NUL
    BY <1>4 DEF Ended
  <2>3. linebuf[q] \notin {SP} \cup newline /\ linebuf'[q] = Simplified(linebuf[q])
    BY <1>5, <1>6, <2>1, <2>2
  <2>4. linebuf[q] \in Char \cup {NUL}
    BY <2>1 DEF Buffer
  <2>5. linebuf[q] # NUL
    BY <2>2, <2>3, LettersAssumption, SimplifiedIs
  <2> QED
    BY <2>3, <2>4, <2>5 DEF Char, newline
<1>9. linebuf[e] \notin Letters
  <2>1. e \in Cells /\ e < TENK /\ e \in Begin..End
    BY <1>1, <1>2, <1>7 DEF Cells
  <2>2. linebuf'[e] = NUL
    BY <1>4, <2>1 DEF Ended
  <2> SUFFICES ASSUME linebuf[e] \in Letters PROVE FALSE
    OBVIOUS
  <2>3. linebuf[e] \notin {SP} \cup newline
    BY LettersAssumption DEF newline
  <2>4. linebuf'[e] \in Letters
    BY <1>6, <2>1, <2>3, SimplifiedIs
  <2> QED
    BY <2>2, <2>4, LettersAssumption
<1>10. String(s)' = [k \in 1..e - s |-> Simplified(linebuf[s + k - 1])]
  <2>1. \A k \in 1..e-s : s + k - 1 \in s..e-1
    BY <1>1, <1>2, <1>7
  <2>2. \A k \in 1..e-s : linebuf'[s+k-1] = Simplified(linebuf[s+k-1])
    BY <1>8, <2>1
  <2> QED
    BY <1>4, <2>2
<1> QED
  BY <1>7, <1>8, <1>9, <1>10

(* What comes of it is a sequence of letters. *)
LEMMA CutStrings ==
  ASSUME linebuf \in Buffer, NEW c \in Cells, linebuf[c] \notin newline, Complete,
         linebuf' = Cut, NEW s \in Starts
  PROVE  String(s)' \in Seq(Letters)
<1>1. TENK \in Nat /\ Begin \in Nat /\ End \in Begin+1..TENK
  BY BeginIs, EndIs, LengthsAssumption DEF Cells
<1>2. s \in Nat
  BY <1>1 DEF Starts
<1>3. PICK e \in s..End : /\ \A q \in s..e-1 : linebuf[q] \in Letters
                          /\ String(s)' = [k \in 1..e - s |-> Simplified(linebuf[s + k - 1])]
  BY CutEnds
<1>4. \A k \in 1..e-s : s + k - 1 \in s..e-1
  BY <1>1, <1>2
<1>5. e - s \in Nat
  BY <1>1, <1>2
<1>6. \A k \in 1..e-s : Simplified(linebuf[s + k - 1]) \in Letters
  BY <1>3, <1>4, SimplifiedIs
<1> QED
  BY <1>3, <1>5, <1>6
-----------------------------------------------------------------------------
(* The buffer holds what fgets read that started behind p. *)
Holds(p) ==
  /\ p \in 0..Len(text) /\ ~MeetsEnd(p) /\ at = Stop(p)
  /\ \A c \in 0..at-p-1 : linebuf[c] = text[p+c+1]
  /\ linebuf[at-p] = NUL

LEMMA HoldsWhat ==
  ASSUME Settled, NEW p, Holds(p)
  PROVE  /\ p \in Nat /\ at \in p+1..Len(text) /\ Len(text) \in Nat
         /\ at - p \in Cells /\ linebuf[at-p] \notin newline
         /\ \A a \in p+1..at : text[a] = linebuf[a-p-1] /\ text[a] \in Char
         /\ at - p = TENK - 1 \/ text[at] = NL
         /\ \A a \in p+1..at-1 : text[a] # NL
<1>1. TENK \in Nat \ {0} /\ Room = TENK - 1 /\ Len(text) \in Nat
  BY SettledText, LengthsAssumption DEF Room
<1>2. /\ p \in 0..Len(text) /\ at \in p+1..Len(text) /\ at - p \in 1..TENK-1
      /\ at = p + Room \/ text[at] = NL
      /\ \A a \in p+1..at-1 : text[a] # NL
  BY Delivered DEF Holds
<1>3. linebuf[at-p] \notin newline
  BY DEF Holds, newline, NUL, NL, CR
<1>4. ASSUME NEW a \in p+1..at PROVE text[a] = linebuf[a-p-1] /\ text[a] \in Char
  <2>1. a-p-1 \in 0..at-p-1 /\ p + (a-p-1) + 1 = a /\ a \in 1..Len(text)
    BY <1>1, <1>2
  <2> QED
    BY <2>1, SettledText DEF Holds
<1> QED
  BY <1>1, <1>2, <1>3, <1>4 DEF Cells

(* A carriage return is followed by its newline, if fgets has room for it. *)
LEMMA AfterReturn ==
  ASSUME Settled, NEW p, Holds(p), NEW a \in p+1..at, text[a] \in newline
  PROVE  a = at \/ (a + 1 = at /\ text[at] = NL)
<1>1. /\ p \in Nat /\ at \in p+1..Len(text) /\ Len(text) \in Nat
      /\ \A b \in p+1..at-1 : text[b] # NL
  BY HoldsWhat
<1> SUFFICES ASSUME a # at PROVE a + 1 = at /\ text[at] = NL
  OBVIOUS
<1>2. a \in p+1..at-1 /\ a \in 1..Len(text)
  BY <1>1
<1>3. text[a+1] = NL
  BY <1>1, <1>2 DEF Settled, newline
<1>4. a + 1 \notin p+1..at-1
  BY <1>1, <1>3
<1>5. a + 1 = at
  BY <1>1, <1>2, <1>4
<1> QED
  BY <1>3, <1>5

(* A blank line is no query, and what cleanline finds begins with the NUL. *)
LEMMA BlankLine ==
  ASSUME Settled, linebuf \in Buffer, NEW p, Holds(p), text[p+1] \in newline
  PROVE  /\ ~IsQuery(p, at)
         /\ Begin \in Starts /\ tokens[1] = Begin /\ linebuf[Begin] = NUL
<1>1. /\ p \in Nat /\ at \in p+1..Len(text) /\ at - p \in Cells /\ linebuf[at-p] \notin newline
      /\ \A a \in p+1..at : text[a] = linebuf[a-p-1]
  BY HoldsWhat
<1>2. \A a \in p+1..at : text[a] \in newline
  <2>1. at = p + 1 \/ (at = p + 2 /\ text[at] = NL)
    BY <1>1, AfterReturn
  <2>2. \A a \in p+1..at : a = p + 1 \/ (a = at /\ text[at] = NL)
    BY <1>1, <2>1
  <2> QED
    BY <2>2 DEF newline
<1>3. Begin = at - p
  <2>1. ASSUME NEW q \in 0..at-p-1 PROVE linebuf[q] \in newline
    <3>1. p + q + 1 \in p+1..at /\ (p + q + 1) - p - 1 = q
      BY <1>1
    <3> QED
      BY <1>1, <1>2, <3>1
  <2> QED
    BY <1>1, <2>1, BeginWhere
<1>4. TENK \in Nat /\ End \in Begin+1..TENK /\ Begin \in Nat
  BY <1>1, BeginIs, EndIs, LengthsAssumption DEF Cells
<1>5. Begin \in Starts
  <2>1. linebuf[Begin] = NUL
    BY <1>3 DEF Holds
  <2>2. linebuf[Begin] # SP
    BY <2>1 DEF SP, NUL
  <2>3. Begin \in Begin..End-1
    BY <1>4
  <2> QED
    BY <2>2, <2>3 DEF Starts
<1>6. Nth(Starts, 1) = Begin /\ 1 \in 1..Cardinality(Starts)
  <2>1. \A y \in Starts : Begin <= y
    BY <1>4 DEF Starts
  <2>2. Starts \in SUBSET (0..TENK-1) /\ TENK - 1 \in Nat
    BY <1>1, StartsType
  <2> QED
    BY <1>5, <2>1, <2>2, FirstIsLeast
<1>7. tokens[1] = Begin
  BY <1>6 DEF tokens, InOrder
<1>8. ~IsQuery(p, at)
  <2>1. TokenStarts(p, at) = {}
    BY <1>2, LettersAssumption DEF TokenStarts, newline
  <2>2. Cardinality(TokenStarts(p, at)) = 0
    BY <2>1, FS_EmptySet
  <2> QED
    BY <2>2 DEF IsQuery, Settled
<1> QED
  BY <1>3, <1>5, <1>7, <1>8 DEF Holds

(* A line without an end is not complete. *)
LEMMA NoEnd ==
  ASSUME Settled, linebuf \in Buffer, NEW p, Holds(p), text[at] \notin newline
  PROVE  ~Complete /\ ~IsQuery(p, at)
<1>1. /\ p \in Nat /\ at \in p+1..Len(text) /\ at - p \in Cells /\ linebuf[at-p] \notin newline
      /\ \A a \in p+1..at : text[a] = linebuf[a-p-1]
      /\ at - p = TENK - 1
  BY HoldsWhat DEF newline
<1>2. TENK \in Nat
  BY LengthsAssumption
<1>3. \A a \in p+1..at : text[a] \notin newline
  BY AfterReturn DEF newline
<1>4. ASSUME NEW q \in Cells PROVE linebuf[q] \notin newline
  <2>1. CASE q = at - p
    BY <1>1, <2>1
  <2>2. CASE q # at - p
    <3>1. p + q + 1 \in p+1..at /\ (p + q + 1) - p - 1 = q
      BY <1>1, <1>2, <2>2 DEF Cells
    <3> QED
      BY <1>1, <1>3, <3>1
  <2> QED
    BY <2>1, <2>2
<1>5. Begin \in Cells
  BY <1>1, BeginIs
<1>6. TENK \in Begin..TENK /\ \A q \in Begin..TENK-1 : q \in Cells
  BY <1>2, <1>5 DEF Cells
<1>7. End = TENK
  BY <1>1, <1>2, <1>4, <1>6, EndWhere
<1> QED
  BY <1>2, <1>7 DEF Complete, IsQuery

(* In a line with an end the tokens in the buffer are those of the file. *)
LEMMA TokenAtIs ==
  ASSUME Settled, NEW q \in 1..Len(text), NEW a \in 1..q, NEW b \in a..q,
         \A c \in a..b : text[c] \in Letters, b = q \/ text[b+1] \notin Letters
  PROVE  TokenAt(a, q) = SubSeq(text, a, b)
<1> DEFINE P(d) == (\A c \in a..d : text[c] \in Letters) /\ (d = q \/ text[d+1] \notin Letters)
<1>1. q \in Nat /\ a \in Nat /\ b \in Nat
  BY SettledText
<1>2. ASSUME NEW d \in a..q, P(d) PROVE d = b
  <2>1. d < b \/ b < d \/ d = b
    BY <1>1
  <2>2. ASSUME d < b PROVE FALSE
    <3>1. d + 1 \in a..b /\ d # q
      BY <1>1, <2>2
    <3> QED
      BY <1>2, <3>1
  <2>3. ASSUME b < d PROVE FALSE
    <3>1. b + 1 \in a..d /\ b # q
      BY <1>1, <2>3
    <3> QED
      BY <1>2, <3>1
  <2> QED
    BY <2>1, <2>2, <2>3
<1>3. b = CHOOSE d \in a..q : P(d)
  <2> HIDE DEF P
  <2>1. P(b)
    BY DEF P
  <2> QED
    BY <1>2, <2>1
<1> QED
  BY <1>3 DEF TokenAt

LEMMA TokenIs ==
  ASSUME Settled, NEW p, Holds(p), text[p+1] \notin newline, text[at] \in newline,
         linebuf \in Buffer
  PROVE  /\ Begin = 0 /\ End \in 1..at-p-1 /\ Complete
         /\ \A c \in 0..End-1 : linebuf[c] \in Letters \cup {SP}
         /\ \A c \in End..at-p-1 : linebuf[c] \in newline
<1>1. /\ p \in Nat /\ at \in p+1..Len(text) /\ at - p \in Cells /\ linebuf[at-p] \notin newline
      /\ \A a \in p+1..at : text[a] = linebuf[a-p-1] /\ text[a] \in Char
  BY HoldsWhat
<1>2. TENK \in Nat /\ 0 \in Cells
  BY LengthsAssumption DEF Cells
<1>3. ASSUME NEW c \in 0..at-p-1
      PROVE  p+c+1 \in p+1..at /\ linebuf[c] = text[p+c+1] /\ text[p+c+1] \in Char
  <2>1. p+c+1 \in p+1..at /\ (p+c+1)-p-1 = c
    BY <1>1
  <2> QED
    BY <1>1, <2>1
<1>4. Begin = 0
  <2>1. linebuf[0] \notin newline
    <3>1. 0 \in 0..at-p-1 /\ p+0+1 = p+1
      BY <1>1
    <3> QED
      BY <1>3, <3>1
  <2>2. \A q \in 0..0-1 : linebuf[q] \in newline
    OBVIOUS
  <2> QED
    BY <1>2, <2>1, <2>2, BeginWhere
<1>5. /\ End \in 1..TENK /\ (End < TENK => linebuf[End] \in newline)
      /\ \A q \in 0..End-1 : linebuf[q] \notin newline
  BY <1>1, <1>4, EndIs
<1>6. End \in 1..at-p-1
  <2>1. at-p-1 \in 0..at-p-1 /\ p+(at-p-1)+1 = at
    BY <1>1
  <2>2. linebuf[at-p-1] \in newline
    BY <1>3, <2>1
  <2>3. at-p-1 \notin 0..End-1
    BY <1>5, <2>2
  <2> QED
    BY <1>1, <1>5, <2>3
<1>7. End < TENK
  BY <1>1, <1>2, <1>6 DEF Cells
<1>8. ASSUME NEW c \in 0..End-1 PROVE linebuf[c] \in Letters \cup {SP}
  <2>1. c \in 0..at-p-1
    BY <1>1, <1>6
  <2> QED
    BY <1>3, <1>5, <2>1 DEF Char, newline
<1>9. ASSUME NEW c \in End..at-p-1 PROVE linebuf[c] \in newline
  <2>1. End \in 0..at-p-1 /\ c \in 0..at-p-1
    BY <1>1, <1>6
  <2>2. text[p+End+1] \in newline /\ p+End+1 \in p+1..at
    BY <1>3, <1>5, <1>7, <2>1
  <2>3. p+End+1 = at \/ (p+End+1+1 = at /\ text[at] = NL)
    BY <2>2, AfterReturn
  <2>4. p+c+1 = p+End+1 \/ p+c+1 = at
    <3>1. /\ p \in Nat /\ c \in Nat /\ End \in Nat /\ at \in Nat
          /\ End <= c /\ p + c + 1 <= at /\ at <= p + End + 2
      BY <1>1, <1>6, <2>1, <2>3
    <3> QED
      BY <3>1
  <2> QED
    BY <1>3, <2>1, <2>2, <2>4
<1> QED
  BY <1>4, <1>6, <1>7, <1>8, <1>9 DEF Complete

LEMMA StartsAre ==
  ASSUME Settled, NEW p, Holds(p), text[p+1] \notin newline, text[at] \in newline,
         linebuf \in Buffer
  PROVE  /\ Cardinality(TokenStarts(p, at)) = Cardinality(Starts)
         /\ \A k \in 1..Cardinality(Starts) :
              Nth(TokenStarts(p, at), k) = Nth(Starts, k) + (p + 1)
<1>1. /\ p \in Nat /\ at \in p+1..Len(text) /\ at \in Nat
      /\ at - p \in Cells /\ linebuf[at-p] \notin newline
      /\ \A a \in p+1..at : text[a] = linebuf[a-p-1] /\ text[a] \in Char
  BY HoldsWhat
<1>2. /\ Begin = 0 /\ End \in 1..at-p-1
      /\ \A c \in 0..End-1 : linebuf[c] \in Letters \cup {SP}
      /\ \A c \in End..at-p-1 : linebuf[c] \in newline
  BY TokenIs
<1>3. \A c \in 0..End-1 : linebuf[c] # SP <=> linebuf[c] \in Letters
  BY <1>2, LettersAssumption
<1>4. \A c \in End..at-p-1 : linebuf[c] \notin Letters
  BY <1>2, LettersAssumption DEF newline
<1>5. ASSUME NEW c \in 0..at-p-1
      PROVE  c + (p+1) \in p+1..at /\ text[c + (p+1)] = linebuf[c]
  <2>1. c + (p+1) \in p+1..at /\ (c + (p+1))-p-1 = c
    BY <1>1
  <2> QED
    BY <1>1, <2>1
<1>6. ASSUME NEW s \in Starts PROVE s + (p+1) \in TokenStarts(p, at)
  <2> DEFINE a == s + (p+1)
  <2>1. s \in 0..End-1 /\ linebuf[s] # SP /\ (s = 0 \/ linebuf[s-1] = SP)
    BY <1>2 DEF Starts
  <2>2. s \in 0..at-p-1
    BY <1>1, <1>2, <2>1
  <2>3. a \in p+1..at /\ text[a] \in Letters
    BY <1>3, <1>5, <2>1, <2>2
  <2>4. s # 0 => (s-1 \in 0..at-p-1 /\ (s-1) + (p+1) = a-1)
    BY <1>1, <2>2
  <2>5. s = 0 => a = p+1
    BY <1>1
  <2> HIDE DEF a
  <2>6. s # 0 => text[a-1] \notin Letters
    <3>1. s # 0 => linebuf[s-1] \notin Letters
      BY <2>1, LettersAssumption
    <3> QED
      BY <1>5, <2>4, <3>1
  <2>7. a \in TokenStarts(p, at)
    BY <2>3, <2>5, <2>6 DEF TokenStarts
  <2> QED
    BY <2>7 DEF a
<1>7. ASSUME NEW a \in TokenStarts(p, at) PROVE a-p-1 \in Starts /\ a = (a-p-1) + (p+1)
  <2>1. a \in p+1..at /\ text[a] \in Letters /\ (a = p+1 \/ text[a-1] \notin Letters)
    BY DEF TokenStarts
  <2>2. a-p-1 \in 0..at-p-1 /\ a = (a-p-1) + (p+1)
    <3>1. a \in Nat /\ p \in Nat /\ at \in Nat /\ p+1 <= a /\ a <= at
      BY <1>1, <2>1
    <3> QED
      BY ONLY <3>1
  <2>3. linebuf[a-p-1] \in Letters
    BY <1>1, <2>1
  <2>4. a-p-1 \in 0..End-1
    BY <1>1, <1>2, <1>4, <2>2, <2>3
  <2>5. a-p-1 = 0 \/ linebuf[a-p-1-1] = SP
    <3>1. CASE a = p+1
      BY <1>1, <3>1
    <3>2. CASE a # p+1
      <4>1. a-1 \in p+1..at /\ (a-1)-p-1 = a-p-1-1 /\ a-p-1-1 \in 0..End-1
        <5>1. p \in Nat /\ at \in Nat /\ End \in Int /\ a \in p+1..at
          BY <1>1, <1>2, <2>1
        <5> QED
          BY <2>4, <3>2, <5>1
      <4>2. linebuf[a-p-1-1] \notin Letters
        BY <1>1, <2>1, <3>2, <4>1
      <4> QED
        BY <1>3, <4>1, <4>2
    <3> QED
      BY <3>1, <3>2
  <2>6. linebuf[a-p-1] # SP
    BY <2>3, LettersAssumption
  <2> QED
    BY <1>2, <2>2, <2>4, <2>5, <2>6 DEF Starts
<1>9. Starts \in SUBSET (0..TENK-1) /\ TENK - 1 \in Nat /\ p+1 \in Nat
  BY <1>1, StartsType
<1> DEFINE d == p + 1
           R == TokenStarts(p, at)
           M == TENK - 1
<1>10. Starts \in SUBSET (0..M) /\ M \in Nat /\ d \in Nat /\ Shifted(Starts, R, d)
  BY <1>6, <1>7, <1>9 DEF Shifted
<1> HIDE DEF d, R, M
<1>11. /\ Cardinality(R) = Cardinality(Starts)
       /\ \A k \in 1..Cardinality(Starts) : Nth(R, k) = Nth(Starts, k) + d
  BY <1>10, Moved
<1> QED
  BY <1>11 DEF d, R

LEMMA StringIsToken ==
  ASSUME Settled, NEW p, Holds(p), text[p+1] \notin newline, text[at] \in newline,
         linebuf \in Buffer, linebuf' = Cut, NEW s \in Starts
  PROVE  String(s)' = Read(TokenAt(s + (p+1), at)) /\ String(s)' # <<>>
<1>1. /\ p \in Nat /\ at \in p+1..Len(text) /\ at \in Nat /\ Len(text) \in Nat
      /\ at - p \in Cells /\ linebuf[at-p] \notin newline
      /\ \A a \in p+1..at : text[a] = linebuf[a-p-1] /\ text[a] \in Char
  BY HoldsWhat
<1>2. /\ Begin = 0 /\ End \in 1..at-p-1 /\ Complete
      /\ \A c \in 0..End-1 : linebuf[c] \in Letters \cup {SP}
  BY TokenIs
<1>3. PICK e \in s..End : /\ \A q \in s..e-1 : linebuf[q] \in Letters
                          /\ linebuf[e] \notin Letters
                          /\ String(s)' = [k \in 1..e - s |-> Simplified(linebuf[s + k - 1])]
  BY <1>1, <1>2, CutEnds
<1>4. s \in 0..End-1 /\ linebuf[s] \in Letters
  BY <1>2 DEF Starts
<1>5. e \in s+1..End
  BY <1>1, <1>2, <1>3, <1>4
<1> DEFINE a == s + (p+1)
           b == p + e
<1>6. a \in p+1..at /\ a \in 1..at /\ b \in a..at-1 /\ at \in 1..Len(text)
  BY SMTT(30), <1>1, <1>2, <1>4, <1>5
<1>7. ASSUME NEW d \in a..b PROVE text[d] \in Letters
  <2>1. d \in p+1..at /\ d-p-1 \in s..e-1
    BY <1>1, <1>4, <1>5, <1>6
  <2> QED
    BY <1>1, <1>3, <2>1
<1>8. text[b+1] \notin Letters
  <2>1. b+1 \in p+1..at /\ b+1-p-1 = e
    BY <1>1, <1>4, <1>5, <1>6
  <2> QED
    BY <1>1, <1>3, <2>1
<1>9. TokenAt(a, at) = SubSeq(text, a, b)
  <2> HIDE DEF a, b
  <2>1. b \in a..at
    BY <1>1, <1>6
  <2> QED
    BY <1>6, <1>7, <1>8, <2>1, TokenAtIs
<1>10. SubSeq(text, a, b) = [k \in 1..e - s |-> linebuf[s + k - 1]]
  <2>1. SubSeq(text, a, b) = [k \in 1..b-a+1 |-> text[a + k - 1]]
    <3>1. text \in Seq(Char) /\ a \in 1..Len(text) /\ b \in 1..Len(text) /\ a <= b
      BY <1>1, <1>6 DEF Settled
    <3> HIDE DEF a, b
    <3> QED
      BY <3>1
  <2>2. b-a+1 = e-s
    BY <1>1, <1>4, <1>5
  <2>3. ASSUME NEW k \in 1..e-s PROVE text[a+k-1] = linebuf[s+k-1]
    <3> DEFINE d == a+k-1
    <3>1. /\ s \in Nat /\ e \in Nat /\ End \in Int /\ p \in Nat /\ at \in Nat /\ k \in Nat
          /\ 1 <= k /\ k <= e-s /\ e <= End /\ End <= at-p-1
      BY <1>1, <1>2, <1>4, <1>5
    <3>2. d \in p+1..at /\ d-p-1 = s+k-1
      BY <3>1
    <3> HIDE DEF d
    <3>3. text[d] = linebuf[s+k-1]
      BY <1>1, <3>2
    <3> QED
      BY <3>3 DEF d
  <2> QED
    BY <2>1, <2>2, <2>3
<1>11. String(s)' # <<>>
  <2>1. 1 \in 1..e-s
    BY <1>1, <1>4, <1>5
  <2>2. DOMAIN [k \in 1..e - s |-> Simplified(linebuf[s + k - 1])] # DOMAIN <<>>
    BY <2>1
  <2> QED
    BY <1>3, <2>2
<1>12. Read(TokenAt(a, at)) = [k \in 1..e - s |-> Simplified(linebuf[s + k - 1])]
  <2>1. e - s \in Nat
    BY <1>1, <1>2, <1>4, <1>5
  <2>2. Len(TokenAt(a, at)) = e - s
    BY <1>9, <1>10, <2>1
  <2> HIDE DEF a, b
  <2> QED
    BY <1>9, <1>10, <2>2 DEF Read
<1> QED
  BY <1>3, <1>11, <1>12
-----------------------------------------------------------------------------
(* The queries that a line of the corpus can match. *)
Matching(a) == {k \in 1..Len(a) : a[k][1] # <<>>}

Real(a) == [k \in 1..Len(InOrder(Matching(a))) |-> a[InOrder(Matching(a))[k]]]

LEMMA RealIs ==
  ASSUME NEW V, NEW a \in Seq(V)
  PROVE  /\ Matching(a) \in SUBSET (0..Len(a)) /\ Len(a) \in Nat
         /\ Cardinality(Matching(a)) \in Nat
         /\ \A k \in 1..Cardinality(Matching(a)) : Nth(Matching(a), k) \in 1..Len(a)
         /\ Real(a) = [k \in 1..Cardinality(Matching(a)) |-> a[Nth(Matching(a), k)]]
         /\ Real(a) \in Seq(V)
<1>1. Matching(a) \in SUBSET (1..Len(a)) /\ Len(a) \in Nat
  BY DEF Matching
<1>2. Matching(a) \in SUBSET (0..Len(a))
  BY <1>1
<1>3. /\ Len(InOrder(Matching(a))) = Cardinality(Matching(a))
      /\ Cardinality(Matching(a)) \in Nat
  BY <1>1, <1>2, InOrderType
<1>4. \A k \in 1..Cardinality(Matching(a)) : Nth(Matching(a), k) \in 1..Len(a)
  <2> SUFFICES ASSUME NEW k \in 1..Cardinality(Matching(a))
               PROVE  Nth(Matching(a), k) \in 1..Len(a)
    OBVIOUS
  <2>1. Nth(Matching(a), k) \in Matching(a)
    BY <1>1, <1>2, NthIn
  <2> QED
    BY <1>1, <2>1
<1>5. \A k \in 1..Cardinality(Matching(a)) : InOrder(Matching(a))[k] = Nth(Matching(a), k)
  BY DEF InOrder
<1>6. Real(a) = [k \in 1..Cardinality(Matching(a)) |-> a[Nth(Matching(a), k)]]
  BY <1>3, <1>5 DEF Real
<1>7. \A k \in 1..Cardinality(Matching(a)) : a[Nth(Matching(a), k)] \in V
  BY <1>4
<1> QED
  BY <1>1, <1>2, <1>3, <1>4, <1>6, <1>7

LEMMA RealEmpty == Real(<<>>) = <<>>
<1>1. Matching(<<>>) = {}
  BY DEF Matching
<1>2. Cardinality(Matching(<<>>)) = 0
  BY <1>1, FS_EmptySet
<1>3. Real(<<>>) = [k \in 1..0 |-> <<>>[Nth(Matching(<<>>), k)]]
  <2>1. <<>> \in Seq({})
    OBVIOUS
  <2> QED
    BY <1>2, <2>1, RealIs
<1> QED
  BY <1>3

LEMMA RealAppend ==
  ASSUME NEW V, NEW a, a \in Seq(V), NEW x, x \in V
  PROVE  Real(Append(a, x)) = IF x[1] # <<>> THEN Append(Real(a), x) ELSE Real(a)
<1> DEFINE b == Append(a, x)
           C == Cardinality(Matching(a))
<1>1. /\ b \in Seq(V) /\ Len(b) = Len(a) + 1 /\ b[Len(a) + 1] = x
      /\ \A k \in 1..Len(a) : b[k] = a[k]
  OBVIOUS
<1>2. /\ Matching(a) \in SUBSET (0..Len(a)) /\ Len(a) \in Nat /\ C \in Nat
      /\ \A k \in 1..C : Nth(Matching(a), k) \in 1..Len(a)
      /\ Real(a) = [k \in 1..C |-> a[Nth(Matching(a), k)]]
      /\ Real(a) \in Seq(V)
  BY RealIs
<1>3. Real(b) = [k \in 1..Cardinality(Matching(b)) |-> b[Nth(Matching(b), k)]]
  <2> HIDE DEF b
  <2> QED
    BY <1>1, RealIs
<1> HIDE DEF b, C
<1>4. CASE x[1] = <<>>
  <2>1. Matching(b) = Matching(a)
    <3>1. \A k \in 1..Len(a) + 1 : k \in 1..Len(a) \/ k = Len(a) + 1
      BY <1>2
    <3>2. \A k : k \in Matching(b) <=> k \in Matching(a)
      BY <1>1, <1>2, <1>4, <3>1 DEF Matching
    <3> QED
      BY <3>2
  <2>2. \A k \in 1..C : b[Nth(Matching(b), k)] = a[Nth(Matching(a), k)]
    BY <1>1, <1>2, <2>1
  <2>3. Real(b) = Real(a)
    BY <1>2, <1>3, <2>1, <2>2 DEF C
  <2> QED
    BY <1>4, <2>3 DEF b
<1>5. CASE x[1] # <<>>
  <2>1. Matching(b) = Matching(a) \cup {Len(a) + 1}
    <3>1. \A k : k \in 1..Len(a) + 1 <=> k \in 1..Len(a) \/ k = Len(a) + 1
      BY <1>2
    <3>2. \A k : k \in Matching(b) <=> k \in Matching(a) \/ k = Len(a) + 1
      BY <1>1, <1>2, <1>5, <3>1 DEF Matching
    <3> QED
      BY <3>2
  <2>2. /\ Cardinality(Matching(b)) = C + 1
        /\ Nth(Matching(b), C + 1) = Len(a) + 1
        /\ \A k \in 1..C : Nth(Matching(b), k) = Nth(Matching(a), k)
    BY <1>2, <2>1, MemberAdded DEF C
  <2>3. \A k \in 1..C : b[Nth(Matching(b), k)] = a[Nth(Matching(a), k)]
    BY <1>1, <1>2, <2>2
  <2>4. Real(b) = [k \in 1..C+1 |-> IF k = C + 1 THEN x ELSE a[Nth(Matching(a), k)]]
    <3>1. \A k \in 1..C+1 : k = C+1 \/ k \in 1..C
      BY <1>2
    <3>2. \A k \in 1..C+1 :
            b[Nth(Matching(b), k)] = IF k = C + 1 THEN x ELSE a[Nth(Matching(a), k)]
      BY <1>1, <2>2, <2>3, <3>1
    <3> QED
      BY <1>3, <2>2, <3>2
  <2>5. Append(Real(a), x) = [k \in 1..C+1 |-> IF k = C + 1 THEN x ELSE a[Nth(Matching(a), k)]]
    <3>1. Len(Real(a)) = C /\ \A k \in 1..C : Real(a)[k] = a[Nth(Matching(a), k)]
      BY <1>2
    <3>2. \A k \in 1..C+1 : k = C+1 \/ k \in 1..C
      BY <1>2
    <3>3. Append(Real(a), x) = [k \in 1..C+1 |-> IF k = C + 1 THEN x ELSE Real(a)[k]]
      BY <1>2, <3>1
    <3> QED
      BY <3>1, <3>2, <3>3
  <2> QED
    BY <1>5, <2>4, <2>5 DEF b
<1> QED
  BY <1>4, <1>5

-----------------------------------------------------------------------------
(* The inductive invariant.  What was asked and what the rest of the file  *)
(* owes is what the whole file owes, from the line in the buffer on while  *)
(* cleanline has not had it, and with the tokens found once it has.        *)
Queries == [1..queryLength -> Seq(Letters)]

Strings == [s \in Cells |-> String(s)]
Handed  == [k \in 1..queryLength |-> Strings[wstarts[k]]]

Types ==
  /\ at \in 0..Len(text)
  /\ linebuf \in Buffer
  /\ wstarts \in Seq(Cells) /\ len \in -TENK..TENK
  /\ asked \in Seq(Queries)
  /\ pc \in {"fopen", "fgets", "cleanline", "len", "done", "crashed"}

Between == pc \in {"fopen", "fgets", "done"} => Real(asked) \o Owed[at] = Owed[0]

Reading ==
  pc = "cleanline" =>
    \E p \in 0..Len(text) : Holds(p) /\ Real(asked) \o Owed[p] = Owed[0]

Cutting ==
  pc = "len" =>
    IF RightLength(len)
    THEN /\ Len(wstarts) = queryLength /\ Handed \in Queries
         /\ Real(Append(asked, Handed)) \o Owed[at] = Owed[0]
    ELSE Real(asked) \o Owed[at] = Owed[0]

IInv == Settled /\ Types /\ Between /\ Reading /\ Cutting

LEMMA TypesType == Settled /\ Types => TypeOK
<1> SUFFICES ASSUME Settled, Types PROVE TypeOK
  OBVIOUS
<1>1. \A k \in 1..Len(asked) : asked[k] \in Queries
  BY DEF Types
<1> QED
  BY <1>1 DEF Types, Settled, TypeOK, Queries

LEMMA BetweenRight == Between => AskedRight
  BY DEF Between, AskedRight, Real, Matching

LEMMA InitInv == Init => IInv
<1> SUFFICES ASSUME Init PROVE IInv
  OBVIOUS
<1>1. Settled
  BY TextsAssumption, LengthsAssumption DEF Init, Settled
<1>2. Len(text) \in Nat /\ TENK \in Nat
  BY <1>1, SettledText, LengthsAssumption
<1>3. Types
  BY <1>2, FillsAssumption DEF Init, Types
<1>4. Real(asked) \o Owed[at] = Owed[0]
  <2>1. 0 \in 0..Len(text)
    BY <1>2
  <2>2. Owed[0] \in Seq(AnyQuery)
    BY <1>1, <2>1, OwedType
  <2>3. <<>> \o Owed[0] = Owed[0]
    BY <2>2
  <2> QED
    BY <2>3, RealEmpty DEF Init
<1> QED
  BY <1>1, <1>3, <1>4 DEF IInv, Between, Reading, Cutting, Init

(* What the rest of the file owes, with the line from p on in front. *)
LEMMA OwedLine ==
  ASSUME IInv, NEW p, Holds(p)
  PROVE  /\ p \in 0..Len(text)
         /\ Owed[p] = (IF IsQuery(p, at) THEN <<QueryOf(p, at)>> ELSE <<>>) \o Owed[at]
         /\ QueryOf(p, at) \in AnyQuery /\ Owed[at] \in Seq(AnyQuery)
<1>1. Settled /\ at \in 0..Len(text)
  BY DEF IInv, Types
<1>2. p \in 0..Len(text) /\ ~MeetsEnd(p) /\ at = Stop(p)
  BY DEF Holds
<1>3. Owed[p] = Piece(p) \o Owed[at]
  BY <1>1, <1>2, OwedStep
<1> QED
  BY <1>1, <1>2, <1>3, OwedType DEF Piece, AnyQuery

(* A line that contributes nothing. *)
LEMMA NothingOwed ==
  ASSUME IInv, NEW p, Holds(p), ~IsQuery(p, at), Real(asked) \o Owed[p] = Owed[0]
  PROVE  Real(asked) \o Owed[at] = Owed[0]
<1>1. Owed[p] = <<>> \o Owed[at] /\ Owed[at] \in Seq(AnyQuery)
  BY OwedLine
<1>2. Owed[p] = Owed[at]
  BY <1>1
<1> QED
  BY <1>2

(* A line that contributes a query. *)
LEMMA QueryOwed ==
  ASSUME IInv, NEW p, Holds(p), IsQuery(p, at), Real(asked) \o Owed[p] = Owed[0],
         NEW x, x \in Queries, x = QueryOf(p, at), x[1] # <<>>
  PROVE  Real(Append(asked, x)) \o Owed[at] = Owed[0]
<1> DEFINE V == Queries \cup AnyQuery
<1>1. Owed[p] = <<x>> \o Owed[at] /\ Owed[at] \in Seq(AnyQuery)
  BY OwedLine
<1>2. asked \in Seq(Queries)
  BY DEF IInv, Types
<1>3. Real(asked) \in Seq(Queries) /\ Real(Append(asked, x)) = Append(Real(asked), x)
  BY <1>2, RealIs, RealAppend
<1> DEFINE R == Real(asked)
           O == Owed[at]
<1>4. R \in Seq(V) /\ O \in Seq(V) /\ x \in V
  BY <1>1, <1>3
<1> HIDE DEF R, O, V
<1>5. Append(R, x) \o O = R \o (<<x>> \o O)
  <2>1. Append(R, x) = R \o <<x>> /\ <<x>> \in Seq(V)
    BY <1>4
  <2>2. (R \o <<x>>) \o O = R \o (<<x>> \o O)
    BY <1>4, <2>1, ConcatAssociative
  <2> QED
    BY <2>1, <2>2
<1> QED
  BY <1>1, <1>3, <1>5 DEF R, O
-----------------------------------------------------------------------------
(* fgets, and the three ways out of the loop. *)
LEMMA FgetsKeeps == ASSUME IInv, Fgets PROVE IInv'
<1>1. Settled /\ Types /\ at \in 0..Len(text) /\ Len(text) \in Nat /\ pc = "fgets" /\ ~MeetsEnd(at)
  BY SettledText DEF IInv, Types, Fgets
<1>2. UNCHANGED settings /\ UNCHANGED <<wstarts, len, asked>> /\ pc' = "cleanline"
      /\ at' = Stop(at) /\ linebuf' = Filled(at)
  BY DEF Fgets
<1>3. PICK p \in 0..Len(text) : p = at
  BY <1>1
<1>4. /\ \A q : Stop(q)' = Stop(q)
      /\ \A q : MeetsEnd(q)' <=> MeetsEnd(q)
      /\ Settled' /\ Owed' = Owed /\ text' = text /\ queryLength' = queryLength
  BY <1>1, <1>2, SameStop, SameOwed DEF settings
<1>5. /\ at' = Stop(p) /\ at' \in p+1..Len(text) /\ at' - p \in 1..TENK-1 /\ TENK \in Nat
      /\ ~MeetsEnd(p) /\ linebuf' = Filled(p)
  BY <1>1, <1>2, <1>3, Delivered, LengthsAssumption
<1> DEFINE n == at' - p
<1>6. linebuf' = [c \in Cells |-> IF c < n THEN text[p + c + 1]
                                  ELSE IF c = n THEN NUL ELSE linebuf[c]]
  <2>1. Cells \cup {Stop(p) - p} = Cells
    BY <1>5 DEF Cells
  <2> QED
    BY <1>5, <2>1 DEF Filled
<1>7. ASSUME NEW c \in 0..n-1
      PROVE  c \in Cells /\ linebuf'[c] = text[p + c + 1] /\ p + c + 1 \in 1..Len(text)
  <2>1. /\ p \in Nat /\ at' \in Nat /\ Len(text) \in Nat /\ c \in Nat
        /\ at' <= Len(text) /\ c <= at' - p - 1 /\ n <= TENK-1
    BY <1>1, <1>5
  <2>2. p + c + 1 \in 1..Len(text)
    <3>1. PICK m \in Nat : m = at'
      BY <2>1
    <3>2. c <= m - p - 1 /\ m <= Len(text)
      BY <2>1, <3>1
    <3> QED
      BY <2>1, <3>2
  <2>3. c \in Cells /\ c < n
    BY <1>5, <2>1 DEF Cells
  <2> QED
    BY <1>6, <2>2, <2>3
<1>8. linebuf'[n] = NUL
  <2>1. n \in Cells /\ ~(n < n)
    BY <1>5 DEF Cells
  <2> QED
    BY <1>6, <2>1
<1>9. linebuf' \in Buffer
  <2> SUFFICES ASSUME NEW c \in Cells PROVE linebuf'[c] \in Char \cup {NUL}
    BY <1>6 DEF Buffer
  <2>1. CASE c < n
    <3>1. c \in 0..n-1
      BY <1>5, <2>1 DEF Cells
    <3> QED
      BY <1>1, <1>7, <3>1, SettledText
  <2>2. CASE ~(c < n)
    <3>1. linebuf[c] \in Char \cup {NUL}
      BY <1>1 DEF Types, Buffer
    <3> QED
      BY <1>6, <2>2, <3>1
  <2> QED
    BY <2>1, <2>2
<1>10. Types'
  <2>1. Queries' = Queries
    BY <1>4 DEF Queries
  <2>2. at' \in 0..Len(text)
    BY <1>1, <1>5
  <2> QED
    BY <1>1, <1>2, <1>4, <1>9, <2>1, <2>2 DEF Types
<1>11. Reading'
  <2>1. Holds(p)'
    BY <1>4, <1>5, <1>7, <1>8 DEF Holds
  <2>2. Real(asked) \o Owed[p] = Owed[0]
    BY <1>1, <1>3 DEF IInv, Between
  <2>3. (Real(asked) \o Owed[p] = Owed[0])'
    BY <1>2, <1>4, <2>2
  <2> QED
    BY <1>4, <2>1, <2>3 DEF Reading
<1> QED
  BY <1>2, <1>4, <1>10, <1>11 DEF IInv, Between, Cutting

(* What follows the last newline is dropped, and contributes nothing. *)
LEMMA BreakKeeps == ASSUME IInv, Break PROVE IInv'
<1>1. Settled /\ Types /\ at \in 0..Len(text) /\ Len(text) \in Nat /\ pc = "fgets" /\ MeetsEnd(at)
  BY SettledText DEF IInv, Types, Break
<1>2. UNCHANGED settings /\ UNCHANGED <<linebuf, wstarts, len, asked>> /\ pc' = "done"
      /\ at' = Len(text)
  BY DEF Break
<1>3. Settled' /\ Owed' = Owed /\ text' = text /\ queryLength' = queryLength
  BY <1>1, <1>2, SameStop, SameOwed DEF settings
<1>4. Types'
  <2>1. Queries' = Queries
    BY <1>3 DEF Queries
  <2> QED
    BY <1>1, <1>2, <1>3, <2>1 DEF Types
<1>5. Owed[Len(text)] = Owed[at]
  <2>1. Len(text) \in 0..Len(text) /\ MeetsEnd(Len(text))
    BY <1>1 DEF MeetsEnd
  <2> QED
    BY <1>1, <2>1, OwedStep
<1>6. Between'
  <2>1. Real(asked) \o Owed[at] = Owed[0]
    BY <1>1 DEF IInv, Between
  <2>2. Real(asked)' = Real(asked)
    BY <1>2
  <2> QED
    BY <1>2, <1>3, <1>5, <2>1, <2>2 DEF Between
<1> QED
  BY <1>2, <1>3, <1>4, <1>6 DEF IInv, Reading, Cutting

LEMMA OthersKeep == ASSUME IInv, Open \/ OpenFails \/ ReadFails \/ OverrunStarts PROVE IInv'
<1>1. /\ UNCHANGED settings /\ UNCHANGED <<at, linebuf, wstarts, len, asked>>
      /\ (pc \in {"fopen", "fgets"} /\ pc' \in {"fgets", "done"}) \/ pc' = "crashed"
  BY DEF Open, OpenFails, ReadFails, OverrunStarts
<1>2. Settled' /\ Owed' = Owed /\ text' = text /\ queryLength' = queryLength
  BY <1>1, SameStop, SameOwed DEF IInv, settings
<1>3. Types'
  <2>1. Queries' = Queries
    BY <1>2 DEF Queries
  <2> QED
    BY <1>1, <1>2, <2>1 DEF IInv, Types
<1>4. Real(asked)' = Real(asked)
  BY <1>1
<1> QED
  BY <1>1, <1>2, <1>3, <1>4 DEF IInv, Between, Reading, Cutting

LEMMA StutterKeeps == ASSUME IInv, UNCHANGED vars PROVE IInv'
<1>1. UNCHANGED settings /\ UNCHANGED <<at, linebuf, wstarts, len, asked, pc>>
  BY DEF vars
<1>2. /\ \A q : Stop(q)' = Stop(q)
      /\ \A q : MeetsEnd(q)' <=> MeetsEnd(q)
      /\ Settled' /\ Owed' = Owed /\ text' = text /\ queryLength' = queryLength
  BY <1>1, SameStop, SameOwed DEF IInv, settings
<1>3. Types'
  <2>1. Queries' = Queries
    BY <1>2 DEF Queries
  <2> QED
    BY <1>1, <1>2, <2>1 DEF IInv, Types
<1>4. Real(asked)' = Real(asked)
  BY <1>1
<1>5. Between'
  BY <1>1, <1>2, <1>4 DEF IInv, Between
<1>6. Reading'
  <2>1. \A p : Holds(p)' <=> Holds(p)
    BY <1>1, <1>2 DEF Holds
  <2> QED
    BY <1>1, <1>2, <1>4, <2>1 DEF IInv, Reading
<1>7. Cutting'
  <2>1. Strings' = Strings
    BY <1>1 DEF Strings, String
  <2>2. Handed' = Handed /\ Queries' = Queries
    BY <1>1, <1>2, <2>1 DEF Handed, Queries
  <2>3. RightLength(len)' <=> RightLength(len)
    BY <1>1, <1>2 DEF RightLength
  <2> QED
    BY <1>1, <1>2, <1>4, <2>2, <2>3 DEF IInv, Cutting
<1> QED
  BY <1>2, <1>3, <1>5, <1>6, <1>7 DEF IInv
-----------------------------------------------------------------------------
(* cleanline, with a line and without. *)
LEMMA CutLineKeeps == ASSUME IInv, CutLine PROVE IInv'
<1>1. Settled /\ Types /\ linebuf \in Buffer /\ Complete /\ pc = "cleanline"
  BY DEF IInv, Types, CutLine
<1>2. /\ UNCHANGED settings /\ UNCHANGED <<at, asked>> /\ pc' = "len"
      /\ linebuf' = Cut /\ wstarts' = tokens /\ len' = Len(tokens)
  BY DEF CutLine
<1>3. Settled' /\ Owed' = Owed /\ text' = text /\ queryLength' = queryLength
  BY <1>1, <1>2, SameStop, SameOwed DEF settings
<1>4. PICK p : Holds(p) /\ Real(asked) \o Owed[p] = Owed[0]
  BY <1>1 DEF IInv, Reading
<1>5. at - p \in Cells /\ linebuf[at-p] \notin newline
  BY <1>1, <1>4, HoldsWhat
<1>6. /\ TENK \in Nat /\ Cardinality(Starts) \in 0..TENK
      /\ tokens \in Seq(Cells) /\ Len(tokens) = Cardinality(Starts)
      /\ Starts \in SUBSET (0..TENK-1) /\ TENK - 1 \in Nat
  BY <1>1, <1>5, StartsType, LengthsAssumption
<1>7. Queries' = Queries
  BY <1>3 DEF Queries
<1>8. Types'
  <2>1. linebuf' \in Buffer
    <3>1. \A c \in Cells : linebuf[c] \in Char \cup {NUL}
      BY <1>1 DEF Buffer
    <3>2. \A c \in Cells : Simplified(linebuf[c]) \in Char \cup {NUL}
      BY <3>1, SimplifiedIs DEF Char
    <3>3. \A c \in Cells : Cut[c] \in Char \cup {NUL}
      BY <3>1, <3>2 DEF Cut
    <3>4. Cut = [c \in Cells |-> Cut[c]]
      BY DEF Cut
    <3> QED
      BY <1>2, <3>3, <3>4 DEF Buffer
  <2>2. len' \in -TENK..TENK
    BY <1>2, <1>6
  <2> QED
    BY <1>1, <1>2, <1>3, <1>6, <1>7, <2>1, <2>2 DEF Types
<1>9. \A k \in 1..Len(tokens) :
        tokens[k] = Nth(Starts, k) /\ tokens[k] \in Starts /\ tokens[k] \in Cells
  <2>1. \A k \in 1..Cardinality(Starts) : Nth(Starts, k) \in Starts
    BY <1>6, NthIn
  <2>2. \A k \in 1..Len(tokens) : tokens[k] = Nth(Starts, k)
    BY <1>6 DEF tokens, InOrder
  <2> QED
    BY <1>6, <2>1, <2>2 DEF Cells
<1>10. RightLength(len)' <=> Len(tokens) = queryLength
  BY <1>2, <1>3 DEF RightLength
<1>11. text[at] \in newline
  BY <1>1, <1>4, NoEnd
<1>12. ASSUME Len(tokens) # queryLength PROVE Real(asked) \o Owed[at] = Owed[0]
  <2>1. ~IsQuery(p, at)
    <3>1. CASE text[p+1] \in newline
      BY <1>1, <1>4, <3>1, BlankLine
    <3>2. CASE text[p+1] \notin newline
      <4>1. Cardinality(TokenStarts(p, at)) = Cardinality(Starts)
        BY <1>1, <1>4, <1>11, <3>2, StartsAre
      <4> QED
        BY <1>6, <1>12, <4>1 DEF IsQuery
    <3> QED
      BY <3>1, <3>2
  <2> QED
    BY <1>4, <2>1, NothingOwed
<1>13. ASSUME Len(tokens) = queryLength
       PROVE  /\ Handed' \in Queries
              /\ Real(Append(asked, Handed')) \o Owed[at] = Owed[0]
  <2>1. Handed' = [k \in 1..queryLength |-> Strings'[tokens[k]]]
    BY <1>2, <1>3 DEF Handed
  <2>2. \A s \in Cells : Strings'[s] = String(s)'
    BY DEF Strings
  <2>3. \A s \in Starts : s \in Cells
    BY <1>6 DEF Cells
  <2>4. \A s \in Starts : Strings'[s] \in Seq(Letters)
    <3> SUFFICES ASSUME NEW s \in Starts PROVE String(s)' \in Seq(Letters)
      BY <2>2, <2>3
    <3> QED
      BY <1>1, <1>2, <1>5, CutStrings
  <2>5. Handed' \in Queries
    BY <1>9, <1>13, <2>1, <2>4 DEF Queries
  <2>6. 1 \in 1..queryLength
    BY <1>1 DEF Settled
  <2>7. CASE text[p+1] \in newline
    <3>1. ~IsQuery(p, at) /\ Begin \in Starts /\ tokens[1] = Begin /\ linebuf[Begin] = NUL
      BY <1>1, <1>4, <2>7, BlankLine
    <3>2. Strings'[Begin] = <<>>
      <4>1. PICK s \in Starts : s = Begin
        BY <3>1
      <4>2. PICK e \in s..End : /\ \A q \in s..e-1 : linebuf[q] \in Letters
                                /\ String(s)' = [k \in 1..e - s |-> Simplified(linebuf[s + k - 1])]
        BY <1>1, <1>2, <1>5, CutEnds
      <4>3. linebuf[s] \notin Letters
        BY <3>1, <4>1, LettersAssumption
      <4>4. s \in Int /\ End \in Int
        BY <1>1, <1>5, <1>6, <2>3, EndIs, BeginIs DEF Cells
      <4>5. e = s
        <5>1. s \notin s..e-1
          BY <4>2, <4>3
        <5> QED
          BY <4>4, <5>1
      <4>6. e - s = 0
        BY <4>4, <4>5
      <4>7. String(s)' = <<>>
        BY <4>2, <4>6
      <4> QED
        BY <2>2, <2>3, <4>1, <4>7
    <3>3. Handed'[1] = <<>>
      BY <2>1, <2>6, <3>1, <3>2
    <3>4. Real(Append(asked, Handed')) = Real(asked)
      <4>1. asked \in Seq(Queries)
        BY <1>1 DEF Types
      <4> QED
        BY <2>5, <3>3, <4>1, RealAppend
    <3> QED
      BY <1>4, <2>5, <3>1, <3>4, NothingOwed
  <2>8. CASE text[p+1] \notin newline
    <3>1. \A s \in Starts : Strings'[s] = Read(TokenAt(s + (p+1), at)) /\ Strings'[s] # <<>>
      <4> SUFFICES ASSUME NEW s \in Starts
                   PROVE  String(s)' = Read(TokenAt(s + (p+1), at)) /\ String(s)' # <<>>
        BY <2>2, <2>3
      <4> QED
        BY <1>1, <1>2, <1>4, <1>11, <2>8, StringIsToken
    <3>2. /\ Cardinality(TokenStarts(p, at)) = Cardinality(Starts)
          /\ \A k \in 1..Cardinality(Starts) :
                Nth(TokenStarts(p, at), k) = Nth(Starts, k) + (p + 1)
      BY <1>1, <1>4, <1>11, <2>8, StartsAre
    <3>3. IsQuery(p, at)
      BY <1>6, <1>11, <1>13, <3>2 DEF IsQuery
    <3>4. \A k \in 1..queryLength :
            Strings'[tokens[k]] = Read(TokenAt(Nth(TokenStarts(p, at), k), at))
      BY <1>6, <1>9, <1>13, <3>1, <3>2
    <3>5. Handed' = QueryOf(p, at)
      BY <2>1, <3>4 DEF QueryOf
    <3>6. Handed'[1] # <<>>
      BY <1>9, <1>13, <2>1, <2>6, <3>1
    <3> QED
      BY <1>4, <2>5, <3>3, <3>5, <3>6, QueryOwed
  <2> QED
    BY <2>7, <2>8
<1>14. Cutting'
  <2>1. Real(Append(asked, Handed))' = Real(Append(asked, Handed'))
    BY <1>2
  <2>2. Real(asked)' = Real(asked)
    BY <1>2
  <2>3. CASE Len(tokens) = queryLength
    BY <1>2, <1>3, <1>7, <1>10, <1>13, <2>1, <2>3 DEF Cutting
  <2>4. CASE Len(tokens) # queryLength
    BY <1>2, <1>3, <1>10, <1>12, <2>2, <2>4 DEF Cutting
  <2> QED
    BY <2>3, <2>4
<1> QED
  BY <1>2, <1>3, <1>8, <1>14 DEF IInv, Between, Reading

LEMMA RefuseLineKeeps == ASSUME IInv, RefuseLine PROVE IInv'
<1>1. Settled /\ Types /\ linebuf \in Buffer /\ ~Complete /\ pc = "cleanline"
  BY DEF IInv, Types, RefuseLine
<1>2. /\ UNCHANGED settings /\ UNCHANGED <<at, asked>> /\ pc' = "len"
      /\ linebuf' = Restored /\ wstarts' = tokens /\ len' = -Len(tokens)
  BY DEF RefuseLine
<1>3. Settled' /\ Owed' = Owed /\ text' = text /\ queryLength' = queryLength
  BY <1>1, <1>2, SameStop, SameOwed DEF settings
<1>4. PICK p : Holds(p) /\ Real(asked) \o Owed[p] = Owed[0]
  BY <1>1 DEF IInv, Reading
<1>5. at - p \in Cells /\ linebuf[at-p] \notin newline
  BY <1>1, <1>4, HoldsWhat
<1>6. /\ TENK \in Nat /\ Cardinality(Starts) \in 0..TENK
      /\ tokens \in Seq(Cells) /\ Len(tokens) = Cardinality(Starts)
  BY <1>1, <1>5, StartsType, LengthsAssumption
<1>7. Types'
  <2>1. linebuf' \in Buffer
    <3>1. \A c \in Cells : linebuf[c] \in Char \cup {NUL}
      BY <1>1 DEF Buffer
    <3>2. SP \in Char
      BY DEF Char
    <3> QED
      <4>1. \A c \in Cells : Simplified(linebuf[c]) \in Char \cup {NUL}
        BY <3>1, SimplifiedIs DEF Char
      <4>2. \A c \in Cells : Restored[c] \in Char \cup {NUL}
        BY <3>1, <3>2, <4>1 DEF Restored
      <4>3. Restored = [c \in Cells |-> Restored[c]]
        BY DEF Restored
      <4> QED
        BY <1>2, <4>2, <4>3 DEF Buffer
  <2>2. len' \in -TENK..TENK
    BY <1>2, <1>6
  <2>3. Queries' = Queries
    BY <1>3 DEF Queries
  <2> QED
    BY <1>1, <1>2, <1>3, <1>6, <2>1, <2>2, <2>3 DEF Types
<1>8. ~RightLength(len)'
  <2>1. queryLength \in Nat \ {0}
    BY <1>1 DEF Settled
  <2>2. -Cardinality(Starts) # queryLength
    BY <1>6, <2>1
  <2> QED
    BY <1>2, <1>3, <1>6, <2>2 DEF RightLength
<1>9. ~IsQuery(p, at)
  <2>1. CASE text[p+1] \in newline
    BY <1>1, <1>4, <2>1, BlankLine
  <2>2. CASE text[p+1] \notin newline
    <3>1. text[at] \notin newline
      BY <1>1, <1>4, <2>2, TokenIs
    <3> QED
      BY <1>1, <1>4, <3>1, NoEnd
  <2> QED
    BY <2>1, <2>2
<1>10. Real(asked) \o Owed[at] = Owed[0]
  BY <1>4, <1>9, NothingOwed
<1>11. Real(asked)' = Real(asked)
  BY <1>2
<1>12. Cutting'
  BY <1>2, <1>3, <1>8, <1>10, <1>11 DEF Cutting
<1> QED
  BY <1>2, <1>3, <1>7, <1>12 DEF IInv, Between, Reading
-----------------------------------------------------------------------------
(* What is found is handed on, or not. *)
LEMMA AddQueryKeeps == ASSUME IInv, AddQuery PROVE IInv'
<1>1. Settled /\ Types /\ pc = "len" /\ RightLength(len)
  BY DEF IInv, AddQuery
<1>2. UNCHANGED settings /\ UNCHANGED <<at, linebuf, wstarts, len>> /\ pc' = "fgets"
  BY DEF AddQuery
<1>3. Settled' /\ Owed' = Owed /\ text' = text /\ queryLength' = queryLength
  BY <1>1, <1>2, SameStop, SameOwed DEF settings
<1>4. /\ Len(wstarts) = queryLength /\ Handed \in Queries
      /\ Real(Append(asked, Handed)) \o Owed[at] = Owed[0]
  BY <1>1 DEF IInv, Cutting
<1>5. asked' = Append(asked, Handed)
  <2>1. \A k \in 1..queryLength : wstarts[k] \in Cells
    BY <1>1, <1>4 DEF Types
  <2>2. \A k \in 1..queryLength : Strings[wstarts[k]] = String(wstarts[k])
    BY <2>1 DEF Strings
  <2>3. Handed = [k \in 1..queryLength |-> String(wstarts[k])]
    BY <2>2 DEF Handed
  <2> QED
    BY <2>3 DEF AddQuery
<1>6. Types'
  <2>1. Queries' = Queries
    BY <1>3 DEF Queries
  <2>2. asked' \in Seq(Queries)
    BY <1>1, <1>4, <1>5 DEF Types
  <2> QED
    BY <1>1, <1>2, <1>3, <2>1, <2>2 DEF Types
<1>7. Between'
  BY <1>2, <1>3, <1>4, <1>5 DEF Between
<1> QED
  BY <1>2, <1>3, <1>6, <1>7 DEF IInv, Reading, Cutting

LEMMA WrongLengthKeeps == ASSUME IInv, WrongLength PROVE IInv'
<1>1. Settled /\ Types /\ pc = "len" /\ ~RightLength(len)
  BY DEF IInv, WrongLength
<1>2. UNCHANGED settings /\ UNCHANGED <<at, linebuf, wstarts, len, asked>> /\ pc' = "fgets"
  BY DEF WrongLength
<1>3. Settled' /\ Owed' = Owed /\ text' = text /\ queryLength' = queryLength
  BY <1>1, <1>2, SameStop, SameOwed DEF settings
<1>4. Real(asked) \o Owed[at] = Owed[0]
  BY <1>1 DEF IInv, Cutting
<1>5. Types'
  <2>1. Queries' = Queries
    BY <1>3 DEF Queries
  <2> QED
    BY <1>1, <1>2, <1>3, <2>1 DEF Types
<1>6. Real(asked)' = Real(asked)
  BY <1>2
<1> QED
  BY <1>2, <1>3, <1>4, <1>5, <1>6 DEF IInv, Between, Reading, Cutting
-----------------------------------------------------------------------------
LEMMA NextKeeps == IInv /\ [Next]_vars => IInv'
<1> SUFFICES ASSUME IInv, [Next]_vars PROVE IInv'
  OBVIOUS
<1> QED
  BY FgetsKeeps, BreakKeeps, OthersKeep, StutterKeeps, CutLineKeeps, RefuseLineKeeps,
     AddQueryKeeps, WrongLengthKeeps DEF Next

LEMMA InvHolds == Spec => []IInv
  BY InitInv, NextKeeps, PTL DEF Spec

(* Every variable of the loop of makeCounters has its type, and a line and *)
(* its NUL always fit into the buffer.                                     *)
THEOREM TypeCorrect == Spec => []TypeOK
<1>1. IInv => TypeOK
  BY TypesType DEF IInv
<1> QED
  BY <1>1, InvHolds, PTL

(* The queries that makeCounters hands on are those of the file, each once *)
(* and in order, with their tokens as written under -c and in lower case   *)
(* otherwise, whatever the line buffer held before; what a blank line      *)
(* makes of an earlier one matches nothing.                                *)
THEOREM AskedRightCorrect == Spec => []AskedRight
<1>1. IInv => AskedRight
  BY BetweenRight DEF IInv
<1> QED
  BY <1>1, InvHolds, PTL
=============================================================================

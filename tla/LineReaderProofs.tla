-------------------------- MODULE LineReaderProofs --------------------------
(***************************************************************************)
(* Proofs about LineReader: for every directory, block size and fault, in  *)
(* both builds, findHits delivers what LineStream promises.  The unread    *)
(* part of the buffer is the text from the first character not delivered,  *)
(* so that the first line in the buffer is the next one of the file.       *)
(***************************************************************************)
EXTENDS LineReader, TLAPS, FiniteSetTheorems, WellFoundedInduction

(* A nonempty set of numbers has a least one: the first of the newlines.   *)
LEMMA LeastNumber == ASSUME NEW T, T \subseteq Nat, T # {}
  PROVE \E m \in T : \A y \in T : m <= y
<1> DEFINE R == OpToRel(<, Nat)
<1>1. IsWellFoundedOn(R, Nat)
  BY NatLessThanWellFounded
<1>2. \A x, y \in Nat : x < y => <<x, y>> \in R
  BY DEF OpToRel
<1> HIDE DEF R
<1>3. PICK m \in T : \A y \in T : ~ (<<y, m>> \in R)
  BY <1>1, WFMin
<1>4. \A y \in T : ~ (y < m)
  BY <1>2, <1>3
<1> QED
  BY <1>4

(* The promise counts with the same Cardinality. *)
LEMMA SameCardinality == ASSUME NEW S PROVE Stream!Cardinality(S) = Cardinality(S)
BY DEF Stream!Cardinality, Cardinality

(* The ends of lines up to place k of a text. *)
Upto(t, k) == {q \in Stream!Ends(t) : q <= k}

LEMMA EndsFinite ==
  ASSUME NEW t \in Seq(Char), NEW k
  PROVE  /\ Stream!Ends(t) \subseteq 1..Len(t)
         /\ IsFiniteSet(Stream!Ends(t)) /\ Cardinality(Stream!Ends(t)) \in Nat
         /\ IsFiniteSet(Upto(t, k)) /\ Cardinality(Upto(t, k)) \in Nat
<1>1. Stream!Ends(t) \subseteq 1..Len(t) /\ Len(t) \in Nat
  BY DEF Stream!Ends
<1>2. IsFiniteSet(Stream!Ends(t))
  <2>1. IsFiniteSet(1..Len(t))
    BY <1>1, FS_Interval
  <2> QED
    BY <1>1, <2>1, FS_Subset
<1>3. Upto(t, k) \subseteq Stream!Ends(t)
  BY DEF Upto
<1> QED
  BY <1>1, <1>2, <1>3, FS_Subset, FS_CardinalityType

(* The next end is one more. *)
LEMMA UptoNext ==
  ASSUME NEW t \in Seq(Char), NEW k \in Nat, NEW p \in Stream!Ends(t), k < p,
         \A q \in Stream!Ends(t) : q <= k \/ p <= q
  PROVE  /\ Cardinality(Upto(t, p)) = Cardinality(Upto(t, k)) + 1
         /\ Cardinality(Upto(t, k)) < Cardinality(Stream!Ends(t))
<1>1. Stream!Ends(t) \subseteq 1..Len(t) /\ Len(t) \in Nat
  BY EndsFinite
<1>2. Upto(t, p) = Upto(t, k) \cup {p} /\ p \notin Upto(t, k)
  BY <1>1 DEF Upto
<1>3. Cardinality(Upto(t, p)) = Cardinality(Upto(t, k)) + 1
  BY <1>2, EndsFinite, FS_AddElement
<1>4. Cardinality(Upto(t, p)) <= Cardinality(Stream!Ends(t))
  <2>1. Upto(t, p) \subseteq Stream!Ends(t)
    BY DEF Upto
  <2> QED
    BY <2>1, EndsFinite, FS_Subset
<1> QED
  BY <1>3, <1>4, EndsFinite

(* An end is found by its number. *)
LEMMA NthEndIs ==
  ASSUME NEW t \in Seq(Char), NEW p \in Stream!Ends(t)
  PROVE  Stream!NthEnd(t, Cardinality(Upto(t, p))) = p
<1>1. Stream!Ends(t) \subseteq 1..Len(t) /\ Len(t) \in Nat
  BY EndsFinite
<1>2. ASSUME NEW q \in Stream!Ends(t), NEW r \in Stream!Ends(t), q < r
      PROVE  Cardinality(Upto(t, q)) < Cardinality(Upto(t, r))
  <2>1. Upto(t, q) \subseteq Upto(t, r) /\ r \in Upto(t, r) /\ r \notin Upto(t, q)
    BY <1>1, <1>2 DEF Upto
  <2> QED
    BY <2>1, EndsFinite, FS_Subset
<1>3. ASSUME NEW q \in Stream!Ends(t), Cardinality(Upto(t, q)) = Cardinality(Upto(t, p))
      PROVE  q = p
  <2>1. Cardinality(Upto(t, q)) \in Nat
    BY EndsFinite
  <2> QED
    BY <1>1, <1>2, <1>3, <2>1
<1>4. Stream!NthEnd(t, Cardinality(Upto(t, p)))
        = CHOOSE q \in Stream!Ends(t) : Cardinality(Upto(t, q)) = Cardinality(Upto(t, p))
  BY SameCardinality DEF Stream!NthEnd, Upto
<1> QED
  BY <1>3, <1>4

(* And a line by its end. *)
LEMMA LineStartIs ==
  ASSUME NEW t \in Seq(Char), NEW p \in Stream!Ends(t), NEW s \in 1..p-1,
         \A q \in s..p-1 : t[q] # NL, s = 1 \/ t[s-1] = NL
  PROVE  Stream!LineStart(t, p) = s
<1>1. p \in Nat /\ s \in Nat
  BY EndsFinite
<1>2. ASSUME NEW r \in 1..p-1, \A q \in r..p-1 : t[q] # NL, r = 1 \/ t[r-1] = NL PROVE r = s
  <2>1. CASE r < s
    <3>1. s - 1 \in r..p-1
      BY <1>1, <2>1
    <3> QED
      BY <1>1, <1>2, <2>1, <3>1
  <2>2. CASE s < r
    <3>1. r - 1 \in s..p-1
      BY <1>1, <2>2
    <3> QED
      BY <1>1, <1>2, <2>2, <3>1
  <2> QED
    BY <1>1, <2>1, <2>2
<1> QED
  BY <1>2 DEF Stream!LineStart
-----------------------------------------------------------------------------
(* How much of the file has been delivered or passed over. *)
Passed == offset - overhang

(* The directory is one of those considered. *)
Entries ==
  /\ entries \in Seq([text : Seq(Char), db : BOOLEAN])
  /\ zlib => entries \in Directories
  /\ wild => ShortLines

(* The lines that end in what was passed are delivered, and the rest of    *)
(* the file begins with no end of a line.                                  *)
Counted ==
  /\ pc = "next" => linenum = 0
  /\ pc # "next" =>
       /\ file <= Len(entries) /\ entries[file].db
       /\ overhang <= offset /\ offset <= Len(text)
       /\ linenum = Cardinality(Upto(text, Passed))
       /\ Passed + 1 \notin Stream!Ends(text)

(* The unread part of the buffer holds the next characters of the file. *)
Cells ==
  /\ pc \in {"line", "retry", "buffering"} =>
       \A p \in curpos..bufpos-1 : buf[p] = <<file, Passed + (p - curpos) + 1>>
  /\ pc = "read" => \A p \in 0..overhang-1 : buf[p] = <<file, Passed + p + 1>>

LineStarts == Passed = 0 \/ text[Passed] = NL

(* What a phase may rely on: that nothing but whole lines was passed, that *)
(* a line ends in the buffer or behind it, that the file is in memory.     *)
Phases ==
  /\ pc # "undefined"
  /\ zlib /\ pc # "next" => pc \in {"line", "read", "retry"} /\ LineStarts
  /\ ~zlib /\ pc # "next" =>
       /\ pc \in {"buffering", "line"}
       /\ pc = "buffering" => curpos = 0 /\ bufpos = offset
       /\ pc = "line" => /\ offset = Len(text) /\ bufpos < bbsize
                         /\ LineStarts \/ \A q \in Stream!Ends(text) : q <= Passed
  /\ pc = "read" => \A q \in Stream!Ends(text) : q <= Passed \/ offset < q
  /\ pc = "retry" => \E q \in Stream!Ends(text) : Passed < q /\ q <= offset

IInv == TypeOK /\ Entries /\ Counted /\ Cells /\ Phases

(* The place in the file of cell p of the unread part. *)
Pos(p) == Passed + (p - curpos) + 1

LEMMA EntryTypes ==
  ASSUME TypeOK, Entries, NEW f \in 1..Len(entries)
  PROVE  /\ entries[f].text \in Seq(Char) /\ Len(entries[f].text) \in Nat
         /\ entries[f].db \in BOOLEAN
<1> DEFINE E == [text : Seq(Char), db : BOOLEAN]
<1>0. entries \in Seq(E)
  BY DEF Entries
<1> HIDE DEF E
<1>1. entries[f] \in E
  BY <1>0
<1> USE DEF E
<1> QED
  BY <1>1

(* In a file, the numbers are what they should be. *)
LEMMA InFile ==
  ASSUME IInv, pc # "next"
  PROVE  /\ file \in 1..Len(entries) /\ entries[file].db
         /\ text \in Seq(Char) /\ Len(text) \in Nat
         /\ curpos \in Nat /\ bufpos \in Nat /\ overhang \in Nat /\ offset \in Nat
         /\ Passed \in Nat /\ Passed <= offset /\ offset <= Len(text)
         /\ offset = Passed + (bufpos - curpos)
         /\ linenum = Cardinality(Upto(text, Passed))
         /\ Passed + 1 \notin Stream!Ends(text)
<1>1. TypeOK /\ Entries /\ Counted
  BY DEF IInv
<1>2. entries \in Seq([text : Seq(Char), db : BOOLEAN])
  BY <1>1 DEF Entries
<1>3. /\ file \in 1..Len(entries)+1 /\ file <= Len(entries) /\ entries[file].db
      /\ overhang <= offset /\ offset <= Len(text)
      /\ linenum = Cardinality(Upto(text, Passed))
      /\ Passed + 1 \notin Stream!Ends(text)
  BY <1>1 DEF TypeOK, Counted
<1>4. /\ zlib \in BOOLEAN /\ bbsize \in Nat /\ offset \in Nat
      /\ bufpos \in 0..(IF zlib THEN 2*blocksize ELSE bbsize) /\ curpos \in 0..bufpos
  BY <1>1 DEF TypeOK
<1>5. bufpos \in Nat /\ curpos \in Nat /\ curpos <= bufpos
  BY <1>4, BlockAssumption
<1>6. file \in 1..Len(entries)
  BY <1>2, <1>3
<1> QED
  BY <1>1, <1>3, <1>4, <1>5, <1>6, EntryTypes DEF overhang, Passed, text

(* A newline in the buffer is one of the file, and the ends of lines in    *)
(* the buffer are those of the part of the file that it holds.             *)
LEMMA EndPlaces ==
  ASSUME IInv, pc \in {"line", "retry"}
  PROVE  /\ \A p \in curpos..bufpos-1 :
              /\ Pos(p) \in 1..offset /\ buf[p] = <<file, Pos(p)>>
              /\ IsNewline(buf[p]) <=> text[Pos(p)] = NL
         /\ LineEnds \subseteq curpos+1..bufpos-1
         /\ \A p \in curpos+1..bufpos-1 : p \in LineEnds <=> Pos(p) \in Stream!Ends(text)
         /\ \A q \in Stream!Ends(text) :
              q <= Passed \/ offset < q \/ \E p \in LineEnds : Pos(p) = q
<1>0. /\ file \in 1..Len(entries) /\ text \in Seq(Char) /\ Len(text) \in Nat
      /\ curpos \in Nat /\ bufpos \in Nat /\ offset \in Nat
      /\ Passed \in Nat /\ offset <= Len(text) /\ offset = Passed + (bufpos - curpos)
      /\ Passed + 1 \notin Stream!Ends(text)
  BY InFile
<1>1. ASSUME NEW p \in curpos..bufpos-1
      PROVE  /\ Pos(p) \in 1..offset /\ buf[p] = <<file, Pos(p)>>
             /\ IsNewline(buf[p]) <=> text[Pos(p)] = NL
  <2>1. Pos(p) \in 1..offset
    BY <1>0 DEF Pos
  <2>2. buf[p] = <<file, Pos(p)>>
    BY DEF IInv, Cells, Pos
  <2>3. <<file, Pos(p)>> # Junk
    BY <1>0, <2>1, JunkAssumption
  <2> QED
    BY <2>1, <2>2, <2>3 DEF IsNewline, text
<1>2. LineEnds \subseteq curpos+1..bufpos-1
  BY DEF LineEnds
<1>3. ASSUME NEW p \in curpos+1..bufpos-1
      PROVE  p \in LineEnds <=> Pos(p) \in Stream!Ends(text)
  <2>1. p \in curpos..bufpos-1 /\ p-1 \in curpos..bufpos-1 /\ Pos(p-1) = Pos(p) - 1
    BY <1>0 DEF Pos
  <2>2. Pos(p) \in 2..Len(text)
    BY <1>0, <1>1, <2>1
  <2> QED
    BY <1>1, <2>1, <2>2 DEF LineEnds, Stream!Ends
<1>4. ASSUME NEW q \in Stream!Ends(text), ~(q <= Passed), ~(offset < q)
      PROVE  \E p \in LineEnds : Pos(p) = q
  <2> DEFINE p == curpos + (q - Passed) - 1
  <2>1. q \in Nat /\ q # Passed + 1
    BY <1>0, EndsFinite
  <2>2. p \in curpos+1..bufpos-1 /\ Pos(p) = q
    BY <1>0, <1>4, <2>1 DEF Pos
  <2> QED
    BY <1>3, <2>2
<1> QED
  BY <1>1, <1>2, <1>3, <1>4

(* The first end in the buffer is the next one of the file. *)
LEMMA FirstEndIs ==
  ASSUME IInv, pc \in {"line", "retry"}, LineEnds # {}
  PROVE  /\ FirstEnd \in LineEnds /\ FirstEnd \in curpos+1..bufpos-1
         /\ \A p \in LineEnds : FirstEnd <= p
         /\ Pos(FirstEnd) \in Stream!Ends(text)
         /\ Passed < Pos(FirstEnd) /\ Pos(FirstEnd) <= offset
         /\ \A q \in Stream!Ends(text) : q <= Passed \/ Pos(FirstEnd) <= q
         /\ LineStarts
<1>0. /\ curpos \in Nat /\ bufpos \in Nat /\ offset \in Nat
      /\ Passed \in Nat /\ offset = Passed + (bufpos - curpos)
      /\ text \in Seq(Char)
  BY InFile
<1>1. LineEnds \subseteq curpos+1..bufpos-1
  BY EndPlaces
<1>2. \E p \in LineEnds : \A q \in LineEnds : p <= q
  <2>1. LineEnds \subseteq Nat
    BY <1>0, <1>1
  <2> QED
    BY <2>1, LeastNumber
<1>3. FirstEnd \in LineEnds /\ \A p \in LineEnds : FirstEnd <= p
  BY <1>2 DEF FirstEnd
<1>4. Pos(FirstEnd) \in Stream!Ends(text) /\ FirstEnd \in curpos+1..bufpos-1
  BY <1>1, <1>3, EndPlaces
<1>5. Passed < Pos(FirstEnd) /\ Pos(FirstEnd) <= offset
  BY <1>0, <1>4 DEF Pos
<1>6. ASSUME NEW q \in Stream!Ends(text), ~(q <= Passed) PROVE Pos(FirstEnd) <= q
  <2>1. q \in Nat
    BY <1>0, EndsFinite
  <2>2. CASE offset < q
    BY <1>0, <1>4, <1>5, <2>1, <2>2 DEF Pos
  <2>3. CASE ~(offset < q)
    <3>1. PICK p \in LineEnds : Pos(p) = q
      BY <1>6, <2>3, EndPlaces
    <3>2. FirstEnd <= p /\ p \in Nat /\ FirstEnd \in Nat
      BY <1>0, <1>1, <1>3, <3>1
    <3> QED
      BY <1>0, <3>1, <3>2 DEF Pos
  <2> QED
    BY <2>2, <2>3
<1>7. LineStarts
  <2>1. ~ \A q \in Stream!Ends(text) : q <= Passed
    BY <1>0, <1>4, <1>5 DEF Pos
  <2> QED
    BY <2>1 DEF IInv, Phases, TypeOK
<1> QED
  BY <1>3, <1>4, <1>5, <1>6, <1>7

(* Before it there is a run of newlines and then the line: cleanline finds *)
(* the place where the line begins, which LineStart has in the file.       *)
LEMMA FirstCellIs ==
  ASSUME IInv, pc \in {"line", "retry"}, LineEnds # {}
  PROVE  /\ FirstCell \in curpos..FirstEnd-1
         /\ Stream!LineStart(text, Pos(FirstEnd)) = Pos(FirstCell)
         /\ \A q \in Pos(FirstCell)..Pos(FirstEnd)-1 : text[q] # NL
<1>0. /\ curpos \in Nat /\ bufpos \in Nat /\ offset \in Nat /\ FirstEnd \in Nat
      /\ Passed \in Nat /\ offset = Passed + (bufpos - curpos)
      /\ text \in Seq(Char)
      /\ FirstEnd \in curpos+1..bufpos-1 /\ FirstEnd \in LineEnds
      /\ Pos(FirstEnd) \in Stream!Ends(text)
      /\ LineStarts
  BY InFile, FirstEndIs
<1> DEFINE N(q) == IsNewline(buf[q])
           T == {q \in curpos..FirstEnd-1 : ~N(q)}
<1>1. FirstEnd - 1 \in T
  BY <1>0 DEF LineEnds
<1>2. PICK s \in T : \A q \in T : s <= q
  <2>1. T \subseteq Nat /\ T # {}
    BY <1>0, <1>1
  <2> HIDE DEF T
  <2> QED
    BY <2>1, LeastNumber
<1>3. s \in curpos..FirstEnd-1 /\ ~N(s) /\ s \in Nat
  BY <1>0, <1>2
<1>4. \A q \in curpos..s-1 : N(q)
  <2> SUFFICES ASSUME NEW q \in curpos..s-1, ~N(q) PROVE FALSE
    OBVIOUS
  <2>1. q \in T /\ q < s /\ q \in Nat
    BY <1>0, <1>3
  <2> QED
    BY <1>2, <1>3, <2>1
<1>5. \A q \in s..FirstEnd-1 : ~N(q)
  <2> DEFINE U == {q \in s..FirstEnd-1 : N(q)}
  <2> SUFFICES ASSUME U # {} PROVE FALSE
    OBVIOUS
  <2>1. U \subseteq Nat
    BY <1>3
  <2>2. PICK q \in U : \A r \in U : q <= r
    <3> HIDE DEF U
    <3> QED
      BY <2>1, LeastNumber
  <2>3. q \in s..FirstEnd-1 /\ N(q) /\ q # s
    BY <1>3, <2>2
  <2>4. q-1 \in s..FirstEnd-1 /\ q-1 \notin U
    BY <1>0, <1>3, <2>2, <2>3
  <2>5. ~N(q-1)
    BY <2>4
  <2>6. q \in LineEnds
    BY <1>0, <1>3, <2>3, <2>5 DEF LineEnds
  <2>7. FirstEnd <= q
    BY <2>6, FirstEndIs
  <2> QED
    BY <1>0, <1>3, <2>3, <2>7
<1>6. /\ FirstCell \in curpos..FirstEnd-1
      /\ \A q \in FirstCell..FirstEnd-1 : ~N(q)
      /\ \A q \in curpos..FirstCell-1 : N(q)
  <2>1. \E r \in curpos..FirstEnd-1 : /\ \A q \in r..FirstEnd-1 : ~N(q)
                                     /\ \A q \in curpos..r-1 : N(q)
    BY <1>3, <1>4, <1>5
  <2> QED
    BY <2>1 DEF FirstCell
<1> HIDE DEF T
<1>7. FirstCell \in Nat
  BY <1>0, <1>6
<1>8. \A q \in Pos(FirstCell)..Pos(FirstEnd)-1 : text[q] # NL
  <2> SUFFICES ASSUME NEW q \in Pos(FirstCell)..Pos(FirstEnd)-1 PROVE text[q] # NL
    OBVIOUS
  <2> DEFINE p == curpos + (q - Passed) - 1
  <2>1. p \in FirstCell..FirstEnd-1 /\ p \in curpos..bufpos-1 /\ Pos(p) = q
    BY <1>0, <1>6, <1>7 DEF Pos
  <2>2. ~N(p)
    BY <1>6, <2>1
  <2> HIDE DEF p
  <2> QED
    BY <2>1, <2>2, EndPlaces
<1>9. Pos(FirstCell) = 1 \/ text[Pos(FirstCell)-1] = NL
  <2>1. CASE FirstCell = curpos
    <3>1. Pos(FirstCell) = Passed + 1
      BY <1>0, <2>1 DEF Pos
    <3> QED
      BY <1>0, <3>1 DEF LineStarts
  <2>2. CASE FirstCell # curpos
    <3>1. FirstCell-1 \in curpos..FirstCell-1 /\ FirstCell-1 \in curpos..bufpos-1
          /\ Pos(FirstCell-1) = Pos(FirstCell)-1
      BY <1>0, <1>6, <1>7, <2>2 DEF Pos
    <3>2. N(FirstCell-1)
      BY <1>6, <3>1
    <3> QED
      BY <3>1, <3>2, EndPlaces
  <2> QED
    BY <2>1, <2>2
<1>10. Pos(FirstCell) \in 1..Pos(FirstEnd)-1
  BY <1>0, <1>6, <1>7 DEF Pos
<1> QED
  BY <1>0, <1>6, <1>8, <1>9, <1>10, LineStartIs
-----------------------------------------------------------------------------
(* The line that Count cuts is the next one of the file. *)
LEMMA CleanlineIs ==
  ASSUME IInv, pc \in {"line", "retry"}, LineEnds # {}
  PROVE  /\ linenum \in Nat /\ linenum < Stream!Lines(file)
         /\ Cardinality(Upto(text, Pos(FirstEnd))) = linenum + 1
         /\ cleanline = Stream!Line(file, linenum + 1)
         /\ \A e \in 1..Len(cleanline) : cleanline[e] \in Nat \X Nat
<1>0. /\ curpos \in Nat /\ bufpos \in Nat /\ offset \in Nat
      /\ Passed \in Nat /\ offset = Passed + (bufpos - curpos)
      /\ text \in Seq(Char) /\ file \in 1..Len(entries) /\ entries[file].db
      /\ linenum = Cardinality(Upto(text, Passed))
  BY InFile
<1>1. /\ Pos(FirstEnd) \in Stream!Ends(text) /\ Passed < Pos(FirstEnd)
      /\ \A q \in Stream!Ends(text) : q <= Passed \/ Pos(FirstEnd) <= q
      /\ FirstEnd \in curpos+1..bufpos-1
  BY FirstEndIs
<1>2. /\ FirstCell \in curpos..FirstEnd-1
      /\ Stream!LineStart(text, Pos(FirstEnd)) = Pos(FirstCell)
  BY FirstCellIs
<1>3. /\ Cardinality(Upto(text, Pos(FirstEnd))) = linenum + 1
      /\ linenum < Cardinality(Stream!Ends(text))
  BY <1>0, <1>1, UptoNext
<1>4. linenum \in Nat /\ linenum < Stream!Lines(file)
  <2>1. Stream!Lines(file) = Cardinality(Stream!Ends(text))
    BY <1>0, SameCardinality DEF Stream!Lines, text
  <2> QED
    BY <1>0, <1>3, <2>1, EndsFinite
<1>5. Stream!NthEnd(text, linenum + 1) = Pos(FirstEnd)
  BY <1>0, <1>1, <1>3, NthEndIs
<1>6. Stream!Line(file, linenum + 1)
        = [e \in 1..Pos(FirstEnd) - Pos(FirstCell) + 1 |-> <<file, Pos(FirstCell) + e - 1>>]
  BY <1>2, <1>5 DEF Stream!Line, text
<1>7. FirstEnd \in Nat /\ FirstCell \in Nat
  BY <1>0, <1>1, <1>2
<1>8. Pos(FirstEnd) - Pos(FirstCell) + 1 = FirstEnd - FirstCell + 1
  BY <1>0, <1>7 DEF Pos
<1>9. ASSUME NEW e \in 1..FirstEnd - FirstCell + 1
      PROVE  /\ buf[FirstCell + e - 1] = <<file, Pos(FirstCell) + e - 1>>
             /\ Pos(FirstCell) + e - 1 \in Nat
  <2>1. FirstCell + e - 1 \in curpos..bufpos-1
        /\ Pos(FirstCell + e - 1) = Pos(FirstCell) + e - 1
    BY <1>0, <1>1, <1>2, <1>7 DEF Pos
  <2>2. /\ buf[FirstCell + e - 1] = <<file, Pos(FirstCell + e - 1)>>
        /\ Pos(FirstCell + e - 1) \in 1..offset
    BY <2>1, EndPlaces
  <2> QED
    BY <1>0, <2>1, <2>2
<1>10. cleanline = Stream!Line(file, linenum + 1)
  BY <1>6, <1>8, <1>9 DEF cleanline
<1>11. ASSUME NEW e \in 1..Len(cleanline) PROVE cleanline[e] \in Nat \X Nat
  <2>1. FirstEnd - FirstCell + 1 \in Nat
    BY <1>1, <1>2, <1>7
  <2>2. e \in 1..FirstEnd - FirstCell + 1
    BY <2>1 DEF cleanline
  <2>3. cleanline[e] = <<file, Pos(FirstCell) + e - 1>>
    BY <1>9, <2>2 DEF cleanline
  <2>4. file \in Nat
    BY <1>0
  <2> QED
    BY <1>9, <2>2, <2>3, <2>4
<1> QED
  BY <1>3, <1>4, <1>10, <1>11

(* And with -i it fits into its copy. *)
LEMMA LineFits ==
  ASSUME IInv, pc \in {"line", "retry"}, LineEnds # {}
  PROVE  CopyFits
<1> SUFFICES ASSUME wild PROVE Len(cleanline) <= originallinelength
  BY DEF CopyFits
<1>0. /\ curpos \in Nat /\ bufpos \in Nat /\ Passed \in Nat
      /\ offset \in Nat /\ offset = Passed + (bufpos - curpos) /\ offset <= Len(text)
      /\ text \in Seq(Char) /\ Len(text) \in Nat /\ file \in 1..Len(entries)
  BY InFile
<1>1. /\ Pos(FirstEnd) \in Stream!Ends(text) /\ FirstEnd \in curpos+1..bufpos-1
      /\ FirstEnd \in Nat
  BY <1>0, FirstEndIs
<1>2. /\ FirstCell \in curpos..FirstEnd-1 /\ FirstCell \in Nat
      /\ Stream!LineStart(text, Pos(FirstEnd)) = Pos(FirstCell)
      /\ \A q \in Pos(FirstCell)..Pos(FirstEnd)-1 : text[q] # NL
  BY <1>0, <1>1, FirstCellIs
<1> DEFINE p == Pos(FirstCell)
           q == Pos(FirstEnd)
<1>3. p \in 1..Len(text) /\ q \in 1..Len(text) /\ q - p = FirstEnd - FirstCell
  BY <1>0, <1>1, <1>2 DEF Pos
<1>4. text[q] = NL
  BY <1>1 DEF Stream!Ends
<1>5. ShortLines /\ file \in DOMAIN entries
  BY <1>0 DEF IInv, Entries
<1> HIDE DEF p, q
<1>6. q - p < originallinelength
  BY <1>2, <1>3, <1>4, <1>5 DEF ShortLines, text, p, q
<1>7. Len(cleanline) = FirstEnd - FirstCell + 1
  BY <1>1, <1>2 DEF cleanline
<1> QED
  BY <1>1, <1>2, <1>3, <1>6, <1>7, BlockAssumption

(* What a place is does not change with the step. *)
LEMMA SameInput ==
  ASSUME Entries, UNCHANGED input
  PROVE  Entries' /\ Place' = Place
BY DEF Entries, input, Place, ShortLines

(* A line is delivered, and the part of the buffer behind it holds the     *)
(* text behind it.                                                         *)
LEMMA CountKeeps ==
  ASSUME IInv, pc \in {"line", "retry"}, LineEnds # {}, Count,
         UNCHANGED <<input, file, offset, two, big, bufpos, reported>>
  PROVE  Stream!Deliver /\ IInv'
<1> USE DEF input, two, big
<1>0. /\ curpos \in Nat /\ bufpos \in Nat /\ offset \in Nat
      /\ Passed \in Nat /\ offset = Passed + (bufpos - curpos) /\ offset <= Len(text)
      /\ text \in Seq(Char) /\ Len(text) \in Nat
      /\ file \in 1..Len(entries) /\ entries[file].db
      /\ entries \in Seq([text : Seq(Char), db : BOOLEAN])
  BY InFile DEF IInv, Entries
<1>1. /\ FirstEnd \in curpos+1..bufpos-1
      /\ Pos(FirstEnd) \in Stream!Ends(text)
      /\ Passed < Pos(FirstEnd) /\ Pos(FirstEnd) <= offset
  BY FirstEndIs
<1>2. /\ linenum' = linenum + 1 /\ line' = cleanline /\ curpos' = FirstEnd + 1
      /\ pc' = "line" /\ text' = text /\ buf' = buf /\ bufpos' = bufpos
      /\ offset' = offset /\ file' = file /\ zlib' = zlib /\ entries' = entries
  BY DEF Count, text, buf
<1>3. Stream!Deliver
  BY <1>0, <1>2, CleanlineIs DEF Stream!Deliver
<1>4. /\ Passed' = Pos(FirstEnd) /\ overhang' <= offset'
      /\ \A p \in Nat : Pos(p)' = Pos(p)
      /\ curpos' \in curpos..bufpos
  BY <1>0, <1>1, <1>2 DEF Passed, overhang, Pos
<1>5. TypeOK'
  <2>1. linenum' \in Nat /\ \A e \in 1..Len(line') : line'[e] \in Nat \X Nat
    BY <1>2, CleanlineIs
  <2>2. curpos' \in 0..bufpos'
    BY <1>0, <1>2, <1>4
  <2>3. Place' = Place
    BY <1>2 DEF Place
  <2> QED
    BY <1>0, <1>2, <2>1, <2>2, <2>3 DEF IInv, TypeOK
<1>6. Entries'
  BY SameInput DEF IInv
<1>7. text[Passed'] = NL
  BY <1>1, <1>4 DEF Stream!Ends
<1>8. Passed' + 1 \notin Stream!Ends(text)
  <2>1. (Passed' + 1) - 1 = Passed'
    BY <1>0, <1>1, <1>4 DEF Pos
  <2> QED
    BY <1>7, <2>1 DEF Stream!Ends
<1>9. Counted'
  <2>1. linenum' = Cardinality(Upto(text, Passed'))
    BY <1>2, <1>4, CleanlineIs
  <2>2. linenum' = Cardinality(Upto(text', Passed'))
    BY <1>2, <2>1
  <2>3. Passed' + 1 \notin Stream!Ends(text')
    BY <1>2, <1>8
  <2>4. overhang' <= offset' /\ offset' <= Len(text') /\ file' <= Len(entries')
        /\ entries'[file'].db
    BY <1>0, <1>2, <1>4
  <2> QED
    BY <1>2, <2>2, <2>3, <2>4 DEF Counted
<1>10. Cells'
  <2> SUFFICES ASSUME NEW p \in curpos'..bufpos'-1
               PROVE  buf'[p] = <<file', Pos(p)'>>
    BY <1>2 DEF Cells, Pos
  <2>1. p \in curpos..bufpos-1 /\ p \in Nat
    BY <1>0, <1>2, <1>4
  <2>2. buf[p] = <<file, Pos(p)>>
    BY <2>1, EndPlaces
  <2> QED
    BY <1>2, <1>4, <2>1, <2>2
<1>11. Phases'
  BY <1>2, <1>7 DEF IInv, Phases, LineStarts
<1> QED
  BY <1>3, <1>5, <1>6, <1>9, <1>10, <1>11 DEF IInv
-----------------------------------------------------------------------------
(* Wherever a file is left, the next entry begins afresh. *)
LEMMA LeaveKeeps ==
  ASSUME IInv, file <= Len(entries), Leave, UNCHANGED <<input, offset, buffers, line>>,
         reported' = reported \/ reported' = reported \cup {file}
  PROVE  IInv'
<1> USE DEF input, buffers, two, big
<1>0. Len(entries) \in Nat /\ file \in 1..Len(entries)
  BY DEF IInv, Entries, TypeOK
<1>1. Entries' /\ Place' = Place
  BY SameInput DEF IInv
<1>2. pc' = "next" /\ file' \in 1..Len(entries)+1 /\ linenum' = 0
  BY <1>0 DEF Leave
<1>3. TypeOK'
  BY <1>0, <1>1, <1>2 DEF IInv, TypeOK
<1> QED
  BY <1>1, <1>2, <1>3 DEF IInv, Counted, Cells, Phases

LEMMA InitInv == Init => IInv
<1> SUFFICES ASSUME Init PROVE IInv
  OBVIOUS
<1>1. entries \in Seq([text : Seq(Char), db : BOOLEAN]) /\ zlib \in BOOLEAN
      /\ (zlib => entries \in Directories)
  BY EntriesAssumption DEF Init
<1>2. Len(entries) \in Nat
  BY <1>1
<1>3. blocksize \in Nat /\ initialsize \in Nat
  BY BlockAssumption
<1>4. TypeOK
  BY <1>1, <1>2, <1>3 DEF Init, TypeOK, Place
<1> QED
  BY <1>1, <1>4 DEF Init, IInv, Entries, Counted, Cells, Phases

LEMMA SkipEntryEnds == ASSUME IInv, SkipEntry PROVE Stream!EndFile /\ IInv'
<1>1. IInv'
  BY LeaveKeeps DEF SkipEntry
<1>2. linenum = 0 /\ Stream!Lines(file) = 0
  BY DEF SkipEntry, IInv, Counted, Stream!Lines
<1> QED
  BY <1>1, <1>2 DEF SkipEntry, Leave, input, Stream!EndFile, Stream!NextFile

LEMMA OpenFailsGivesUp == ASSUME IInv, OpenFails PROVE Stream!GiveUp /\ IInv'
<1>1. IInv'
  BY LeaveKeeps DEF OpenFails
<1> QED
  BY <1>1 DEF OpenFails, Leave, input, Stream!GiveUp, Stream!NextFile

LEMMA ReadFailsGivesUp == ASSUME IInv, ReadFails PROVE Stream!GiveUp /\ IInv'
<1>1. file <= Len(entries) /\ entries[file].db
  BY DEF ReadFails, IInv, Counted
<1>2. IInv'
  BY <1>1, LeaveKeeps DEF ReadFails
<1> QED
  BY <1>1, <1>2 DEF ReadFails, Leave, input, Stream!GiveUp, Stream!NextFile

(* No line of a file that was just opened has been passed. *)
LEMMA OpenKeeps == ASSUME IInv, Open PROVE UNCHANGED Stream!vars /\ IInv'
<1> USE DEF input, two, big
<1>0. Len(entries) \in Nat /\ file \in 1..Len(entries) /\ entries[file].db
  BY DEF Open, IInv, Entries, TypeOK
<1>1. Entries' /\ Place' = Place
  BY SameInput DEF IInv, Open
<1>2. text' = text /\ text \in Seq(Char) /\ Len(text) \in Nat
  BY <1>0, EntryTypes DEF Open, IInv, text
<1>3. offset' = 0 /\ curpos' = 0 /\ bufpos' = 0 /\ overhang' = 0 /\ Passed' = 0
      /\ pc' \in {"line", "buffering"}
  BY DEF Open, overhang, Passed
<1>4. TypeOK'
  BY <1>0, <1>1, <1>2, <1>3, BlockAssumption DEF Open, IInv, TypeOK
<1>5. Counted'
  <2>1. Upto(text, 0) = {}
    <3>1. Stream!Ends(text) \subseteq 1..Len(text)
      BY <1>2, EndsFinite
    <3> QED
      BY <1>2, <3>1 DEF Upto
  <2>2. Cardinality(Upto(text, 0)) = 0
    BY <2>1, FS_EmptySet
  <2>3. linenum' = 0
    BY DEF Open, IInv, Counted
  <2>4. 0 + 1 \notin Stream!Ends(text)
    BY DEF Stream!Ends
  <2> QED
    BY <1>0, <1>2, <1>3, <2>2, <2>3, <2>4 DEF Open, Counted
<1>6. Cells'
  BY <1>3 DEF Cells
<1>7. Phases'
  BY <1>3 DEF Open, Phases, LineStarts, IInv, TypeOK
<1> QED
  BY <1>1, <1>4, <1>5, <1>6, <1>7 DEF IInv, Open, Stream!vars

(* What is left of a partial line is carried over.  No line ends in it.    *)
LEMMA MoveOverhangKeeps == ASSUME IInv, MoveOverhang PROVE UNCHANGED Stream!vars /\ IInv'
<1> USE DEF input, big
<1>0. /\ curpos \in Nat /\ bufpos \in Nat /\ offset \in Nat /\ overhang \in Nat
      /\ Passed \in Nat /\ offset = Passed + (bufpos - curpos) /\ offset <= Len(text)
      /\ bufpos <= 2*blocksize /\ blocksize \in Nat /\ curbuf \in {0, 1} /\ 1 - curbuf \in {0, 1}
      /\ zlib /\ zlib' /\ bufs \in [{0, 1} -> [0..2*blocksize-1 -> Place]]
  <2>1. /\ curpos \in Nat /\ bufpos \in Nat /\ offset \in Nat
        /\ bufs \in [{0, 1} -> [0..2*blocksize-1 -> Place]]
    BY DEF IInv, TypeOK
  <2>2. curbuf \in {0, 1} /\ 1 - curbuf \in {0, 1}
    BY DEF IInv, TypeOK
  <2>3. blocksize \in Nat /\ zlib /\ zlib'
    BY BlockAssumption DEF MoveOverhang
  <2>4. bufpos <= 2*blocksize
    BY <2>1, <2>3 DEF IInv, TypeOK
  <2>5. pc # "next"
    BY DEF MoveOverhang
  <2>6. /\ overhang \in Nat /\ Passed \in Nat /\ offset = Passed + (bufpos - curpos)
        /\ offset <= Len(text)
    BY <2>5, InFile
  <2> QED
    BY ONLY <2>1, <2>2, <2>3, <2>4, <2>6
<1>1. Entries' /\ Place' = Place
  BY SameInput DEF IInv, MoveOverhang
<1>2. text' = text /\ overhang' = overhang /\ Passed' = Passed /\ pc' = "read"
  BY DEF MoveOverhang, text, overhang, Passed
<1>3. \A p \in 0..2*blocksize-1 :
        bufs'[1 - curbuf][p] = IF p < overhang THEN bufs[curbuf][curpos + p] ELSE bufs[1 - curbuf][p]
  <2>1. ASSUME NEW p \in 0..2*blocksize-1, p < overhang PROVE Carried[p] = bufs[curbuf][curpos + p]
    BY <1>0, <2>1 DEF Carried
  <2>2. bufs'[1 - curbuf]
          = [p \in 0..2*blocksize-1 |-> IF p < overhang THEN Carried[p] ELSE bufs[1 - curbuf][p]]
    BY <1>0 DEF MoveOverhang
  <2> QED
    BY <2>1, <2>2
<1>4. bufs' \in [{0, 1} -> [0..2*blocksize-1 -> Place]]
  <2>1. ASSUME NEW p \in 0..2*blocksize-1
        PROVE  (IF p < overhang THEN Carried[p] ELSE bufs[1 - curbuf][p]) \in Place
    <3>1. CASE p < overhang
      <4>1. p \in 0..overhang-1 /\ curpos + p \in 0..2*blocksize-1
        BY <1>0, <3>1 DEF overhang
      <4>2. Carried[p] = bufs[curbuf][curpos + p]
        BY <4>1 DEF Carried
      <4> QED
        BY <1>0, <3>1, <4>1, <4>2
    <3>2. CASE ~(p < overhang)
      BY <1>0, <3>2
    <3> QED
      BY <3>1, <3>2
  <2>2. DOMAIN bufs[1 - curbuf] = 0..2*blocksize-1
    BY <1>0
  <2> DEFINE new == [p \in 0..2*blocksize-1 |-> IF p < overhang THEN Carried[p] ELSE bufs[1 - curbuf][p]]
  <2>3. new \in [0..2*blocksize-1 -> Place]
    BY <2>1
  <2>4. bufs' = [bufs EXCEPT ![1 - curbuf] = new]
    BY <2>2 DEF MoveOverhang
  <2> QED
    BY <1>0, <2>3, <2>4
<1>5. TypeOK'
  BY <1>0, <1>1, <1>2, <1>4 DEF MoveOverhang, IInv, TypeOK
<1>6. Counted'
  BY <1>2 DEF MoveOverhang, IInv, Counted
<1>7. Cells'
  <2> SUFFICES ASSUME NEW p \in 0..overhang-1 PROVE buf'[p] = <<file, Passed + p + 1>>
    BY <1>2 DEF MoveOverhang, Cells
  <2>1. p \in 0..2*blocksize-1 /\ p < overhang /\ curpos + p \in curpos..bufpos-1
        /\ Pos(curpos + p) = Passed + p + 1
    BY <1>0 DEF overhang, Pos
  <2>2. buf[curpos + p] = <<file, Pos(curpos + p)>>
    BY <2>1, EndPlaces DEF MoveOverhang
  <2>3. buf'[p] = bufs'[1 - curbuf][p] /\ buf[curpos + p] = bufs[curbuf][curpos + p]
    BY <1>0 DEF MoveOverhang, buf
  <2> QED
    BY <1>3, <2>1, <2>2, <2>3
<1>8. Phases'
  <2>1. \A q \in Stream!Ends(text) : q <= Passed \/ offset < q
    BY EndPlaces DEF MoveOverhang
  <2>2. LineStarts'
    BY <1>0, <1>2 DEF MoveOverhang, IInv, Phases, LineStarts
  <2> QED
    BY <1>0, <1>2, <2>1, <2>2 DEF MoveOverhang, Phases
<1> QED
  BY <1>1, <1>5, <1>6, <1>7, <1>8 DEF IInv, MoveOverhang, Stream!vars
(* If no line ends behind what was passed, all have been delivered. *)
LEMMA AllDelivered ==
  ASSUME IInv, pc # "next", \A q \in Stream!Ends(text) : q <= Passed
  PROVE  linenum = Stream!Lines(file)
<1>1. Upto(text, Passed) = Stream!Ends(text)
  BY DEF Upto
<1>2. Stream!Lines(file) = Cardinality(Stream!Ends(text))
  BY InFile, SameCardinality DEF Stream!Lines, text
<1> QED
  BY <1>1, <1>2, InFile

LEMMA AtEndEnds == ASSUME IInv, AtEnd PROVE Stream!EndFile /\ IInv'
<1>0. /\ Passed \in Nat /\ offset \in Nat /\ offset <= Len(text) /\ Len(text) \in Nat
      /\ text \in Seq(Char) /\ blocksize \in Nat \ {0} /\ file <= Len(entries)
  BY InFile, BlockAssumption DEF AtEnd, IInv, Counted
<1>1. offset = Len(text)
  BY <1>0 DEF AtEnd, blockread
<1>2. \A q \in Stream!Ends(text) : q <= Passed
  <2>1. Stream!Ends(text) \subseteq 1..Len(text)
    BY <1>0, EndsFinite
  <2>2. \A q \in Stream!Ends(text) : q <= Passed \/ offset < q
    BY DEF AtEnd, IInv, Phases
  <2> QED
    BY <1>0, <1>1, <2>1, <2>2
<1>3. linenum = Stream!Lines(file)
  BY <1>2, AllDelivered DEF AtEnd
<1>4. IInv'
  BY <1>0, LeaveKeeps DEF AtEnd
<1> QED
  BY <1>0, <1>3, <1>4 DEF AtEnd, Leave, input, Stream!EndFile, Stream!NextFile

LEMMA EndBufferEnds == ASSUME IInv, EndBuffer PROVE Stream!EndFile /\ IInv'
<1>0. /\ Passed \in Nat /\ offset = Passed + (bufpos - curpos) /\ curpos \in Nat /\ bufpos \in Nat
      /\ Passed <= offset /\ text \in Seq(Char) /\ Len(text) \in Nat /\ offset = Len(text)
      /\ file <= Len(entries)
  BY InFile DEF EndBuffer, IInv, Counted, Phases
<1>1. \A q \in Stream!Ends(text) : q <= Passed
  <2>1. Stream!Ends(text) \subseteq 1..Len(text)
    BY <1>0, EndsFinite
  <2> QED
    BY <1>0, <2>1 DEF EndBuffer
<1>2. linenum = Stream!Lines(file)
  BY <1>1, AllDelivered DEF EndBuffer
<1>3. IInv'
  BY <1>0, LeaveKeeps DEF EndBuffer
<1> QED
  BY <1>0, <1>2, <1>3 DEF EndBuffer, Leave, input, Stream!EndFile, Stream!NextFile

(* The next line ends within a block of where it begins: what is left of   *)
(* it and a block fit into a buffer, and its end is in the block.          *)
LEMMA BlockCompletes ==
  ASSUME IInv, pc = "read", blockread > 0
  PROVE  /\ overhang < blocksize /\ blockread <= blocksize /\ offset + blockread <= Len(text)
         /\ \E q \in Stream!Ends(text) : Passed < q /\ q <= offset + blockread
<1>0. /\ Passed \in Nat /\ offset \in Nat /\ offset <= Len(text) /\ Len(text) \in Nat
      /\ Passed <= offset /\ offset = Passed + overhang /\ overhang \in Nat
      /\ text \in Seq(Char) /\ blocksize \in Nat \ {0}
      /\ file \in 1..Len(entries) /\ entries \in Directories
  BY InFile, BlockAssumption DEF IInv, Phases, TypeOK, Entries, overhang
<1>1. blockread <= blocksize /\ offset + blockread <= Len(text) /\ offset < Len(text)
      /\ (offset + blockread = Len(text) \/ blockread = blocksize) /\ blockread \in Nat
  <2>1. CASE Len(text) - offset < blocksize
    <3>1. blockread = Len(text) - offset
      BY <2>1 DEF blockread
    <3> QED
      BY <1>0, <2>1, <3>1
  <2>2. CASE ~(Len(text) - offset < blocksize)
    <3>1. blockread = blocksize
      BY <2>2 DEF blockread
    <3> QED
      BY <1>0, <2>2, <3>1
  <2> QED
    BY <2>1, <2>2
<1>2. LineStarts
  BY DEF IInv, Phases, TypeOK
<1>3. PICK q \in Passed+2..Passed+blocksize : q <= Len(text) /\ text[q] = NL /\ text[q-1] # NL
  <2>1. Passed \in 0..Len(text)-1
    BY <1>0, <1>1
  <2>2. file \in DOMAIN entries
    BY <1>0 DEF IInv, Entries
  <2> QED
    BY <1>0, <1>2, <2>1, <2>2, DirectoriesAssumption DEF text, LineStarts
<1>4. q \in Stream!Ends(text) /\ q \in Nat
  BY <1>0, <1>3 DEF Stream!Ends
<1>5. offset < q
  BY <1>0, <1>3, <1>4 DEF IInv, Phases
<1>6. overhang < blocksize /\ Passed < q /\ q <= offset + blockread
  BY <1>0, <1>1, <1>3, <1>4, <1>5
<1> QED
  BY <1>1, <1>4, <1>6

LEMMA RefillKeeps == ASSUME IInv, Refill PROVE UNCHANGED Stream!vars /\ IInv'
<1> USE DEF input, big
<1>0. /\ curpos \in Nat /\ bufpos \in Nat /\ offset \in Nat /\ overhang \in Nat
      /\ Passed \in Nat /\ offset = Passed + overhang /\ offset <= Len(text)
      /\ Len(text) \in Nat /\ file \in 1..Len(entries) /\ blocksize \in Nat /\ curbuf \in {0, 1}
      /\ zlib /\ zlib' /\ bufs \in [{0, 1} -> [0..2*blocksize-1 -> Place]]
  BY InFile, BlockAssumption DEF Refill, IInv, TypeOK, Phases, overhang
<1>1. Entries' /\ Place' = Place
  BY SameInput DEF IInv, Refill
<1>2. /\ overhang < blocksize /\ blockread <= blocksize /\ offset + blockread <= Len(text)
      /\ \E q \in Stream!Ends(text) : Passed < q /\ q <= offset + blockread
  BY BlockCompletes DEF Refill
<1>3. blockread \in Nat
  BY <1>0, BlockAssumption DEF blockread
<1>4. /\ offset' = offset + blockread /\ curpos' = 0 /\ bufpos' = overhang + blockread
      /\ pc' = "retry" /\ text' = text /\ overhang' = overhang + blockread /\ Passed' = Passed
  BY <1>0, <1>3 DEF Refill, NewBufpos, text, overhang, Passed
<1>5. \A p \in 0..2*blocksize-1 :
        bufs'[curbuf][p] = IF p \in overhang..overhang + blockread - 1
                           THEN <<file, offset + p - overhang + 1>> ELSE bufs[curbuf][p]
  BY <1>0 DEF Refill
<1>6. bufs' \in [{0, 1} -> [0..2*blocksize-1 -> Place]]
  <2>1. ASSUME NEW p \in overhang..overhang + blockread - 1
        PROVE  <<file, offset + p - overhang + 1>> \in Place
    <3>1. offset + p - overhang + 1 \in 1..Len(text)
      BY <1>0, <1>2, <1>3
    <3> QED
      BY <1>0, <3>1 DEF Place, text
  <2> DEFINE new == [p \in 0..2*blocksize-1 |-> IF p \in overhang..overhang + blockread - 1
                                    THEN <<file, offset + p - overhang + 1>> ELSE bufs[curbuf][p]]
  <2>2. new \in [0..2*blocksize-1 -> Place]
    BY <1>0, <2>1
  <2>3. bufs' = [bufs EXCEPT ![curbuf] = new]
    BY <1>0 DEF Refill
  <2> QED
    BY <1>0, <2>2, <2>3
<1>7. TypeOK'
  <2>1. bufpos' \in 0..2*blocksize /\ curpos' \in 0..bufpos' /\ offset' \in Nat /\ offset' <= Len(text')
    BY <1>0, <1>2, <1>3, <1>4
  <2> QED
    BY <1>0, <1>1, <1>4, <1>6, <2>1 DEF Refill, IInv, TypeOK
<1>8. Counted'
  <2>1. overhang' <= offset' /\ offset' <= Len(text')
    BY <1>0, <1>2, <1>3, <1>4
  <2> QED
    BY <1>4, <2>1 DEF Refill, IInv, Counted
<1>9. Cells'
  <2> SUFFICES ASSUME NEW p \in 0..overhang + blockread - 1
               PROVE  buf'[p] = <<file, Passed + p + 1>>
    BY <1>0, <1>3, <1>4 DEF Refill, Cells
  <2>1. p \in 0..2*blocksize-1 /\ offset + p - overhang + 1 = Passed + p + 1
    BY <1>0, <1>2, <1>3
  <2>2. buf'[p] = bufs'[curbuf][p] /\ buf[p] = bufs[curbuf][p]
    BY <1>0 DEF Refill, buf
  <2>3. CASE p \in overhang..overhang + blockread - 1
    BY <1>5, <2>1, <2>2, <2>3
  <2>4. CASE p \notin overhang..overhang + blockread - 1
    <3>1. p \in 0..overhang-1
      BY <1>0, <1>3, <2>4
    <3>2. buf[p] = <<file, Passed + p + 1>>
      BY <3>1 DEF Refill, IInv, Cells
    <3> QED
      BY <1>5, <2>1, <2>2, <2>4, <3>2
  <2> QED
    BY <2>3, <2>4
<1>10. Phases'
  <2>1. LineStarts'
    BY <1>0, <1>4 DEF Refill, IInv, Phases, LineStarts
  <2> QED
    BY <1>0, <1>2, <1>4, <2>1 DEF Phases
<1> QED
  BY <1>1, <1>4, <1>7, <1>8, <1>9, <1>10 DEF IInv, Refill, Stream!vars

(* So the second cleanline finds it. *)
LEMMA RetryDelivers == ASSUME IInv, Retry PROVE Stream!Deliver /\ IInv'
<1>1. LineEnds # {}
  <2>1. PICK q \in Stream!Ends(text) : Passed < q /\ q <= offset
    BY DEF Retry, IInv, Phases
  <2>2. q \in Nat /\ Passed \in Nat /\ offset \in Nat
    BY InFile, EndsFinite DEF Retry
  <2>3. \E p \in LineEnds : Pos(p) = q
    BY <2>1, <2>2, EndPlaces DEF Retry
  <2> QED
    BY <2>3
<1> QED
  BY <1>1, LineFits, CountKeeps DEF Retry

LEMMA CutLineDelivers == ASSUME IInv, CutLine PROVE Stream!Deliver /\ IInv'
BY LineFits, CountKeeps DEF CutLine
-----------------------------------------------------------------------------
(* NOZLIB: the file is in memory from its first character on. *)
LEMMA DoubleKeeps == ASSUME IInv, Double PROVE UNCHANGED Stream!vars /\ IInv'
<1> USE DEF input, two
<1>0. /\ curpos \in Nat /\ bufpos \in Nat /\ bbsize \in Nat /\ bufpos <= bbsize
      /\ ~zlib /\ ~zlib' /\ bigbuf \in [0..bbsize-1 -> Place] /\ curpos <= bufpos
  BY InFile DEF Double, IInv, TypeOK, Phases
<1>1. Entries' /\ Place' = Place
  BY SameInput DEF IInv, Double
<1>2. /\ bbsize' = 2 * bbsize /\ text' = text /\ overhang' = overhang /\ Passed' = Passed
      /\ curpos' = curpos /\ bufpos' = bufpos /\ pc' = "buffering"
  BY DEF Double, text, overhang, Passed
<1>3. bigbuf' \in [0..bbsize'-1 -> Place]
  BY <1>0, <1>2 DEF Double, Place
<1>4. TypeOK'
  BY <1>0, <1>1, <1>2, <1>3 DEF Double, IInv, TypeOK
<1>5. Counted'
  BY <1>2 DEF Double, IInv, Counted
<1>6. Cells'
  <2> SUFFICES ASSUME NEW p \in curpos..bufpos-1 PROVE buf'[p] = buf[p]
    BY <1>0, <1>2 DEF Double, IInv, Cells
  <2> QED
    BY <1>0, <1>2 DEF Double, buf
<1>7. Phases'
  BY <1>0, <1>2 DEF Double, IInv, Phases
<1> QED
  BY <1>1, <1>4, <1>5, <1>6, <1>7 DEF IInv, Double, Stream!vars

LEMMA FreadKeeps == ASSUME IInv, Fread PROVE UNCHANGED Stream!vars /\ IInv'
<1> USE DEF input, two
<1>0. /\ curpos = 0 /\ bufpos \in Nat /\ bbsize \in Nat /\ bufpos = offset
      /\ offset \in Nat /\ Len(text) \in Nat /\ offset <= Len(text) /\ Passed = 0
      /\ file \in 1..Len(entries) /\ blocksize \in Nat \ {0}
      /\ bufpos + blocksize <= bbsize
      /\ ~zlib /\ ~zlib' /\ bigbuf \in [0..bbsize-1 -> Place]
  BY InFile, BlockAssumption DEF Fread, Room, IInv, TypeOK, Phases, Passed, overhang
<1>1. Entries' /\ Place' = Place
  BY SameInput DEF IInv, Fread
<1>2. /\ blockread \in Nat /\ offset + blockread <= Len(text) /\ blockread <= blocksize
      /\ blockread < blocksize => offset + blockread = Len(text)
  <2>1. CASE Len(text) - offset < blocksize
    <3>1. blockread = Len(text) - offset
      BY <2>1 DEF blockread
    <3> QED
      BY <1>0, <2>1, <3>1
  <2>2. CASE ~(Len(text) - offset < blocksize)
    <3>1. blockread = blocksize
      BY <2>2 DEF blockread
    <3> QED
      BY <1>0, <2>2, <3>1
  <2> QED
    BY <2>1, <2>2
<1>3. /\ offset' = offset + blockread /\ curpos' = 0 /\ bufpos' = offset' /\ bbsize' = bbsize
      /\ pc' = IF blockread < blocksize THEN "line" ELSE "buffering"
      /\ text' = text /\ overhang' = offset' /\ Passed' = 0
  BY <1>0, <1>2 DEF Fread, text, overhang, Passed
<1>4. \A p \in 0..bbsize-1 :
        bigbuf'[p] = IF p \in bufpos..bufpos + blockread - 1 THEN <<file, offset + p - bufpos + 1>>
                     ELSE IF p = bufpos + blockread THEN Junk ELSE bigbuf[p]
  BY DEF Fread
<1>5. bigbuf' \in [0..bbsize'-1 -> Place]
  <2>1. ASSUME NEW p \in bufpos..bufpos + blockread - 1
        PROVE  <<file, offset + p - bufpos + 1>> \in Place
    <3>1. offset + p - bufpos + 1 \in 1..Len(text)
      BY <1>0, <1>2
    <3> QED
      BY <1>0, <3>1 DEF Place, text
  <2>2. Junk \in Place
    BY DEF Place
  <2>3. ASSUME NEW p \in 0..bbsize-1
        PROVE  (IF p \in bufpos..bufpos + blockread - 1 THEN <<file, offset + p - bufpos + 1>>
                ELSE IF p = bufpos + blockread THEN Junk ELSE bigbuf[p]) \in Place
    BY <1>0, <2>1, <2>2
  <2> QED
    BY <1>3, <2>3 DEF Fread
<1>6. TypeOK'
  <2>1. bufpos' \in 0..bbsize' /\ curpos' \in 0..bufpos' /\ offset' \in Nat /\ offset' <= Len(text')
    BY <1>0, <1>2, <1>3
  <2> QED
    BY <1>0, <1>1, <1>3, <1>5, <2>1 DEF Fread, IInv, TypeOK
<1>7. Counted'
  <2>1. overhang' <= offset' /\ offset' <= Len(text')
    BY <1>0, <1>2, <1>3
  <2> QED
    BY <1>0, <1>3, <2>1 DEF Fread, IInv, Counted
<1>8. Cells'
  <2>1. ASSUME NEW p \in 0..bufpos + blockread - 1 PROVE bigbuf'[p] = <<file, p + 1>>
    <3>1. p \in 0..bbsize-1 /\ p # bufpos + blockread /\ p \in Nat
      BY <1>0, <1>2
    <3>2. CASE p >= bufpos
      <4>1. p \in bufpos..bufpos + blockread - 1
        BY <1>0, <1>2, <3>1, <3>2
      <4>2. offset + p - bufpos + 1 = p + 1
        BY <1>0, <3>1
      <4> QED
        BY <1>4, <3>1, <4>1, <4>2
    <3>3. CASE ~(p >= bufpos)
      <4>1. p \notin bufpos..bufpos + blockread - 1 /\ p \in 0..bufpos-1
        BY <1>0, <1>2, <3>1, <3>3
      <4>2. bigbuf'[p] = bigbuf[p]
        BY <1>4, <3>1, <4>1
      <4>3. buf[p] = <<file, Passed + (p - curpos) + 1>>
        BY <1>0, <4>1 DEF Fread, IInv, Cells
      <4>4. Passed + (p - curpos) + 1 = p + 1
        BY <1>0, <3>1
      <4> QED
        BY <1>0, <4>2, <4>3, <4>4 DEF buf
    <3> QED
      BY <3>2, <3>3
  <2>2. pc' # "read" /\ file' = file /\ buf' = bigbuf'
    BY <1>0, <1>3 DEF Fread, buf
  <2>3. curpos' = 0 /\ bufpos' = bufpos + blockread
    BY <1>0, <1>3
  <2>4. ASSUME NEW p \in curpos'..bufpos'-1
        PROVE  buf'[p] = <<file', Passed' + (p - curpos') + 1>>
    <3>1. p \in 0..bufpos + blockread - 1 /\ Passed' + (p - curpos') + 1 = p + 1
      BY <1>0, <1>2, <1>3, <2>3
    <3> QED
      BY <2>1, <2>2, <3>1
  <2> QED
    BY <2>2, <2>4 DEF Cells
<1>9. Phases'
  BY <1>0, <1>2, <1>3 DEF Fread, Phases, LineStarts
<1> QED
  BY <1>1, <1>3, <1>6, <1>7, <1>8, <1>9 DEF IInv, Fread, Stream!vars

(* What is passed over behind the last line is no line. *)
LEMMA SkipCharKeeps == ASSUME IInv, SkipChar PROVE UNCHANGED Stream!vars /\ IInv'
<1> USE DEF input, two, big
<1>0. /\ curpos \in Nat /\ bufpos \in Nat /\ offset \in Nat /\ Len(text) \in Nat
      /\ Passed \in Nat /\ offset = Passed + (bufpos - curpos) /\ offset = Len(text)
      /\ curpos < bufpos /\ text \in Seq(Char) /\ ~zlib /\ zlib' = zlib
  BY InFile DEF SkipChar, IInv, Phases
<1>1. Entries' /\ Place' = Place
  BY SameInput DEF IInv, SkipChar
<1>2. /\ text' = text /\ buf' = buf /\ curpos' = curpos + 1 /\ Passed' = Passed + 1
      /\ overhang' = overhang - 1 /\ offset' = offset /\ bufpos' = bufpos /\ file' = file
      /\ linenum' = linenum /\ pc' = "line" /\ pc = "line" /\ bbsize' = bbsize
  BY <1>0 DEF SkipChar, text, buf, overhang, Passed
<1>3. \A q \in Stream!Ends(text) : q <= Passed
  <2>1. Stream!Ends(text) \subseteq 1..Len(text)
    BY <1>0, EndsFinite
  <2>2. \A q \in Stream!Ends(text) : q <= Passed \/ offset < q
    BY <1>2, EndPlaces DEF SkipChar
  <2> QED
    BY <1>0, <2>1, <2>2
<1>4. Stream!Ends(text) \subseteq 1..Len(text)
  BY <1>0, EndsFinite
<1>5. TypeOK'
  BY <1>0, <1>1, <1>2 DEF SkipChar, IInv, TypeOK
<1>6. Counted'
  <2>1. Upto(text, Passed + 1) = Upto(text, Passed) /\ Passed + 1 + 1 \notin Stream!Ends(text)
    BY <1>0, <1>3, <1>4 DEF Upto
  <2>2. overhang' <= offset'
    BY <1>0, <1>2 DEF overhang
  <2>3. linenum = Cardinality(Upto(text, Passed))
    BY <1>2, InFile
  <2>4. linenum' = Cardinality(Upto(text', Passed')) /\ Passed' + 1 \notin Stream!Ends(text')
    BY <1>2, <2>1, <2>3
  <2> QED
    BY <1>0, <1>2, <2>2, <2>4 DEF SkipChar, IInv, Counted
<1>7. Cells'
  <2> SUFFICES ASSUME NEW p \in curpos+1..bufpos-1
               PROVE  buf[p] = <<file, Passed + 1 + (p - (curpos + 1)) + 1>>
    BY <1>2 DEF Cells
  <2>1. buf[p] = <<file, Passed + (p - curpos) + 1>>
    BY <1>0, <1>2 DEF IInv, Cells
  <2> QED
    BY <1>0, <2>1
<1>8. Phases'
  <2>1. \A q \in Stream!Ends(text) : q <= Passed + 1
    BY <1>0, <1>3, <1>4
  <2>2. offset' = Len(text') /\ bufpos' < bbsize'
    BY <1>0, <1>2 DEF IInv, Phases
  <2>3. \A q \in Stream!Ends(text') : q <= Passed'
    BY <1>2, <2>1
  <2> QED
    BY <1>0, <1>2, <2>2, <2>3 DEF Phases
<1> QED
  BY <1>1, <1>5, <1>6, <1>7, <1>8 DEF IInv, SkipChar, Stream!vars
-----------------------------------------------------------------------------
LEMMA StutterKeeps == ASSUME IInv, UNCHANGED vars PROVE UNCHANGED Stream!vars /\ IInv'
<1> USE DEF vars, input, buffers, two, big
<1>1. UNCHANGED <<zlib, entries, file, offset, bufs, curbuf, bigbuf, bbsize, curpos, bufpos,
                  linenum, line, reported, pc>>
  OBVIOUS
<1>2. text' = text /\ buf' = buf /\ overhang' = overhang /\ Passed' = Passed /\ Place' = Place
      /\ LineStarts' = LineStarts
  BY <1>1 DEF text, buf, overhang, Passed, Place, LineStarts
<1>3. TypeOK'
  BY <1>1, <1>2 DEF IInv, TypeOK
<1>4. Entries' /\ Counted'
  <2>1. Entries'
    BY <1>1, SameInput DEF IInv
  <2> QED
    BY <1>1, <1>2, <2>1 DEF IInv, Counted
<1>5. Cells'
  BY <1>1, <1>2 DEF IInv, Cells
<1>6. Phases'
  BY <1>1, <1>2 DEF IInv, Phases
<1> QED
  BY <1>1, <1>3, <1>4, <1>5, <1>6 DEF IInv, Stream!vars

(* Each step of findHits delivers a line, ends or gives up a file, or is   *)
(* one the counters do not see.                                            *)
LEMMA StepDelivers == IInv /\ [Next]_vars => [Stream!Next]_(Stream!vars) /\ IInv'
<1> SUFFICES ASSUME IInv, [Next]_vars PROVE [Stream!Next]_(Stream!vars) /\ IInv'
  OBVIOUS
<1> USE DEF Stream!Next
<1>1. CASE SkipEntry
  BY <1>1, SkipEntryEnds
<1>2. CASE OpenFails
  BY <1>2, OpenFailsGivesUp
<1>3. CASE Open
  BY <1>3, OpenKeeps
<1>4. CASE CutLine
  BY <1>4, CutLineDelivers
<1>5. CASE MoveOverhang
  BY <1>5, MoveOverhangKeeps
<1>6. CASE ReadFails
  BY <1>6, ReadFailsGivesUp
<1>7. CASE AtEnd
  BY <1>7, AtEndEnds
<1>8. CASE Refill
  BY <1>8, RefillKeeps
<1>9. CASE Retry
  BY <1>9, RetryDelivers
<1>10. CASE Double
  BY <1>10, DoubleKeeps
<1>11. CASE Fread
  BY <1>11, FreadKeeps
<1>12. CASE SkipChar
  BY <1>12, SkipCharKeeps
<1>13. CASE EndBuffer
  BY <1>13, EndBufferEnds
<1>14. CASE UNCHANGED vars
  BY <1>14, StutterKeeps
<1> QED
  BY <1>1, <1>2, <1>3, <1>4, <1>5, <1>6, <1>7, <1>8, <1>9, <1>10, <1>11, <1>12, <1>13, <1>14 DEF Next

LEMMA Invariant == Spec => []IInv
BY InitInv, StepDelivers, PTL DEF Spec

LEMMA InvHasRoom == IInv => RoomForBlock
<1> SUFFICES ASSUME IInv PROVE RoomForBlock
  OBVIOUS
<1>1. ASSUME pc = "read" PROVE overhang + blockread <= 2 * blocksize
  <2>0. /\ blocksize \in Nat \ {0} /\ curpos \in Nat /\ bufpos \in Nat /\ bufpos <= 2*blocksize
        /\ offset \in Nat /\ Len(text) \in Nat /\ offset <= Len(text) /\ overhang \in Nat
    BY <1>1, InFile, BlockAssumption DEF IInv, TypeOK, Phases
  <2>1. blockread \in Nat
    BY <2>0 DEF blockread
  <2>2. CASE blockread = 0
    BY <2>0, <2>2 DEF overhang
  <2>3. CASE blockread > 0
    BY <1>1, <2>0, <2>1, <2>3, BlockCompletes
  <2> QED
    BY <2>1, <2>2, <2>3
<1>2. ~zlib /\ pc = "line" => bufpos < bbsize
  BY DEF IInv, Phases
<1> QED
  BY <1>1, <1>2 DEF RoomForBlock

(* Every variable of the reader has its type, whatever the directory, the  *)
(* block size and the faults, in both builds.                              *)
THEOREM TypeCorrect == Spec => []TypeOK
BY Invariant, PTL DEF IInv

(* findFileHits never asks gzread for a block that does not fit behind the *)
(* overhang, and the NUL behind a whole file has its place: because no     *)
(* more than a line without its end is carried over, and it is shorter     *)
(* than a block.                                                           *)
THEOREM RoomForBlockCorrect == Spec => []RoomForBlock
BY Invariant, InvHasRoom, PTL

(* Of a directory whose lines fit into a block, and with -i into the copy  *)
(* of a line, no line is counted with the starts of an earlier one: after  *)
(* a refill a whole line is in the buffer, and cleanline returns its       *)
(* n + 1 tokens.                                                           *)
THEOREM NeverUndefinedCorrect == Spec => []NeverUndefined
<1>1. IInv => NeverUndefined
  BY DEF IInv, Phases, NeverUndefined
<1> QED
  BY <1>1, Invariant, PTL

(* findHits keeps the promise of module LineStream: every line of every    *)
(* database file is delivered once, whole and in the order of the file,    *)
(* wherever the blocks end; a file given up is reported; none ends early.  *)
THEOREM ReaderKeepsPromise == Spec => StreamSpec
<1>1. Init => Stream!Init
  BY DEF Init, Stream!Init
<1> QED
  BY <1>1, Invariant, StepDelivers, PTL DEF Spec, StreamSpec, Stream!Spec
=============================================================================

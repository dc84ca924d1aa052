-------------------------- MODULE TokeniserProofs --------------------------
(***************************************************************************)
(* Proofs about Tokeniser: for all texts whose lines begin with a token,   *)
(* however they are cut into blocks, for every size of the copy and all    *)
(* four functions behind cleanline, the tokens of a line are found as they *)
(* are in the file, however often the line was cut and put back before.    *)
(***************************************************************************)
EXTENDS Tokeniser, SequenceTheorems, WellFoundedInduction, TLAPS

N == Len(text)

IsBlank(p)  == text[p] \in Blanks
IsLetter(p) == text[p] \in Letters

(* A cell may have lost its case, and a separator may have become a NUL.   *)
Like(p, c) ==
  /\ IsLetter(p) => c \in Letters /\ Cased(c) = Cased(text[p])
  /\ IsBlank(p) => c \in Blanks \cup {NUL}
  /\ text[p] = NL => c = NL

(* No line has ended before place p. *)
SameLine(p) == \A q \in at..p-1 : text[q] = NL => \A r \in at..q : text[r] = NL

(* What was done to the data in memory. *)
Data ==
  /\ at = 1 \/ text[at-1] = NL
  /\ \A p \in at..N : (CutLine /\ p = curpos) \/ Like(p, inbuf[p])
  /\ \A p \in at..N : p > maxbuf \/ ~SameLine(p) => inbuf[p] = text[p]

(* Where the line begins: behind nothing but newlines. *)
Begun == text[start] # NL /\ \A q \in at..start-1 : text[q] = NL

(* What has been scanned is a part of the line, and what was copied of it  *)
(* may take its place.                                                     *)
Cursor ==
  /\ wstarts \in Seq(Nat) /\ i + 1 <= curpos /\ at <= maxbuf + 1
  /\ copying => maxorig >= ONEK
  /\ pc = "skip" => \A q \in at..curpos-1 : text[q] = NL
  /\ pc = "skip" => result = 0 /\ curpos <= maxbuf + 1 /\ i = -1
  /\ pc = "scan" =>
       /\ Begun /\ curpos \in start..maxbuf+1 /\ start <= maxbuf
       /\ \A q \in start..curpos-1 : text[q] # NL
       /\ i + 1 <= curpos - start /\ (curpos = start => prevspace)
       /\ curpos # start => i >= 0
       /\ \A k \in 0..i : Start(k) \in start..curpos-1
       /\ copying => /\ curpos - start <= maxorig
                     /\ \A p \in start..curpos-1 : Like(p, orig[p - start])
  /\ pc = "done" /\ result <= 0 =>
       \/ \A q \in at..maxbuf : text[q] = NL
       \/ Begun /\ \A q \in start..maxbuf : text[q] # NL
  /\ pc = "done" /\ result > 0 =>
       /\ Begun /\ curpos \in start..maxbuf /\ text[curpos] = NL
       /\ \A q \in start..curpos-1 : text[q] # NL
       /\ result = i /\ Start(i) = curpos + 1

(* From place p on, every token has a separator before it, and no NUL      *)
(* comes right behind a separator, where it would be taken for a token.    *)
Intact(p) ==
  \A q \in p..N :
    /\ IsBlank(q) /\ ~IsBlank(q+1) => inbuf[q] \in Blanks
    /\ inbuf[q] \in Blanks => inbuf[q+1] # NUL
    /\ copying => inbuf[q] = text[q]

IsStart(p) == IsLetter(p) /\ (p = start \/ IsBlank(p-1))

(* Up to place p the line is cut, and its first m tokens are found. *)
CutUpTo(p, m) ==
  /\ \A q \in start..p-1 : /\ IsBlank(q) => inbuf[q] = NUL
                           /\ IsLetter(q) => inbuf[q] = Cased(text[q])
                           /\ copying => orig[q - start] = text[q]
  /\ \A k \in 0..m-1 : Start(k) \in start..p-1 /\ IsStart(Start(k))
  /\ \A q \in start..p-1 : IsStart(q) => \E k \in 0..m-1 : Start(k) = q
  /\ \A k, l \in 0..m-1 : k < l => Start(k) < Start(l)
  /\ m > 0 => Start(0) = start

Tokens ==
  Fits =>
    /\ pc = "skip" \/ (pc = "done" /\ result <= 0) => Intact(at)
    /\ pc = "scan" =>
         /\ Intact(curpos) /\ CutUpTo(curpos, i + 1)
         /\ prevspace /\ curpos <= N =>
              inbuf[curpos] # NUL /\ (curpos = start \/ IsBlank(curpos-1))
         /\ ~prevspace => (IsBlank(curpos-1) => IsBlank(curpos))
    /\ CutLine => /\ CutUpTo(curpos, i) /\ inbuf[curpos] = NUL
                  /\ copying => orig[curpos - start] = NUL

IInv == TypeOK /\ Data /\ Cursor /\ Tokens
-----------------------------------------------------------------------------
LEMMA Chars ==
  /\ Letters \subseteq Char /\ Blanks \subseteq Char /\ NL \in Char /\ NUL \in Char
  /\ \A c \in Letters : c \notin Blanks /\ c # NL /\ c # NUL /\ ~isspace(c)
  /\ \A c \in Blanks : c # NL /\ c # NUL /\ isspace(c)
  /\ NL # NUL /\ isspace(NL) /\ ~isspace(NUL)
  /\ \A c \in Char : ~isspace(c) <=> c \in Letters \/ c = NUL
  /\ \A c \in Letters : tolower(c) \in Letters /\ tolower(tolower(c)) = tolower(c)
  /\ tolower(NUL) = NUL
BY DEF Letters, Blanks, Char, NL, NUL, SP, TAB, isspace, tolower

LEMMA Types ==
  ASSUME TypeOK, Cursor
  PROVE  /\ N \in Nat /\ N >= 1
         /\ text \in [1..N -> Letters \cup Blanks \cup {NL}] /\ text[N] = NL
         /\ inbuf \in [1..N -> Char] /\ DOMAIN inbuf = 1..N
         /\ copying \in BOOLEAN /\ ignoreCase \in BOOLEAN
         /\ maxbuf \in 1..N /\ maxorig \in Nat
         /\ at \in 1..N /\ start \in at..N /\ curpos \in at..N+1
         /\ i \in Int /\ i >= -1 /\ wstarts \in Seq(Nat) /\ Len(wstarts) = i + 1
         /\ result \in Int
<1>1. text \in Texts /\ text \in Seq(Letters \cup Blanks \cup {NL}) /\ text # <<>> /\ text[N] = NL
  BY TextsAssumption DEF TypeOK, N
<1>2. N \in Nat /\ N >= 1 /\ text \in [1..N -> Letters \cup Blanks \cup {NL}]
  BY <1>1 DEF N
<1>3. inbuf \in [1..N -> Char]
  BY DEF TypeOK, N
<1> HIDE DEF N
<1>4. /\ maxbuf \in 1..N /\ maxorig \in Nat /\ at \in 1..N /\ start \in at..N /\ curpos \in at..N+1
      /\ copying \in BOOLEAN /\ ignoreCase \in BOOLEAN
      /\ i \in -1..N /\ Len(wstarts) = i + 1 /\ result \in -N..N
  BY DEF TypeOK, N
<1> QED
  BY <1>1, <1>2, <1>3, <1>4 DEF Cursor

(* A place holds a letter, a blank or the end of a line, behind which no   *)
(* blank comes.                                                            *)
LEMMA TextIs ==
  ASSUME TypeOK, Cursor, NEW p \in 1..N
  PROVE  /\ IsLetter(p) \/ IsBlank(p) \/ text[p] = NL
         /\ IsLetter(p) => text[p] # NL
         /\ ~(IsLetter(p) /\ IsBlank(p))
         /\ IsBlank(p) => text[p] # NL /\ p < N
<1>1. N \in Nat /\ N >= 1 /\ text \in [1..N -> Letters \cup Blanks \cup {NL}] /\ text[N] = NL
  BY Types
<1> QED
  BY <1>1, Chars DEF IsLetter, IsBlank

LEMMA NoBlankFirst ==
  ASSUME TypeOK, Cursor
  PROVE  ~IsBlank(1) /\ \A p \in 1..N-1 : text[p] = NL => ~IsBlank(p+1)
<1>1. text \in Texts
  BY DEF TypeOK
<1>2. text[1] \notin Blanks /\ \A p \in 1..N-1 : text[p] = NL => text[p+1] \notin Blanks
  BY <1>1, TextsAssumption DEF N
<1> QED
  BY <1>2 DEF IsBlank

LEMMA LikeIs ==
  ASSUME TypeOK, Cursor, NEW p \in 1..N, NEW c, Like(p, c)
  PROVE  /\ c \in Char
         /\ c = NL <=> text[p] = NL
         /\ c \in Letters <=> IsLetter(p)
         /\ c \in Blanks => IsBlank(p)
         /\ c = NUL => IsBlank(p)
         /\ IsLetter(p) => Cased(c) = Cased(text[p])
<1>1. CASE IsLetter(p)
  BY <1>1, TextIs, Chars DEF Like
<1>2. CASE IsBlank(p)
  BY <1>2, TextIs, Chars DEF Like
<1>3. CASE text[p] = NL
  BY <1>3, TextIs, Chars DEF Like
<1> QED
  BY <1>1, <1>2, <1>3, TextIs

(* A line begins with a letter. *)
LEMMA FirstLetter ==
  ASSUME TypeOK, Cursor, Data, NEW p \in at..N, text[p] # NL, \A q \in at..p-1 : text[q] = NL
  PROVE  IsLetter(p)
<1>1. /\ N \in Nat /\ at \in 1..N /\ p \in 1..N
  BY Types
<1>2. CASE p = 1
  BY <1>1, <1>2, TextIs, NoBlankFirst
<1>3. CASE p # 1
  <2>1. p-1 \in 1..N-1 /\ text[p-1] = NL
    <3>1. CASE p = at
      BY <1>1, <1>3, <3>1 DEF Data
    <3>2. CASE p # at
      BY <1>1, <1>3, <3>2
    <3> QED
      BY <3>1, <3>2
  <2>2. ~IsBlank((p-1) + 1)
    BY <2>1, NoBlankFirst
  <2>3. (p-1) + 1 = p
    BY <1>1
  <2>4. ~IsBlank(p)
    BY <2>2, <2>3
  <2> QED
    BY <1>1, <2>4, TextIs
<1> QED
  BY <1>2, <1>3

LEMMA StartLetter ==
  ASSUME TypeOK, Cursor, Data, Begun
  PROVE  IsLetter(start)
<1>1. start \in at..N
  BY Types
<1> QED
  BY <1>1, FirstLetter DEF Begun

(* Of a line without an end all places are on one line. *)
LEMMA OnOneLine ==
  ASSUME TypeOK, Cursor, Begun, NEW c \in start..N+1, \A q \in start..c-1 : text[q] # NL,
         NEW p \in at..c
  PROVE  SameLine(p)
<1>1. /\ N \in Nat /\ at \in 1..N /\ start \in at..N
  BY Types
<1> QED
  BY <1>1 DEF SameLine, Begun

(* The data as it is in the file can be cut. *)
LEMMA Fresh ==
  ASSUME TypeOK, Cursor, NEW p \in 1..N, NEW s, \A q \in p..N : s[q] = text[q]
  PROVE  \A q \in p..N : /\ Like(q, s[q])
                         /\ IsBlank(q) /\ ~IsBlank(q+1) => s[q] \in Blanks
                         /\ s[q] \in Blanks => s[q+1] # NUL
<1> SUFFICES ASSUME NEW q \in p..N
             PROVE  /\ Like(q, s[q])
                    /\ IsBlank(q) => s[q] \in Blanks
                    /\ s[q] \in Blanks => s[q+1] # NUL
  OBVIOUS
<1>1. /\ N \in Nat /\ q \in 1..N /\ s[q] = text[q]
      /\ text \in [1..N -> Letters \cup Blanks \cup {NL}]
  BY Types
<1>2. Like(q, s[q])
  BY <1>1, Chars DEF Like, IsLetter, IsBlank
<1>3. IsBlank(q) => s[q] \in Blanks
  BY <1>1 DEF IsBlank
<1>4. ASSUME s[q] \in Blanks PROVE s[q+1] # NUL
  <2>1. IsBlank(q)
    BY <1>1, <1>4 DEF IsBlank
  <2>2. q < N
    BY <1>1, <2>1, TextIs
  <2>3. q+1 \in p..N /\ q+1 \in 1..N
    BY <1>1, <2>2
  <2>4. s[q+1] = text[q+1] /\ text[q+1] \in Letters \cup Blanks \cup {NL}
    BY <1>1, <2>3
  <2> QED
    BY <2>4, Chars
<1> QED
  BY <1>2, <1>3, <1>4

LEMMA LeastNumber == ASSUME NEW T, T \subseteq Nat, T # {}
  PROVE \E m \in T : \A y \in T : m <= y
<1> DEFINE R == OpToRel(<, Nat)
<1>1. IsWellFoundedOn(R, Nat)
  BY NatLessThanWellFounded
<1>2. \A x, y \in Nat : x < y => <<x, y>> \in R
  BY DEF OpToRel
<1> HIDE DEF R
<1>3. PICK m \in T : \A y \in T : ~ (<<y, m>> \in R)
  BY <1>1, WFMin
<1>4. \A y \in T : ~ (y < m)
  BY <1>2, <1>3
<1> QED
  BY <1>4

(* What is said of the text does not change with the step. *)
LEMMA SameText ==
  ASSUME UNCHANGED settings
  PROVE  /\ N' = N
         /\ \A p : (IsBlank(p)' <=> IsBlank(p)) /\ (IsLetter(p)' <=> IsLetter(p))
         /\ \A p, c : Like(p, c)' <=> Like(p, c)
         /\ at' = at => (Fits' <=> Fits) /\ \A p : SameLine(p)' <=> SameLine(p)
<1>1. text' = text /\ copying' = copying /\ ignoreCase' = ignoreCase
  BY DEF settings
<1>2. N' = N
  BY <1>1 DEF N
<1>3. \A p : (IsBlank(p)' <=> IsBlank(p)) /\ (IsLetter(p)' <=> IsLetter(p))
  BY <1>1 DEF IsBlank, IsLetter
<1>4. \A p, c : Like(p, c)' <=> Like(p, c)
  BY <1>1, <1>3 DEF Like, Cased
<1>5. ASSUME at' = at PROVE (Fits' <=> Fits) /\ \A p : SameLine(p)' <=> SameLine(p)
  BY <1>1, <1>5 DEF Fits, LineTo, LineFrom, SameLine
<1> QED
  BY <1>2, <1>3, <1>4, <1>5

LEMMA InitInv == Init => IInv
<1> SUFFICES ASSUME Init PROVE IInv
  OBVIOUS
<1>1. /\ text \in Texts /\ text \in Seq(Letters \cup Blanks \cup {NL}) /\ text # <<>>
      /\ inbuf = text /\ maxbuf \in 1..N /\ N \in Nat /\ N >= 1
      /\ copying \in BOOLEAN /\ ignoreCase \in BOOLEAN
  BY TextsAssumption DEF Init, N
<1>2. text \in [1..N -> Letters \cup Blanks \cup {NL}] /\ text \in Seq(Char)
  BY <1>1, Chars DEF N
<1>3. maxorig \in Nat /\ (copying => maxorig = ONEK) /\ orig \in [0..maxorig-1 -> Char \cup {Junk}]
  BY OneKAssumption DEF Init
<1>4. /\ at = 1 /\ start = 1 /\ curpos = 1 /\ i = -1 /\ wstarts = <<>> /\ prevspace = TRUE
      /\ tab_ndx = -1 /\ pc = "skip" /\ result = 0
  BY DEF Init
<1>5. Len(<<>>) = 0 /\ <<>> \in Seq(Nat)
  OBVIOUS
<1>6. TypeOK
  <2>1. 1 \in 1..N /\ 1 \in 1..N+1 /\ -1 \in -1..N /\ 0 \in -N..N /\ 0..(-1) = {} /\ -1 + 1 = 0
    BY <1>1
  <2> QED
    BY <1>1, <1>2, <1>3, <1>4, <1>5, <2>1 DEF TypeOK, N
<1>7. \A p \in 1..N : Like(p, inbuf[p])
  BY <1>1, <1>2, Chars DEF Like, IsLetter, IsBlank
<1>8. Data
  BY <1>1, <1>4, <1>7 DEF Data
<1>9. Cursor
  BY <1>1, <1>3, <1>4, <1>5, OneKAssumption DEF Cursor
<1>10. Tokens
  <2>2. Intact(1)
    BY <1>1, <1>6, <1>9, Fresh DEF Intact
  <2> QED
    BY <1>4, <2>2 DEF Tokens, CutLine
<1> QED
  BY <1>6, <1>8, <1>9, <1>10 DEF IInv
-----------------------------------------------------------------------------
(* What the limit of the loop means. *)
LEMMA SeenIs ==
  ASSUME TypeOK, Cursor
  PROVE  /\ Seen => curpos <= maxbuf /\ (copying => curpos - start < maxorig)
         /\ ~Seen => curpos > maxbuf \/ (copying /\ curpos >= start + maxorig)
         /\ pc = "scan" /\ ~Seen /\ curpos > maxbuf => curpos = maxbuf + 1
<1>1. /\ N \in Nat /\ maxbuf \in 1..N /\ maxorig \in Nat /\ at \in 1..N /\ start \in at..N
      /\ curpos \in at..N+1 /\ copying \in BOOLEAN
  BY Types
<1>2. pc = "scan" => curpos \in start..maxbuf+1
  BY DEF Cursor
<1> QED
  BY <1>1, <1>2 DEF Seen, Limit

LEMMA UnderLimit ==
  ASSUME NEW c \in Int, NEW m \in Int, NEW s \in Int, NEW o \in Int, NEW copied \in BOOLEAN,
         c < (IF copied /\ s + o <= m THEN s + o ELSE m + 1)
  PROVE  c <= m /\ (copied => c - s < o)
OBVIOUS

LEMMA TypeKeeps ==
  ASSUME TypeOK, UNCHANGED settings, inbuf' \in [1..N -> Char], N \in Nat,
         maxbuf' \in 1..N, maxorig' \in Nat, orig' \in [0..maxorig'-1 -> Char \cup {Junk}],
         at' \in 1..N, start' \in at'..N, curpos' \in at'..N+1,
         i' \in -1..N, wstarts' \in Seq(Nat), Len(wstarts') = i' + 1,
         \A k \in 0..i' : wstarts'[k+1] \in at'..N+1,
         prevspace' \in BOOLEAN, tab_ndx' \in -1..N, pc' \in {"skip", "scan", "done"},
         result' \in -N..N
  PROVE  TypeOK'
<1>1. text' = text /\ copying' = copying /\ ignoreCase' = ignoreCase /\ N' = N
  BY SameText DEF settings
<1>2. text' \in Texts /\ copying' \in BOOLEAN /\ ignoreCase' \in BOOLEAN
  BY <1>1 DEF TypeOK
<1>3. inbuf' \in Seq(Char) /\ Len(inbuf') = N
  <2> DEFINE b == inbuf'
  <2>1. b \in Seq(Char) /\ Len(b) = N
    <3>1. b \in [1..N -> Char] /\ N \in Nat
      OBVIOUS
    <3> HIDE DEF b
    <3> QED
      BY <3>1, SMTT(30)
  <2> QED
    BY <2>1
<1>4. pc' = "scan" /\ Seen' => curpos' <= maxbuf' /\ (copying' => curpos' - start' < maxorig')
  <2>1. maxbuf' \in Int /\ maxorig' \in Int /\ start' \in Int /\ curpos' \in Int
    OBVIOUS
  <2>2. Seen' => curpos' < (IF copying' /\ start' + maxorig' <= maxbuf'
                            THEN start' + maxorig' ELSE maxbuf' + 1)
    BY DEF Seen, Limit
  <2> QED
    BY <1>2, <2>1, <2>2, UnderLimit
<1>5. N' = Len(text')
  BY DEF N
<1> QED
  BY <1>1, <1>2, <1>3, <1>4, <1>5 DEF TypeOK, Start

LEMMA SameIntact ==
  ASSUME UNCHANGED <<settings, inbuf>>
  PROVE  \A p : Intact(p)' <=> Intact(p)
<1>1. UNCHANGED settings /\ inbuf' = inbuf /\ text' = text /\ copying' = copying
  BY DEF settings
<1> QED
  BY <1>1, SameText DEF Intact

LEMMA IntactNext ==
  ASSUME UNCHANGED settings, NEW p, NEW b, inbuf' = b,
         \A q \in p..N : /\ IsBlank(q) /\ ~IsBlank(q+1) => b[q] \in Blanks
                         /\ b[q] \in Blanks => b[q+1] # NUL
                         /\ copying => b[q] = text[q]
  PROVE  Intact(p)'
<1>1. text' = text /\ copying' = copying /\ N' = N
  BY SameText DEF settings
<1>2. \A q : (IsBlank(q)' <=> IsBlank(q))
  BY SameText
<1> QED
  BY <1>1, <1>2 DEF Intact

(* After the step the line is cut up to place p, by m tokens. *)
Cutting(p, m) ==
  /\ \A q \in start..p-1 : /\ IsBlank(q) => inbuf'[q] = NUL
                           /\ IsLetter(q) => inbuf'[q] = Cased(text[q])
                           /\ copying => orig'[q - start] = text[q]
  /\ \A k \in 0..m-1 : wstarts'[k+1] \in start..p-1 /\ IsStart(wstarts'[k+1])
  /\ \A q \in start..p-1 : IsStart(q) => \E k \in 0..m-1 : wstarts'[k+1] = q
  /\ \A k, l \in 0..m-1 : k < l => wstarts'[k+1] < wstarts'[l+1]
  /\ wstarts'[1] = start

LEMMA CutNext ==
  ASSUME UNCHANGED <<settings, start>>, NEW p, NEW m, Cutting(p, m)
  PROVE  CutUpTo(p, m)'
<1>1. text' = text /\ copying' = copying /\ ignoreCase' = ignoreCase /\ start' = start
  BY DEF settings
<1>2. \A q : (IsBlank(q)' <=> IsBlank(q)) /\ (IsLetter(q)' <=> IsLetter(q))
  BY SameText DEF settings
<1>3. \A q : IsStart(q)' <=> IsStart(q)
  BY <1>1, <1>2 DEF IsStart
<1>4. \A c : Cased(c)' = Cased(c)
  BY <1>1 DEF Cased
<1>5. \A q \in start'..p-1 : /\ IsBlank(q)' => inbuf'[q] = NUL
                             /\ IsLetter(q)' => inbuf'[q] = Cased(text[q])'
                             /\ copying' => orig'[q - start'] = text'[q]
  BY <1>1, <1>2, <1>4 DEF Cutting
<1>6. \A q \in start'..p-1 : IsStart(q)' => \E k \in 0..m-1 : Start(k)' = q
  BY <1>1, <1>3 DEF Start, Cutting
<1>7. \A k \in 0..m-1 : Start(k)' \in start'..p-1
  BY <1>1 DEF Start, Cutting
<1>8. \A k \in 0..m-1 : IsStart(Start(k))'
  <2>1. \A k \in 0..m-1 : Start(k)' = wstarts'[k+1] /\ IsStart(wstarts'[k+1])
    BY DEF Start, Cutting
  <2> QED
    BY <1>3, <2>1
<1>9. (\A k, l \in 0..m-1 : k < l => Start(k)' < Start(l)') /\ Start(0)' = start'
  BY <1>1 DEF Start, Cutting
<1> QED
  BY <1>5, <1>6, <1>7, <1>8, <1>9 DEF CutUpTo

LEMMA SkipNewlineKeeps == ASSUME IInv, SkipNewline PROVE IInv'
<1>1. TypeOK /\ Data /\ Cursor /\ Tokens
  BY DEF IInv
<1>2. /\ N \in Nat /\ inbuf \in [1..N -> Char] /\ maxbuf \in 1..N /\ maxorig \in Nat
      /\ at \in 1..N /\ start \in at..N /\ curpos \in at..N+1
      /\ i \in Int /\ wstarts \in Seq(Nat) /\ Len(wstarts) = i + 1 /\ result \in Int
  BY <1>1, Types
<1>3. /\ pc = "skip" /\ curpos <= maxbuf /\ inbuf[curpos] = NL /\ curpos' = curpos + 1
      /\ UNCHANGED settings /\ text' = text /\ copying' = copying
      /\ UNCHANGED <<inbuf, maxbuf, orig, maxorig, at, start, i, wstarts, prevspace, tab_ndx, pc, result>>
  BY DEF SkipNewline, settings
<1>4. text[curpos] = NL
  <2>1. Like(curpos, inbuf[curpos]) /\ curpos \in 1..N
    BY <1>1, <1>2, <1>3 DEF Data, CutLine
  <2> QED
    BY <1>1, <1>3, <2>1, LikeIs
<1>5. TypeOK'
  <2>1. /\ orig \in [0..maxorig-1 -> Char \cup {Junk}] /\ i \in -1..N /\ tab_ndx \in -1..N
        /\ result \in -N..N /\ prevspace \in BOOLEAN /\ \A k \in 0..i : wstarts[k+1] \in at..N+1
    BY <1>1 DEF TypeOK, N, Start
  <2> QED
    BY <1>1, <1>2, <1>3, <2>1, TypeKeeps
<1>6. Data'
  BY <1>1, <1>3, SameText DEF Data, CutLine
<1>7. Cursor'
  BY <1>1, <1>2, <1>3, <1>4 DEF Cursor
<1>8. Tokens'
  <2>1. Fits' => Fits
    BY <1>3, SameText
  <2>2. Intact(at)' <=> Intact(at)
    BY <1>3, SameIntact DEF Intact
  <2> QED
    BY <1>1, <1>3, <2>1, <2>2 DEF Tokens, CutLine
<1> QED
  BY <1>5, <1>6, <1>7, <1>8 DEF IInv

LEMMA NothingLeftKeeps == ASSUME IInv, NothingLeft PROVE IInv'
<1>1. TypeOK /\ Data /\ Cursor /\ Tokens
  BY DEF IInv
<1>2. /\ N \in Nat /\ inbuf \in [1..N -> Char] /\ maxbuf \in 1..N /\ maxorig \in Nat
      /\ at \in 1..N /\ start \in at..N /\ curpos \in at..N+1
      /\ i \in Int /\ wstarts \in Seq(Nat) /\ Len(wstarts) = i + 1
  BY <1>1, Types
<1>3. /\ pc = "skip" /\ curpos > maxbuf /\ result' = 0 /\ pc' = "done"
      /\ UNCHANGED settings /\ text' = text /\ copying' = copying
      /\ UNCHANGED <<inbuf, maxbuf, orig, maxorig, at, start, curpos, i, wstarts, prevspace, tab_ndx>>
  BY DEF NothingLeft, settings, scan
<1>5. TypeOK'
  <2>1. /\ orig \in [0..maxorig-1 -> Char \cup {Junk}] /\ i \in -1..N /\ tab_ndx \in -1..N
        /\ 0 \in -N..N /\ prevspace \in BOOLEAN /\ \A k \in 0..i : wstarts[k+1] \in at..N+1
    BY <1>1, <1>2 DEF TypeOK, N, Start
  <2> QED
    BY <1>1, <1>2, <1>3, <2>1, TypeKeeps
<1>6. Data'
  BY <1>1, <1>3, SameText DEF Data, CutLine
<1>7. Cursor'
  BY <1>1, <1>2, <1>3 DEF Cursor
<1>8. Tokens'
  <2>1. Fits' => Fits
    BY <1>3, SameText
  <2>2. Intact(at)' <=> Intact(at)
    BY <1>3, SameIntact DEF Intact
  <2> QED
    BY <1>1, <1>3, <2>1, <2>2 DEF Tokens, CutLine
<1> QED
  BY <1>5, <1>6, <1>7, <1>8 DEF IInv

LEMMA DispatchKeeps == ASSUME IInv, Dispatch PROVE IInv'
<1>1. TypeOK /\ Data /\ Cursor /\ Tokens
  BY DEF IInv
<1>2. /\ N \in Nat /\ inbuf \in [1..N -> Char] /\ maxbuf \in 1..N /\ maxorig \in Nat
      /\ at \in 1..N /\ start \in at..N /\ curpos \in at..N+1
      /\ result \in Int
  BY <1>1, Types
<1>3. /\ pc = "skip" /\ curpos <= maxbuf /\ inbuf[curpos] # NL /\ pc' = "scan"
      /\ start' = curpos /\ curpos' = curpos /\ i' = -1 /\ wstarts' = <<>>
      /\ prevspace' = TRUE /\ tab_ndx' = -1
      /\ UNCHANGED settings /\ text' = text /\ copying' = copying
      /\ UNCHANGED <<inbuf, maxbuf, orig, maxorig, at, result>>
  BY DEF Dispatch, InitScan, settings
<1>4. curpos \in at..N /\ curpos \in 1..N /\ Like(curpos, inbuf[curpos])
  BY <1>1, <1>2, <1>3 DEF Data, CutLine
<1>5. text[curpos] # NL /\ \A q \in at..curpos-1 : text[q] = NL
  BY <1>1, <1>3, <1>4, LikeIs DEF Cursor
<1>6. inbuf[curpos] \in Letters
  BY <1>1, <1>4, <1>5, LikeIs, FirstLetter
<1>7. TypeOK'
  <2>1. /\ orig \in [0..maxorig-1 -> Char \cup {Junk}] /\ -1 \in -1..N
        /\ result \in -N..N
    BY <1>1, <1>2 DEF TypeOK, N
  <2>2. <<>> \in Seq(Nat) /\ Len(<<>>) = -1 + 1 /\ 0..(-1) = {}
    OBVIOUS
  <2> QED
    BY <1>1, <1>2, <1>3, <1>4, <2>1, <2>2, TypeKeeps
<1>8. Data'
  BY <1>1, <1>3, SameText DEF Data, CutLine
<1>9. Cursor'
  <2>1. <<>> \in Seq(Nat) /\ Len(<<>>) = -1 + 1 /\ 0..(-1) = {}
    OBVIOUS
  <2>2. Begun'
    BY <1>3, <1>5 DEF Begun
  <2>3. at <= maxbuf + 1 /\ (copying => maxorig >= ONEK)
    BY <1>1 DEF Cursor
  <2> QED
    BY <1>2, <1>3, <1>4, <2>1, <2>2, <2>3 DEF Cursor
<1>10. Tokens'
  <2>1. Fits' => Fits
    BY <1>3, SameText
  <2> SUFFICES ASSUME Fits' PROVE Tokens'
    BY DEF Tokens
  <2>2. Intact(at)
    BY <1>1, <1>3, <2>1 DEF Tokens
  <2>3. Intact(curpos)'
    <3>1. Intact(curpos)
      BY <1>2, <2>2 DEF Intact
    <3> QED
      BY <1>3, <3>1, SameIntact DEF Intact
  <2>4. CutUpTo(curpos, i + 1)'
    <3>1. 0..(i' + 1) - 1 = {} /\ start'..curpos'-1 = {} /\ ~(i' + 1 > 0)
      BY <1>2, <1>3
    <3> QED
      BY <3>1 DEF CutUpTo
  <2>5. inbuf[curpos] # NUL
    BY <1>6, Chars
  <2> QED
    BY <1>3, <2>3, <2>4, <2>5 DEF Tokens, CutLine
<1> QED
  BY <1>7, <1>8, <1>9, <1>10 DEF IInv

LEMMA LetteredKeeps == ASSUME IInv, Lettered PROVE IInv'
<1>1. TypeOK /\ Data /\ Cursor /\ Tokens
  BY DEF IInv
<1>2. /\ N \in Nat /\ inbuf \in [1..N -> Char] /\ maxbuf \in 1..N /\ maxorig \in Nat
      /\ at \in 1..N /\ start \in at..N /\ curpos \in at..N+1
      /\ i \in Int /\ i >= -1 /\ wstarts \in Seq(Nat) /\ Len(wstarts) = i + 1 /\ result \in Int
      /\ copying \in BOOLEAN /\ ignoreCase \in BOOLEAN
  BY <1>1, Types
<1>3. /\ pc = "scan" /\ Seen /\ ~isspace(inbuf[curpos]) /\ curpos' = curpos + 1
      /\ UNCHANGED settings /\ text' = text /\ copying' = copying /\ ignoreCase' = ignoreCase
      /\ UNCHANGED <<maxbuf, maxorig, at, start, tab_ndx, pc, result>>
      /\ orig' = IF copying THEN [orig EXCEPT ![curpos - start] = inbuf[curpos]] ELSE orig
      /\ inbuf' = IF ignoreCase THEN [inbuf EXCEPT ![curpos] = tolower(@)] ELSE inbuf
      /\ prevspace => i' = i + 1 /\ wstarts' = Append(wstarts, curpos) /\ prevspace' = FALSE
      /\ ~prevspace => i' = i /\ wstarts' = wstarts /\ prevspace' = prevspace
  BY DEF Lettered, Copy, Letter, settings
<1>4. /\ Begun /\ curpos \in start..maxbuf+1 /\ start <= maxbuf
      /\ \A q \in start..curpos-1 : text[q] # NL
      /\ i + 1 <= curpos - start /\ (curpos = start => prevspace)
      /\ curpos # start => i >= 0
      /\ \A k \in 0..i : wstarts[k+1] \in start..curpos-1
      /\ copying => /\ maxorig >= ONEK /\ curpos - start <= maxorig
                    /\ \A p \in start..curpos-1 : Like(p, orig[p - start])
      /\ at <= maxbuf + 1
  BY <1>1, <1>3 DEF Cursor, Start
<1>5. /\ curpos <= maxbuf /\ (copying => curpos - start < maxorig) /\ curpos \in 1..N
      /\ curpos \in start..N
  BY <1>1, <1>2, <1>3, <1>4, SeenIs
<1>6. /\ orig \in [0..maxorig-1 -> Char \cup {Junk}] /\ i \in -1..N /\ tab_ndx \in -1..N
      /\ result \in -N..N /\ prevspace \in BOOLEAN
  BY <1>1 DEF TypeOK, N
<1> DEFINE c == inbuf[curpos]
<1>7. Like(curpos, c) /\ c \in Char
  BY <1>1, <1>2, <1>3, <1>5 DEF Data, CutLine
<1>8. /\ c \in Letters \/ c = NUL
      /\ text[curpos] # NL
      /\ c \in Letters <=> IsLetter(curpos)
      /\ c = NUL <=> IsBlank(curpos)
  BY <1>1, <1>3, <1>5, <1>7, Chars, LikeIs, TextIs
<1>9. /\ inbuf' \in [1..N -> Char] /\ inbuf'[curpos] = Cased(c)
      /\ \A p \in 1..N : p # curpos => inbuf'[p] = inbuf[p]
  <2>1. tolower(c) \in Char
    BY <1>8, Chars
  <2> QED
    BY <1>2, <1>3, <1>5, <1>7, <2>1 DEF Cased
<1>10. /\ orig' \in [0..maxorig-1 -> Char \cup {Junk}]
       /\ copying => /\ orig'[curpos - start] = c
                     /\ \A p \in start..curpos-1 : orig'[p - start] = orig[p - start]
  <2>1. copying => curpos - start \in 0..maxorig-1
    BY <1>2, <1>4, <1>5
  <2>2. ASSUME copying, NEW p \in start..curpos-1 PROVE p - start \in 0..maxorig-1 /\ p - start # curpos - start
    BY <1>2, <1>4, <1>5, <2>2
  <2> QED
    BY <1>3, <1>6, <1>7, <2>1, <2>2
<1> DEFINE m == IF prevspace THEN i + 1 ELSE i
<1> DEFINE w == IF prevspace THEN Append(wstarts, curpos) ELSE wstarts
<1>11. /\ m \in -1..N /\ w \in Seq(Nat) /\ Len(w) = m + 1
       /\ \A k \in 0..i : w[k+1] = wstarts[k+1]
       /\ prevspace => m = i + 1 /\ w[m+1] = curpos
       /\ ~prevspace => m = i
       /\ m + 1 <= (curpos + 1) - start /\ m >= 0
       /\ \A k \in 0..m : w[k+1] \in start..curpos
  <2>1. CASE prevspace
    <3>1. curpos \in Nat /\ m = i + 1 /\ w = Append(wstarts, curpos)
      BY <1>2, <1>5, <2>1
    <3>2. /\ w \in Seq(Nat) /\ Len(w) = m + 1 /\ w[m+1] = curpos
          /\ \A k \in 0..i : w[k+1] = wstarts[k+1]
      BY <1>2, <3>1
    <3>3. m \in -1..N /\ m + 1 <= (curpos + 1) - start
      BY <1>2, <1>4, <1>5, <3>1
    <3>4. ASSUME NEW k \in 0..m PROVE w[k+1] \in start..curpos
      <4>1. CASE k \in 0..i
        <5>1. wstarts[k+1] \in start..curpos-1 /\ w[k+1] = wstarts[k+1]
          BY <1>4, <3>2, <4>1
        <5> QED
          BY <1>2, <1>5, <5>1
      <4>2. CASE k = m
        <5>1. w[k+1] = curpos
          BY <3>2, <4>2
        <5> QED
          BY <1>2, <1>5, <5>1
      <4> QED
        BY <1>2, <3>1, <4>1, <4>2
    <3> QED
      BY <1>2, <2>1, <3>1, <3>2, <3>3, <3>4
  <2>2. CASE ~prevspace
    <3>1. m = i /\ w = wstarts
      BY <2>2
    <3>2. \A k \in 0..i : w[k+1] \in start..curpos
      BY <1>2, <1>4, <1>5, <3>1
    <3> HIDE DEF m, w
    <3> QED
      BY <1>2, <1>4, <1>5, <1>6, <2>2, <3>1, <3>2
  <2> QED
    BY <1>6, <2>1, <2>2
<1>c. i' = m /\ wstarts' = w /\ prevspace' = FALSE
  BY <1>3, <1>6
<1> HIDE DEF c, m, w
<1>a. /\ curpos' = curpos + 1 /\ start' = start /\ text' = text /\ copying' = copying
      /\ UNCHANGED settings
  BY <1>3
<1>b. /\ N \in Nat /\ start \in 1..N /\ curpos \in start..N /\ curpos \in 1..N
      /\ i \in Int /\ i >= -1 /\ m \in Int /\ m >= 0 /\ m + 1 <= (curpos + 1) - start
      /\ copying \in BOOLEAN /\ prevspace \in BOOLEAN
  BY <1>2, <1>5, <1>6, <1>11
<1>12. TypeOK'
  <2>1. curpos' \in at..N+1 /\ start' \in at'..N
    BY <1>2, <1>3, <1>5
  <2>2. ASSUME NEW k \in 0..m PROVE w[k+1] \in at'..N+1
    <3>1. w[k+1] \in start..curpos
      BY <1>11
    <3> QED
      BY <1>2, <1>3, <1>5, <3>1
  <2> QED
    BY <1>1, <1>2, <1>3, <1>6, <1>9, <1>10, <1>11, <1>c, <2>1, <2>2, TypeKeeps
<1>13. Data'
  <2>1. Like(curpos, Cased(c))
    <3>1. CASE IsLetter(curpos)
      BY <1>1, <1>5, <1>7, <1>8, <3>1, Chars, TextIs DEF Like, Cased
    <3>2. CASE ~IsLetter(curpos)
      BY <1>1, <1>5, <1>7, <1>8, <3>2, Chars, TextIs DEF Like, Cased
    <3> QED
      BY <3>1, <3>2
  <2>2. ASSUME NEW p \in at..N PROVE Like(p, inbuf'[p])
    <3>1. p \in 1..N
      BY <1>2
    <3>2. CASE p = curpos
      BY <1>9, <2>1, <3>2
    <3>3. CASE p # curpos
      BY <1>1, <1>3, <1>9, <3>1, <3>3 DEF Data, CutLine
    <3> QED
      BY <3>2, <3>3
  <2>3. ASSUME NEW p \in at..N, p > maxbuf \/ ~SameLine(p) PROVE inbuf'[p] = text[p]
    <3>1. p # curpos
      <4>1. curpos \in start..N+1 /\ curpos \in at..curpos
        BY <1>2, <1>5
      <4>2. SameLine(curpos)
        BY <1>1, <1>4, <4>1, OnOneLine
      <4>3. ~(curpos > maxbuf)
        BY <1>2, <1>5
      <4> QED
        BY <2>3, <4>2, <4>3
    <3>2. p \in 1..N
      BY <1>2
    <3> QED
      BY <1>1, <1>9, <2>3, <3>1, <3>2 DEF Data
  <2>4. at = 1 \/ text[at-1] = NL
    BY <1>1 DEF Data
  <2> QED
    BY <1>3, <2>2, <2>3, <2>4, SameText DEF Data
<1>14. Cursor'
  <2>1. \A q \in start..curpos : text[q] # NL
    BY <1>2, <1>4, <1>5, <1>8
  <2>2. ASSUME copying, NEW p \in start..curpos PROVE Like(p, orig'[p - start])
    <3>1. CASE p = curpos
      BY <1>7, <1>10, <2>2, <3>1
    <3>2. CASE p # curpos
      <4>1. p \in start..curpos-1
        BY <1>2, <1>5, <3>2
      <4> QED
        BY <1>4, <1>10, <2>2, <4>1
    <3> QED
      BY <3>1, <3>2
  <2>3. Begun'
    BY <1>3, <1>4 DEF Begun
  <2>4. start..curpos'-1 = start..curpos /\ curpos' \in start..maxbuf+1
    BY <1>2, <1>3, <1>5
  <2>5. copying => maxorig >= ONEK /\ curpos' - start <= maxorig
    BY <1>2, <1>3, <1>4, <1>5
  <2>6. copying' => \A p \in start'..curpos'-1 : Like(p, orig[p - start])'
    BY <1>3, <2>2, <2>4, SameText
  <2>7. m + 1 <= curpos' /\ curpos' # start'
    BY <1>a, <1>b
  <2> QED
    BY <1>3, <1>4, <1>11, <2>1, <2>3, <2>4, <2>5, <2>6, <2>7, <1>c DEF Cursor, Start
<1>15. Tokens'
  <2>1. Fits' => Fits
    BY <1>3, SameText
  <2> SUFFICES ASSUME Fits' PROVE Tokens'
    BY DEF Tokens
  <2>2. /\ Intact(curpos) /\ CutUpTo(curpos, i + 1)
        /\ prevspace => inbuf[curpos] # NUL /\ (curpos = start \/ IsBlank(curpos-1))
        /\ ~prevspace => (IsBlank(curpos-1) => IsBlank(curpos))
    BY <1>1, <1>3, <1>5, <2>1 DEF Tokens
  <2>3. Intact(curpos)'
    <3>1. ASSUME NEW q \in curpos+1..N PROVE inbuf'[q] = inbuf[q] /\ inbuf'[q+1] = inbuf[q+1]
      <4>1. q \in 1..N /\ q # curpos /\ q+1 # curpos /\ (q+1 \in 1..N \/ q+1 = N+1)
        BY <1>2
      <4>2. q+1 = N+1 => q+1 \notin DOMAIN inbuf
        BY <1>2
      <4>3. inbuf'[q+1] = inbuf[q+1]
        BY <1>2, <1>3, <1>5, <4>1
      <4> QED
        BY <1>9, <4>1, <4>3
    <3>2. \A q \in curpos+1..N : q \in curpos..N
      BY <1>2
    <3>3. ASSUME NEW q \in curpos+1..N
          PROVE  /\ IsBlank(q) /\ ~IsBlank(q+1) => inbuf'[q] \in Blanks
                 /\ inbuf'[q] \in Blanks => inbuf'[q+1] # NUL
                 /\ copying => inbuf'[q] = text[q]
      BY <2>2, <3>1, <3>2 DEF Intact
    <3> QED
      BY <1>a, <3>3, IntactNext
  <2>4. ASSUME NEW q \in start..curpos
        PROVE  /\ IsBlank(q) => inbuf'[q] = NUL
               /\ IsLetter(q) => inbuf'[q] = Cased(text[q])
               /\ copying => orig'[q - start] = text[q]
    <3>1. CASE q = curpos
      <4>1. IsLetter(q) => Cased(c) = Cased(text[q])
        BY <1>1, <1>5, <1>7, <3>1, LikeIs
      <4>2. IsBlank(q) => Cased(c) = NUL
        BY <1>8, <3>1, Chars DEF Cased
      <4>3. copying => c = text[q]
        <5>1. curpos \in curpos..N
          BY <1>2, <1>5
        <5> QED
          BY <2>2, <3>1, <5>1 DEF Intact, c
      <4> QED
        BY <1>9, <1>10, <3>1, <4>1, <4>2, <4>3
    <3>2. CASE q # curpos
      <4>1. q \in start..curpos-1 /\ q \in 1..N
        BY <1>2, <1>5, <3>2
      <4> QED
        BY <1>9, <1>10, <2>2, <3>2, <4>1 DEF CutUpTo
    <3> QED
      BY <3>1, <3>2
  <2>5. prevspace <=> IsStart(curpos)
    <3>1. CASE prevspace
      <4>1. c # NUL
        BY <2>2, <3>1 DEF c
      <4> QED
        BY <1>8, <2>2, <3>1, <4>1 DEF IsStart
    <3>2. CASE ~prevspace
      <4>1. curpos # start
        BY <1>4, <3>2
      <4>2. IsBlank(curpos-1) => ~IsLetter(curpos)
        BY <1>1, <1>5, <2>2, <3>2, TextIs
      <4> QED
        BY <3>2, <4>1, <4>2 DEF IsStart
    <3> QED
      BY <3>1, <3>2
  <2>6. CutUpTo(curpos, i + 1)'
    <3>1. /\ \A k \in 0..i : wstarts[k+1] \in start..curpos-1 /\ IsStart(wstarts[k+1])
          /\ \A q \in start..curpos-1 : IsStart(q) => \E k \in 0..i : wstarts[k+1] = q
          /\ \A k, l \in 0..i : k < l => wstarts[k+1] < wstarts[l+1]
          /\ i >= 0 => wstarts[1] = start
      <4>1. (i + 1) - 1 = i /\ (i + 1 > 0 <=> i >= 0)
        BY <1>2
      <4> QED
        BY <2>2, <4>1 DEF CutUpTo, Start
    <3>2. ASSUME NEW k \in 0..m PROVE w[k+1] \in start..curpos /\ IsStart(w[k+1])
      <4>1. CASE k \in 0..i
        BY <1>11, <3>1, <4>1
      <4>2. CASE k \notin 0..i
        <5>1. prevspace /\ k = m
          BY <1>11, <1>b, <4>2
        <5> QED
          BY <1>11, <2>5, <5>1
      <4> QED
        BY <4>1, <4>2
    <3>3. ASSUME NEW q \in start..curpos, IsStart(q) PROVE \E k \in 0..m : w[k+1] = q
      <4>1. CASE q = curpos
        <5>1. prevspace /\ m \in 0..m /\ w[m+1] = curpos
          BY <1>2, <1>11, <2>5, <3>3, <4>1
        <5> QED
          BY <4>1, <5>1
      <4>2. CASE q # curpos
        <5>1. q \in start..curpos-1
          BY <1>2, <1>5, <4>2
        <5>2. PICK k \in 0..i : wstarts[k+1] = q
          BY <3>1, <3>3, <5>1
        <5>3. k \in 0..m /\ w[k+1] = q
          BY <1>11, <1>b, <5>2
        <5> QED
          BY <5>3
      <4> QED
        BY <4>1, <4>2
    <3>4. ASSUME NEW k \in 0..m, NEW l \in 0..m, k < l PROVE w[k+1] < w[l+1]
      <4>1. k \in 0..i
        BY <1>11, <1>b, <3>4
      <4>2. CASE l \in 0..i
        BY <1>11, <3>1, <3>4, <4>1, <4>2
      <4>3. CASE l \notin 0..i
        <5>1. prevspace /\ l = m
          BY <1>11, <1>b, <4>3
        <5>2. w[l+1] = curpos
          BY <1>11, <5>1
        <5>3. w[k+1] \in start..curpos-1
          BY <1>11, <3>1, <4>1
        <5> QED
          BY <1>2, <1>5, <5>2, <5>3
      <4> QED
        BY <4>2, <4>3
    <3>5. w[1] = start
      <4>1. CASE i >= 0
        <5>1. 0 \in 0..i /\ 0 + 1 = 1
          BY <1>2, <4>1
        <5>2. w[0+1] = wstarts[0+1]
          BY <1>11, <5>1
        <5> QED
          BY <3>1, <4>1, <5>1, <5>2
      <4>2. CASE ~(i >= 0)
        <5>1. i = -1 /\ curpos = start
          BY <1>2, <1>4, <4>2
        <5>2. prevspace /\ m = 0
          BY <1>2, <1>4, <1>11, <5>1
        <5> QED
          BY <1>11, <5>1, <5>2
      <4> QED
        BY <4>1, <4>2
    <3>6. (m + 1) - 1 = m /\ (curpos + 1) - 1 = curpos
      BY <1>b
    <3>7. \A k, l \in 0..m : k < l => w[k+1] < w[l+1]
      BY <3>4
    <3>8. UNCHANGED <<settings, start>>
      BY <1>3
    <3>9. ASSUME NEW p, p - 1 = curpos, NEW n, n - 1 = m PROVE CutUpTo(p, n)'
      <4>1. \A q \in start..p-1 : /\ IsBlank(q) => inbuf'[q] = NUL
                                  /\ IsLetter(q) => inbuf'[q] = Cased(text[q])
                                  /\ copying => orig'[q - start] = text[q]
        BY <2>4, <3>9
      <4>2. \A k \in 0..n-1 : wstarts'[k+1] \in start..p-1 /\ IsStart(wstarts'[k+1])
        BY <1>c, <3>2, <3>9
      <4>3. \A q \in start..p-1 : IsStart(q) => \E k \in 0..n-1 : wstarts'[k+1] = q
        BY <1>c, <3>3, <3>9
      <4>4. \A k, l \in 0..n-1 : k < l => wstarts'[k+1] < wstarts'[l+1]
        BY <1>c, <3>7, <3>9
      <4>5. Cutting(p, n)
        BY <1>c, <3>5, <4>1, <4>2, <4>3, <4>4 DEF Cutting
      <4> QED
        BY <3>8, <4>5, CutNext
    <3> QED
      BY <1>a, <1>c, <3>6, <3>9
  <2>7. IsBlank(curpos) => IsBlank(curpos+1)
    <3>1. IsBlank(curpos) => c \notin Blanks
      BY <1>8, Chars
    <3>2. curpos \in curpos..N
      BY <1>2, <1>5
    <3> QED
      BY <2>2, <3>1, <3>2 DEF Intact, c
  <2>9. IsBlank(curpos - 1)' => IsBlank(curpos)'
    <3>1. (curpos + 1) - 1 = curpos
      BY <1>2
    <3> QED
      BY <1>3, <2>7, <3>1, SameText
  <2> QED
    BY <1>3, <1>c, <2>3, <2>6, <2>9 DEF Tokens, CutLine
<1> QED
  BY <1>12, <1>13, <1>14, <1>15 DEF IInv

(* While the loop runs. *)
LEMMA ScanIs ==
  ASSUME IInv, pc = "scan", Seen
  PROVE  /\ TypeOK /\ Data /\ Cursor /\ Tokens
         /\ N \in Nat /\ inbuf \in [1..N -> Char] /\ maxbuf \in 1..N /\ maxorig \in Nat
         /\ at \in 1..N /\ start \in at..N /\ start \in 1..N
         /\ curpos \in start..N /\ curpos \in 1..N /\ curpos <= maxbuf
         /\ i \in -1..N /\ i \in Int /\ wstarts \in Seq(Nat) /\ Len(wstarts) = i + 1
         /\ copying \in BOOLEAN /\ ignoreCase \in BOOLEAN /\ prevspace \in BOOLEAN
         /\ Begun /\ (\A q \in start..curpos-1 : text[q] # NL)
         /\ i + 1 <= curpos - start /\ (curpos # start => i >= 0)
         /\ (\A k \in 0..i : wstarts[k+1] \in start..curpos-1)
         /\ (copying => /\ maxorig >= ONEK /\ curpos - start \in 0..maxorig-1
                        /\ \A p \in start..curpos-1 : Like(p, orig[p - start]))
         /\ at <= maxbuf + 1
         /\ orig \in [0..maxorig-1 -> Char \cup {Junk}] /\ tab_ndx \in -1..N /\ result \in -N..N
         /\ Like(curpos, inbuf[curpos]) /\ SameLine(curpos)
<1>1. TypeOK /\ Data /\ Cursor /\ Tokens
  BY DEF IInv
<1>2. /\ N \in Nat /\ inbuf \in [1..N -> Char] /\ maxbuf \in 1..N /\ maxorig \in Nat
      /\ at \in 1..N /\ start \in at..N /\ curpos \in at..N+1
      /\ i \in Int /\ i >= -1 /\ wstarts \in Seq(Nat) /\ Len(wstarts) = i + 1 /\ result \in Int
      /\ copying \in BOOLEAN /\ ignoreCase \in BOOLEAN
  BY <1>1, Types
<1>4. /\ Begun /\ curpos \in start..maxbuf+1 /\ start <= maxbuf
      /\ \A q \in start..curpos-1 : text[q] # NL
      /\ i + 1 <= curpos - start /\ (curpos = start => prevspace)
      /\ curpos # start => i >= 0
      /\ \A k \in 0..i : wstarts[k+1] \in start..curpos-1
      /\ copying => /\ maxorig >= ONEK /\ curpos - start <= maxorig
                    /\ \A p \in start..curpos-1 : Like(p, orig[p - start])
      /\ at <= maxbuf + 1
  BY <1>1 DEF Cursor, Start
<1>5. /\ curpos <= maxbuf /\ (copying => curpos - start < maxorig) /\ curpos \in 1..N
      /\ curpos \in start..N /\ start \in 1..N /\ (copying => curpos - start \in 0..maxorig-1)
  BY <1>1, <1>2, <1>4, SeenIs
<1>6. /\ orig \in [0..maxorig-1 -> Char \cup {Junk}] /\ i \in -1..N /\ tab_ndx \in -1..N
      /\ result \in -N..N /\ prevspace \in BOOLEAN
  BY <1>1 DEF TypeOK, N
<1>7. Like(curpos, inbuf[curpos])
  BY <1>1, <1>2, <1>5 DEF Data, CutLine
<1>8. SameLine(curpos)
  <2>1. curpos \in start..N+1 /\ curpos \in at..curpos
    BY <1>2, <1>5
  <2> QED
    BY <1>1, <1>4, <2>1, OnOneLine
<1>9. (copying => /\ maxorig >= ONEK /\ curpos - start \in 0..maxorig-1
                  /\ \A p \in start..curpos-1 : Like(p, orig[p - start]))
  BY <1>4, <1>5
<1> QED
  BY <1>1, <1>2, <1>4, <1>5, <1>6, <1>7, <1>8, <1>9

(* A turn of the loop that leaves the cell at curpos like it was, or ends  *)
(* the line there.                                                         *)
LEMMA DataNext ==
  ASSUME IInv, pc = "scan", Seen, UNCHANGED <<settings, at, maxbuf>>,
         \A p \in 1..N : p # curpos => inbuf'[p] = inbuf[p],
         (CutLine' /\ curpos' = curpos) \/ Like(curpos, inbuf'[curpos])
  PROVE  Data'
<1>1. /\ Data /\ N \in Nat /\ at \in 1..N /\ curpos <= maxbuf /\ curpos \in Int /\ maxbuf \in Int
      /\ SameLine(curpos)
  BY ScanIs
<1>2. text' = text /\ N' = N /\ at' = at /\ maxbuf' = maxbuf /\ UNCHANGED settings
  BY SameText DEF settings
<1>3. ASSUME NEW p \in at..N PROVE (CutLine' /\ p = curpos') \/ Like(p, inbuf'[p])
  BY <1>1, <1>3 DEF Data, CutLine
<1>4. ASSUME NEW p \in at..N, p > maxbuf \/ ~SameLine(p) PROVE inbuf'[p] = text[p]
  <2>1. p # curpos /\ p \in 1..N
    BY <1>1, <1>4
  <2> QED
    BY <1>1, <1>4, <2>1 DEF Data
<1>5. \A p : SameLine(p)' <=> SameLine(p)
  BY <1>2, SameText
<1>6. \A p \in at..N : (CutLine' /\ p = curpos') \/ Like(p, inbuf[p])'
  BY <1>2, <1>3, SameText
<1>7. \A p \in at..N : p > maxbuf \/ ~SameLine(p)' => inbuf'[p] = text[p]
  BY <1>4, <1>5
<1>8. at = 1 \/ text[at-1] = NL
  BY <1>1 DEF Data
<1> QED
  BY <1>2, <1>6, <1>7, <1>8 DEF Data

LEMMA SeparatorKeeps == ASSUME IInv, Separator PROVE IInv'
<1>1. pc = "scan" /\ Seen
  BY DEF Separator
<1>2. /\ TypeOK /\ Data /\ Cursor /\ Tokens
      /\ N \in Nat /\ inbuf \in [1..N -> Char] /\ maxbuf \in 1..N /\ maxorig \in Nat
      /\ at \in 1..N /\ start \in at..N /\ start \in 1..N
      /\ curpos \in start..N /\ curpos \in 1..N /\ curpos <= maxbuf
      /\ i \in -1..N /\ i \in Int /\ wstarts \in Seq(Nat) /\ Len(wstarts) = i + 1
      /\ copying \in BOOLEAN /\ ignoreCase \in BOOLEAN /\ prevspace \in BOOLEAN
  BY <1>1, ScanIs
<1>3. /\ Begun /\ (\A q \in start..curpos-1 : text[q] # NL)
      /\ i + 1 <= curpos - start /\ (curpos # start => i >= 0)
      /\ (\A k \in 0..i : wstarts[k+1] \in start..curpos-1)
      /\ (copying => /\ maxorig >= ONEK /\ curpos - start \in 0..maxorig-1
                     /\ \A p \in start..curpos-1 : Like(p, orig[p - start]))
      /\ at <= maxbuf + 1
      /\ orig \in [0..maxorig-1 -> Char \cup {Junk}] /\ tab_ndx \in -1..N /\ result \in -N..N
      /\ Like(curpos, inbuf[curpos])
  BY <1>1, ScanIs
<1>4. /\ UNCHANGED <<settings, maxbuf, maxorig, at, start, i, wstarts, pc, result>>
      /\ text' = text /\ copying' = copying /\ ignoreCase' = ignoreCase /\ UNCHANGED settings
      /\ orig' = IF copying THEN [orig EXCEPT ![curpos - start] = inbuf[curpos]] ELSE orig
      /\ inbuf' = [inbuf EXCEPT ![curpos] = NUL]
      /\ prevspace' = TRUE /\ curpos' = curpos + 1
      /\ tab_ndx' = IF inbuf[curpos] = TAB /\ ~copying THEN i + 1 ELSE tab_ndx
  BY DEF Separator, Copy, settings
<1> DEFINE c == inbuf[curpos]
<1>5. c \in Blanks /\ c \in Char /\ IsBlank(curpos) /\ text[curpos] # NL /\ ~IsLetter(curpos)
  <2>1. c \in Blanks
    BY DEF Separator
  <2>2. IsBlank(curpos)
    BY <1>2, <1>3, <2>1, LikeIs
  <2> QED
    BY <1>2, <2>1, <2>2, TextIs, Chars
<1>6. curpos # start /\ i >= 0
  BY <1>2, <1>3, <1>5, StartLetter
<1>7. /\ inbuf' \in [1..N -> Char] /\ inbuf'[curpos] = NUL
      /\ \A p : p # curpos => inbuf'[p] = inbuf[p]
  BY <1>2, <1>4, Chars
<1>8. /\ orig' \in [0..maxorig-1 -> Char \cup {Junk}]
      /\ copying => /\ orig'[curpos - start] = c
                    /\ \A p \in start..curpos-1 : orig'[p - start] = orig[p - start]
  <2>1. ASSUME copying, NEW p \in start..curpos-1 PROVE p - start \in 0..maxorig-1 /\ p - start # curpos - start
    BY <1>2, <1>3, <2>1
  <2> QED
    BY <1>2, <1>3, <1>4, <1>5, <2>1
<1>9. \A q \in start..curpos : q = curpos \/ q \in start..curpos-1
  BY <1>2
<1>10. TypeOK'
  <2>1. curpos + 1 \in at..N+1
    BY <1>2
  <2>2. i + 1 \in -1..N
    BY <1>2, <1>3
  <2>3. ASSUME NEW k \in 0..i PROVE wstarts[k+1] \in at..N+1
    <3>1. wstarts[k+1] \in start..curpos-1
      BY <1>3
    <3> QED
      BY <1>2, <3>1
  <2>4. tab_ndx' \in -1..N
    BY <1>3, <1>4, <2>2
  <2>5. pc \in {"skip", "scan", "done"} /\ TRUE \in BOOLEAN
    BY <1>1
  <2> QED
    BY <1>2, <1>3, <1>4, <1>7, <1>8, <2>1, <2>3, <2>4, <2>5, TypeKeeps
<1>11. Data'
  <2>1. Like(curpos, NUL)
    BY <1>2, <1>5, TextIs, Chars DEF Like
  <2> QED
    BY <1>1, <1>4, <1>7, <2>1, DataNext
<1>12. Cursor'
  <2>1. \A q \in start..curpos : text[q] # NL
    BY <1>3, <1>5, <1>9
  <2>2. ASSUME copying, NEW p \in start..curpos PROVE Like(p, orig'[p - start])
    <3>1. CASE p = curpos
      BY <1>3, <1>8, <2>2, <3>1
    <3>2. CASE p # curpos
      BY <1>3, <1>8, <1>9, <2>2, <3>2
    <3> QED
      BY <3>1, <3>2
  <2>3. Begun'
    BY <1>3, <1>4 DEF Begun
  <2>4. (curpos + 1) - 1 = curpos /\ curpos + 1 \in start..maxbuf+1 /\ curpos + 1 # start
        /\ start <= maxbuf /\ i + 1 <= curpos + 1 /\ i + 1 <= (curpos + 1) - start
    BY <1>2, <1>3
  <2>5. copying => maxorig >= ONEK /\ (curpos + 1) - start <= maxorig
    BY <1>2, <1>3
  <2>6. copying' => \A p \in start..curpos : Like(p, orig[p - start])'
    BY <1>4, <2>2, SameText
  <2>7. \A k \in 0..i : wstarts[k+1] \in start..curpos
    BY <1>2, <1>3
  <2> QED
    BY <1>1, <1>2, <1>3, <1>4, <1>6, <2>1, <2>3, <2>4, <2>5, <2>6, <2>7 DEF Cursor, Start
<1>13. Tokens'
  <2>1. Fits' => Fits
    BY <1>4, SameText
  <2> SUFFICES ASSUME Fits' PROVE Tokens'
    BY DEF Tokens
  <2>2. Intact(curpos) /\ CutUpTo(curpos, i + 1)
    BY <1>1, <1>2, <2>1 DEF Tokens
  <2>3. curpos \in curpos..N
    BY <1>2
  <2>4. c # NUL /\ inbuf[curpos+1] # NUL /\ (copying => c = text[curpos])
    BY <1>5, <2>2, <2>3, Chars DEF Intact
  <2>5. Intact(curpos)'
    <3>1. ASSUME NEW q \in curpos+1..N PROVE q # curpos /\ q+1 # curpos /\ q \in curpos..N
      BY <1>2
    <3>2. ASSUME NEW q \in curpos+1..N
          PROVE  /\ IsBlank(q) /\ ~IsBlank(q+1) => inbuf'[q] \in Blanks
                 /\ inbuf'[q] \in Blanks => inbuf'[q+1] # NUL
                 /\ copying => inbuf'[q] = text[q]
      BY <1>7, <2>2, <3>1 DEF Intact
    <3> QED
      BY <1>4, <3>2, IntactNext
  <2>6. CutUpTo(curpos, i + 1)'
    <3>1. (i + 1) - 1 = i /\ (curpos + 1) - 1 = curpos /\ i + 1 > 0
      BY <1>2, <1>6
    <3>2. /\ \A k \in 0..i : wstarts[k+1] \in start..curpos-1 /\ IsStart(wstarts[k+1])
          /\ \A q \in start..curpos-1 : IsStart(q) => \E k \in 0..i : wstarts[k+1] = q
          /\ \A k, l \in 0..i : k < l => wstarts[k+1] < wstarts[l+1]
          /\ wstarts[0+1] = start
      BY <2>2, <3>1 DEF CutUpTo, Start
    <3>3. wstarts[1] = start
      BY <3>2
    <3>4. ASSUME NEW q \in start..curpos
          PROVE  /\ IsBlank(q) => inbuf'[q] = NUL
                 /\ IsLetter(q) => inbuf'[q] = Cased(text[q])
                 /\ copying => orig'[q - start] = text[q]
      <4>1. CASE q = curpos
        BY <1>5, <1>7, <1>8, <2>4, <4>1
      <4>2. CASE q # curpos
        <5>1. q \in start..curpos-1
          BY <1>9, <4>2
        <5> QED
          BY <1>7, <1>8, <2>2, <4>2, <5>1 DEF CutUpTo
      <4> QED
        BY <4>1, <4>2
    <3>5. ~IsStart(curpos)
      BY <1>5 DEF IsStart
    <3>6. ASSUME NEW k \in 0..i PROVE wstarts[k+1] \in start..curpos
      <4>1. wstarts[k+1] \in start..curpos-1
        BY <3>2
      <4> QED
        BY <1>2, <4>1
    <3>9. ASSUME NEW p, p - 1 = curpos, NEW n, n - 1 = i PROVE CutUpTo(p, n)'
      <4>1. \A q \in start..p-1 : /\ IsBlank(q) => inbuf'[q] = NUL
                                  /\ IsLetter(q) => inbuf'[q] = Cased(text[q])
                                  /\ copying => orig'[q - start] = text[q]
        BY <3>4, <3>9
      <4>2. \A k \in 0..n-1 : wstarts'[k+1] \in start..p-1 /\ IsStart(wstarts'[k+1])
        BY <1>4, <3>2, <3>6, <3>9
      <4>3. \A q \in start..p-1 : IsStart(q) => \E k \in 0..n-1 : wstarts'[k+1] = q
        <5>1. \A q \in start..p-1 : IsStart(q) => q \in start..curpos-1
          BY <1>9, <3>5, <3>9
        <5> QED
          BY <1>4, <3>2, <3>9, <5>1
      <4>4. \A k, l \in 0..n-1 : k < l => wstarts'[k+1] < wstarts'[l+1]
        BY <1>4, <3>2, <3>9
      <4>5. Cutting(p, n)
        BY <1>4, <3>3, <4>1, <4>2, <4>3, <4>4 DEF Cutting
      <4> QED
        BY <1>4, <4>5, CutNext
    <3> QED
      BY <1>4, <3>1, <3>9
  <2>7. /\ inbuf'[curpos+1] # NUL
        /\ IsBlank((curpos+1)-1)
    <3>1. curpos + 1 # curpos /\ (curpos + 1) - 1 = curpos
      BY <1>2
    <3> QED
      BY <1>5, <1>7, <2>4, <3>1
  <2>8. IsBlank(curpos - 1)' /\ inbuf'[curpos'] # NUL
    BY <1>4, <2>7, SameText
  <2> QED
    BY <1>1, <1>4, <2>5, <2>6, <2>8 DEF Tokens, CutLine
<1> QED
  BY <1>10, <1>11, <1>12, <1>13 DEF IInv

LEMMA LineEndKeeps == ASSUME IInv, LineEnd PROVE IInv'
<1>1. pc = "scan" /\ Seen
  BY DEF LineEnd
<1>2. /\ TypeOK /\ Data /\ Cursor /\ Tokens
      /\ N \in Nat /\ inbuf \in [1..N -> Char] /\ maxbuf \in 1..N /\ maxorig \in Nat
      /\ at \in 1..N /\ start \in at..N /\ start \in 1..N
      /\ curpos \in start..N /\ curpos \in 1..N /\ curpos <= maxbuf
      /\ i \in -1..N /\ i \in Int /\ wstarts \in Seq(Nat) /\ Len(wstarts) = i + 1
      /\ copying \in BOOLEAN /\ ignoreCase \in BOOLEAN /\ prevspace \in BOOLEAN
  BY <1>1, ScanIs
<1>3. /\ Begun /\ (\A q \in start..curpos-1 : text[q] # NL)
      /\ i + 1 <= curpos - start /\ (curpos # start => i >= 0)
      /\ (\A k \in 0..i : wstarts[k+1] \in start..curpos-1)
      /\ (copying => /\ maxorig >= ONEK /\ curpos - start \in 0..maxorig-1
                     /\ \A p \in start..curpos-1 : Like(p, orig[p - start]))
      /\ at <= maxbuf + 1
      /\ orig \in [0..maxorig-1 -> Char \cup {Junk}] /\ tab_ndx \in -1..N
      /\ Like(curpos, inbuf[curpos])
  BY <1>1, ScanIs
<1> DEFINE w == Append(wstarts, curpos + 1)
<1>4. /\ UNCHANGED <<settings, maxbuf, maxorig, at, start, curpos, prevspace, tab_ndx>>
      /\ text' = text /\ copying' = copying /\ ignoreCase' = ignoreCase /\ UNCHANGED settings
      /\ orig' = IF copying THEN [orig EXCEPT ![curpos - start] = NUL] ELSE orig
      /\ inbuf' = [inbuf EXCEPT ![curpos] = NUL]
      /\ i' = i + 1 /\ wstarts' = w /\ result' = i + 1 /\ pc' = "done"
  BY DEF LineEnd, Copy, settings
<1>5. text[curpos] = NL /\ ~IsBlank(curpos) /\ ~IsLetter(curpos)
  <2>1. inbuf[curpos] = NL
    BY DEF LineEnd
  <2>2. text[curpos] = NL
    BY <1>2, <1>3, <2>1, LikeIs
  <2> QED
    BY <1>2, <2>2, TextIs
<1>6. curpos # start /\ i >= 0
  BY <1>3, <1>5 DEF Begun
<1>7. /\ inbuf' \in [1..N -> Char] /\ inbuf'[curpos] = NUL
      /\ \A p : p # curpos => inbuf'[p] = inbuf[p]
  BY <1>2, <1>4, Chars
<1>8. /\ orig' \in [0..maxorig-1 -> Char \cup {Junk}]
      /\ copying => /\ orig'[curpos - start] = NUL
                    /\ \A p \in start..curpos-1 : orig'[p - start] = orig[p - start]
  <2>1. ASSUME copying, NEW p \in start..curpos-1 PROVE p - start \in 0..maxorig-1 /\ p - start # curpos - start
    BY <1>2, <1>3, <2>1
  <2> QED
    BY <1>2, <1>3, <1>4, <2>1, Chars
<1>9. /\ w \in Seq(Nat) /\ Len(w) = (i + 1) + 1 /\ w[(i+1)+1] = curpos + 1
      /\ \A k \in 0..i : w[k+1] = wstarts[k+1]
  <2>1. curpos + 1 \in Nat
    BY <1>2
  <2> QED
    BY <1>2, <1>6, <2>1
<1> HIDE DEF w
<1>10. TypeOK'
  <2>1. curpos \in at..N+1 /\ i + 1 \in -1..N /\ i + 1 \in -N..N
    BY <1>2, <1>3
  <2>2. ASSUME NEW k \in 0..i+1 PROVE w[k+1] \in at..N+1
    <3>1. CASE k \in 0..i
      <4>1. wstarts[k+1] \in start..curpos-1
        BY <1>3, <3>1
      <4> QED
        BY <1>2, <1>9, <3>1, <4>1
    <3>2. CASE k = i + 1
      BY <1>2, <1>9, <3>2
    <3> QED
      BY <1>2, <3>1, <3>2
  <2> QED
    BY <1>2, <1>3, <1>4, <1>7, <1>8, <1>9, <2>1, <2>2, TypeKeeps
<1>11. Data'
  <2>1. CutLine'
    BY <1>2, <1>4, <1>6 DEF CutLine
  <2> QED
    BY <1>1, <1>4, <1>7, <2>1, DataNext
<1>12. Cursor'
  <2>1. Begun'
    BY <1>3, <1>4 DEF Begun
  <2>2. curpos \in start..maxbuf /\ (i + 1) + 1 <= curpos /\ i + 1 > 0
    BY <1>2, <1>3, <1>6
  <2>3. ~(i + 1 <= 0)
    BY <1>2, <1>6
  <2> QED
    BY <1>3, <1>4, <1>5, <1>9, <2>1, <2>2, <2>3 DEF Cursor, Start
<1>13. Tokens'
  <2>1. Fits' => Fits
    BY <1>4, SameText
  <2> SUFFICES ASSUME Fits' PROVE Tokens'
    BY DEF Tokens
  <2>2. CutUpTo(curpos, i + 1)
    BY <1>1, <1>2, <2>1 DEF Tokens
  <2>3. CutUpTo(curpos, i)'
    <3>1. (i + 1) - 1 = i /\ i + 1 > 0
      BY <1>2, <1>6
    <3>2. /\ \A k \in 0..i : wstarts[k+1] \in start..curpos-1 /\ IsStart(wstarts[k+1])
          /\ \A q \in start..curpos-1 : IsStart(q) => \E k \in 0..i : wstarts[k+1] = q
          /\ \A k, l \in 0..i : k < l => wstarts[k+1] < wstarts[l+1]
          /\ wstarts[0+1] = start
      BY <2>2, <3>1 DEF CutUpTo, Start
    <3>3. w[1] = start
      <4>1. 0 \in 0..i
        BY <1>2, <1>6
      <4>2. w[0+1] = start
        BY <1>9, <3>2, <4>1
      <4> QED
        BY <4>2
    <3>4. ASSUME NEW q \in start..curpos-1
          PROVE  /\ IsBlank(q) => inbuf'[q] = NUL
                 /\ IsLetter(q) => inbuf'[q] = Cased(text[q])
                 /\ copying => orig'[q - start] = text[q]
      <4>1. q # curpos
        BY <1>2
      <4> QED
        BY <1>7, <1>8, <2>2, <4>1 DEF CutUpTo
    <3>9. ASSUME NEW n, n - 1 = i PROVE CutUpTo(curpos, n)'
      <4>2. \A k \in 0..n-1 : wstarts'[k+1] \in start..curpos-1 /\ IsStart(wstarts'[k+1])
        BY <1>4, <1>9, <3>2, <3>9
      <4>3. \A q \in start..curpos-1 : IsStart(q) => \E k \in 0..n-1 : wstarts'[k+1] = q
        BY <1>4, <1>9, <3>2, <3>9
      <4>4. \A k, l \in 0..n-1 : k < l => wstarts'[k+1] < wstarts'[l+1]
        BY <1>4, <1>9, <3>2, <3>9
      <4>5. Cutting(curpos, n)
        BY <1>4, <3>3, <3>4, <4>2, <4>3, <4>4 DEF Cutting
      <4>6. ASSUME NEW p, p = curpos PROVE CutUpTo(p, n)'
        BY <1>4, <4>5, <4>6, CutNext
      <4> QED
        BY <1>4, <4>6
    <3> QED
      BY <1>4, <3>1, <3>9
  <2>4. ~(i + 1 <= 0)
    BY <1>2, <1>6
  <2>5. inbuf'[curpos'] = NUL /\ (copying' => orig'[curpos' - start'] = NUL)
    BY <1>4, <1>7, <1>8
  <2> QED
    BY <1>4, <2>3, <2>4, <2>5 DEF Tokens, CutLine
<1> QED
  BY <1>10, <1>11, <1>12, <1>13 DEF IInv

LEMMA ReadMoreKeeps == ASSUME IInv, ReadMore PROVE IInv'
<1>1. TypeOK /\ Data /\ Cursor /\ Tokens
  BY DEF IInv
<1>2. /\ N \in Nat /\ inbuf \in [1..N -> Char] /\ maxbuf \in 1..N /\ maxorig \in Nat
      /\ at \in 1..N /\ start \in at..N
  BY <1>1, Types
<1>3. PICK m \in maxbuf+1..N : maxbuf' = m
  BY DEF ReadMore, N
<1>4. /\ pc = "done" /\ result <= 0 /\ pc' = "skip" /\ result' = 0
      /\ at' = at /\ start' = at /\ curpos' = at
      /\ i' = -1 /\ wstarts' = <<>> /\ prevspace' = TRUE /\ tab_ndx' = -1
      /\ UNCHANGED settings /\ text' = text /\ copying' = copying
      /\ UNCHANGED <<inbuf, orig, maxorig>>
  BY DEF ReadMore, CallAt, InitScan, settings
<1>5. m \in 1..N /\ m > maxbuf /\ at <= m + 1 /\ at \in at..N+1 /\ at \in at..N
  <2>1. at <= maxbuf + 1
    BY <1>1 DEF Cursor
  <2> QED
    BY <1>2, <1>3, <2>1
<1>6. ~CutLine /\ ~CutLine'
  BY <1>1, <1>4, Types DEF CutLine
<1>7. TypeOK'
  <2>1. /\ orig \in [0..maxorig-1 -> Char \cup {Junk}] /\ -1 \in -1..N /\ 0 \in -N..N
    BY <1>1, <1>2 DEF TypeOK
  <2>2. <<>> \in Seq(Nat) /\ Len(<<>>) = -1 + 1 /\ 0..(-1) = {}
    OBVIOUS
  <2> QED
    BY <1>1, <1>2, <1>3, <1>4, <1>5, <2>1, <2>2, TypeKeeps
<1>8. Data'
  <2>1. \A p \in at..N : p > m => p > maxbuf
    BY <1>2, <1>5
  <2>2. /\ \A p \in at..N : Like(p, inbuf[p])
        /\ \A p \in at..N : p > m \/ ~SameLine(p) => inbuf[p] = text[p]
        /\ at = 1 \/ text[at-1] = NL
    BY <1>1, <1>6, <2>1 DEF Data
  <2>3. \A p : (SameLine(p)' <=> SameLine(p)) /\ N' = N
    BY <1>4, SameText
  <2>4. \A p \in at..N : Like(p, inbuf[p])'
    BY <1>4, <2>2, SameText
  <2>5. \A p \in at..N : p > m \/ ~SameLine(p)' => inbuf[p] = text[p]
    BY <2>2, <2>3
  <2> QED
    BY <1>3, <1>4, <2>2, <2>3, <2>4, <2>5 DEF Data
<1>9. Cursor'
  <2>1. <<>> \in Seq(Nat) /\ at..at-1 = {} /\ -1 + 1 <= at
    BY <1>2
  <2>2. copying => maxorig >= ONEK
    BY <1>1 DEF Cursor
  <2> QED
    BY <1>3, <1>4, <1>5, <2>1, <2>2 DEF Cursor
<1>10. Tokens'
  <2>1. Fits' => Fits
    BY <1>4, SameText
  <2>2. Intact(at)' <=> Intact(at)
    BY <1>4, SameIntact DEF Intact
  <2> QED
    BY <1>1, <1>4, <1>6, <2>1, <2>2 DEF Tokens
<1> QED
  BY <1>7, <1>8, <1>9, <1>10 DEF IInv

LEMMA CallNextKeeps == ASSUME IInv, CallNext PROVE IInv'
<1>1. TypeOK /\ Data /\ Cursor /\ Tokens
  BY DEF IInv
<1>2. /\ N \in Nat /\ inbuf \in [1..N -> Char] /\ maxbuf \in 1..N /\ maxorig \in Nat
      /\ at \in 1..N /\ start \in at..N /\ curpos \in at..N+1
  BY <1>1, Types
<1>3. pc = "done" /\ result > 0
  BY DEF CallNext
<1>4. /\ Begun /\ curpos \in start..maxbuf /\ text[curpos] = NL
      /\ Start(result) = curpos + 1
  BY <1>1, <1>3 DEF Cursor
<1> DEFINE a == curpos + 1
<1>5. /\ pc' = "skip" /\ result' = 0 /\ a <= N
      /\ at' = a /\ start' = a /\ curpos' = a
      /\ i' = -1 /\ wstarts' = <<>> /\ prevspace' = TRUE /\ tab_ndx' = -1
      /\ UNCHANGED settings /\ text' = text /\ copying' = copying /\ N' = N
      /\ UNCHANGED <<inbuf, maxbuf, orig, maxorig>>
  BY <1>4, SameText DEF CallNext, CallAt, InitScan, settings, N
<1>6. /\ a \in 1..N /\ a \in a..N /\ a \in a..N+1 /\ a - 1 = curpos /\ a <= maxbuf + 1
      /\ a..a-1 = {} /\ -1 + 1 <= a
  BY <1>2, <1>4, <1>5
<1>7. \A q \in a..N : inbuf[q] = text[q]
  <2> SUFFICES ASSUME NEW q \in a..N PROVE ~SameLine(q) /\ q \in at..N
    BY <1>1 DEF Data
  <2>1. curpos \in at..q-1 /\ start \in at..curpos /\ q \in at..N
    BY <1>2, <1>4, <1>6
  <2> QED
    BY <1>4, <2>1 DEF SameLine, Begun
<1> HIDE DEF a
<1>8. TypeOK'
  <2>1. /\ orig \in [0..maxorig-1 -> Char \cup {Junk}] /\ -1 \in -1..N /\ 0 \in -N..N
    BY <1>1, <1>2 DEF TypeOK
  <2>2. <<>> \in Seq(Nat) /\ Len(<<>>) = -1 + 1 /\ 0..(-1) = {}
    OBVIOUS
  <2> QED
    BY <1>1, <1>2, <1>5, <1>6, <2>1, <2>2, TypeKeeps
<1>9. /\ \A q \in a..N : Like(q, inbuf[q])
      /\ \A q \in a..N : /\ IsBlank(q) /\ ~IsBlank(q+1) => inbuf[q] \in Blanks
                         /\ inbuf[q] \in Blanks => inbuf[q+1] # NUL
  BY <1>1, <1>6, <1>7, Fresh
<1>10. Data'
  <2>1. \A p \in a..N : Like(p, inbuf[p])'
    BY <1>5, <1>9, SameText
  <2>2. text[a-1] = NL
    BY <1>4, <1>6
  <2> QED
    BY <1>5, <1>7, <2>1, <2>2 DEF Data
<1>11. Cursor'
  <2>1. <<>> \in Seq(Nat) /\ (copying => maxorig >= ONEK)
    BY <1>1 DEF Cursor
  <2> QED
    BY <1>5, <1>6, <2>1 DEF Cursor
<1>12. Tokens'
  <2>1. ASSUME NEW p, p = a PROVE Intact(p)'
    BY <1>5, <1>7, <1>9, <2>1, IntactNext
  <2>2. Intact(at)'
    BY <1>5, <2>1
  <2> QED
    BY <1>5, <2>2 DEF Tokens, CutLine
<1> QED
  BY <1>8, <1>10, <1>11, <1>12 DEF IInv

(* The line that the file has from place at on. *)
LEMMA LineIs ==
  ASSUME TypeOK, Cursor, Begun, NEW c \in start..N+1, \A q \in start..c-1 : text[q] # NL
  PROVE  /\ LineFrom = start /\ LineTo \in start..N /\ LineTo >= c
         /\ c \in 1..N /\ text[c] = NL => LineTo = c
<1>1. /\ N \in Nat /\ at \in 1..N /\ start \in at..N /\ text[N] = NL
  BY Types
<1>2. LineFrom = start
  <2>1. start \in at..Len(text) /\ text[start] # NL /\ \A q \in at..start-1 : text[q] = NL
    BY <1>1 DEF Begun, N
  <2>2. ASSUME NEW p \in at..Len(text), text[p] # NL, \A q \in at..p-1 : text[q] = NL
        PROVE  p = start
    <3>1. p \in Int /\ p >= at /\ start \in Int /\ start >= at
      BY <1>1, <2>2 DEF N
    <3>2. ~(p < start)
      <4>1. p < start => p \in at..start-1
        BY <3>1
      <4> QED
        BY <2>1, <2>2, <4>1
    <3>3. ~(start < p)
      <4>1. start < p => start \in at..p-1
        BY <3>1
      <4> QED
        BY <2>1, <2>2, <4>1
    <3> QED
      BY <3>1, <3>2, <3>3
  <2> QED
    BY <2>1, <2>2 DEF LineFrom
<1> DEFINE T == {p \in start..N : text[p] = NL}
<1>3. PICK e \in T : \A y \in T : e <= y
  <2>1. T \subseteq Nat /\ N \in T
    BY <1>1
  <2> HIDE DEF T
  <2> QED
    BY <2>1, LeastNumber
<1>4. e \in start..N /\ text[e] = NL /\ \A q \in start..e-1 : text[q] # NL
  <2>1. ASSUME NEW q \in start..e-1, text[q] = NL PROVE FALSE
    <3>1. q \in T /\ ~(e <= q)
      BY <1>1, <1>3, <2>1
    <3> QED
      BY <1>3, <3>1
  <2> QED
    BY <1>3, <2>1
<1>5. LineTo = e
  <2>1. ASSUME NEW p \in start..N, text[p] = NL, \A q \in start..p-1 : text[q] # NL
        PROVE  p = e
    <3>1. p < e => p \in start..e-1
      BY <1>1, <1>4
    <3>2. e < p => e \in start..p-1
      BY <1>1, <1>4
    <3>3. ~(p < e) /\ ~(e < p)
      BY <1>4, <2>1, <3>1, <3>2
    <3> QED
      BY <1>1, <1>4, <3>3
  <2>2. LineTo = CHOOSE p \in start..N : text[p] = NL /\ \A q \in start..p-1 : text[q] # NL
    BY <1>2 DEF LineTo, N
  <2> QED
    BY <1>4, <2>1, <2>2
<1>6. e >= c
  <2>1. e < c => e \in start..c-1
    BY <1>1, <1>4
  <2> QED
    BY <1>1, <1>4, <2>1
<1>7. c \in 1..N /\ text[c] = NL => e = c
  <2>1. c < e => c \in start..e-1
    BY <1>1, <1>4
  <2> QED
    BY <1>1, <1>4, <1>6, <2>1
<1> QED
  BY <1>2, <1>4, <1>5, <1>6, <1>7

(* A line that fits into the first copy is never started over. *)
LEMMA GrowNever == ASSUME IInv, Grow PROVE ~Fits
<1>1. TypeOK /\ Cursor /\ pc = "scan"
  BY DEF IInv, Grow
<1>2. /\ N \in Nat /\ maxbuf \in 1..N /\ maxorig \in Nat
      /\ at \in 1..N /\ start \in at..N /\ curpos \in at..N+1 /\ copying \in BOOLEAN
  BY <1>1, Types
<1>3. copying /\ curpos >= start + maxorig
  BY <1>1, <1>2, SeenIs DEF Grow
<1>4. /\ Begun /\ curpos \in start..maxbuf+1
      /\ \A q \in start..curpos-1 : text[q] # NL
      /\ maxorig >= ONEK
  BY <1>1, <1>3 DEF Cursor
<1>5. curpos \in start..N+1
  BY <1>2, <1>4
<1>6. LineFrom = start /\ LineTo \in start..N /\ LineTo >= curpos
  BY <1>1, <1>4, <1>5, LineIs
<1>7. ONEK \in Nat
  BY OneKAssumption
<1>8. ~(LineTo - LineFrom < ONEK)
  BY <1>2, <1>3, <1>4, <1>6, <1>7
<1> QED
  BY <1>3, <1>8 DEF Fits

LEMMA GrowKeeps == ASSUME IInv, Grow PROVE IInv'
<1>1. TypeOK /\ Data /\ Cursor /\ Tokens
  BY DEF IInv
<1>2. /\ N \in Nat /\ inbuf \in [1..N -> Char] /\ maxbuf \in 1..N /\ maxorig \in Nat
      /\ at \in 1..N /\ start \in at..N
  BY <1>1, Types
<1>3. /\ pc = "scan" /\ curpos' = start /\ i' = -1 /\ wstarts' = <<>>
      /\ prevspace' = TRUE /\ tab_ndx' = -1
      /\ UNCHANGED settings /\ text' = text /\ copying' = copying
      /\ UNCHANGED <<inbuf, maxbuf, at, start, pc, result>>
      /\ maxorig' = maxorig * 2
      /\ orig' = [p \in 0..maxorig'-1 |-> IF p < maxorig THEN orig[p] ELSE Junk]
  BY DEF Grow, InitScan, settings, Longer
<1>4. /\ Begun /\ start <= maxbuf /\ at <= maxbuf + 1 /\ (copying => maxorig >= ONEK)
  BY <1>1, <1>3 DEF Cursor
<1> DEFINE mo == maxorig * 2
<1>5. mo \in Nat /\ mo >= maxorig
  BY <1>2
<1> HIDE DEF mo
<1>6. maxorig' = mo /\ orig' = [p \in 0..mo-1 |-> IF p < maxorig THEN orig[p] ELSE Junk]
  BY <1>3 DEF mo
<1>7. TypeOK'
  <2>1. orig \in [0..maxorig-1 -> Char \cup {Junk}] /\ -1 \in -1..N /\ result \in -N..N
    BY <1>1, <1>2 DEF TypeOK, N
  <2>2. <<>> \in Seq(Nat) /\ Len(<<>>) = -1 + 1 /\ 0..(-1) = {}
    OBVIOUS
  <2>3. orig' \in [0..mo-1 -> Char \cup {Junk}]
    BY <1>2, <1>5, <1>6, <2>1
  <2>4. start \in at..N+1 /\ pc \in {"skip", "scan", "done"}
    BY <1>2, <1>3
  <2> QED
    BY <1>1, <1>2, <1>3, <1>5, <1>6, <2>1, <2>2, <2>3, <2>4, TypeKeeps
<1>8. Data'
  BY <1>1, <1>3, SameText DEF Data, CutLine
<1>9. Cursor'
  <2>1. /\ <<>> \in Seq(Nat) /\ start..start-1 = {} /\ 0..(-1) = {} /\ -1 + 1 <= start
        /\ start \in start..maxbuf+1 /\ -1 + 1 <= start - start /\ start - start <= mo
    BY <1>2, <1>4, <1>5
  <2>2. copying => mo >= ONEK
    BY <1>2, <1>4, <1>5, OneKAssumption
  <2>3. Begun'
    BY <1>3, <1>4 DEF Begun
  <2> QED
    BY <1>3, <1>4, <1>6, <2>1, <2>2, <2>3 DEF Cursor
<1>10. Tokens'
  BY <1>3, GrowNever, SameText DEF Tokens
<1> QED
  BY <1>7, <1>8, <1>9, <1>10 DEF IInv

(* What was scanned of a line without its end. *)
LEMMA RefusedIs ==
  ASSUME IInv, OutOfInput
  PROVE  /\ TypeOK /\ Data /\ Cursor /\ Tokens /\ pc = "scan"
         /\ N \in Nat /\ inbuf \in [1..N -> Char] /\ DOMAIN inbuf = 1..N /\ maxbuf \in 1..N
         /\ maxorig \in Nat /\ at \in 1..N /\ start \in at..N
         /\ copying \in BOOLEAN /\ curpos = maxbuf + 1
         /\ start \in 1..maxbuf /\ curpos - 1 = maxbuf
         /\ i \in 0..N /\ i + 1 \in 0..N /\ wstarts \in Seq(Nat) /\ Len(wstarts) = i + 1
         /\ Begun /\ (\A q \in start..maxbuf : text[q] # NL)
         /\ (\A k \in 0..i : wstarts[k+1] \in start..maxbuf)
         /\ (copying => \A p \in start..maxbuf : Like(p, orig[p - start]))
         /\ (\A p \in at..N : Like(p, inbuf[p]))
         /\ (\A p \in at..N : p > maxbuf \/ ~SameLine(p) => inbuf[p] = text[p])
         /\ (\A p \in start..maxbuf : SameLine(p))
<1>1. TypeOK /\ Data /\ Cursor /\ Tokens /\ pc = "scan" /\ ~Seen /\ curpos > maxbuf
  BY DEF IInv, OutOfInput
<1>2. /\ N \in Nat /\ inbuf \in [1..N -> Char] /\ DOMAIN inbuf = 1..N /\ maxbuf \in 1..N
      /\ maxorig \in Nat /\ at \in 1..N /\ start \in at..N /\ copying \in BOOLEAN
      /\ i \in Int /\ wstarts \in Seq(Nat) /\ Len(wstarts) = i + 1
  BY <1>1, Types
<1>3. curpos = maxbuf + 1
  BY <1>1, SeenIs
<1>4. /\ Begun /\ start <= maxbuf
      /\ \A q \in start..curpos-1 : text[q] # NL
      /\ i + 1 <= curpos - start
      /\ curpos # start => i >= 0
      /\ \A k \in 0..i : wstarts[k+1] \in start..curpos-1
      /\ copying => \A p \in start..curpos-1 : Like(p, orig[p - start])
  BY <1>1 DEF Cursor, Start
<1>5. curpos - 1 = maxbuf /\ start \in 1..maxbuf /\ curpos # start /\ curpos \in start..N+1
  BY <1>2, <1>3, <1>4
<1>6. i \in 0..N /\ i + 1 \in 0..N
  BY <1>2, <1>3, <1>4, <1>5
<1>7. \A p \in start..maxbuf : SameLine(p)
  <2> SUFFICES ASSUME NEW p \in start..maxbuf PROVE SameLine(p)
    OBVIOUS
  <2>1. p \in at..curpos
    BY <1>2, <1>3, <1>5
  <2> QED
    BY <1>1, <1>4, <1>5, <2>1, OnOneLine
<1>8. /\ \A p \in at..N : Like(p, inbuf[p])
      /\ \A p \in at..N : p > maxbuf \/ ~SameLine(p) => inbuf[p] = text[p]
  BY <1>1 DEF Data, CutLine
<1> QED
  BY <1>1, <1>2, <1>3, <1>4, <1>5, <1>6, <1>7, <1>8

(* The copy takes the place of what was cut. *)
LEMMA CopyRestores ==
  ASSUME IInv, OutOfInput, copying
  PROVE  /\ CopiedBack \in [1..N -> Char]
         /\ \A p \in at..N : Like(p, CopiedBack[p])
         /\ \A p \in at..N : p > maxbuf \/ ~SameLine(p) => CopiedBack[p] = text[p]
         /\ Fits => \A p \in at..N : CopiedBack[p] = text[p]
<1>1. /\ TypeOK /\ Cursor /\ Tokens /\ pc = "scan"
      /\ N \in Nat /\ inbuf \in [1..N -> Char] /\ DOMAIN inbuf = 1..N /\ maxbuf \in 1..N
      /\ at \in 1..N /\ start \in at..N /\ start \in 1..maxbuf /\ curpos - 1 = maxbuf
      /\ curpos = maxbuf + 1
  BY RefusedIs
<1>2. /\ \A p \in start..maxbuf : Like(p, orig[p - start]) /\ SameLine(p)
      /\ \A p \in at..N : Like(p, inbuf[p])
      /\ \A p \in at..N : p > maxbuf \/ ~SameLine(p) => inbuf[p] = text[p]
  BY RefusedIs
<1>3. ASSUME NEW p \in 1..N
      PROVE  CopiedBack[p] = IF p \in start..maxbuf THEN orig[p - start] ELSE inbuf[p]
  BY <1>1, <1>3 DEF CopiedBack
<1>4. ASSUME NEW p \in 1..N PROVE CopiedBack[p] \in Char
  BY <1>1, <1>2, <1>3, LikeIs
<1>5. CopiedBack \in [1..N -> Char]
  <2>1. CopiedBack = [p \in 1..N |-> CopiedBack[p]]
    BY <1>1 DEF CopiedBack
  <2> QED
    BY <1>4, <2>1
<1>6. \A p \in at..N : p \in 1..N
  BY <1>1
<1>7. \A p \in at..N : Like(p, CopiedBack[p])
  BY <1>2, <1>3, <1>6
<1>8. ASSUME NEW p \in at..N, p > maxbuf \/ ~SameLine(p) PROVE CopiedBack[p] = text[p]
  <2>1. p \notin start..maxbuf
    BY <1>1, <1>2, <1>8
  <2> QED
    BY <1>2, <1>3, <1>6, <1>8, <2>1
<1>9. ASSUME Fits, NEW p \in at..N PROVE CopiedBack[p] = text[p]
  <2>1. Intact(curpos) /\ CutUpTo(curpos, i + 1)
    BY <1>1, <1>9 DEF Tokens
  <2>2. CASE p \in start..maxbuf
    BY <1>1, <1>3, <1>6, <2>1, <2>2 DEF CutUpTo
  <2>3. CASE p < start
    <3>1. p \in at..start-1 /\ p \notin start..maxbuf
      BY <1>1, <2>3
    <3>2. text[p] = NL
      BY <3>1, RefusedIs DEF Begun
    <3>3. inbuf[p] = NL
      BY <1>2, <3>2 DEF Like
    <3> QED
      BY <1>3, <1>6, <3>1, <3>2, <3>3
  <2>4. CASE p > maxbuf
    BY <1>8, <2>4
  <2> QED
    BY <1>1, <2>2, <2>3, <2>4
<1> QED
  BY <1>5, <1>7, <1>8, <1>9

(* Without a copy: one separator before every token is enough. *)
LEMMA SeparatorsRestore ==
  ASSUME IInv, OutOfInput, ~copying
  PROVE  /\ Restored \in [1..N -> Char]
         /\ \A p \in at..N : Like(p, Restored[p])
         /\ \A p \in at..N : p > maxbuf \/ ~SameLine(p) => Restored[p] = text[p]
         /\ \A p \in at..N : /\ IsBlank(p) /\ ~IsBlank(p+1) => Restored[p] \in Blanks
                             /\ Restored[p] \in Blanks => Restored[p+1] # NUL
<1>1. /\ TypeOK /\ Cursor /\ Tokens /\ pc = "scan"
      /\ N \in Nat /\ inbuf \in [1..N -> Char] /\ DOMAIN inbuf = 1..N /\ maxbuf \in 1..N
      /\ at \in 1..N /\ start \in at..N /\ start \in 1..maxbuf /\ curpos - 1 = maxbuf
      /\ curpos = maxbuf + 1 /\ i \in 0..N
  BY RefusedIs
<1>2. /\ \A p \in start..maxbuf : SameLine(p) /\ text[p] # NL
      /\ \A p \in at..N : Like(p, inbuf[p])
      /\ \A p \in at..N : p > maxbuf \/ ~SameLine(p) => inbuf[p] = text[p]
  BY RefusedIs
<1>3. /\ \A q \in start..maxbuf : /\ IsBlank(q) => inbuf[q] = NUL
                                  /\ IsLetter(q) => inbuf[q] = Cased(text[q])
      /\ \A k \in 0..i : Start(k) \in start..maxbuf /\ IsStart(Start(k))
      /\ \A q \in start..maxbuf : IsStart(q) => \E k \in 0..i : Start(k) = q
      /\ \A k, l \in 0..i : k < l => Start(k) < Start(l)
      /\ Start(0) = start
  <2>1. Fits
    BY <1>1 DEF Fits
  <2>2. CutUpTo(curpos, i + 1)
    BY <1>1, <2>1 DEF Tokens
  <2>3. (i + 1) - 1 = i /\ i + 1 > 0
    BY <1>1
  <2> QED
    BY <1>1, <2>2, <2>3 DEF CutUpTo
<1> DEFINE Before == {p \in 1..N : \E k \in 1..i : Start(k) - 1 = p}
<1>4. ASSUME NEW k \in 1..i
      PROVE  Start(k) \in start..maxbuf /\ Start(k) # start /\ IsLetter(Start(k)) /\ IsBlank(Start(k)-1)
  <2>1. k \in 0..i /\ 0 \in 0..i /\ 0 < k
    BY <1>1, <1>4
  <2>2. Start(0) < Start(k) /\ Start(k) \in start..maxbuf /\ IsStart(Start(k))
    BY <1>3, <2>1
  <2>3. Start(k) # start
    BY <1>1, <1>3, <2>2
  <2> QED
    BY <2>2, <2>3 DEF IsStart
<1>5. ASSUME NEW p \in Before
      PROVE p \in start..maxbuf-1 /\ IsBlank(p) /\ IsLetter(p+1) /\ p + 1 \in start..maxbuf
  <2>1. PICK k \in 1..i : Start(k) - 1 = p
    OBVIOUS
  <2> DEFINE s == Start(k)
  <2>2. s \in start..maxbuf /\ s # start /\ IsLetter(s) /\ IsBlank(s-1) /\ s - 1 = p
    BY <1>4, <2>1
  <2> HIDE DEF s
  <2>3. p \in start..maxbuf-1 /\ p + 1 = s
    BY <1>1, <2>2
  <2> QED
    BY <2>2, <2>3
<1>6. ASSUME NEW p \in 1..N
      PROVE  /\ p \in Before => Restored[p] \in Blanks
             /\ p = maxbuf /\ inbuf[p] = NUL => Restored[p] \in Blanks
             /\ p \notin Before /\ ~(p = maxbuf /\ inbuf[p] = NUL) => Restored[p] = inbuf[p]
  <2>1. \A k : SeparatorOf(k) \in Blanks
    BY DEF SeparatorOf, Blanks
  <2>2. Restored[p] = IF p = curpos - 1 /\ inbuf[p] = NUL THEN SeparatorOf(i + 1)
                      ELSE IF \E k \in 1..i : Start(k) - 1 = p
                      THEN SeparatorOf(CHOOSE k \in 1..i : Start(k) - 1 = p)
                      ELSE inbuf[p]
    BY <1>1, <1>6 DEF Restored
  <2>3. p \in Before <=> \E k \in 1..i : Start(k) - 1 = p
    BY <1>6
  <2> HIDE DEF Before
  <2> QED
    BY <1>1, <2>1, <2>2, <2>3
<1> HIDE DEF Before
<1>7. \A p \in at..N : p \in 1..N
  BY <1>1
<1>8. ASSUME NEW p \in at..N PROVE Like(p, Restored[p])
  <2>1. CASE p \in Before
    <3>1. IsBlank(p) /\ Restored[p] \in Blanks
      BY <1>5, <1>6, <1>7, <2>1
    <3> QED
      BY <1>1, <1>7, <3>1, TextIs DEF Like
  <2>2. CASE p = maxbuf /\ inbuf[p] = NUL
    <3>1. IsBlank(p) /\ Restored[p] \in Blanks
      BY <1>1, <1>2, <1>6, <1>7, <2>2, LikeIs
    <3> QED
      BY <1>1, <1>7, <3>1, TextIs DEF Like
  <2>3. CASE p \notin Before /\ ~(p = maxbuf /\ inbuf[p] = NUL)
    BY <1>2, <1>6, <1>7, <2>3
  <2> QED
    BY <2>1, <2>2, <2>3
<1>9. Restored \in [1..N -> Char]
  <2>1. Restored = [p \in 1..N |-> Restored[p]]
    BY <1>1 DEF Restored
  <2>2. ASSUME NEW p \in 1..N PROVE Restored[p] \in Char
    BY <1>1, <1>6, Chars
  <2> QED
    BY <2>1, <2>2
<1>10. ASSUME NEW p \in at..N, p > maxbuf \/ ~SameLine(p) PROVE Restored[p] = text[p]
  <2>1. p \notin start..maxbuf
    BY <1>1, <1>2, <1>10
  <2>2. p \notin Before /\ p # maxbuf
    BY <1>1, <1>5, <2>1
  <2> QED
    BY <1>2, <1>6, <1>7, <1>10, <2>2
<1>11. ASSUME NEW p \in at..N, IsBlank(p), ~IsBlank(p+1) PROVE Restored[p] \in Blanks
  <2>1. CASE p > maxbuf
    BY <1>10, <1>11, <2>1 DEF IsBlank
  <2>2. CASE p = maxbuf
    <3>1. p \in start..maxbuf
      BY <1>1, <2>2
    <3> QED
      BY <1>3, <1>6, <1>7, <1>11, <2>2, <3>1
  <2>3. CASE p < maxbuf
    <3>1. p >= start
      <4>1. p < start => p \in at..start-1
        BY <1>1
      <4>2. p < start => text[p] = NL
        BY <4>1, RefusedIs DEF Begun
      <4> QED
        BY <1>1, <1>7, <1>11, <4>2, TextIs
    <3>2. p + 1 \in start..maxbuf /\ p + 1 \in 1..N /\ p + 1 # start /\ (p + 1) - 1 = p
      BY <1>1, <2>3, <3>1
    <3>3. IsLetter(p+1)
      BY <1>1, <1>2, <1>11, <3>2, TextIs
    <3>4. IsStart(p+1)
      BY <1>11, <3>2, <3>3 DEF IsStart
    <3>5. PICK k \in 0..i : Start(k) = p + 1
      BY <1>3, <3>2, <3>4
    <3>6. k \in 1..i /\ Start(k) - 1 = p
      BY <1>1, <1>3, <3>2, <3>5
    <3> QED
      BY <1>6, <1>7, <3>6 DEF Before
  <2> QED
    BY <1>1, <2>1, <2>2, <2>3
<1>12. ASSUME NEW p \in at..N, Restored[p] \in Blanks PROVE Restored[p+1] # NUL
  <2>1. IsBlank(p)
    BY <1>1, <1>7, <1>8, <1>12, LikeIs
  <2>2. p < N /\ p + 1 \in at..N /\ p + 1 \in 1..N
    BY <1>1, <1>7, <2>1, TextIs
  <2>3. CASE p >= maxbuf
    <3>1. p + 1 > maxbuf
      BY <1>1, <2>3
    <3>2. Restored[p+1] = text[p+1] /\ text[p+1] \in Letters \cup Blanks \cup {NL}
      BY <1>1, <1>10, <2>2, <3>1, Types
    <3> QED
      BY <3>2, Chars
  <2>4. CASE p < maxbuf
    <3>1. p >= start
      <4>1. p < start => p \in at..start-1
        BY <1>1
      <4>2. p < start => text[p] = NL
        BY <4>1, RefusedIs DEF Begun
      <4> QED
        BY <1>1, <1>7, <2>1, <4>2, TextIs
    <3>2. inbuf[p] = NUL
      BY <1>1, <1>3, <2>1, <2>4, <3>1
    <3>3. p \in Before
      <4>1. p # maxbuf
        BY <1>1, <2>4
      <4> QED
        BY <1>6, <1>7, <1>12, <3>2, <4>1, Chars
    <3>4. IsLetter(p+1)
      BY <1>5, <3>3
    <3>5. Restored[p+1] \in Letters
      BY <1>1, <1>8, <2>2, <3>4, LikeIs
    <3> QED
      BY <3>5, Chars
  <2> QED
    BY <1>1, <2>3, <2>4
<1> QED
  BY <1>8, <1>9, <1>10, <1>11, <1>12

LEMMA OutOfInputKeeps == ASSUME IInv, OutOfInput PROVE IInv'
<1>1. /\ TypeOK /\ Data /\ Cursor /\ Tokens /\ pc = "scan"
      /\ N \in Nat /\ inbuf \in [1..N -> Char] /\ maxbuf \in 1..N /\ maxorig \in Nat
      /\ at \in 1..N /\ start \in at..N /\ copying \in BOOLEAN /\ curpos = maxbuf + 1
      /\ i \in 0..N /\ i + 1 \in 0..N /\ wstarts \in Seq(Nat) /\ Len(wstarts) = i + 1
      /\ Begun /\ (\A q \in start..maxbuf : text[q] # NL)
      /\ (\A k \in 0..i : wstarts[k+1] \in start..maxbuf)
  BY RefusedIs
<1> DEFINE b == IF copying THEN CopiedBack ELSE Restored
<1>2. /\ inbuf' = b /\ result' = -(i + 1) /\ pc' = "done"
      /\ UNCHANGED settings /\ text' = text /\ copying' = copying
      /\ UNCHANGED <<maxbuf, orig, maxorig, at, start, curpos, i, wstarts, prevspace, tab_ndx>>
  BY DEF OutOfInput, Refusal, settings, scan
<1>3. /\ b \in [1..N -> Char]
      /\ \A p \in at..N : Like(p, b[p])
      /\ \A p \in at..N : p > maxbuf \/ ~SameLine(p) => b[p] = text[p]
  <2>1. CASE copying
    BY <2>1, CopyRestores
  <2>2. CASE ~copying
    BY <2>2, SeparatorsRestore
  <2> QED
    BY <2>1, <2>2
<1>4. Fits => \A p \in at..N : /\ IsBlank(p) /\ ~IsBlank(p+1) => b[p] \in Blanks
                               /\ b[p] \in Blanks => b[p+1] # NUL
                               /\ copying => b[p] = text[p]
  <2>1. CASE copying
    <3>1. b = CopiedBack
      BY <2>1
    <3>2. Fits => \A p \in at..N : b[p] = text[p]
      BY <2>1, <3>1, CopyRestores
    <3> HIDE DEF b
    <3> QED
      BY <1>1, <3>2, Fresh
  <2>2. CASE ~copying
    BY <2>2, SeparatorsRestore
  <2> QED
    BY <2>1, <2>2
<1> HIDE DEF b
<1> DEFINE r == -(i + 1)
<1>5. r \in -N..N /\ ~(r > 0) /\ r <= 0
  BY <1>1
<1> HIDE DEF r
<1>6. result' = r
  BY <1>2 DEF r
<1>7. TypeOK'
  <2>1. /\ orig \in [0..maxorig-1 -> Char \cup {Junk}] /\ i \in -1..N /\ tab_ndx \in -1..N
        /\ prevspace \in BOOLEAN /\ \A k \in 0..i : wstarts[k+1] \in at..N+1
        /\ curpos \in at..N+1
    BY <1>1 DEF TypeOK, N, Start
  <2> QED
    BY <1>1, <1>2, <1>3, <1>5, <1>6, <2>1, TypeKeeps
<1>8. Data'
  <2>1. \A p : (SameLine(p)' <=> SameLine(p)) /\ N' = N
    BY <1>2, SameText
  <2>2. \A p \in at..N : Like(p, inbuf[p])'
    BY <1>2, <1>3, SameText
  <2>3. \A p \in at..N : p > maxbuf \/ ~SameLine(p)' => inbuf'[p] = text[p]
    BY <1>2, <1>3, <2>1
  <2>4. at = 1 \/ text[at-1] = NL
    BY <1>1 DEF Data
  <2> QED
    BY <1>2, <2>1, <2>2, <2>3, <2>4 DEF Data
<1>9. Cursor'
  <2>1. Begun'
    BY <1>1, <1>2 DEF Begun
  <2>2. i + 1 <= curpos /\ at <= maxbuf + 1 /\ (copying => maxorig >= ONEK)
    BY <1>1 DEF Cursor
  <2> QED
    BY <1>1, <1>2, <1>5, <1>6, <2>1, <2>2 DEF Cursor
<1>10. Tokens'
  <2>1. Fits' => Fits
    BY <1>2, SameText
  <2> SUFFICES ASSUME Fits' PROVE Tokens'
    BY DEF Tokens
  <2>2. ASSUME NEW p, p = at PROVE Intact(p)'
    BY <1>2, <1>4, <2>1, <2>2, IntactNext
  <2>3. Intact(at)'
    BY <1>2, <2>2
  <2> QED
    BY <1>2, <1>5, <1>6, <2>3 DEF Tokens, CutLine
<1> QED
  BY <1>7, <1>8, <1>9, <1>10 DEF IInv

LEMMA StutterKeeps == ASSUME IInv, UNCHANGED vars PROVE IInv'
<1>1. /\ TypeOK /\ Data /\ Cursor /\ Tokens
      /\ UNCHANGED settings /\ text' = text /\ copying' = copying
      /\ UNCHANGED <<inbuf, maxbuf, orig, maxorig, at, start, pc, result>>
      /\ UNCHANGED <<curpos, i, wstarts, prevspace, tab_ndx>> /\ ignoreCase' = ignoreCase
  BY DEF IInv, vars, settings, scan
<1>2. TypeOK'
  BY <1>1 DEF TypeOK, Seen, Limit, Start
<1>3. Data'
  BY <1>1, SameText DEF Data, CutLine
<1>4. Cursor'
  BY <1>1, SameText DEF Cursor, Begun, Start
<1>5. Tokens'
  <2>1. (Fits' <=> Fits) /\ (\A p : IsBlank(p)' <=> IsBlank(p)) /\ (\A p : IsLetter(p)' <=> IsLetter(p))
    BY <1>1, SameText
  <2>2. (\A p : Intact(p)' <=> Intact(p)) /\ (\A p : IsStart(p)' <=> IsStart(p))
    BY <1>1, <2>1, SameIntact DEF IsStart
  <2>3. \A p, m : CutUpTo(p, m)' <=> CutUpTo(p, m)
    BY <1>1 DEF CutUpTo, Start, IsStart, IsLetter, IsBlank, Cased
  <2>4. (Intact(at)' <=> Intact(at)) /\ (Intact(curpos)' <=> Intact(curpos))
    BY <1>1, <2>2
  <2>5. /\ CutUpTo(curpos, i + 1)' <=> CutUpTo(curpos, i + 1)
        /\ CutUpTo(curpos, i)' <=> CutUpTo(curpos, i)
    BY <1>1, <2>3
  <2>6. /\ IsBlank(curpos-1)' <=> IsBlank(curpos-1)
        /\ IsBlank(curpos)' <=> IsBlank(curpos)
        /\ N' = N
    BY <1>1, <2>1 DEF N
  <2>7. CutLine' <=> CutLine
    BY <1>1 DEF CutLine
  <2> SUFFICES ASSUME Fits' PROVE Tokens'
    BY DEF Tokens
  <2>8. pc' = "skip" \/ (pc' = "done" /\ result' <= 0) => Intact(at)'
    BY <1>1, <2>1, <2>4 DEF Tokens
  <2>9. pc' = "scan" =>
          /\ Intact(curpos)' /\ CutUpTo(curpos, i + 1)'
          /\ prevspace' /\ curpos' <= N' =>
               inbuf'[curpos'] # NUL /\ (curpos' = start' \/ IsBlank(curpos-1)')
          /\ ~prevspace' => (IsBlank(curpos-1)' => IsBlank(curpos)')
    BY <1>1, <2>1, <2>4, <2>5, <2>6 DEF Tokens
  <2>10. CutLine' => /\ CutUpTo(curpos, i)' /\ inbuf'[curpos'] = NUL
                     /\ copying' => orig'[curpos' - start'] = NUL
    BY <1>1, <2>1, <2>5, <2>7 DEF Tokens
  <2> QED
    BY <2>8, <2>9, <2>10 DEF Tokens
<1> QED
  BY <1>2, <1>3, <1>4, <1>5 DEF IInv

LEMMA NextKeeps == IInv /\ [Next]_vars => IInv'
<1> SUFFICES ASSUME IInv, [Next]_vars PROVE IInv'
  OBVIOUS
<1>1. CASE SkipNewline
  BY <1>1, SkipNewlineKeeps
<1>2. CASE NothingLeft
  BY <1>2, NothingLeftKeeps
<1>3. CASE Dispatch
  BY <1>3, DispatchKeeps
<1>4. CASE Lettered
  BY <1>4, LetteredKeeps
<1>5. CASE Separator
  BY <1>5, SeparatorKeeps
<1>6. CASE LineEnd
  BY <1>6, LineEndKeeps
<1>7. CASE OutOfInput
  BY <1>7, OutOfInputKeeps
<1>8. CASE Grow
  BY <1>8, GrowKeeps
<1>9. CASE ReadMore
  BY <1>9, ReadMoreKeeps
<1>10. CASE CallNext
  BY <1>10, CallNextKeeps
<1>11. CASE UNCHANGED vars
  BY <1>11, StutterKeeps
<1> QED
  BY <1>1, <1>2, <1>3, <1>4, <1>5, <1>6, <1>7, <1>8, <1>9, <1>10, <1>11 DEF Next, cleanline

LEMMA Invariant == Spec => []IInv
BY InitInv, NextKeeps, PTL DEF Spec
-----------------------------------------------------------------------------
(* Every variable has its type, and curpos is in both buffers when used:   *)
(* whatever the text, however it is cut into blocks, and however often the *)
(* copy of the line must be enlarged.                                      *)
THEOREM TypeCorrect == Spec => []TypeOK
BY Invariant, PTL DEF IInv

(* cleanline refuses a line exactly if its end was not read yet, so that   *)
(* asking for more data is the right answer to a refusal, and the only     *)
(* case for it.                                                            *)
THEOREM RefusedIffPartialCorrect == Spec => []RefusedIffPartial
<1>1. IInv => RefusedIffPartial
  <2> SUFFICES ASSUME IInv, pc = "done"
               PROVE  result > 0 <=> \E p \in at..maxbuf : text[p] = NL /\ \E q \in at..p : text[q] # NL
    BY DEF RefusedIffPartial
  <2>1. TypeOK /\ Cursor
    BY DEF IInv
  <2>2. N \in Nat /\ maxbuf \in 1..N /\ at \in 1..N /\ start \in at..N /\ result \in Int
    BY <2>1, Types
  <2>3. CASE result > 0
    <3>1. Begun /\ curpos \in start..maxbuf /\ text[curpos] = NL
      BY <2>1, <2>3 DEF Cursor
    <3>2. curpos \in at..maxbuf /\ start \in at..curpos /\ text[start] # NL
      BY <2>2, <3>1 DEF Begun
    <3> QED
      BY <2>3, <3>1, <3>2
  <2>4. CASE result <= 0
    <3> SUFFICES ASSUME NEW p \in at..maxbuf, text[p] = NL, NEW q \in at..p, text[q] # NL
                 PROVE  FALSE
      BY <2>2, <2>4
    <3>1. \/ \A r \in at..maxbuf : text[r] = NL
          \/ Begun /\ \A r \in start..maxbuf : text[r] # NL
      BY <2>1, <2>4 DEF Cursor
    <3>2. q \in at..maxbuf
      BY <2>2
    <3>3. Begun /\ \A r \in start..maxbuf : text[r] # NL
      BY <3>1, <3>2
    <3>4. p < start
      BY <2>2, <3>3
    <3>5. q \in at..start-1
      BY <2>2, <3>4
    <3> QED
      BY <3>3, <3>5 DEF Begun
  <2> QED
    BY <2>2, <2>3, <2>4
<1> QED
  BY <1>1, Invariant, PTL

(* Where the line that was cut lies in the file. *)
LEMMA CutIs ==
  ASSUME IInv, CutLine, Fits
  PROVE  /\ TypeOK /\ Cursor /\ Data
         /\ N \in Nat /\ at \in 1..N /\ start \in at..N /\ start \in 1..N
         /\ curpos \in start..maxbuf /\ curpos \in start..N /\ text[curpos] = NL /\ curpos # start
         /\ (\A q \in start..curpos-1 : text[q] # NL)
         /\ LineFrom = start /\ LineTo = curpos
         /\ result = i /\ i \in Nat /\ i > 0 /\ Start(i) = curpos + 1
         /\ CutUpTo(curpos, i) /\ inbuf[curpos] = NUL
         /\ (copying => orig[curpos - start] = NUL)
         /\ copying \in BOOLEAN /\ maxorig \in Nat
<1>1. TypeOK /\ Cursor /\ Data /\ Tokens /\ pc = "done" /\ result > 0
  BY DEF IInv, CutLine
<1>2. /\ N \in Nat /\ at \in 1..N /\ start \in at..N /\ maxbuf \in 1..N /\ i \in Int
      /\ copying \in BOOLEAN /\ maxorig \in Nat /\ result \in Int
  BY <1>1, Types
<1>3. /\ Begun /\ curpos \in start..maxbuf /\ text[curpos] = NL
      /\ \A q \in start..curpos-1 : text[q] # NL
      /\ result = i /\ Start(i) = curpos + 1
  BY <1>1 DEF Cursor
<1>4. /\ CutUpTo(curpos, i) /\ inbuf[curpos] = NUL
      /\ copying => orig[curpos - start] = NUL
  BY <1>1 DEF Tokens, CutLine
<1>5. curpos \in start..N+1 /\ curpos \in 1..N /\ curpos \in start..N /\ start \in 1..N /\ i \in Nat /\ i > 0
  BY <1>1, <1>2, <1>3
<1>6. LineFrom = start /\ LineTo = curpos
  BY <1>1, <1>3, <1>5, LineIs
<1>7. curpos # start
  BY <1>3 DEF Begun
<1> QED
  BY <1>1, <1>2, <1>3, <1>4, <1>5, <1>6, <1>7

LEMMA Inside ==
  ASSUME TypeOK, Cursor, NEW q \in 1..N
  PROVE  /\ isspace(text[q]) <=> IsBlank(q) \/ text[q] = NL
         /\ ~isspace(text[q]) <=> IsLetter(q)
<1>1. text \in [1..N -> Letters \cup Blanks \cup {NL}]
  BY Types
<1> QED
  BY <1>1, Chars, TextIs DEF IsBlank, IsLetter

LEMMA StartsAre ==
  ASSUME IInv, CutLine, Fits
  PROVE  TokenStarts = {p \in start..curpos-1 : IsStart(p)}
<1>1. /\ TypeOK /\ Cursor /\ N \in Nat /\ start \in 1..N /\ curpos \in start..N
      /\ (\A q \in start..curpos-1 : text[q] # NL)
      /\ LineFrom = start /\ LineTo = curpos
  BY CutIs
<1>2. ASSUME NEW p \in start..curpos-1
      PROVE  (~isspace(text[p]) /\ (p = start \/ isspace(text[p-1]))) <=> IsStart(p)
  <2>1. p \in 1..N
    BY <1>1
  <2>2. CASE p = start
    BY <1>1, <2>1, <2>2, Inside DEF IsStart
  <2>3. CASE p # start
    <3>1. p - 1 \in 1..N /\ p - 1 \in start..curpos-1
      BY <1>1, <2>3
    <3>2. isspace(text[p-1]) <=> IsBlank(p-1)
      BY <1>1, <3>1, Inside
    <3> QED
      BY <1>1, <2>1, <2>3, <3>2, Inside DEF IsStart
  <2> QED
    BY <2>2, <2>3
<1> QED
  BY <1>1, <1>2 DEF TokenStarts

LEMMA EndIs ==
  ASSUME IInv, CutLine, Fits, NEW p \in start..curpos-1, IsLetter(p)
  PROVE  /\ TokenEnd(p) \in p+1..curpos
         /\ IsBlank(TokenEnd(p)) \/ TokenEnd(p) = curpos
         /\ \A q \in p..TokenEnd(p)-1 : IsLetter(q)
<1>1. /\ TypeOK /\ Cursor /\ N \in Nat /\ start \in 1..N /\ curpos \in start..N
      /\ (\A q \in start..curpos-1 : text[q] # NL) /\ text[curpos] = NL
      /\ LineFrom = start /\ LineTo = curpos
  BY CutIs
<1> DEFINE T == {q \in p+1..curpos : isspace(text[q])}
<1>2. PICK e \in T : \A y \in T : e <= y
  <2>1. T \subseteq Nat
    BY <1>1
  <2>2. curpos \in p+1..curpos /\ curpos \in 1..N
    BY <1>1
  <2>3. curpos \in T
    BY <1>1, <2>2, Inside
  <2> HIDE DEF T
  <2> QED
    BY <2>1, <2>3, LeastNumber
<1>3. \A q \in p..e-1 : ~isspace(text[q])
  <2> SUFFICES ASSUME NEW q \in p..e-1, isspace(text[q]) PROVE FALSE
    OBVIOUS
  <2>1. q # p
    BY <1>1, Inside
  <2>2. q \in T /\ ~(e <= q)
    BY <1>1, <1>2, <2>1
  <2> QED
    BY <1>2, <2>2
<1> HIDE DEF T
<1>4. e \in p+1..curpos /\ isspace(text[e])
  BY <1>2 DEF T
<1> DEFINE d == TokenEnd(p)
<1>5. d \in p+1..curpos /\ isspace(text[d]) /\ \A q \in p..d-1 : ~isspace(text[q])
  BY <1>1, <1>3, <1>4 DEF TokenEnd
<1> HIDE DEF d
<1>6. IsBlank(d) \/ d = curpos
  <2>1. d \in 1..N /\ (d # curpos => d \in start..curpos-1)
    BY <1>1, <1>5
  <2> QED
    BY <1>1, <1>5, <2>1, Inside
<1>7. \A q \in p..d-1 : IsLetter(q)
  <2>1. \A q \in p..d-1 : q \in 1..N
    BY <1>1, <1>5
  <2> QED
    BY <1>1, <1>5, <2>1, Inside
<1> QED
  BY <1>5, <1>6, <1>7 DEF d

LEMMA CutSpells ==
  ASSUME IInv, CutLine, Fits, NEW p \in TokenStarts
  PROVE  Spells(inbuf, p, Token(p))
<1>1. /\ TypeOK /\ Cursor /\ N \in Nat /\ start \in 1..N /\ curpos \in start..N
      /\ CutUpTo(curpos, i) /\ inbuf[curpos] = NUL
  BY CutIs
<1>2. p \in start..curpos-1 /\ IsLetter(p)
  BY StartsAre DEF IsStart
<1> DEFINE d == TokenEnd(p)
<1>3. d \in p+1..curpos /\ (IsBlank(d) \/ d = curpos) /\ \A q \in p..d-1 : IsLetter(q)
  BY <1>2, EndIs
<1>4. Token(p) = [e \in 1..d - p |-> Cased(text[p + e - 1])]
  BY DEF Token
<1> HIDE DEF d
<1>5. d - p \in Nat /\ p + (d - p) = d
  BY <1>1, <1>2, <1>3
<1>6. Len(Token(p)) = d - p
  BY <1>4, <1>5
<1>7. ASSUME NEW e \in 1..d - p PROVE inbuf[p + e - 1] = Token(p)[e]
  <2>1. p + e - 1 \in p..d-1 /\ p + e - 1 \in start..curpos-1
    BY <1>1, <1>2, <1>3
  <2>2. inbuf[p + e - 1] = Cased(text[p + e - 1])
    BY <1>1, <1>3, <2>1 DEF CutUpTo
  <2> QED
    BY <1>4, <2>2
<1>8. inbuf[d] = NUL
  <2>1. CASE d = curpos
    BY <1>1, <2>1
  <2>2. CASE d # curpos
    <3>1. IsBlank(d) /\ d \in start..curpos-1
      BY <1>1, <1>2, <1>3, <2>2
    <3> QED
      BY <1>1, <3>1 DEF CutUpTo
  <2> QED
    BY <2>1, <2>2
<1> QED
  BY <1>5, <1>6, <1>7, <1>8 DEF Spells

(* What cleanline returns for a whole line are its tokens in order and the *)
(* start of the next line, however often the line was cut and put back     *)
(* before, with one separator per token or all that was copied.            *)
THEOREM TokensRightCorrect == Spec => []TokensRight
<1>1. IInv => TokensRight
  <2> SUFFICES ASSUME IInv, CutLine, Fits
               PROVE  /\ {Start(k) : k \in 0..result-1} = TokenStarts
                      /\ \A k, l \in 0..result : k < l => Start(k) < Start(l)
                      /\ \A p \in TokenStarts : Spells(inbuf, p, Token(p))
                      /\ Start(result) = LineTo + 1
    BY DEF TokensRight
  <2>1. /\ N \in Nat /\ start \in 1..N /\ curpos \in start..N /\ LineTo = curpos
        /\ result = i /\ i \in Nat /\ Start(i) = curpos + 1 /\ CutUpTo(curpos, i)
    BY CutIs
  <2>2. /\ \A k \in 0..i-1 : Start(k) \in start..curpos-1 /\ IsStart(Start(k))
        /\ \A q \in start..curpos-1 : IsStart(q) => \E k \in 0..i-1 : Start(k) = q
        /\ \A k, l \in 0..i-1 : k < l => Start(k) < Start(l)
    BY <2>1 DEF CutUpTo
  <2>3. {Start(k) : k \in 0..result-1} = TokenStarts
    BY <2>1, <2>2, StartsAre
  <2>4. ASSUME NEW k \in 0..i, NEW l \in 0..i, k < l PROVE Start(k) < Start(l)
    <3>1. k \in 0..i-1
      BY <2>1, <2>4
    <3>2. CASE l \in 0..i-1
      BY <2>2, <2>4, <3>1, <3>2
    <3>3. CASE l = i
      <4>1. Start(k) \in start..curpos-1
        BY <2>2, <3>1
      <4> QED
        BY <2>1, <3>3, <4>1
    <3> QED
      BY <2>1, <3>2, <3>3
  <2> QED
    BY <2>1, <2>3, <2>4, CutSpells
<1> QED
  BY <1>1, Invariant, PTL

(* The copy from which -i lists the lines is the line as it is in the      *)
(* file, whatever cleanIgnoreCopy makes of the case.                       *)
THEOREM CopyRightCorrect == Spec => []CopyRight
<1>1. IInv => CopyRight
  <2> SUFFICES ASSUME IInv, CutLine, Fits, copying
               PROVE  Spells([p \in 1..maxorig |-> orig[p - 1]], 1, SubSeq(text, LineFrom, LineTo - 1))
    BY DEF CopyRight
  <2>1. /\ TypeOK /\ Cursor /\ N \in Nat /\ start \in 1..N /\ curpos \in start..N
        /\ LineFrom = start /\ LineTo = curpos /\ maxorig \in Nat
        /\ CutUpTo(curpos, i) /\ orig[curpos - start] = NUL
    BY CutIs
  <2>2. maxorig >= ONEK /\ ONEK \in Nat /\ curpos - start < ONEK
    BY <2>1, OneKAssumption DEF Cursor, Fits
  <2> DEFINE n == curpos - start
  <2>3. n \in Nat /\ n < maxorig /\ start + n = curpos
    BY <2>1, <2>2
  <2> DEFINE c == [p \in 1..maxorig |-> orig[p - 1]]
  <2> DEFINE w == SubSeq(text, start, curpos - 1)
  <2>4. Len(w) = n /\ \A e \in 1..n : w[e] = text[start + e - 1]
    <3>1. text \in Seq(Letters \cup Blanks \cup {NL}) /\ Len(text) = N
      BY <2>1, TextsAssumption DEF TypeOK, N
    <3>2. start \in 1..N+1 /\ curpos - 1 \in start-1..N /\ (curpos - 1) - start + 1 = n
      BY <2>1
    <3>3. /\ Len(w) = (curpos - 1) - start + 1
          /\ \A e \in 1..(curpos - 1) - start + 1 : w[e] = text[start + e - 1]
      BY <3>1, <3>2, SubSeqProperties
    <3> QED
      BY <3>2, <3>3
  <2>5. ASSUME NEW e \in 1..n PROVE c[1 + e - 1] = w[e]
    <3>1. e \in 1..maxorig /\ start + e - 1 \in start..curpos-1 /\ (start + e - 1) - start = e - 1
          /\ 1 + e - 1 = e
      BY <2>1, <2>3
    <3>2. orig[e - 1] = text[start + e - 1]
      <4>1. orig[(start + e - 1) - start] = text[start + e - 1]
        BY <2>1, <3>1 DEF CutUpTo
      <4> QED
        BY <3>1, <4>1
    <3> QED
      BY <2>4, <3>1, <3>2
  <2>6. c[1 + n] = NUL
    <3>1. 1 + n \in 1..maxorig /\ (1 + n) - 1 = curpos - start
      BY <2>1, <2>3
    <3> QED
      BY <2>1, <3>1
  <2> HIDE DEF c, w, n
  <2>7. Spells(c, 1, w)
    BY <2>4, <2>5, <2>6 DEF Spells
  <2> QED
    BY <2>1, <2>7 DEF c, w
<1> QED
  BY <1>1, Invariant, PTL
=============================================================================

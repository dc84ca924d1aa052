----------------------------- MODULE QueryFile -----------------------------
(***************************************************************************)
(* The loop of makeCounters that reads the query file: fgets a line,       *)
(* cleanline cuts it, addQuery (or addTokPair) gets it if it has the right *)
(* number of tokens.  cleanline is not told how much fgets returned: a     *)
(* line of nothing but newlines makes it go on, past the NUL, into what    *)
(* the buffer held before.                                                 *)
(*                                                                         *)
(* cleanline is cleanPlain with -c and otherwise cleanIgnore, which makes  *)
(* upper case letters lower case in the buffer, also where it restores the *)
(* spaces.  A tab is treated as a space is, but for being restored, which  *)
(* module Tokeniser has.                                                   *)
(*                                                                         *)
(* An operator no action uses, just before another of the same shape, is   *)
(* a wrong version of that one, to try the properties on.                  *)
(***************************************************************************)
EXTENDS Integers, Sequences, FiniteSets

CONSTANTS
  Texts,          (* the query files considered                            *)
  Letters,
  tolower,        (* what tolower makes of a letter                         *)
  TENK,           (* the length of the line buffer                         *)
  QueryLengths,   (* n, or 2 under -o                                      *)
  Fills           (* what malloc leaves in the buffer                      *)

SP  == " "
CR  == "\r"
NL  == "\n"
NUL == "NUL"

Char   == Letters \cup {SP, CR, NL}
Cells  == 0..TENK-1
Buffer == [Cells -> Char \cup {NUL}]

ASSUME TextsAssumption ==
  \A t \in Texts : /\ t \in Seq(Char)
                   /\ \A p \in DOMAIN t : t[p] = CR => p < Len(t) /\ t[p+1] = NL
ASSUME LettersAssumption == {SP, CR, NL, NUL} \cap Letters = {}
ASSUME LowerAssumption == tolower \in [Letters -> Letters]
ASSUME LengthsAssumption == TENK \in Nat \ {0, 1} /\ QueryLengths \subseteq Nat \ {0}
ASSUME FillsAssumption == Fills \subseteq Buffer

VARIABLES
  text, queryLength,
  ignoreCase,       (* no -c                                                *)
  at,               (* how much of the file fgets has returned              *)
  linebuf,
  wstarts, len,     (* what cleanline found                                 *)
  asked,            (* the queries handed on                                *)
  pc                (* "fopen", "fgets", "cleanline", "len", "done", "crashed" *)

settings == <<text, queryLength, ignoreCase>>
vars     == <<settings, at, linebuf, wstarts, len, asked, pc>>

newline == {CR, NL}

(* The members of a set of numbers, in order. *)
Nth(S, k)  == CHOOSE x \in S : Cardinality({y \in S : y <= x}) = k
InOrder(S) == [k \in 1..Cardinality(S) |-> Nth(S, k)]
-----------------------------------------------------------------------------
Open ==
  /\ pc = "fopen"
  /\ pc' = "fgets"
  /\ UNCHANGED <<settings, at, linebuf, wstarts, len, asked>>

(* The result of fopen is not looked at before feof gets it. *)
OpenFails ==
  /\ pc = "fopen"
  /\ pc' = "crashed"
  /\ UNCHANGED <<settings, at, linebuf, wstarts, len, asked>>

RoomWhole == TENK

Room == TENK - 1

(* Where fgets stops that starts behind p: a newline, no room, or the end. *)
Stop(p) ==
  CHOOSE q \in p..Len(text) :
    /\ q = p + Room \/ q = Len(text) \/ (q > p /\ text[q] = NL)
    /\ q <= p + Room /\ \A r \in p+1..q-1 : text[r] # NL

(* feof is true once fgets has looked for a character behind the last. *)
MeetsEndLate(p) ==
  Stop(p) = Len(text) /\ Stop(p) < p + Room /\ text[Len(text)] # NL

MeetsEnd(p) ==
  p = Len(text) \/ (Stop(p) = Len(text) /\ Stop(p) < p + Room /\ text[Len(text)] # NL)

Filled(p) ==
  [c \in Cells \cup {Stop(p) - p} |->
     IF c < Stop(p) - p THEN text[p + c + 1] ELSE IF c = Stop(p) - p THEN NUL ELSE linebuf[c]]

Fgets ==
  /\ pc = "fgets" /\ ~MeetsEnd(at)
  /\ linebuf' = Filled(at)
  /\ at' = Stop(at)
  /\ pc' = "cleanline"
  /\ UNCHANGED <<settings, wstarts, len, asked>>

(* Whatever was read together with the end of the file is dropped. *)
Break ==
  /\ pc = "fgets" /\ MeetsEnd(at)
  /\ at' = Len(text)
  /\ pc' = "done"
  /\ UNCHANGED <<settings, linebuf, wstarts, len, asked>>

(* ferror ends the loop as the end of the file does, without a word. *)
ReadFails ==
  /\ pc = "fgets"
  /\ pc' = "done"
  /\ UNCHANGED <<settings, at, linebuf, wstarts, len, asked>>
-----------------------------------------------------------------------------
(* cleanline(linebuf, TENK): the first character (there is one, the NUL    *)
(* that fgets wrote) and the end of the line.                              *)
Begin == CHOOSE p \in Cells : /\ linebuf[p] \notin newline
                             /\ \A q \in 0..p-1 : linebuf[q] \in newline

End ==
  CHOOSE p \in Begin..TENK : /\ p < TENK => linebuf[p] \in newline
                             /\ \A q \in Begin..p-1 : linebuf[q] \notin newline

Complete == End < TENK

(* NUL is not a space. *)
Starts == {p \in Begin..End-1 : linebuf[p] # SP /\ (p = Begin \/ linebuf[p-1] = SP)}

tokens == InOrder(Starts)

(* isupper and tolower. *)
Simplified(ch) == IF ignoreCase /\ ch \in Letters THEN tolower[ch] ELSE ch

Cut ==
  [p \in Cells |->
     IF p \notin Begin..End THEN linebuf[p]
     ELSE IF linebuf[p] \in {SP} \cup newline THEN NUL
     ELSE Simplified(linebuf[p])]

CutLine ==
  /\ pc = "cleanline" /\ Complete
  /\ linebuf' = Cut
  /\ wstarts' = tokens
  /\ len' = Len(tokens)
  /\ pc' = "len"
  /\ UNCHANGED <<settings, at, asked>>

(* One space in front of each token but the first comes back, and one in   *)
(* the last cell, be it the NUL that fgets wrote there.  Lower case stays. *)
Restored ==
  [p \in Cells |->
     IF p = TENK - 1 /\ linebuf[p] \in {SP, NUL} THEN SP
     ELSE IF p < Begin THEN linebuf[p]
     ELSE IF linebuf[p] = SP /\ p + 1 \notin Starts \ {tokens[1]} THEN NUL
     ELSE Simplified(linebuf[p])]

RefuseLine ==
  /\ pc = "cleanline" /\ ~Complete
  /\ linebuf' = Restored
  /\ wstarts' = tokens
  /\ len' = -Len(tokens)
  /\ pc' = "len"
  /\ UNCHANGED <<settings, at, asked>>

(* wstarts has room for n + 2 starts, the end of the line being one; the   *)
(* store behind them may be the end of the process.                        *)
OverrunStarts ==
  /\ pc = "cleanline"
  /\ Cardinality(Starts) + (IF Complete THEN 1 ELSE 0) > queryLength + 2
  /\ pc' = "crashed"
  /\ UNCHANGED <<settings, at, linebuf, wstarts, len, asked>>
-----------------------------------------------------------------------------
(* A token, as a string: it ends with the first NUL. *)
String(s) ==
  LET e == CHOOSE p \in s..TENK : /\ p < TENK => linebuf[p] = NUL
                                  /\ \A q \in s..p-1 : linebuf[q] # NUL
  IN  [k \in 1..e - s |-> linebuf[s + k - 1]]

RightLengthSigned(l) == l \in {queryLength, -queryLength}

RightLength(l) == l = queryLength

AddQuery ==
  /\ pc = "len" /\ RightLength(len)
  /\ asked' = Append(asked, [k \in 1..queryLength |-> String(wstarts[k])])
  /\ pc' = "fgets"
  /\ UNCHANGED <<settings, at, linebuf, wstarts, len>>

WrongLength ==
  /\ pc = "len" /\ ~RightLength(len)
  /\ pc' = "fgets"
  /\ UNCHANGED <<settings, at, linebuf, wstarts, len, asked>>
-----------------------------------------------------------------------------
Init ==
  /\ text \in Texts /\ queryLength \in QueryLengths /\ ignoreCase \in BOOLEAN
  /\ at = 0
  /\ linebuf \in Fills
  /\ wstarts = <<>> /\ len = 0
  /\ asked = <<>>
  /\ pc = "fopen"

Next ==
  \/ Open \/ OpenFails
  \/ Fgets \/ Break \/ ReadFails
  \/ CutLine \/ RefuseLine \/ OverrunStarts
  \/ AddQuery \/ WrongLength

(* One thread, which the file never keeps waiting. *)
Spec == Init /\ [][Next]_vars /\ WF_vars(Next)
-----------------------------------------------------------------------------
(* Where the tokens of text[p+1..q] begin, and the token that begins at a. *)
TokenStarts(p, q) == {a \in p+1..q : text[a] \in Letters /\ (a = p + 1 \/ text[a-1] \notin Letters)}

TokenAt(a, q) ==
  SubSeq(text, a, CHOOSE b \in a..q : /\ \A c \in a..b : text[c] \in Letters
                                      /\ b = q \/ text[b+1] \notin Letters)

(* text[p+1..q] is the query that fgets and cleanline should make of it:   *)
(* the line ends there, and has the right number of tokens.                *)
IsQuery(p, q) == text[q] \in newline /\ Cardinality(TokenStarts(p, q)) = queryLength

(* A token as it is compared with those of the corpus. *)
Read(w) == [k \in 1..Len(w) |-> Simplified(w[k])]

QueryOf(p, q) == [k \in 1..queryLength |-> Read(TokenAt(Nth(TokenStarts(p, q), k), q))]

(* What the file from p on should contribute.  Its lines are the pieces    *)
(* that fit into the buffer; what follows the last newline is dropped.     *)
Owed[p \in 0..Len(text)] ==
  IF MeetsEnd(p) THEN <<>>
  ELSE (IF IsQuery(p, Stop(p)) THEN <<QueryOf(p, Stop(p))>> ELSE <<>>) \o Owed[Stop(p)]

(* Every variable has its type; a line and its NUL fit into the buffer.    *)
TypeOK ==
  /\ ignoreCase \in BOOLEAN
  /\ at \in 0..Len(text)
  /\ linebuf \in Buffer
  /\ wstarts \in Seq(Cells) /\ len \in -TENK..TENK
  /\ \A k \in 1..Len(asked) : asked[k] \in [1..queryLength -> Seq(Letters)]
  /\ pc \in {"fopen", "fgets", "cleanline", "len", "done", "crashed"}

(* The queries are those of the file, each once and in order, with their   *)
(* tokens as written under -c and in lower case otherwise, whatever the    *)
(* buffer held before and whatever a refused line left in it; what a blank *)
(* line makes of the rest of an earlier one begins with an empty token,    *)
(* which matches nothing.                                                  *)
AskedRight ==
  pc \in {"fopen", "fgets", "done"} =>
    LET Matching == InOrder({k \in 1..Len(asked) : asked[k][1] # <<>>})
    IN  [k \in 1..Len(Matching) |-> asked[Matching[k]]] \o Owed[at] = Owed[0]

(* The loop ends. *)
Ends == <>(pc \in {"done", "crashed"})
=============================================================================

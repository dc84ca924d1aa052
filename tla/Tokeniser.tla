----------------------------- MODULE Tokeniser -----------------------------
(***************************************************************************)
(* g1ttok.c: cleanline cuts a line into tokens in place, by writing NUL    *)
(* over the separators, and undoes this when the data ends before the line *)
(* does.  The caller, findFileHits, then calls it again with more data,    *)
(* and otherwise for the line that follows.  A step is one turn of a loop  *)
(* over the characters.  Of these, only what the code tells apart is kept: *)
(* a letter of either case, ' ', '\t' and '\n' ('\r' is treated alike).    *)
(* The four functions behind cleanline differ in copying and ignoreCase.   *)
(*                                                                         *)
(* An operator no action uses, just before another of the same shape, is   *)
(* a wrong version of that one, to try the properties on.                  *)
(***************************************************************************)
EXTENDS Integers, Sequences, FiniteSets

CONSTANTS
  Texts,      (* what may lie in the file from the first line on            *)
  ONEK,       (* first size of originalline                                 *)
  Junk        (* what malloc leaves in it                                   *)

SP  == " "
TAB == "\t"
NL  == "\n"
NUL == "NUL"

Letters == {"a", "A"}
Blanks  == {SP, TAB}
Char    == Letters \cup Blanks \cup {NL, NUL}

isspace(c) == c \in Blanks \cup {NL}
tolower(c) == IF c = "A" THEN "a" ELSE c

(* Every line begins with a token and ends with a newline. *)
ASSUME TextsAssumption ==
  \A t \in Texts : /\ t \in Seq(Letters \cup Blanks \cup {NL})
                   /\ t # <<>> /\ t[Len(t)] = NL /\ t[1] \notin Blanks
                   /\ \A p \in 1..Len(t)-1 : t[p] = NL => t[p+1] \notin Blanks
ASSUME OneKAssumption == ONEK \in Nat \ {0} /\ Junk \notin Char

VARIABLES
  text,                (* the data as it is in the file                     *)
  copying, ignoreCase, (* orig is not NULL, under -i; not -c                *)
  inbuf, maxbuf,       (* the data in memory; how much of it has been read  *)
  orig, maxorig,       (* originalline and its length                       *)
  at, start,           (* inbuf of cleanline, and of the function it calls  *)
  curpos, i, wstarts, prevspace, tab_ndx,
  pc, result

settings == <<text, copying, ignoreCase>>
scan     == <<curpos, i, wstarts, prevspace, tab_ndx>>
vars     == <<settings, inbuf, maxbuf, orig, maxorig, at, start, scan, pc, result>>

(* wstarts is kept as a sequence: wstarts[k] of the code is Start(k). *)
Start(k) == wstarts[k + 1]

InitScan(p) ==
  curpos' = p /\ i' = -1 /\ wstarts' = <<>> /\ prevspace' = TRUE /\ tab_ndx' = -1

LimitIn == maxbuf + 1

(* badpos: where the input ends, or the room for its copy *)
Limit == IF copying /\ start + maxorig <= maxbuf THEN start + maxorig ELSE maxbuf + 1
-----------------------------------------------------------------------------
SkipNewline ==
  /\ pc = "skip"
  /\ curpos <= maxbuf /\ inbuf[curpos] = NL
  /\ curpos' = curpos + 1
  /\ UNCHANGED <<settings, inbuf, maxbuf, orig, maxorig, at, start, i, wstarts, prevspace,
                 tab_ndx, pc, result>>

NothingLeft ==
  /\ pc = "skip"
  /\ curpos > maxbuf
  /\ result' = 0
  /\ pc' = "done"
  /\ UNCHANGED <<settings, inbuf, maxbuf, orig, maxorig, at, start, scan>>

Dispatch ==
  /\ pc = "skip"
  /\ curpos <= maxbuf /\ inbuf[curpos] # NL
  /\ start' = curpos
  /\ InitScan(curpos)
  /\ pc' = "scan"
  /\ UNCHANGED <<settings, inbuf, maxbuf, orig, maxorig, at, result>>

(* What the loop looks at next: curpos < badpos *)
Seen == curpos < Limit

Copy(c) == orig' = IF copying THEN [orig EXCEPT ![curpos - start] = c] ELSE orig

LetterLowered(c) == IF ignoreCase THEN tolower(c) ELSE c

Letter(c) == c

Lettered ==
  /\ pc = "scan" /\ Seen /\ ~isspace(inbuf[curpos])
  /\ IF prevspace
     THEN i' = i + 1 /\ wstarts' = Append(wstarts, curpos) /\ prevspace' = FALSE
     ELSE UNCHANGED <<i, wstarts, prevspace>>
  /\ Copy(Letter(inbuf[curpos]))
  /\ inbuf' = IF ignoreCase THEN [inbuf EXCEPT ![curpos] = tolower(@)] ELSE inbuf
  /\ curpos' = curpos + 1
  /\ UNCHANGED <<settings, maxbuf, maxorig, at, start, tab_ndx, pc, result>>

Separator ==
  /\ pc = "scan" /\ Seen /\ inbuf[curpos] \in Blanks
  /\ Copy(inbuf[curpos])
  /\ inbuf' = [inbuf EXCEPT ![curpos] = NUL]
  /\ prevspace' = TRUE
  /\ tab_ndx' = IF inbuf[curpos] = TAB /\ ~copying THEN i + 1 ELSE tab_ndx
  /\ curpos' = curpos + 1
  /\ UNCHANGED <<settings, maxbuf, maxorig, at, start, i, wstarts, pc, result>>

LineEnd ==
  /\ pc = "scan" /\ Seen /\ inbuf[curpos] = NL
  /\ Copy(NUL)
  /\ inbuf' = [inbuf EXCEPT ![curpos] = NUL]
  /\ i' = i + 1
  /\ wstarts' = Append(wstarts, curpos + 1)
  /\ result' = i + 1
  /\ pc' = "done"
  /\ UNCHANGED <<settings, maxbuf, maxorig, at, start, curpos, prevspace, tab_ndx>>
-----------------------------------------------------------------------------
(* The separator before token k, or the one just read: a tab if it was the *)
(* last tab seen.                                                          *)
SeparatorOf(k) == IF k = tab_ndx THEN TAB ELSE SP

RestoredNot == inbuf

(* Without a copy: one separator before each token but the first, and the  *)
(* last character.                                                         *)
Restored ==
  [p \in DOMAIN inbuf |->
     IF p = curpos - 1 /\ inbuf[p] = NUL THEN SeparatorOf(i + 1)
     ELSE IF \E k \in 1..i : Start(k) - 1 = p
     THEN SeparatorOf(CHOOSE k \in 1..i : Start(k) - 1 = p)
     ELSE inbuf[p]]

(* With a copy: all that was scanned. *)
CopiedBack ==
  [p \in DOMAIN inbuf |-> IF p \in start..curpos-1 THEN orig[p - start] ELSE inbuf[p]]

RefusalUnsigned == i + 1

Refusal == -(i + 1)

OutOfInput ==
  /\ pc = "scan" /\ ~Seen /\ curpos > maxbuf
  /\ inbuf' = IF copying THEN CopiedBack ELSE Restored
  /\ result' = Refusal
  /\ pc' = "done"
  /\ UNCHANGED <<settings, maxbuf, orig, maxorig, at, start, scan>>

LongerSame == maxorig

Longer == maxorig * 2

(* The copy is full: enlarge it and start over, on inbuf as it is now. *)
Grow ==
  /\ pc = "scan" /\ ~Seen /\ curpos <= maxbuf
  /\ maxorig' = Longer
  /\ orig' = [p \in 0..maxorig'-1 |-> IF p < maxorig THEN orig[p] ELSE Junk]
  /\ InitScan(start)
  /\ UNCHANGED <<settings, inbuf, maxbuf, at, start, pc, result>>
-----------------------------------------------------------------------------
(* The caller. *)
CallAt(p) ==
  at' = p /\ start' = p /\ InitScan(p) /\ pc' = "skip" /\ result' = 0

ReadMore ==
  /\ pc = "done" /\ result <= 0
  /\ maxbuf' \in maxbuf+1..Len(text)
  /\ CallAt(at)
  /\ UNCHANGED <<settings, inbuf, orig, maxorig>>

CallNext ==
  /\ pc = "done" /\ result > 0
  /\ Start(result) <= Len(text)
  /\ CallAt(Start(result))
  /\ UNCHANGED <<settings, inbuf, maxbuf, orig, maxorig>>

Init ==
  /\ text \in Texts /\ copying \in BOOLEAN /\ ignoreCase \in BOOLEAN
  /\ inbuf = text /\ maxbuf \in 1..Len(text)
  /\ maxorig = (IF copying THEN ONEK ELSE 0)
  /\ orig = [p \in 0..maxorig-1 |-> Junk]
  /\ at = 1 /\ start = 1
  /\ curpos = 1 /\ i = -1 /\ wstarts = <<>> /\ prevspace = TRUE /\ tab_ndx = -1
  /\ pc = "skip" /\ result = 0

cleanline == \/ SkipNewline \/ NothingLeft \/ Dispatch
             \/ Lettered \/ Separator \/ LineEnd
             \/ OutOfInput \/ Grow

Next == cleanline \/ ReadMore \/ CallNext

Spec == Init /\ [][Next]_vars /\ WF_vars(cleanline)
-----------------------------------------------------------------------------
(* The tokens of a line, from the file. *)
LineFrom == CHOOSE p \in at..Len(text) : text[p] # NL /\ \A q \in at..p-1 : text[q] = NL

LineTo == CHOOSE p \in LineFrom..Len(text) : text[p] = NL /\ \A q \in LineFrom..p-1 : text[q] # NL

TokenStarts ==
  {p \in LineFrom..LineTo-1 : ~isspace(text[p]) /\ (p = LineFrom \/ isspace(text[p-1]))}

TokenEnd(p) == CHOOSE q \in p+1..LineTo : isspace(text[q]) /\ \A e \in p..q-1 : ~isspace(text[e])

Cased(c) == IF ignoreCase THEN tolower(c) ELSE c

(* s, from cell p to the first NUL, spells w. *)
Spells(s, p, w) ==
  /\ \A e \in 1..Len(w) : s[p + e - 1] = w[e]
  /\ s[p + Len(w)] = NUL

Token(p) == [e \in 1..TokenEnd(p) - p |-> Cased(text[p + e - 1])]

(* The line fits into the copy's first allocation, or none is made. *)
Fits == copying => LineTo - LineFrom < ONEK

CutLine == pc = "done" /\ result > 0

(* Every variable has its type, and curpos is in both buffers when used. *)
TypeOK ==
  /\ text \in Texts /\ copying \in BOOLEAN /\ ignoreCase \in BOOLEAN
  /\ inbuf \in Seq(Char) /\ Len(inbuf) = Len(text)
  /\ maxbuf \in 1..Len(text)
  /\ maxorig \in Nat /\ orig \in [0..maxorig-1 -> Char \cup {Junk}]
  /\ at \in 1..Len(text) /\ start \in at..Len(text)
  /\ curpos \in at..Len(text)+1
  /\ i \in -1..Len(text) /\ Len(wstarts) = i + 1
  /\ \A k \in 0..i : Start(k) \in at..Len(text)+1
  /\ prevspace \in BOOLEAN /\ tab_ndx \in -1..Len(text)
  /\ pc \in {"skip", "scan", "done"}
  /\ result \in -Len(text)..Len(text)
  /\ pc = "scan" /\ Seen => curpos <= maxbuf /\ (copying => curpos - start < maxorig)

(* What cleanline returns for a whole line are its tokens in order and the *)
(* start of the next line, however often it was tried and undone before.   *)
TokensRight ==
  CutLine /\ Fits =>
    /\ {Start(k) : k \in 0..result-1} = TokenStarts
    /\ \A k, l \in 0..result : k < l => Start(k) < Start(l)
    /\ \A p \in TokenStarts : Spells(inbuf, p, Token(p))
    /\ Start(result) = LineTo + 1

(* The copy, from which -i lists the lines, is the line as it is in the   *)
(* file, whatever cleanIgnoreCopy makes of the case.                       *)
CopyRight ==
  CutLine /\ Fits /\ copying =>
    Spells([p \in 1..maxorig |-> orig[p - 1]], 1, SubSeq(text, LineFrom, LineTo - 1))

(* cleanline refuses a line exactly if its end was not read yet: what      *)
(* findFileHits takes for "most likely due to needing more data".          *)
RefusedIffPartial ==
  pc = "done" => (result > 0 <=> \E p \in at..maxbuf : text[p] = NL /\ \E q \in at..p : text[q] # NL)

(* "Return value is the number of tokens found" (g1ttok.c:43). *)
CountsTokens == CutLine => result = Cardinality(TokenStarts)

(* cleanline returns, although it may have to enlarge the copy first. *)
Returns == pc # "done" ~> pc = "done"
=============================================================================

----------------------------- MODULE LineReader -----------------------------
(***************************************************************************)
(* g1tinp.c: findHits goes through a directory, findFileHits through the   *)
(* lines of a compressed file, read by blocks into two buffers that take   *)
(* turns: what is left of a partial line is moved to the front of the      *)
(* other buffer and the next block is read behind it.  cleanline is here   *)
(* what module Tokeniser shows of it: it returns the n + 1 tokens of a     *)
(* line if the end of the line is in the buffer, and otherwise leaves the  *)
(* buffer as it was.  With -i it also copies the line, and a line that     *)
(* does not fit into the first copy comes back with fewer tokens           *)
(* (g1ttok.c:404-412): the directories considered with -i have no such     *)
(* line, and nothing is said of what the program does with one.            *)
(*                                                                         *)
(* The build with NOZLIB reads a whole file through a pipe from gzip into  *)
(* one buffer that grows, and then cuts its lines.                         *)
(*                                                                         *)
(* An operator no action uses, just before another of the same shape, is   *)
(* a wrong version of that one, to try the properties on.                  *)
(***************************************************************************)
EXTENDS Integers, Sequences, FiniteSets

CONSTANTS
  NL, Char,       (* the characters, and the one that ends a line           *)
  Directories,    (* the sequences of entries considered                    *)
  Ragged,         (* those only the NOZLIB build can read: files may end in *)
                  (* blank lines or a partial one                           *)
  blocksize,
  initialsize,    (* of the one buffer of the NOZLIB build                  *)
  originallinelength, (* of the copy of a line that -i keeps (g1tinp.c:415) *)
  Faults,         (* what may fail: "open", "read"                          *)
  Junk            (* what malloc leaves in a buffer                         *)

ASSUME EntriesAssumption ==
  Directories \cup Ragged \subseteq Seq([text : Seq(Char), db : BOOLEAN])
(* Every line, with the empty lines before it, fits into a block, and the  *)
(* end of the last line is the end of the file.                            *)
ASSUME DirectoriesAssumption ==
  \A d \in Directories : \A f \in DOMAIN d :
    LET t == d[f].text
    IN  \A p \in 0..Len(t)-1 : p = 0 \/ t[p] = NL =>
          \E q \in p+2..p+blocksize : q <= Len(t) /\ t[q] = NL /\ t[q-1] # NL
ASSUME BlockAssumption ==
  /\ {blocksize, initialsize, originallinelength} \subseteq Nat \ {0}
  /\ Faults \subseteq {"open", "read"}
ASSUME JunkAssumption == Junk \notin Nat \X Nat

VARIABLES
  zlib,           (* the build                                              *)
  wild,           (* -i: lines are copied, for the file wildF               *)
  entries, file,
  offset,         (* how much of the file gzread has returned               *)
  bufs, curbuf,   (* the buffers hold places: <<file, position in it>>      *)
  bigbuf, bbsize, (* the one buffer of the NOZLIB build, and its length     *)
  curpos, bufpos, (* the unread part of the buffer is curpos..bufpos-1      *)
  linenum, line,
  reported,       (* the entries perror named                               *)
  pc              (* "next", "buffering", "line", "read", "retry",          *)
                  (* "undefined"                                            *)

input   == <<zlib, wild, entries>>
big     == <<bigbuf, bbsize>>
two     == <<bufs, curbuf>>
buffers == <<two, big, curpos, bufpos>>
vars    == <<input, file, offset, buffers, linenum, line, reported, pc>>

text == entries[file].text

buf == IF zlib THEN bufs[curbuf] ELSE bigbuf

IsNewline(cell) == cell # Junk /\ entries[cell[1]].text[cell[2]] = NL

(* cleanline(curpos, bufpos - curpos): the cells of the first line, if all *)
(* of them are there.                                                      *)
LineEnds == {p \in curpos+1..bufpos-1 : IsNewline(buf[p]) /\ ~IsNewline(buf[p-1])}

FirstEnd == CHOOSE p \in LineEnds : \A q \in LineEnds : p <= q

FirstCell == CHOOSE s \in curpos..FirstEnd-1 :
               /\ \A q \in s..FirstEnd-1 : ~IsNewline(buf[q])
               /\ \A q \in curpos..s-1 : IsNewline(buf[q])

cleanline == [e \in 1..FirstEnd - FirstCell + 1 |-> buf[FirstCell + e - 1]]

(* A line that does not fit into its copy is returned with fewer tokens:   *)
(* the test len == n + 1 fails, more input is asked for with all of the    *)
(* buffer as the overhang, and the line is counted with stale starts.      *)
CopyFits == wild => Len(cleanline) <= originallinelength

(* The counters get the line; curpos = tstarts[n + 1]. *)
Count ==
  /\ line' = cleanline
  /\ linenum' = linenum + 1
  /\ curpos' = FirstEnd + 1
  /\ pc' = "line"

Bad == pc' = "undefined" /\ UNCHANGED <<line, linenum, curpos>>

LeaveStuck == pc' = "next" /\ file' = file /\ linenum' = 0

Leave == pc' = "next" /\ file' = file + 1 /\ linenum' = 0
-----------------------------------------------------------------------------
SkipEntry ==
  /\ pc = "next" /\ file <= Len(entries)
  /\ ~entries[file].db
  /\ Leave
  /\ UNCHANGED <<input, offset, buffers, line, reported>>

OpenFails ==
  /\ pc = "next" /\ file <= Len(entries)
  /\ entries[file].db
  /\ "open" \in Faults
  /\ reported' = reported \cup {file}
  /\ Leave
  /\ UNCHANGED <<input, offset, buffers, line>>

Open ==
  /\ pc = "next" /\ file <= Len(entries)
  /\ entries[file].db
  /\ offset' = 0
  /\ curpos' = 0 /\ bufpos' = 0
  /\ pc' = IF zlib THEN "line" ELSE "buffering"
  /\ UNCHANGED <<input, file, two, big, linenum, line, reported>>

CutLine ==
  /\ pc = "line" /\ LineEnds # {}
  /\ IF CopyFits THEN Count ELSE Bad
  /\ UNCHANGED <<input, file, offset, two, big, bufpos, reported>>

overhang == bufpos - curpos

CarriedNot == [p \in 0..overhang-1 |-> bufs[1 - curbuf][p]]

Carried == [p \in 0..overhang-1 |-> bufs[curbuf][curpos + p]]

(* memcpy, and the buffers swap. *)
MoveOverhang ==
  /\ zlib /\ pc = "line" /\ LineEnds = {}
  /\ bufs' = [bufs EXCEPT ![1 - curbuf] =
                [p \in DOMAIN @ |-> IF p < overhang THEN Carried[p] ELSE @[p]]]
  /\ curbuf' = 1 - curbuf
  /\ pc' = "read"
  /\ UNCHANGED <<input, file, offset, big, curpos, bufpos, linenum, line, reported>>

(* gzread returns a whole block unless the file ends first. *)
BlockWhole == blocksize

BlockTwice == IF Len(text) - offset < 2 * blocksize THEN Len(text) - offset ELSE 2 * blocksize

blockread == IF Len(text) - offset < blocksize THEN Len(text) - offset ELSE blocksize

(* NOZLIB: a block fits behind what was read before. *)
Room == bufpos + blocksize <= bbsize

ReadFails ==
  /\ pc = "read" \/ (pc = "buffering" /\ Room)
  /\ "read" \in Faults
  /\ reported' = reported \cup {file}
  /\ Leave
  /\ UNCHANGED <<input, offset, buffers, line>>

AtEnd ==
  /\ pc = "read" /\ blockread = 0
  /\ Leave
  /\ UNCHANGED <<input, offset, buffers, line, reported>>

NewBufposRead == blockread

NewBufpos == overhang + blockread

Refill ==
  /\ pc = "read" /\ blockread > 0
  /\ bufs' = [bufs EXCEPT ![curbuf] =
                [p \in DOMAIN @ |-> IF p \in overhang..overhang + blockread - 1
                                    THEN <<file, offset + p - overhang + 1>> ELSE @[p]]]
  /\ offset' = offset + blockread
  /\ curpos' = 0
  /\ bufpos' = NewBufpos
  /\ pc' = "retry"
  /\ UNCHANGED <<input, file, curbuf, big, linenum, line, reported>>

(* A line still without its n + 1 tokens is counted with the starts left   *)
(* from an earlier one: nothing is said here of what follows.              *)
Retry ==
  /\ pc = "retry"
  /\ IF LineEnds # {} /\ CopyFits THEN Count ELSE Bad
  /\ UNCHANGED <<input, file, offset, two, big, bufpos, reported>>

-----------------------------------------------------------------------------
(* NOZLIB: the buffer is doubled until a block fits behind what it holds.  *)
Double ==
  /\ pc = "buffering" /\ ~Room
  /\ bbsize' = 2 * bbsize
  /\ bigbuf' = [p \in 0..bbsize'-1 |-> IF p < bbsize THEN bigbuf[p] ELSE Junk]
  /\ UNCHANGED <<input, file, offset, two, curpos, bufpos, linenum, line, reported, pc>>

(* fread returns less than a block at the end only; a NUL goes behind it.  *)
Fread ==
  /\ pc = "buffering" /\ Room
  /\ bigbuf' = [p \in 0..bbsize-1 |->
                  IF p \in bufpos..bufpos + blockread - 1 THEN <<file, offset + p - bufpos + 1>>
                  ELSE IF p = bufpos + blockread THEN Junk ELSE bigbuf[p]]
  /\ offset' = offset + blockread
  /\ bufpos' = bufpos + blockread
  /\ pc' = IF blockread < blocksize THEN "line" ELSE "buffering"
  /\ UNCHANGED <<input, file, two, bbsize, curpos, linenum, line, reported>>

(* What is no line is passed over character by character. *)
SkipChar ==
  /\ ~zlib /\ pc = "line" /\ LineEnds = {} /\ curpos < bufpos
  /\ curpos' = curpos + 1
  /\ UNCHANGED <<input, file, offset, two, big, bufpos, linenum, line, reported, pc>>

EndBuffer ==
  /\ ~zlib /\ pc = "line" /\ curpos >= bufpos
  /\ Leave
  /\ UNCHANGED <<input, offset, buffers, line, reported>>
-----------------------------------------------------------------------------
(* Every line of the directory fits into the copy. *)
ShortLines ==
  \A f \in DOMAIN entries : LET t == entries[f].text IN
    \A p, q \in 1..Len(t) :
      t[q] = NL /\ (\A r \in p..q-1 : t[r] # NL) => q - p < originallinelength

Init ==
  /\ zlib \in BOOLEAN /\ wild \in BOOLEAN
  /\ entries \in Directories \cup (IF zlib THEN {} ELSE Ragged)
  /\ wild => ShortLines
  /\ file = 1 /\ offset = 0
  /\ bufs = [b \in {0, 1} |-> [p \in 0..2*blocksize-1 |-> Junk]]
  /\ curbuf = 0 /\ curpos = 0 /\ bufpos = 0
  /\ bigbuf = [p \in 0..initialsize-1 |-> Junk] /\ bbsize = initialsize
  /\ linenum = 0 /\ line = <<>> /\ reported = {}
  /\ pc = "next"

Next ==
  \/ SkipEntry \/ OpenFails \/ Open
  \/ CutLine \/ MoveOverhang
  \/ ReadFails \/ AtEnd \/ Refill \/ Retry
  \/ Double \/ Fread \/ SkipChar \/ EndBuffer

Spec == Init /\ [][Next]_vars /\ WF_vars(Next)
-----------------------------------------------------------------------------
Stream == INSTANCE LineStream

(* findHits delivers every line of every database file once, whole and in  *)
(* order, wherever the blocks end, and a file it gives up is reported.     *)
StreamSpec == Stream!Spec

Place == {Junk} \cup UNION {{f} \X (1..Len(entries[f].text)) : f \in 1..Len(entries)}

(* Every variable has its type, and gzread is not asked beyond the end.    *)
TypeOK ==
  /\ zlib \in BOOLEAN /\ wild \in BOOLEAN /\ file \in 1..Len(entries)+1
  /\ offset \in Nat /\ (pc \notin {"next", "undefined"} => offset <= Len(text))
  /\ curbuf \in {0, 1} /\ bufs \in [{0, 1} -> [0..2*blocksize-1 -> Place]]
  /\ bbsize \in Nat /\ bigbuf \in [0..bbsize-1 -> Place]
  /\ bufpos \in 0..(IF zlib THEN 2*blocksize ELSE bbsize) /\ curpos \in 0..bufpos
  /\ linenum \in Nat
  /\ line = <<>> \/ \A e \in 1..Len(line) : line[e] \in Nat \X Nat
  /\ reported \subseteq 1..Len(entries)
  /\ pc \in {"next", "buffering", "line", "read", "retry", "undefined"}

(* gzread writes behind the overhang a block at most, and within the       *)
(* buffer (g1tinp.c:305, 428); the NUL behind a whole file fits into the   *)
(* large one (g1tinp.c:246).                                               *)
RoomForBlock ==
  /\ pc = "read" => overhang + blockread <= 2 * blocksize
  /\ ~zlib /\ pc = "line" => bufpos < bbsize

(* While every line fits into a block and, with -i, into its copy, one     *)
(* block more completes it: no line is counted with stale starts           *)
(* (g1tinp.c:342).                                                         *)
NeverUndefined == pc # "undefined"

(* findHits returns. *)
AllRead == <>(pc = "next" /\ file > Len(entries))
=============================================================================

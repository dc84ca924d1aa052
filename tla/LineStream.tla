----------------------------- MODULE LineStream -----------------------------
(***************************************************************************)
(* What g1tinp.c owes the counters: the lines of every database file of    *)
(* the directory, each once and in the order of the file.  A file that     *)
(* cannot be opened or read is given up where it failed (g1tinp.c:206,     *)
(* 307), which a message on stderr reports and nothing else records.       *)
(***************************************************************************)
EXTENDS Integers, Sequences, FiniteSets

CONSTANT NL     (* a character that ends a line                             *)

VARIABLES
  entries,      (* the directory, in the order of readdir: the text of an   *)
                (* entry, and db, whether isDBName accepts its name         *)
  file,         (* the entry being read                                     *)
  linenum,      (* lines of it delivered so far                             *)
  line,         (* the line delivered last, as the places of its characters *)
  reported      (* the entries given up                                     *)

vars == <<entries, file, linenum, line, reported>>

Ends(t) == {p \in 2..Len(t) : t[p] = NL /\ t[p-1] # NL}

NthEnd(t, m) == CHOOSE p \in Ends(t) : Cardinality({q \in Ends(t) : q <= p}) = m

LineStart(t, p) == CHOOSE s \in 1..p-1 : /\ \A q \in s..p-1 : t[q] # NL
                                         /\ s = 1 \/ t[s-1] = NL

Lines(f) == IF entries[f].db THEN Cardinality(Ends(entries[f].text)) ELSE 0

Line(f, m) ==
  LET t == entries[f].text
      p == NthEnd(t, m)
      s == LineStart(t, p)
  IN  [e \in 1..p-s+1 |-> <<f, s + e - 1>>]

Init == file = 1 /\ linenum = 0 /\ line = <<>> /\ reported = {}

Deliver ==
  /\ file <= Len(entries) /\ linenum < Lines(file)
  /\ linenum' = linenum + 1
  /\ line' = Line(file, linenum + 1)
  /\ UNCHANGED <<entries, file, reported>>

NextFile ==
  file <= Len(entries) /\ file' = file + 1 /\ linenum' = 0 /\ UNCHANGED <<entries, line>>

EndFile == NextFile /\ linenum = Lines(file) /\ UNCHANGED reported

GiveUp == NextFile /\ entries[file].db /\ reported' = reported \cup {file}

Next == Deliver \/ EndFile \/ GiveUp

Spec == Init /\ [][Next]_vars
=============================================================================

------------------------------ MODULE KeyStore ------------------------------
(***************************************************************************)
(* What hashlib.h promises of a hash table: a set of entries with insert,  *)
(* find and delete, each of which returns the entry or NULL.  An insertion *)
(* fails only when memory runs out or the table is full (hashlib.c:233),   *)
(* and the failure stays on record in hstatus.herror.  From then on the    *)
(* code keeps less than that comment says: see Lose.                       *)
(***************************************************************************)
CONSTANTS
  Keys,   (* the items, equal iff cmp returns 0                             *)
  NULL

VARIABLES
  stored,     (* the entries in the table                                   *)
  degraded,   (* herror is not hshOK                                        *)
  result      (* what the last call returned                                *)

vars == <<stored, degraded, result>>

Init == stored = {} /\ degraded = FALSE /\ result = NULL

Answer(k) == IF k \in stored THEN k ELSE NULL

Insert(k) ==
  /\ stored' = stored \cup {k}
  /\ result' = k
  /\ UNCHANGED degraded

InsertFails ==
  /\ degraded' = TRUE
  /\ result' = NULL
  /\ UNCHANGED stored

Find(k) ==
  /\ result' = Answer(k)
  /\ UNCHANGED <<stored, degraded>>

Delete(k) ==
  /\ result' = Answer(k)
  /\ stored' = stored \ {k}
  /\ UNCHANGED degraded

(* Once herror is set a reorganization may drop entries. *)
Lose ==
  /\ degraded
  /\ stored' \in SUBSET stored
  /\ UNCHANGED <<degraded, result>>

Next ==
  \/ \E k \in Keys : Insert(k) \/ Find(k) \/ Delete(k)
  \/ InsertFails
  \/ Lose

Spec == Init /\ [][Next]_vars
=============================================================================

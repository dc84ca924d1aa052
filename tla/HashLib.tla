------------------------------ MODULE HashLib ------------------------------
(***************************************************************************)
(* hashlib.c: open addressing with double hashing, tombstones and growth.  *)
(* A call of the library is one step, except that hshinsert may have to    *)
(* reorganize first: then every entry moved is a step.  htbl is the array  *)
(* master->htbl, hash and rehash the two functions hshinit was given.      *)
(*                                                                         *)
(* An operator no action uses, just before another of the same shape, is   *)
(* a wrong version of that one, to try the properties on.                  *)
(***************************************************************************)
EXTENDS Integers, Sequences, FiniteSets

CONSTANTS
  Keys, NULL, DELETED,
  HashFns, RehashFns,   (* the pairs of hash functions considered           *)
  INITSZ,               (* first size of a table, 17                        *)
  PrimeTable,           (* the values of ithprime, ascending                *)
  Eighth,               (* 8: what ">> 3" divides by                        *)
  Mallocs               (* outcomes of an allocation: TRUE, FALSE           *)

Sizes == {INITSZ} \cup {PrimeTable[i] : i \in 1..Len(PrimeTable)}

(* Steps of any length below sz reach every slot from every slot. *)
FullCycle(sz) == \A h \in 0..sz-1, s \in 1..sz-1, x \in 0..sz-1 :
                   \E i \in 0..sz-1 : (h + i * s) % sz = x

(* Slots that may be used before the table is reorganized. *)
TTHRESHFull(sz) == sz

TTHRESH(sz) == sz - sz \div Eighth

ASSUME KeysAssumption == NULL \notin Keys /\ DELETED \notin Keys /\ NULL # DELETED
ASSUME HashAssumption == HashFns \subseteq [Keys -> Nat] /\ RehashFns \subseteq [Keys -> Nat]
ASSUME SizesAssumption ==
  /\ Eighth \in Nat \ {0, 1}
  /\ PrimeTable \in Seq(Nat)
  /\ \A sz \in Sizes : sz \in Nat /\ sz >= Eighth /\ FullCycle(sz)
  /\ \A p, q \in Sizes : p < q => TTHRESH(p) < TTHRESH(q)
ASSUME MallocsAssumption == Mallocs \subseteq BOOLEAN

VARIABLES
  hash, rehash,
  htbl, currentsz,
  hentries,       (* used slots, the DELETED ones included                  *)
  hdeleted,       (* DELETED slots                                          *)
  herror,         (* bits of hstatus.herror                                 *)
  pc,             (* where hshinsert stands: "ready", "moving", "put"       *)
  item,           (* its argument                                           *)
  oldtbl, oldsize, oldentries, j,   (* locals of reorganize                 *)
  result          (* what the last call returned                            *)

(* The locals are dead, and forgotten here, once hshinsert returns. *)
table  == <<htbl, currentsz, hentries, hdeleted, herror>>
locals == <<oldtbl, oldsize, oldentries, j>>
NoLocals == oldtbl' = <<>> /\ oldsize' = 0 /\ oldentries' = 0 /\ j' = 0

vars   == <<hash, rehash, table, pc, item, locals, result>>

Entry == Keys \cup {NULL, DELETED}

Live(tbl) == {tbl[s] : s \in DOMAIN tbl} \cap Keys

Empty(sz) == [s \in 0..sz-1 |-> NULL]
-----------------------------------------------------------------------------
(* The i-th slot tried for k: h = (h + h2) % currentsz, i times. *)
Step(k, sz) == (rehash[k] % (sz \div Eighth)) + 1

Slot(k, sz, i) == ((hash[k] % sz) + i * Step(k, sz)) % sz

(* The first slot of k's probe sequence whose content is in Accept: the    *)
(* loops of putintbl and huntup.                                           *)
FirstProbe(k, tbl, sz, Accept) ==
  CHOOSE i \in 0..sz-1 : /\ tbl[Slot(k, sz, i)] \in Accept
                         /\ \A e \in 0..i-1 : tbl[Slot(k, sz, e)] \notin Accept

Hunt(k, tbl, sz, Accept) == Slot(k, sz, FirstProbe(k, tbl, sz, Accept))

huntup(k) == Hunt(k, htbl, currentsz, {NULL, k})

(* putintbl ends its loop once herror is set: after one probe. *)
Landing(k, Accept) ==
  IF herror = {} THEN Hunt(k, htbl, currentsz, Accept) ELSE Slot(k, currentsz, 0)

TSPACE == TTHRESH(currentsz) - hentries

NextPrime ==
  LET bigger == {p \in Sizes \ {INITSZ} : p > currentsz}
  IN  IF bigger = {} THEN 0 ELSE CHOOSE p \in bigger : \A o \in bigger : p <= o

NewSizeTwice == IF hdeleted > hentries \div 4 THEN currentsz ELSE 2 * currentsz

NewSize == IF hdeleted > hentries \div 4 THEN currentsz ELSE NextPrime
-----------------------------------------------------------------------------
(* hshinsert *)

HshInsert(k) ==
  /\ pc = "ready"
  /\ TSPACE > 0
  /\ item' = k
  /\ pc' = "put"
  /\ UNCHANGED <<hash, rehash, table, locals, result>>

(* No space left: hshinsert calls reorganize. *)
BeginReorganize(k) ==
  /\ pc = "ready"
  /\ TSPACE <= 0
  /\ NewSize # 0
  /\ TRUE \in Mallocs
  /\ item' = k
  /\ oldtbl' = htbl /\ oldsize' = currentsz /\ oldentries' = 0 /\ j' = 0
  /\ htbl' = Empty(NewSize)
  /\ currentsz' = NewSize
  /\ pc' = "moving"
  /\ UNCHANGED <<hash, rehash, hentries, hdeleted, herror, result>>

ReorganizeFails(k) ==
  /\ pc = "ready"
  /\ TSPACE <= 0
  /\ NewSize = 0 \/ FALSE \in Mallocs
  /\ herror' = herror \cup {"TBLFULL"}
  /\ result' = NULL
  /\ UNCHANGED <<hash, rehash, htbl, currentsz, hentries, hdeleted, pc, item, locals>>

(* One iteration of reorganize's loop.  What putintbl returns is ignored.  *)
MovedBlind(k) == [htbl EXCEPT ![Slot(k, currentsz, 0)] = k]

Moved(k) ==
  LET s == Landing(k, {NULL})
  IN  IF htbl[s] = NULL THEN [htbl EXCEPT ![s] = k] ELSE htbl

NextOldStuck == IF oldtbl[j] \in Keys THEN j + 1 ELSE j

NextOld == j + 1

MoveEntry ==
  /\ pc = "moving"
  /\ j < oldsize
  /\ IF oldtbl[j] \in Keys
     THEN htbl' = Moved(oldtbl[j]) /\ oldentries' = oldentries + 1
     ELSE UNCHANGED <<htbl, oldentries>>
  /\ j' = NextOld
  /\ UNCHANGED <<hash, rehash, currentsz, hentries, hdeleted, herror, pc, item,
                 oldtbl, oldsize, result>>

SaneCount == oldentries = hentries - hdeleted

DeletedKept == hdeleted

DeletedGone == 0

EndReorganize ==
  /\ pc = "moving"
  /\ j = oldsize
  /\ SaneCount
  /\ hentries' = oldentries
  /\ hdeleted' = DeletedGone
  /\ pc' = "put"
  /\ NoLocals
  /\ UNCHANGED <<hash, rehash, htbl, currentsz, herror, item, result>>

SanityFails ==
  /\ pc = "moving"
  /\ j = oldsize
  /\ ~SaneCount
  /\ herror' = herror \cup {"INTERR", "TBLFULL"}
  /\ htbl' = oldtbl
  /\ currentsz' = oldsize
  /\ result' = NULL
  /\ pc' = "ready"
  /\ item' = NULL
  /\ NoLocals
  /\ UNCHANGED <<hash, rehash, hentries, hdeleted>>

(* putintbl(master, item, 0) *)
Put ==
  /\ pc = "put"
  /\ LET s == Landing(item, {NULL, item})
     IN  \/ /\ htbl[s] = NULL
            /\ TRUE \in Mallocs
            /\ htbl' = [htbl EXCEPT ![s] = item]
            /\ hentries' = hentries + 1
            /\ result' = item
            /\ UNCHANGED herror
         \/ /\ htbl[s] = NULL
            /\ FALSE \in Mallocs        (* dupe fails *)
            /\ herror' = herror \cup {"NOMEM"}
            /\ result' = NULL
            /\ UNCHANGED <<htbl, hentries>>
         \/ /\ htbl[s] # NULL
            /\ result' = IF htbl[s] = item THEN item ELSE NULL
            /\ UNCHANGED <<htbl, hentries, herror>>
  /\ pc' = "ready"
  /\ item' = NULL
  /\ UNCHANGED <<hash, rehash, currentsz, hdeleted, locals>>
-----------------------------------------------------------------------------
HshFind(k) ==
  /\ pc = "ready"
  /\ result' = htbl[huntup(k)]
  /\ UNCHANGED <<hash, rehash, table, pc, item, locals>>

TombstoneNull == NULL

Tombstone == DELETED     (* a slot that probes go past *)

HshDelete(k) ==
  /\ pc = "ready"
  /\ result' = htbl[huntup(k)]
  /\ IF htbl[huntup(k)] # NULL
     THEN /\ htbl' = [htbl EXCEPT ![huntup(k)] = Tombstone]
          /\ hdeleted' = hdeleted + 1
     ELSE UNCHANGED <<htbl, hdeleted>>
  /\ UNCHANGED <<hash, rehash, currentsz, hentries, herror, pc, item, locals>>

Init ==
  /\ hash \in HashFns /\ rehash \in RehashFns
  /\ htbl = Empty(INITSZ) /\ currentsz = INITSZ
  /\ hentries = 0 /\ hdeleted = 0
  /\ herror = {}
  /\ pc = "ready"
  /\ item = NULL
  /\ oldtbl = <<>> /\ oldsize = 0 /\ oldentries = 0 /\ j = 0
  /\ result = NULL

Reorganize == MoveEntry \/ EndReorganize \/ SanityFails

Next ==
  \/ \E k \in Keys : HshInsert(k) \/ BeginReorganize(k) \/ ReorganizeFails(k)
  \/ Reorganize
  \/ Put
  \/ \E k \in Keys : HshFind(k) \/ HshDelete(k)

(* A call of hshinsert runs to its end. *)
Fairness == WF_vars(Reorganize \/ Put)

Spec == Init /\ [][Next]_vars /\ Fairness
-----------------------------------------------------------------------------
Promise == INSTANCE KeyStore WITH
  stored   <- Live(IF pc = "moving" THEN oldtbl ELSE htbl),
  degraded <- herror # {}

PromiseSpec == Promise!Spec

(* Every variable has its type and every table its size. *)
TypeOK ==
  /\ hash \in HashFns /\ rehash \in RehashFns
  /\ currentsz \in Sizes
  /\ htbl \in [0..currentsz-1 -> Entry]
  /\ hentries \in Nat /\ hdeleted \in Nat
  /\ herror \subseteq {"NOMEM", "TBLFULL", "INTERR"}
  /\ pc \in {"ready", "moving", "put"}
  /\ item \in Keys \cup {NULL}
  /\ pc # "ready" => item \in Keys
  /\ oldtbl \in [0..oldsize-1 -> Entry]
  /\ pc = "moving" => oldsize \in Sizes
  /\ oldentries \in Nat
  /\ j \in 0..oldsize
  /\ result \in Keys \cup {NULL}

(* huntup finds every entry of the table: no slot before the entry's own   *)
(* is NULL or holds an equal item, whatever was deleted, moved or refused  *)
(* since it was put there.  So no item is stored twice either, and a walk  *)
(* (hshwalk) meets each of them once.                                      *)
Reachable ==
  \A s \in 0..currentsz-1 : htbl[s] \in Keys =>
    \E i \in 0..currentsz-1 :
      /\ Slot(htbl[s], currentsz, i) = s
      /\ \A e \in 0..i-1 : htbl[Slot(htbl[s], currentsz, e)] \notin {NULL, htbl[s]}

(* The loops of putintbl and huntup end: an eighth of the slots is NULL.   *)
Slots(tbl, Contents) == {s \in DOMAIN tbl : tbl[s] \in Contents}

RoomLeft == Cardinality(Slots(htbl, {NULL})) >= currentsz \div Eighth

(* hentries and hdeleted, from which TSPACE and the choice between growing *)
(* and cleaning are computed, count what is in the table, until an error.  *)
CountsExact ==
  herror = {} /\ pc # "moving" =>
    /\ hentries = Cardinality(Slots(htbl, Keys \cup {DELETED}))
    /\ hdeleted = Cardinality(Slots(htbl, {DELETED}))

(* reorganize's sanity check never fails on a table without a past error.  *)
SanityHolds == [][herror = {} => "INTERR" \notin herror']_vars

(* hshinsert returns, reorganization included. *)
InsertReturns == pc # "ready" ~> pc = "ready"

(* "reinsert all entries from the old table in the new" (hashlib.c:257).   *)
ReinsertsAll == [][pc = "moving" /\ pc' = "put" => Live(htbl') = Live(oldtbl)]_vars
=============================================================================

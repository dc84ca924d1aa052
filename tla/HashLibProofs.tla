--------------------------- MODULE HashLibProofs ---------------------------
(***************************************************************************)
(* Proofs about hashlib.c for every set of keys, all hash functions, any   *)
(* table of sizes that HashLib assumes and any allocation failures.        *)
(***************************************************************************)
EXTENDS HashLib, TLAPS, FiniteSetTheorems, WellFoundedInduction

(* A nonempty set of numbers has a least one: used for the first probe that
   is accepted and for the next larger prime. *)
LEMMA LeastNumber == ASSUME NEW T, T \subseteq Nat, T # {}
  PROVE \E m \in T : \A y \in T : m <= y
<1> DEFINE R == OpToRel(<, Nat)
<1>1. IsWellFoundedOn(R, Nat)
  BY NatLessThanWellFounded
<1>2. \A x, y \in Nat : x < y => <<x, y>> \in R
  BY DEF OpToRel
<1> HIDE DEF R
<1>3. PICK m \in T : \A y \in T : ~ (<<y, m>> \in R)
  BY <1>1, WFMin
<1>4. \A y \in T : ~ (y < m)
  BY <1>2, <1>3
<1> QED
  BY <1>4

(* The loops of putintbl and huntup end for such a table. *)
NullIn(tbl, sz) == \E s \in 0..sz-1 : tbl[s] = NULL

(* What the assumptions say of one size: some slots stay unused (TTHRESH,
   hashlib.c:95) and there is room for a second hash between 1 and sz div 8. *)
LEMMA SizeFacts == ASSUME NEW sz \in Sizes
  PROVE /\ sz \in Nat /\ sz >= 2 /\ FullCycle(sz)
        /\ sz \div Eighth \in 1..sz-1
        /\ TTHRESH(sz) \in 1..sz-1
<1>1. /\ Eighth \in Nat /\ Eighth >= 2 /\ sz \in Nat /\ sz >= Eighth /\ FullCycle(sz)
  BY SizesAssumption
<1>2. sz \div Eighth \in Nat /\ sz \div Eighth >= 1 /\ sz \div Eighth < sz
  BY <1>1
<1> QED
  BY <1>1, <1>2 DEF TTHRESH

(* The step of a probe sequence, h2 of putintbl and huntup, is between 1
   and sz-1, and its start is a slot. *)
LEMMA StepType == ASSUME TypeOK, NEW k \in Keys, NEW sz \in Sizes
  PROVE Step(k, sz) \in 1..sz-1 /\ hash[k] % sz \in 0..sz-1
<1>1. hash[k] \in Nat /\ rehash[k] \in Nat
  BY HashAssumption DEF TypeOK
<1>2. rehash[k] % (sz \div Eighth) \in 0..(sz \div Eighth)-1
  BY <1>1, SizeFacts
<1> QED
  BY <1>1, <1>2, SizeFacts DEF Step

(* Every probe is inside htbl. *)
LEMMA SlotType == ASSUME TypeOK, NEW k \in Keys, NEW sz \in Sizes, NEW i \in Nat
  PROVE Slot(k, sz, i) \in 0..sz-1
<1>1. (hash[k] % sz) + i * Step(k, sz) \in Nat /\ sz \in Nat \ {0}
  BY StepType, SizeFacts
<1> HIDE DEF Step
<1> QED
  BY <1>1 DEF Slot

(* The probes of any item reach a NULL slot if there is one, because the
   step generates all slots of a table of prime size. *)
LEMMA NullReached ==
  ASSUME TypeOK, NEW k \in Keys, NEW sz \in Sizes, NEW tbl, NullIn(tbl, sz)
  PROVE \E i \in 0..sz-1 : tbl[Slot(k, sz, i)] = NULL
<1>1. PICK s \in 0..sz-1 : tbl[s] = NULL
  BY DEF NullIn
<1>2. PICK i \in 0..sz-1 : ((hash[k] % sz) + i * Step(k, sz)) % sz = s
  BY StepType, SizeFacts DEF FullCycle
<1> QED
  BY <1>1, <1>2 DEF Slot

(* FirstProbe is well defined, and is the first acceptable probe: the
   exit condition of the loops of putintbl and huntup. *)
LEMMA FirstProbeFirst ==
  ASSUME TypeOK, NEW k \in Keys, NEW sz \in Sizes, NEW tbl, NullIn(tbl, sz),
         NEW Accept, NULL \in Accept
  PROVE LET i == FirstProbe(k, tbl, sz, Accept)
        IN  /\ i \in 0..sz-1
            /\ tbl[Slot(k, sz, i)] \in Accept
            /\ \A e \in 0..i-1 : tbl[Slot(k, sz, e)] \notin Accept
<1> DEFINE T == {i \in 0..sz-1 : tbl[Slot(k, sz, i)] \in Accept}
<1>1. T \subseteq Nat /\ T # {}
  BY NullReached
<1>2. PICK m \in T : \A y \in T : m <= y
  BY <1>1, LeastNumber
<1>3. /\ m \in 0..sz-1
      /\ tbl[Slot(k, sz, m)] \in Accept
      /\ \A e \in 0..m-1 : tbl[Slot(k, sz, e)] \notin Accept
  BY <1>2, SizeFacts
<1> QED
  BY <1>3 DEF FirstProbe
-----------------------------------------------------------------------------
(* Reachable, of any table. *)
ReachIn(tbl, sz) ==
  \A s \in 0..sz-1 : tbl[s] \in Keys =>
    \E i \in 0..sz-1 :
      /\ Slot(tbl[s], sz, i) = s
      /\ \A e \in 0..i-1 : tbl[Slot(tbl[s], sz, e)] \notin {NULL, tbl[s]}

(* A reachable table holds no item twice. *)
LEMMA ReachUnique ==
  ASSUME NEW tbl, NEW sz \in Sizes, ReachIn(tbl, sz),
         NEW s \in 0..sz-1, NEW t \in 0..sz-1, tbl[s] \in Keys, tbl[s] = tbl[t]
  PROVE s = t
<1> DEFINE k == tbl[s]
<1>1. PICK is \in 0..sz-1 : Slot(k, sz, is) = s /\ \A e \in 0..is-1 : tbl[Slot(k, sz, e)] # k
  BY DEF ReachIn
<1>2. PICK it \in 0..sz-1 : Slot(k, sz, it) = t /\ \A e \in 0..it-1 : tbl[Slot(k, sz, e)] # k
  BY DEF ReachIn
<1>3. ~(is < it) /\ ~(it < is)
  BY <1>1, <1>2, SizeFacts
<1>4. is = it
  BY <1>3, SizeFacts
<1> QED
  BY <1>1, <1>2, <1>4

(* putintbl keeps a table reachable when it stores k at the first probe
   that is NULL and passed no k before. *)
LEMMA ReachPut ==
  ASSUME TypeOK, NEW sz \in Sizes, NEW tbl \in [0..sz-1 -> Entry], ReachIn(tbl, sz),
         NEW k \in Keys, NEW i \in 0..sz-1, tbl[Slot(k, sz, i)] = NULL,
         \A e \in 0..i-1 : tbl[Slot(k, sz, e)] \notin {NULL, k}
  PROVE ReachIn([tbl EXCEPT ![Slot(k, sz, i)] = k], sz)
<1> DEFINE p == Slot(k, sz, i)
           new == [tbl EXCEPT ![p] = k]
<1>0. p \in 0..sz-1
  BY SlotType, SizeFacts
<1>1. \A s \in 0..sz-1 : new[s] = IF s = p THEN k ELSE tbl[s]
  BY <1>0
<1>2. \A kk \in Keys, m \in 0..sz-1 : \A e \in 0..m-1 : Slot(kk, sz, e) \in 0..sz-1
  <2> SUFFICES ASSUME NEW kk \in Keys, NEW m \in 0..sz-1, NEW e \in 0..m-1
               PROVE  Slot(kk, sz, e) \in 0..sz-1
    OBVIOUS
  <2>1. e \in Nat
    BY SizeFacts
  <2> QED
    BY <2>1, SlotType
<1> HIDE DEF new, p
<1>p. tbl[p] = NULL /\ Slot(k, sz, i) = p
  BY DEF p
<1>3. ASSUME NEW s \in 0..sz-1, new[s] \in Keys
      PROVE  \E m \in 0..sz-1 : /\ Slot(new[s], sz, m) = s
                                /\ \A e \in 0..m-1 : new[Slot(new[s], sz, e)] \notin {NULL, new[s]}
  <2>1. CASE s = p
    <3>1. \A e \in 0..i-1 : new[Slot(k, sz, e)] \notin {NULL, k}
      BY <1>1, <1>2, <1>p
    <3> QED
      BY <1>1, <1>p, <2>1, <3>1
  <2>2. CASE s # p
    <3>1. new[s] = tbl[s]
      BY <1>1, <2>2
    <3>2. PICK m \in 0..sz-1 : /\ Slot(tbl[s], sz, m) = s
                               /\ \A e \in 0..m-1 : tbl[Slot(tbl[s], sz, e)] \notin {NULL, tbl[s]}
      BY <1>3, <3>1 DEF ReachIn
    <3>3. \A e \in 0..m-1 : new[Slot(tbl[s], sz, e)] = tbl[Slot(tbl[s], sz, e)]
      BY <1>1, <1>2, <1>3, <1>p, <3>1, <3>2
    <3> QED
      BY <3>1, <3>2, <3>3
  <2> QED
    BY <2>1, <2>2
<1> QED
  BY <1>3 DEF ReachIn, new, p

(* hshdelete keeps a table reachable: probes go past DELETED. *)
LEMMA ReachDelete ==
  ASSUME TypeOK, NEW sz \in Sizes, NEW tbl \in [0..sz-1 -> Entry], ReachIn(tbl, sz),
         NEW p \in 0..sz-1, tbl[p] # NULL
  PROVE ReachIn([tbl EXCEPT ![p] = DELETED], sz)
<1> DEFINE new == [tbl EXCEPT ![p] = DELETED]
<1>1. \A s \in 0..sz-1 : new[s] = IF s = p THEN DELETED ELSE tbl[s]
  OBVIOUS
<1>2. \A kk \in Keys, m \in 0..sz-1 : \A e \in 0..m-1 : Slot(kk, sz, e) \in 0..sz-1
  <2> SUFFICES ASSUME NEW kk \in Keys, NEW m \in 0..sz-1, NEW e \in 0..m-1
               PROVE  Slot(kk, sz, e) \in 0..sz-1
    OBVIOUS
  <2>1. e \in Nat
    BY SizeFacts
  <2> QED
    BY <2>1, SlotType
<1> HIDE DEF new
<1>3. ASSUME NEW s \in 0..sz-1, new[s] \in Keys
      PROVE  \E m \in 0..sz-1 : /\ Slot(new[s], sz, m) = s
                                /\ \A e \in 0..m-1 : new[Slot(new[s], sz, e)] \notin {NULL, new[s]}
  <2>1. new[s] = tbl[s]
    BY <1>1, <1>3, KeysAssumption
  <2>2. PICK m \in 0..sz-1 : /\ Slot(tbl[s], sz, m) = s
                             /\ \A e \in 0..m-1 : tbl[Slot(tbl[s], sz, e)] \notin {NULL, tbl[s]}
    BY <1>3, <2>1 DEF ReachIn
  <2>3. \A e \in 0..m-1 : new[Slot(tbl[s], sz, e)] \notin {NULL, tbl[s]}
    BY <1>1, <1>2, <1>3, <2>1, <2>2, KeysAssumption
  <2> QED
    BY <2>1, <2>2, <2>3
<1> QED
  BY <1>3 DEF ReachIn, new

(* Reachability depends on hash and rehash only, which never change. *)
LEMMA ReachPrime == ASSUME UNCHANGED <<hash, rehash>>, NEW tbl, NEW sz
  PROVE ReachIn(tbl, sz)' <=> ReachIn(tbl, sz)
BY DEF ReachIn, Slot, Step
-----------------------------------------------------------------------------
(* What hentries and hdeleted count. *)
Used(tbl) == Slots(tbl, Keys \cup {DELETED})

(* The tombstones. *)
Dead(tbl) == Slots(tbl, {DELETED})

(* The slots with some content are finitely many. *)
LEMMA SlotsFinite == ASSUME NEW sz \in Nat, NEW tbl \in [0..sz-1 -> Entry], NEW C
  PROVE /\ IsFiniteSet(Slots(tbl, C)) /\ Cardinality(Slots(tbl, C)) \in Nat
        /\ Slots(tbl, C) \subseteq 0..sz-1
<1>1. Slots(tbl, C) \subseteq 0..sz-1 /\ IsFiniteSet(0..sz-1)
  BY FS_Interval DEF Slots
<1> QED
  BY <1>1, FS_Subset, FS_CardinalityType

(* A table with fewer used slots than slots has a NULL. *)
LEMMA UsedRoom ==
  ASSUME NEW sz \in Nat, NEW tbl \in [0..sz-1 -> Entry], Cardinality(Used(tbl)) < sz
  PROVE NullIn(tbl, sz)
<1> SUFFICES ASSUME ~NullIn(tbl, sz) PROVE FALSE
  OBVIOUS
<1>1. Used(tbl) = 0..sz-1
  BY DEF NullIn, Used, Slots, Entry
<1>2. Cardinality(0..sz-1) = sz
  BY FS_Interval
<1> QED
  BY <1>1, <1>2

(* new is tbl after the assignment htbl[p] = x. *)
Write(new, tbl, sz, p, x) ==
  /\ new \in [0..sz-1 -> Entry]
  /\ new[p] = x
  /\ \A q \in 0..sz-1 : q # p => new[q] = tbl[q]

(* An EXCEPT is a Write. *)
LEMMA WriteExcept ==
  ASSUME NEW sz \in Nat, NEW tbl \in [0..sz-1 -> Entry], NEW p \in 0..sz-1, NEW x \in Entry
  PROVE Write([tbl EXCEPT ![p] = x], tbl, sz, p, x)
BY DEF Write

(* Storing an item in a NULL slot uses one slot more: hentries++ in
   inserted (hashlib.c:206). *)
LEMMA UsedPut ==
  ASSUME NEW sz \in Nat, NEW tbl \in [0..sz-1 -> Entry], NEW p \in 0..sz-1, tbl[p] = NULL,
         NEW k \in Keys, NEW new, Write(new, tbl, sz, p, k)
  PROVE /\ Cardinality(Used(new)) = Cardinality(Used(tbl)) + 1
        /\ Dead(new) = Dead(tbl)
        /\ Live(new) = Live(tbl) \cup {k}
<1> USE KeysAssumption DEF Write
<1>1. Used(new) = Used(tbl) \cup {p} /\ p \notin Used(tbl)
  BY DEF Used, Slots
<1>2. Dead(new) = Dead(tbl)
  BY DEF Dead, Slots
<1>3. Live(new) = Live(tbl) \cup {k}
  BY DEF Live
<1>5. IsFiniteSet(Used(tbl)) /\ Cardinality(Used(tbl)) \in Nat
  BY SlotsFinite DEF Used
<1> QED
  BY <1>1, <1>2, <1>3, <1>5, FS_AddElement

(* A tombstone uses the slot of the item it replaces: hdeleted++ and no
   hentries-- in hshdelete (hashlib.c:380). *)
LEMMA UsedDelete ==
  ASSUME NEW sz \in Nat, NEW tbl \in [0..sz-1 -> Entry], NEW p \in 0..sz-1, tbl[p] \in Keys,
         NEW new, Write(new, tbl, sz, p, DELETED)
  PROVE /\ Used(new) = Used(tbl)
        /\ Cardinality(Dead(new)) = Cardinality(Dead(tbl)) + 1
<1> USE KeysAssumption DEF Write
<1>1. Used(new) = Used(tbl)
  BY DEF Used, Slots
<1>2. Dead(new) = Dead(tbl) \cup {p} /\ p \notin Dead(tbl)
  BY DEF Dead, Slots
<1>4. IsFiniteSet(Dead(tbl)) /\ Cardinality(Dead(tbl)) \in Nat
  BY SlotsFinite DEF Dead
<1> QED
  BY <1>1, <1>2, <1>4, FS_AddElement

(* What maketbl returns: nothing is stored in it. *)
LEMMA UsedEmpty == ASSUME NEW sz \in Nat
  PROVE /\ Empty(sz) \in [0..sz-1 -> Entry]
        /\ Used(Empty(sz)) = {} /\ Dead(Empty(sz)) = {} /\ Live(Empty(sz)) = {}
        /\ Cardinality(Used(Empty(sz))) = 0 /\ Cardinality(Dead(Empty(sz))) = 0
        /\ ReachIn(Empty(sz), sz)
<1>1. Empty(sz) \in [0..sz-1 -> Entry]
  BY DEF Empty, Entry
<1>2. Used(Empty(sz)) = {} /\ Dead(Empty(sz)) = {} /\ Live(Empty(sz)) = {}
  BY KeysAssumption DEF Empty, Used, Dead, Slots, Live
<1>3. ReachIn(Empty(sz), sz)
  BY KeysAssumption DEF Empty, ReachIn
<1> QED
  BY <1>1, <1>2, <1>3, FS_EmptySet
-----------------------------------------------------------------------------
(* The counters against the table: never too small, exact without errors. *)
Counted(tbl) ==
  /\ Cardinality(Used(tbl)) <= hentries
  /\ herror = {} => /\ Cardinality(Used(tbl)) = hentries
                    /\ Cardinality(Dead(tbl)) = hdeleted

(* The entries reorganize has moved so far, by slot and by key. *)
OldLive == {s \in 0..j-1 : oldtbl[s] \in Keys}

OldKeys == {oldtbl[s] : s \in OldLive}

(* In the middle of reorganize: the old table is intact, the new one holds
   nothing that was not moved, all of it if there was no error. *)
Moving ==
  /\ ReachIn(oldtbl, oldsize)
  /\ Counted(oldtbl)
  /\ hentries = TTHRESH(oldsize)
  /\ \/ currentsz = oldsize /\ hdeleted > 0
     \/ TTHRESH(oldsize) < TTHRESH(currentsz)
  /\ Dead(htbl) = {}
  /\ oldentries = Cardinality(OldLive)
  /\ Cardinality(Used(htbl)) <= oldentries
  /\ Live(htbl) \subseteq OldKeys
  /\ herror = {} => /\ Cardinality(Used(htbl)) = oldentries
                    /\ Live(htbl) = OldKeys

(* The inductive invariant.  What is not a property of its own is there
   for the step that ends a reorganization: hentries < TTHRESH when the item
   is put, and what the locals of reorganize mean while entries move. *)
IInv ==
  /\ TypeOK
  /\ ReachIn(htbl, currentsz)
  /\ pc # "moving" => Counted(htbl) /\ hentries <= TTHRESH(currentsz)
  /\ pc = "put" => hentries < TTHRESH(currentsz)
  /\ pc = "moving" => Moving

(* hshinit (hashlib.c:148) establishes the invariant. *)
LEMMA InitInv == Init => IInv
<1> SUFFICES ASSUME Init PROVE IInv
  OBVIOUS
<1>1. INITSZ \in Sizes /\ INITSZ \in Nat /\ TTHRESH(INITSZ) \in Nat
  BY SizeFacts DEF Sizes
<1>2. /\ htbl = Empty(currentsz) /\ currentsz = INITSZ /\ hentries = 0 /\ hdeleted = 0
      /\ pc = "ready"
  BY DEF Init
<1>3. TypeOK
  <2>1. htbl \in [0..currentsz-1 -> Entry]
    BY <1>1, <1>2, UsedEmpty
  <2>2. oldtbl \in [0..oldsize-1 -> Entry] /\ j \in 0..oldsize
    BY DEF Init
  <2> QED
    BY <1>1, <1>2, <2>1, <2>2 DEF Init, TypeOK
<1>4. ReachIn(htbl, currentsz) /\ Counted(htbl) /\ hentries <= TTHRESH(currentsz)
  BY <1>1, <1>2, UsedEmpty DEF Counted
<1> QED
  BY <1>2, <1>3, <1>4 DEF IInv

(* What reorganize has moved so far fits under the threshold of the new table. *)
LEMMA OldRoom == ASSUME IInv, pc = "moving"
  PROVE /\ oldsize \in Sizes /\ oldsize \in Nat /\ oldtbl \in [0..oldsize-1 -> Entry] /\ j \in 0..oldsize
        /\ OldLive \subseteq Used(oldtbl) /\ IsFiniteSet(OldLive)
        /\ oldentries \in Nat /\ hentries \in Nat /\ oldentries <= hentries
        /\ oldentries <= TTHRESH(currentsz)
<1>1. /\ oldsize \in Sizes /\ oldtbl \in [0..oldsize-1 -> Entry] /\ j \in 0..oldsize
      /\ oldentries \in Nat /\ hentries \in Nat /\ currentsz \in Sizes
  BY DEF IInv, TypeOK
<1>2. oldsize \in Nat /\ TTHRESH(oldsize) \in Nat /\ TTHRESH(currentsz) \in Nat
  BY <1>1, SizeFacts
<1>3. OldLive \subseteq Used(oldtbl)
  BY <1>1, <1>2 DEF OldLive, Used, Slots
<1>4. IsFiniteSet(Used(oldtbl)) /\ Cardinality(Used(oldtbl)) \in Nat
  BY <1>1, <1>2, SlotsFinite DEF Used
<1>5. IsFiniteSet(OldLive) /\ Cardinality(OldLive) <= Cardinality(Used(oldtbl))
  BY <1>3, <1>4, FS_Subset
<1>6. Cardinality(OldLive) \in Nat
  BY <1>5, FS_CardinalityType
<1>7. /\ oldentries = Cardinality(OldLive) /\ Cardinality(Used(oldtbl)) <= hentries
      /\ hentries = TTHRESH(oldsize)
      /\ currentsz = oldsize \/ TTHRESH(oldsize) < TTHRESH(currentsz)
  BY DEF IInv, Moving, Counted
<1> QED
  BY <1>1, <1>2, <1>3, <1>4, <1>5, <1>6, <1>7

(* At any moment, in the middle of reorganize too, some slot is NULL. *)
LEMMA AlwaysRoom == ASSUME IInv
  PROVE /\ currentsz \in Sizes /\ currentsz \in Nat /\ htbl \in [0..currentsz-1 -> Entry]
        /\ Cardinality(Used(htbl)) \in Nat
        /\ Cardinality(Used(htbl)) <= TTHRESH(currentsz)
        /\ NullIn(htbl, currentsz)
<1>1. currentsz \in Sizes /\ htbl \in [0..currentsz-1 -> Entry] /\ hentries \in Nat
  BY DEF IInv, TypeOK
<1>2. currentsz \in Nat /\ TTHRESH(currentsz) \in Nat /\ TTHRESH(currentsz) < currentsz
  BY <1>1, SizeFacts
<1>3. Cardinality(Used(htbl)) \in Nat
  BY <1>1, <1>2, SlotsFinite DEF Used
<1>4. Cardinality(Used(htbl)) <= TTHRESH(currentsz)
  <2>1. CASE pc = "moving"
    BY <1>2, <1>3, <2>1, OldRoom DEF IInv, Moving
  <2>2. CASE pc # "moving"
    BY <1>1, <1>2, <1>3, <2>2 DEF IInv, Counted
  <2> QED
    BY <2>1, <2>2
<1>5. NullIn(htbl, currentsz)
  BY <1>1, <1>2, <1>3, <1>4, UsedRoom
<1> QED
  BY <1>1, <1>2, <1>3, <1>4, <1>5

(* Where putintbl's loop ends: at a probe with nothing acceptable before
   it, which is itself acceptable unless a past error cut the loop short. *)
LEMMA LandingFacts == ASSUME IInv, NEW k \in Keys, NEW Accept, NULL \in Accept
  PROVE \E i \in 0..currentsz-1 :
          /\ Landing(k, Accept) = Slot(k, currentsz, i)
          /\ Landing(k, Accept) \in 0..currentsz-1
          /\ \A e \in 0..i-1 : htbl[Slot(k, currentsz, e)] \notin Accept
          /\ herror = {} => htbl[Landing(k, Accept)] \in Accept
<1>1. TypeOK /\ currentsz \in Sizes /\ currentsz \in Nat /\ currentsz >= 2 /\ NullIn(htbl, currentsz)
  BY AlwaysRoom, SizeFacts DEF IInv
<1>2. CASE herror = {}
  <2> DEFINE i == FirstProbe(k, htbl, currentsz, Accept)
  <2>1. /\ i \in 0..currentsz-1 /\ htbl[Slot(k, currentsz, i)] \in Accept
        /\ \A e \in 0..i-1 : htbl[Slot(k, currentsz, e)] \notin Accept
    BY <1>1, FirstProbeFirst
  <2>2. Landing(k, Accept) = Slot(k, currentsz, i)
    BY <1>2 DEF Landing, Hunt
  <2>3. Slot(k, currentsz, i) \in 0..currentsz-1
    BY <1>1, <2>1, SlotType
  <2> HIDE DEF i
  <2> QED
    BY <2>1, <2>2, <2>3
<1>3. CASE herror # {}
  <2>1. Landing(k, Accept) = Slot(k, currentsz, 0)
    BY <1>3 DEF Landing
  <2>2. Slot(k, currentsz, 0) \in 0..currentsz-1 /\ 0 \in 0..currentsz-1 /\ 0..0-1 = {}
    BY <1>1, SlotType
  <2> QED
    BY <1>3, <2>1, <2>2
<1> QED
  BY <1>2, <1>3

(* Where huntup's loop ends: at the item, if it is in the table, else at a NULL. *)
LEMMA HuntFacts == ASSUME IInv, NEW k \in Keys
  PROVE /\ huntup(k) \in 0..currentsz-1
        /\ htbl[huntup(k)] \in {NULL, k}
        /\ htbl[huntup(k)] = k <=> k \in Live(htbl)
<1>1. /\ TypeOK /\ currentsz \in Sizes /\ currentsz \in Nat /\ NullIn(htbl, currentsz)
      /\ ReachIn(htbl, currentsz) /\ htbl \in [0..currentsz-1 -> Entry]
  BY AlwaysRoom DEF IInv
<1> DEFINE i == FirstProbe(k, htbl, currentsz, {NULL, k})
<1>2. /\ i \in 0..currentsz-1 /\ htbl[Slot(k, currentsz, i)] \in {NULL, k}
      /\ \A e \in 0..i-1 : htbl[Slot(k, currentsz, e)] \notin {NULL, k}
  BY <1>1, FirstProbeFirst
<1>3. huntup(k) = Slot(k, currentsz, i)
  BY DEF huntup, Hunt
<1>4. huntup(k) \in 0..currentsz-1
  BY <1>1, <1>2, <1>3, SlotType
<1> HIDE DEF i
<1>5. ASSUME k \in Live(htbl) PROVE htbl[huntup(k)] = k
  <2>1. PICK s \in 0..currentsz-1 : htbl[s] = k
    BY <1>1, <1>5 DEF Live
  <2>2. PICK m \in 0..currentsz-1 : /\ Slot(k, currentsz, m) = s
                                   /\ \A e \in 0..m-1 : htbl[Slot(k, currentsz, e)] \notin {NULL, k}
    BY <1>1, <2>1 DEF ReachIn
  <2>3. ~(i < m) /\ ~(m < i)
    BY <1>1, <1>2, <2>1, <2>2
  <2>4. i = m
    BY <1>1, <1>2, <2>3
  <2> QED
    BY <1>3, <2>1, <2>2, <2>4
<1>6. htbl[huntup(k)] = k => k \in Live(htbl)
  BY <1>1, <1>4 DEF Live
<1> QED
  BY <1>2, <1>3, <1>4, <1>5, <1>6
-----------------------------------------------------------------------------
(* The size reorganize chooses: a larger threshold, or the same size when
   there are tombstones to drop. *)
LEMMA NewSizeFacts == ASSUME IInv, NewSize # 0
  PROVE /\ NewSize \in Sizes
        /\ \/ NewSize = currentsz /\ hdeleted > 0
           \/ TTHRESH(currentsz) < TTHRESH(NewSize)
<1>1. currentsz \in Sizes /\ hdeleted \in Nat /\ hentries \in Nat
  BY DEF IInv, TypeOK
<1>2. CASE hdeleted > hentries \div 4
  BY <1>1, <1>2 DEF NewSize
<1>3. CASE ~(hdeleted > hentries \div 4)
  <2> DEFINE bigger == {p \in Sizes \ {INITSZ} : p > currentsz}
  <2>1. NewSize = NextPrime /\ NextPrime # 0
    BY <1>3 DEF NewSize
  <2>2. bigger # {} /\ NextPrime = CHOOSE p \in bigger : \A o \in bigger : p <= o
    BY <2>1 DEF NextPrime
  <2>3. bigger \subseteq Nat
    BY SizesAssumption
  <2>4. \E p \in bigger : \A o \in bigger : p <= o
    BY <2>2, <2>3, LeastNumber
  <2>5. NextPrime \in bigger
    BY <2>2, <2>4
  <2>6. NextPrime \in Sizes /\ currentsz < NextPrime
    BY <1>1, <2>5, SizesAssumption
  <2> QED
    BY <1>1, <2>1, <2>6, SizesAssumption
<1> QED
  BY <1>2, <1>3

(* hshinsert with room left keeps the invariant. *)
LEMMA InsertKeeps == ASSUME IInv, NEW k \in Keys, HshInsert(k) PROVE IInv'
<1>1. /\ UNCHANGED <<hash, rehash, htbl, currentsz, hentries, hdeleted, herror,
                     oldtbl, oldsize, oldentries, j, result>>
      /\ pc = "ready" /\ pc' = "put" /\ item' = k /\ TTHRESH(currentsz) - hentries > 0
  BY DEF HshInsert, table, locals, TSPACE
<1>2. TypeOK'
  BY <1>1 DEF IInv, TypeOK
<1>3. ReachIn(htbl, currentsz)'
  BY <1>1 DEF IInv, ReachIn, Slot, Step
<1>4. (Counted(htbl) /\ hentries <= TTHRESH(currentsz) /\ hentries < TTHRESH(currentsz))'
  <2>1. hentries \in Nat /\ TTHRESH(currentsz) \in Nat
    BY SizeFacts DEF IInv, TypeOK
  <2>2. Counted(htbl)'
    BY <1>1 DEF IInv, Counted, Used, Dead, Slots
  <2>3. TTHRESH(currentsz)' = TTHRESH(currentsz)
    BY <1>1 DEF TTHRESH
  <2> QED
    BY <1>1, <2>1, <2>2, <2>3
<1> QED
  BY <1>1, <1>2, <1>3, <1>4 DEF IInv

(* So does reorganize when it switches to the new table. *)
LEMMA BeginKeeps == ASSUME IInv, NEW k \in Keys, BeginReorganize(k) PROVE IInv'
<1>1. /\ UNCHANGED <<hash, rehash, hentries, hdeleted, herror, result>>
      /\ pc = "ready" /\ pc' = "moving" /\ item' = k /\ TTHRESH(currentsz) - hentries <= 0
      /\ oldtbl' = htbl /\ oldsize' = currentsz /\ oldentries' = 0 /\ j' = 0
      /\ htbl' = Empty(NewSize) /\ currentsz' = NewSize /\ NewSize # 0
  BY DEF BeginReorganize, TSPACE
<1>2. /\ NewSize \in Sizes /\ NewSize \in Nat
      /\ \/ NewSize = currentsz /\ hdeleted > 0
         \/ TTHRESH(currentsz) < TTHRESH(NewSize)
  BY <1>1, NewSizeFacts, SizeFacts
<1>3. currentsz \in Sizes /\ currentsz \in Nat /\ TTHRESH(currentsz) \in Nat /\ hentries \in Nat
  BY SizeFacts DEF IInv, TypeOK
<1>4. TypeOK'
  <2>1. htbl' \in [0..currentsz'-1 -> Entry]
    BY <1>1, <1>2, UsedEmpty
  <2>2. j' \in 0..oldsize'
    BY <1>1, <1>3
  <2> QED
    BY <1>1, <1>2, <1>3, <2>1, <2>2 DEF IInv, TypeOK
<1>5. ReachIn(htbl, currentsz)' /\ ReachIn(oldtbl, oldsize)'
  <2>1. ReachIn(htbl', currentsz') /\ ReachIn(oldtbl', oldsize')
    BY <1>1, <1>2, UsedEmpty DEF IInv
  <2> QED
    BY <1>1, <2>1 DEF ReachIn, Slot, Step
<1>6. /\ Cardinality(Used(htbl))' = 0 /\ Dead(htbl)' = {} /\ Live(htbl)' = {}
  <2>1. Cardinality(Used(htbl')) = 0 /\ Dead(htbl') = {} /\ Live(htbl') = {}
    BY <1>1, <1>2, UsedEmpty
  <2> QED
    BY <2>1 DEF Used, Dead, Slots, Live
<1>7. OldKeys' = {} /\ Cardinality(OldLive)' = 0
  BY <1>1, FS_EmptySet DEF OldLive, OldKeys
<1>8. Counted(oldtbl)' /\ hentries' = TTHRESH(oldsize)'
  <2>1. Counted(htbl) /\ hentries = TTHRESH(currentsz)
    BY <1>1, <1>3 DEF IInv
  <2> QED
    BY <1>1, <2>1 DEF Counted, Used, Dead, Slots, TTHRESH
<1>9. (\/ currentsz = oldsize /\ hdeleted > 0
      \/ TTHRESH(oldsize) < TTHRESH(currentsz))'
  BY <1>1, <1>2 DEF TTHRESH
<1>10. Moving'
  BY <1>1, <1>5, <1>6, <1>7, <1>8, <1>9 DEF Moving
<1> QED
  BY <1>1, <1>4, <1>5, <1>10 DEF IInv

(* So does each iteration of its loop (hashlib.c:288). *)
LEMMA MoveKeeps == ASSUME IInv, MoveEntry PROVE IInv'
<1>1. /\ UNCHANGED <<hash, rehash, currentsz, hentries, hdeleted, herror, pc, item,
                     oldtbl, oldsize, result>>
      /\ pc = "moving" /\ j < oldsize /\ j' = j + 1
  BY DEF MoveEntry, NextOld
<1>2. /\ Moving /\ TypeOK /\ ReachIn(htbl, currentsz)
      /\ oldsize \in Sizes /\ oldsize \in Nat /\ oldtbl \in [0..oldsize-1 -> Entry] /\ j \in 0..oldsize
      /\ IsFiniteSet(OldLive) /\ oldentries \in Nat
  BY <1>1, OldRoom DEF IInv
<1>3. j \in 0..oldsize-1 /\ j' \in 0..oldsize /\ 0..j'-1 = 0..j-1 \cup {j} /\ j \notin 0..j-1
  BY <1>1, <1>2
<1>4. currentsz \in Sizes /\ currentsz \in Nat /\ htbl \in [0..currentsz-1 -> Entry]
      /\ Cardinality(Used(htbl)) \in Nat
  BY AlwaysRoom
<1>5. Counted(oldtbl)' /\ ReachIn(oldtbl, oldsize)' /\ hentries' = TTHRESH(oldsize)'
      /\ (\/ currentsz = oldsize /\ hdeleted > 0
          \/ TTHRESH(oldsize) < TTHRESH(currentsz))'
  BY <1>1, <1>2 DEF Moving, Counted, Used, Dead, Slots, ReachIn, Slot, Step, TTHRESH
<1>6. CASE oldtbl[j] \in Keys
  <2> DEFINE k == oldtbl[j]
             s == Landing(k, {NULL})
  <2>1. htbl' = (IF htbl[s] = NULL THEN [htbl EXCEPT ![s] = k] ELSE htbl) /\ oldentries' = oldentries + 1
    BY <1>6 DEF MoveEntry, Moved
  <2>2. PICK i \in 0..currentsz-1 :
          /\ s = Slot(k, currentsz, i) /\ s \in 0..currentsz-1
          /\ \A e \in 0..i-1 : htbl[Slot(k, currentsz, e)] # NULL
          /\ herror = {} => htbl[s] = NULL
    BY <1>6, LandingFacts
  <2>3. OldLive' = OldLive \cup {j} /\ j \notin OldLive
    BY <1>1, <1>3, <1>6 DEF OldLive
  <2>4. Cardinality(OldLive)' = oldentries + 1
    BY <1>2, <2>3, FS_AddElement DEF Moving
  <2>5. OldKeys' = OldKeys \cup {k}
    BY <1>1, <2>3 DEF OldKeys
  <2>6. \A e \in 0..currentsz-1 : htbl[e] # k
    <3> SUFFICES ASSUME NEW e \in 0..currentsz-1, htbl[e] = k PROVE FALSE
      OBVIOUS
    <3>1. k \in Live(htbl)
      BY <1>4, <1>6 DEF Live
    <3>2. PICK t \in OldLive : oldtbl[t] = k
      BY <1>2, <3>1 DEF Moving, OldKeys
    <3>3. t \in 0..j-1 /\ t \in 0..oldsize-1
      BY <1>2, <1>3 DEF OldLive
    <3>4. t = j
      BY <1>2, <1>3, <1>6, <3>2, <3>3, ReachUnique DEF Moving
    <3> QED
      BY <1>3, <3>3, <3>4
  <2>7. \A e \in 0..i-1 : htbl[Slot(k, currentsz, e)] \notin {NULL, k}
    <3> SUFFICES ASSUME NEW e \in 0..i-1 PROVE htbl[Slot(k, currentsz, e)] \notin {NULL, k}
      OBVIOUS
    <3>1. Slot(k, currentsz, e) \in 0..currentsz-1
      <4>1. e \in Nat
        BY <1>4
      <4> QED
        BY <1>2, <1>4, <1>6, <4>1, SlotType
    <3> QED
      BY <2>2, <2>6, <3>1
  <2>k. k = oldtbl[j] /\ k \in Keys
    BY <1>6
  <2>o. oldentries' = oldentries + 1 /\ oldentries' \in Nat
    BY <1>2, <2>1
  <2> HIDE DEF k, s
  <2>8. CASE htbl[s] = NULL
    <3> DEFINE new == [htbl EXCEPT ![s] = k]
    <3>1. htbl' = new
      BY <2>1, <2>8
    <3>2. /\ Cardinality(Used(new)) = Cardinality(Used(htbl)) + 1 /\ Dead(new) = Dead(htbl)
          /\ Live(new) = Live(htbl) \cup {k} /\ new \in [0..currentsz-1 -> Entry]
      <4>1. s \in 0..currentsz-1
        BY <2>2
      <4>2. k \in Keys /\ htbl[s] = NULL /\ currentsz \in Nat /\ htbl \in [0..currentsz-1 -> Entry]
        BY <1>4, <2>k, <2>8
      <4>3. Write(new, htbl, currentsz, s, k)
        BY <4>1, <4>2, WriteExcept DEF Entry
      <4>4. new \in [0..currentsz-1 -> Entry]
        BY <4>3 DEF Write
      <4> HIDE DEF new
      <4> QED
        BY <4>1, <4>2, <4>3, <4>4, UsedPut
    <3>3. ReachIn(new, currentsz)
      BY <1>2, <1>4, <2>k, <2>2, <2>7, <2>8, ReachPut
    <3> HIDE DEF new
    <3>4. TypeOK'
      BY <1>1, <1>2, <1>3, <2>o, <3>1, <3>2 DEF TypeOK
    <3>5. ReachIn(htbl, currentsz)'
      BY <1>1, <3>1, <3>3 DEF ReachIn, Slot, Step
    <3>6. /\ Cardinality(Used(htbl))' = Cardinality(Used(htbl)) + 1 /\ Dead(htbl)' = Dead(htbl)
          /\ Live(htbl)' = Live(htbl) \cup {k}
      BY <3>1, <3>2 DEF Used, Dead, Slots, Live
    <3>7. Moving'
      BY <1>1, <1>2, <1>4, <1>5, <2>o, <2>4, <2>5, <3>6 DEF Moving
    <3> QED
      BY <1>1, <3>4, <3>5, <3>7 DEF IInv
  <2>9. CASE htbl[s] # NULL
    <3>1. htbl' = htbl /\ herror # {}
      BY <2>1, <2>2, <2>9
    <3>2. TypeOK'
      BY <1>1, <1>2, <1>3, <2>o, <3>1 DEF TypeOK
    <3>3. ReachIn(htbl, currentsz)'
      BY <1>1, <1>2, <3>1 DEF ReachIn, Slot, Step
    <3>4. /\ Cardinality(Used(htbl))' = Cardinality(Used(htbl)) /\ Dead(htbl)' = Dead(htbl)
          /\ Live(htbl)' = Live(htbl)
      BY <3>1 DEF Used, Dead, Slots, Live
    <3>5. Moving'
      BY <1>1, <1>2, <1>4, <1>5, <2>o, <2>4, <2>5, <3>1, <3>4 DEF Moving
    <3> QED
      BY <1>1, <3>2, <3>3, <3>5 DEF IInv
  <2> QED
    BY <2>8, <2>9
<1>7. CASE oldtbl[j] \notin Keys
  <2>1. htbl' = htbl /\ oldentries' = oldentries
    BY <1>7 DEF MoveEntry
  <2>2. OldLive' = OldLive
    BY <1>1, <1>3, <1>7 DEF OldLive
  <2>3. TypeOK'
    BY <1>1, <1>2, <1>3, <2>1 DEF TypeOK
  <2>4. ReachIn(htbl, currentsz)'
    BY <1>1, <1>2, <2>1 DEF ReachIn, Slot, Step
  <2>5. /\ Cardinality(Used(htbl))' = Cardinality(Used(htbl)) /\ Dead(htbl)' = Dead(htbl)
        /\ Live(htbl)' = Live(htbl) /\ OldKeys' = OldKeys
        /\ Cardinality(OldLive)' = Cardinality(OldLive)
    BY <1>1, <2>1, <2>2 DEF Used, Dead, Slots, Live, OldKeys
  <2>6. Moving'
    BY <1>1, <1>2, <1>5, <2>1, <2>5 DEF Moving
  <2> QED
    BY <1>1, <2>3, <2>4, <2>6 DEF IInv
<1> QED
  BY <1>6, <1>7

(* So does a reorganize that finds no larger prime or no memory. *)
LEMMA FailKeeps == ASSUME IInv, NEW k \in Keys, ReorganizeFails(k) PROVE IInv'
<1>1. /\ UNCHANGED <<hash, rehash, htbl, currentsz, hentries, hdeleted, pc, item,
                     oldtbl, oldsize, oldentries, j>>
      /\ pc = "ready" /\ herror' = herror \cup {"TBLFULL"} /\ result' = NULL
  BY DEF ReorganizeFails, locals
<1>2. TypeOK'
  BY <1>1 DEF IInv, TypeOK
<1>3. ReachIn(htbl, currentsz)'
  BY <1>1 DEF IInv, ReachIn, Slot, Step
<1>4. (Counted(htbl) /\ hentries <= TTHRESH(currentsz))'
  BY <1>1 DEF IInv, Counted, Used, Dead, Slots, TTHRESH
<1> QED
  BY <1>1, <1>2, <1>3, <1>4 DEF IInv

(* So does the end of reorganize: after it there is room for the item. *)
LEMMA EndKeeps == ASSUME IInv, EndReorganize PROVE IInv'
<1>1. /\ UNCHANGED <<hash, rehash, htbl, currentsz, herror, item, result>>
      /\ pc = "moving" /\ pc' = "put" /\ hentries' = oldentries /\ hdeleted' = 0
      /\ oldentries = hentries - hdeleted
      /\ oldtbl' = <<>> /\ oldsize' = 0 /\ oldentries' = 0 /\ j' = 0
  BY DEF EndReorganize, SaneCount, DeletedGone, NoLocals
<1>2. /\ TypeOK /\ Moving /\ ReachIn(htbl, currentsz)
  BY <1>1 DEF IInv
<1>3. /\ oldentries \in Nat /\ hentries \in Nat /\ hdeleted \in Nat
      /\ TTHRESH(oldsize) \in Nat /\ TTHRESH(currentsz) \in Nat
  BY <1>1, <1>2, SizeFacts DEF TypeOK
<1>4. oldentries < TTHRESH(currentsz)
  BY <1>1, <1>2, <1>3 DEF Moving
<1>5. TypeOK'
  <2>1. oldtbl' \in [0..oldsize'-1 -> Entry] /\ j' \in 0..oldsize'
    BY <1>1
  <2> QED
    BY <1>1, <1>2, <1>3, <2>1 DEF TypeOK
<1>6. ReachIn(htbl, currentsz)'
  BY <1>1, <1>2 DEF ReachIn, Slot, Step
<1>7. (Counted(htbl) /\ hentries < TTHRESH(currentsz))'
  <2>1. Cardinality(Dead(htbl)) = 0
    BY <1>2, FS_EmptySet DEF Moving
  <2> QED
    BY <1>1, <1>2, <1>3, <1>4, <2>1 DEF Moving, Counted, Used, Dead, Slots, TTHRESH
<1>8. hentries' \in Nat /\ TTHRESH(currentsz)' \in Nat
  BY <1>1, <1>3 DEF TTHRESH
<1> QED
  BY <1>1, <1>5, <1>6, <1>7, <1>8 DEF IInv

(* So does the sanity check when it fails and puts the old table back. *)
LEMMA SanityKeeps == ASSUME IInv, SanityFails PROVE IInv'
<1>1. /\ UNCHANGED <<hash, rehash, hentries, hdeleted>>
      /\ pc = "moving" /\ pc' = "ready" /\ htbl' = oldtbl /\ currentsz' = oldsize
      /\ herror' = herror \cup {"INTERR", "TBLFULL"} /\ result' = NULL /\ item' = NULL
      /\ oldtbl' = <<>> /\ oldsize' = 0 /\ oldentries' = 0 /\ j' = 0
  BY DEF SanityFails, NoLocals
<1>2. /\ TypeOK /\ Moving
  BY <1>1 DEF IInv
<1>3. hentries \in Nat /\ TTHRESH(oldsize) \in Nat
  BY <1>1, <1>2, SizeFacts DEF TypeOK
<1>4. TypeOK'
  <2>1. oldtbl' \in [0..oldsize'-1 -> Entry] /\ j' \in 0..oldsize'
    BY <1>1
  <2> QED
    BY <1>1, <1>2, <2>1 DEF TypeOK
<1>5. ReachIn(htbl, currentsz)'
  BY <1>1, <1>2 DEF Moving, ReachIn, Slot, Step
<1>6. (Counted(htbl) /\ hentries <= TTHRESH(currentsz))'
  BY <1>1, <1>2, <1>3 DEF Moving, Counted, Used, Dead, Slots, TTHRESH
<1> QED
  BY <1>1, <1>4, <1>5, <1>6 DEF IInv

(* So does putintbl for the item of hshinsert. *)
LEMMA PutKeeps == ASSUME IInv, Put PROVE IInv'
<1> DEFINE s == Landing(item, {NULL, item})
<1>1. /\ UNCHANGED <<hash, rehash, currentsz, hdeleted, oldtbl, oldsize, oldentries, j>>
      /\ pc = "put" /\ pc' = "ready" /\ item' = NULL
      /\ \/ /\ htbl[s] = NULL
            /\ htbl' = [htbl EXCEPT ![s] = item]
            /\ hentries' = hentries + 1
            /\ result' = item
            /\ UNCHANGED herror
         \/ /\ UNCHANGED <<htbl, hentries>>
            /\ herror' = herror \/ herror' = herror \cup {"NOMEM"}
            /\ result' \in {NULL, item}
  BY DEF Put, locals
<1>2. /\ TypeOK /\ ReachIn(htbl, currentsz) /\ Counted(htbl) /\ hentries < TTHRESH(currentsz)
      /\ item \in Keys
  BY <1>1 DEF IInv, TypeOK
<1>3. /\ currentsz \in Sizes /\ currentsz \in Nat /\ htbl \in [0..currentsz-1 -> Entry]
      /\ Cardinality(Used(htbl)) \in Nat /\ hentries \in Nat /\ TTHRESH(currentsz) \in Nat
  BY <1>2, AlwaysRoom, SizeFacts DEF TypeOK
<1>4. PICK i \in 0..currentsz-1 :
        /\ s = Slot(item, currentsz, i) /\ s \in 0..currentsz-1
        /\ \A e \in 0..i-1 : htbl[Slot(item, currentsz, e)] \notin {NULL, item}
  BY <1>2, LandingFacts
<1> HIDE DEF s
<1>5. CASE /\ htbl[s] = NULL
           /\ htbl' = [htbl EXCEPT ![s] = item]
           /\ hentries' = hentries + 1
           /\ result' = item
           /\ UNCHANGED herror
  <2> DEFINE new == [htbl EXCEPT ![s] = item]
  <2>0. /\ htbl[s] = NULL /\ s \in 0..currentsz-1 /\ item \in Keys
        /\ currentsz \in Nat /\ htbl \in [0..currentsz-1 -> Entry]
    BY <1>2, <1>3, <1>4, <1>5
  <2>1. Write(new, htbl, currentsz, s, item)
    BY <2>0, WriteExcept DEF Entry
  <2>2. new \in [0..currentsz-1 -> Entry]
    BY <2>1 DEF Write
  <2>3. ReachIn(new, currentsz)
    BY <1>2, <1>3, <1>4, <1>5, ReachPut
  <2>5. htbl' = new /\ hentries' = hentries + 1 /\ result' = item /\ herror' = herror
    BY <1>5
  <2> HIDE DEF new
  <2>4. Cardinality(Used(new)) = Cardinality(Used(htbl)) + 1 /\ Dead(new) = Dead(htbl)
    BY <2>0, <2>1, UsedPut
  <2>6. TypeOK'
    BY <1>1, <1>2, <1>3, <2>2, <2>5 DEF TypeOK
  <2>7. ReachIn(htbl, currentsz)'
    BY <1>1, <2>3, <2>5 DEF ReachIn, Slot, Step
  <2>8. (Counted(htbl) /\ hentries <= TTHRESH(currentsz))'
    <3>1. Cardinality(Used(htbl))' = Cardinality(Used(htbl)) + 1 /\ Dead(htbl)' = Dead(htbl)
      BY <2>4, <2>5 DEF Used, Dead, Slots
    <3>2. TTHRESH(currentsz)' = TTHRESH(currentsz) /\ hdeleted' = hdeleted
      BY <1>1 DEF TTHRESH
    <3>3. hentries' <= TTHRESH(currentsz)
      BY <1>2, <1>3, <2>5
    <3>4. Counted(htbl)'
      BY <1>2, <1>3, <2>5, <3>1, <3>2 DEF Counted
    <3> QED
      BY <3>2, <3>3, <3>4
  <2> QED
    BY <1>1, <2>6, <2>7, <2>8 DEF IInv
<1>6. CASE /\ UNCHANGED <<htbl, hentries>>
           /\ herror' = herror \/ herror' = herror \cup {"NOMEM"}
           /\ result' \in {NULL, item}
  <2>1. TypeOK'
    BY <1>1, <1>2, <1>6 DEF TypeOK
  <2>2. ReachIn(htbl, currentsz)'
    BY <1>1, <1>2, <1>6 DEF ReachIn, Slot, Step
  <2>3. (Counted(htbl) /\ hentries <= TTHRESH(currentsz))'
    BY <1>1, <1>2, <1>3, <1>6 DEF Counted, Used, Dead, Slots, TTHRESH
  <2> QED
    BY <1>1, <2>1, <2>2, <2>3 DEF IInv
<1> QED
  BY <1>1, <1>5, <1>6

(* So does hshfind. *)
LEMMA FindKeeps == ASSUME IInv, NEW k \in Keys, HshFind(k) PROVE IInv'
<1>1. /\ UNCHANGED <<hash, rehash, htbl, currentsz, hentries, hdeleted, herror, pc, item,
                     oldtbl, oldsize, oldentries, j>>
      /\ pc = "ready" /\ result' \in {NULL, k}
  BY HuntFacts DEF HshFind, table, locals
<1>2. TypeOK'
  BY <1>1 DEF IInv, TypeOK
<1>3. ReachIn(htbl, currentsz)'
  BY <1>1 DEF IInv, ReachIn, Slot, Step
<1>4. (Counted(htbl) /\ hentries <= TTHRESH(currentsz))'
  BY <1>1 DEF IInv, Counted, Used, Dead, Slots, TTHRESH
<1> QED
  BY <1>1, <1>2, <1>3, <1>4 DEF IInv

(* So does hshdelete. *)
LEMMA DeleteKeeps == ASSUME IInv, NEW k \in Keys, HshDelete(k) PROVE IInv'
<1> DEFINE p == huntup(k)
<1>1. /\ UNCHANGED <<hash, rehash, currentsz, hentries, herror, pc, item,
                     oldtbl, oldsize, oldentries, j>>
      /\ pc = "ready" /\ result' = htbl[p]
      /\ IF htbl[p] # NULL
         THEN htbl' = [htbl EXCEPT ![p] = DELETED] /\ hdeleted' = hdeleted + 1
         ELSE UNCHANGED <<htbl, hdeleted>>
  BY DEF HshDelete, locals, Tombstone
<1>2. /\ TypeOK /\ ReachIn(htbl, currentsz) /\ Counted(htbl) /\ hentries <= TTHRESH(currentsz)
      /\ hdeleted \in Nat
  BY <1>1 DEF IInv, TypeOK
<1>3. /\ currentsz \in Sizes /\ currentsz \in Nat /\ htbl \in [0..currentsz-1 -> Entry]
  BY AlwaysRoom
<1>4. p \in 0..currentsz-1 /\ htbl[p] \in {NULL, k}
  BY HuntFacts
<1> HIDE DEF p
<1>5. CASE htbl[p] # NULL
  <2> DEFINE new == [htbl EXCEPT ![p] = DELETED]
  <2>1. Write(new, htbl, currentsz, p, DELETED)
    BY <1>3, <1>4, WriteExcept DEF Entry
  <2>2. new \in [0..currentsz-1 -> Entry]
    BY <2>1 DEF Write
  <2>3. ReachIn(new, currentsz)
    BY <1>2, <1>3, <1>4, <1>5, ReachDelete
  <2> HIDE DEF new
  <2>4. Used(new) = Used(htbl) /\ Cardinality(Dead(new)) = Cardinality(Dead(htbl)) + 1
    BY <1>3, <1>4, <1>5, <2>1, UsedDelete
  <2>5. htbl' = new /\ hdeleted' = hdeleted + 1
    BY <1>1, <1>5 DEF new
  <2>6. TypeOK'
    BY <1>1, <1>2, <1>4, <2>2, <2>5 DEF TypeOK
  <2>7. ReachIn(htbl, currentsz)'
    BY <1>1, <2>3, <2>5 DEF ReachIn, Slot, Step
  <2>8. (Counted(htbl) /\ hentries <= TTHRESH(currentsz))'
    BY <1>1, <1>2, <2>4, <2>5 DEF Counted, Used, Dead, Slots, TTHRESH
  <2> QED
    BY <1>1, <2>6, <2>7, <2>8 DEF IInv
<1>6. CASE htbl[p] = NULL
  <2>1. UNCHANGED <<htbl, hdeleted>> /\ result' = NULL
    BY <1>1, <1>6
  <2>2. TypeOK'
    BY <1>1, <1>2, <2>1 DEF TypeOK
  <2>3. ReachIn(htbl, currentsz)'
    BY <1>1, <1>2, <2>1 DEF ReachIn, Slot, Step
  <2>4. (Counted(htbl) /\ hentries <= TTHRESH(currentsz))'
    BY <1>1, <1>2, <2>1 DEF Counted, Used, Dead, Slots, TTHRESH
  <2> QED
    BY <1>1, <2>2, <2>3, <2>4 DEF IInv
<1> QED
  BY <1>5, <1>6

(* So does a step that changes nothing. *)
LEMMA StutterKeeps == ASSUME IInv, UNCHANGED vars PROVE IInv'
<1>1. UNCHANGED <<hash, rehash, htbl, currentsz, hentries, hdeleted, herror, pc, item,
                  oldtbl, oldsize, oldentries, j, result>>
  BY DEF vars, table, locals
<1>2. TypeOK'
  BY <1>1 DEF IInv, TypeOK
<1>3. ReachIn(htbl, currentsz)'
  BY <1>1 DEF IInv, ReachIn, Slot, Step
<1>4. pc # "moving" => (Counted(htbl) /\ hentries <= TTHRESH(currentsz))'
  BY <1>1 DEF IInv, Counted, Used, Dead, Slots, TTHRESH
<1>5. pc = "put" => (hentries < TTHRESH(currentsz))'
  BY <1>1 DEF IInv, TTHRESH
<1>6. pc = "moving" => Moving'
  <2>1. ReachIn(oldtbl, oldsize)' <=> ReachIn(oldtbl, oldsize)
    BY <1>1 DEF ReachIn, Slot, Step
  <2>2. Counted(oldtbl)' <=> Counted(oldtbl)
    BY <1>1 DEF Counted, Used, Dead, Slots
  <2>3. /\ Dead(htbl)' = Dead(htbl) /\ OldLive' = OldLive /\ Used(htbl)' = Used(htbl)
        /\ Live(htbl)' = Live(htbl)
    BY <1>1 DEF Dead, OldLive, Used, Slots, Live
  <2>4. OldKeys' = OldKeys /\ TTHRESH(oldsize)' = TTHRESH(oldsize) /\ TTHRESH(currentsz)' = TTHRESH(currentsz)
    BY <1>1, <2>3 DEF OldKeys, TTHRESH
  <2>5. Cardinality(OldLive)' = Cardinality(OldLive) /\ Cardinality(Used(htbl))' = Cardinality(Used(htbl))
    BY <2>3
  <2> QED
    BY <1>1, <2>1, <2>2, <2>3, <2>4, <2>5 DEF IInv, Moving
<1> QED
  BY <1>1, <1>2, <1>3, <1>4, <1>5, <1>6 DEF IInv

(* Every step of hashlib.c keeps the invariant. *)
LEMMA NextKeeps == IInv /\ [Next]_vars => IInv'
<1> SUFFICES ASSUME IInv, [Next]_vars PROVE IInv'
  OBVIOUS
<1>1. ASSUME NEW k \in Keys, HshInsert(k) PROVE IInv'
  BY <1>1, InsertKeeps
<1>2. ASSUME NEW k \in Keys, BeginReorganize(k) PROVE IInv'
  BY <1>2, BeginKeeps
<1>3. ASSUME NEW k \in Keys, ReorganizeFails(k) PROVE IInv'
  BY <1>3, FailKeeps
<1>4. CASE MoveEntry
  BY <1>4, MoveKeeps
<1>5. CASE EndReorganize
  BY <1>5, EndKeeps
<1>6. CASE SanityFails
  BY <1>6, SanityKeeps
<1>7. CASE Put
  BY <1>7, PutKeeps
<1>8. ASSUME NEW k \in Keys, HshFind(k) PROVE IInv'
  BY <1>8, FindKeeps
<1>9. ASSUME NEW k \in Keys, HshDelete(k) PROVE IInv'
  BY <1>9, DeleteKeeps
<1>10. CASE UNCHANGED vars
  BY <1>10, StutterKeeps
<1> QED
  BY <1>1, <1>2, <1>3, <1>4, <1>5, <1>6, <1>7, <1>8, <1>9, <1>10 DEF Next, Reorganize

(* The invariant holds of every reachable state. *)
LEMMA Inductive == Spec => []IInv
BY InitInv, NextKeeps, PTL DEF Spec
-----------------------------------------------------------------------------
(* Every variable of the table has its type, for all keys, hash functions
   and sizes (hashlib.c:148-391). *)
THEOREM TypeCorrect == Spec => []TypeOK
<1>1. IInv => TypeOK
  BY DEF IInv
<1> QED
  BY <1>1, Inductive, PTL

(* huntup finds every entry of the table, whatever was inserted, deleted,
   moved or refused before (hashlib.c:343). *)
THEOREM ReachableCorrect == Spec => []Reachable
<1>1. IInv => Reachable
  BY DEF IInv, ReachIn, Reachable
<1> QED
  BY <1>1, Inductive, PTL

(* An eighth of the slots is always NULL, so the unbounded loops of
   putintbl and huntup (hashlib.c:242, 352) end. *)
THEOREM RoomLeftCorrect == Spec => []RoomLeft
<1>1. IInv => RoomLeft
  <2> SUFFICES ASSUME IInv PROVE RoomLeft
    OBVIOUS
  <2>1. /\ currentsz \in Sizes /\ currentsz \in Nat /\ htbl \in [0..currentsz-1 -> Entry]
        /\ Cardinality(Used(htbl)) \in Nat
        /\ Cardinality(Used(htbl)) <= TTHRESH(currentsz)
    BY AlwaysRoom
  <2> DEFINE N == Slots(htbl, {NULL})
  <2>2. /\ IsFiniteSet(N) /\ Cardinality(N) \in Nat /\ IsFiniteSet(Used(htbl))
    BY <2>1, SlotsFinite DEF Used
  <2>3. N \cup Used(htbl) = 0..currentsz-1 /\ N \cap Used(htbl) = {}
    BY <2>1, KeysAssumption DEF Used, Slots, Entry
  <2>4. Cardinality(0..currentsz-1) = currentsz
    BY <2>1, FS_Interval
  <2> HIDE DEF N
  <2>5. Cardinality(N \cup Used(htbl)) = Cardinality(N) + Cardinality(Used(htbl)) - Cardinality(N \cap Used(htbl))
    BY <2>2, FS_Union
  <2>6. currentsz = Cardinality(N) + Cardinality(Used(htbl))
    <3>1. Cardinality(N \cap Used(htbl)) = 0
      BY <2>3, FS_EmptySet
    <3>2. Cardinality(N \cup Used(htbl)) = currentsz
      BY <2>3, <2>4
    <3> QED
      BY <2>1, <2>2, <2>5, <3>1, <3>2
  <2>7. TTHRESH(currentsz) = currentsz - (currentsz \div Eighth) /\ currentsz \div Eighth \in Nat
    BY <2>1, SizeFacts DEF TTHRESH
  <2>8. Cardinality(N) >= currentsz \div Eighth
    BY <2>1, <2>2, <2>6, <2>7
  <2> QED
    BY <2>8 DEF RoomLeft, N
<1> QED
  BY <1>1, Inductive, PTL

(* The counters from which hshinsert decides to reorganize count exactly
   what the table holds, until the first error (hashlib.c:316). *)
THEOREM CountsExactCorrect == Spec => []CountsExact
<1>1. IInv => CountsExact
  BY DEF IInv, Counted, CountsExact, Used, Dead
<1> QED
  BY <1>1, Inductive, PTL

(* Without an error, what reorganize moved is what the counters promised. *)
LEMMA SaneMove == ASSUME IInv, pc = "moving", herror = {}, j = oldsize PROVE SaneCount
<1>1. /\ oldsize \in Sizes /\ oldsize \in Nat /\ oldtbl \in [0..oldsize-1 -> Entry]
      /\ IsFiniteSet(OldLive) /\ hentries \in Nat /\ oldentries \in Nat
  BY OldRoom
<1>2. /\ oldentries = Cardinality(OldLive)
      /\ Cardinality(Used(oldtbl)) = hentries /\ Cardinality(Dead(oldtbl)) = hdeleted
  BY DEF IInv, Moving, Counted
<1>3. /\ Used(oldtbl) = OldLive \cup Dead(oldtbl) /\ OldLive \cap Dead(oldtbl) = {}
  BY <1>1, KeysAssumption DEF Used, Dead, Slots, OldLive
<1>4. IsFiniteSet(Dead(oldtbl)) /\ Cardinality(Dead(oldtbl)) \in Nat
  BY <1>1, SlotsFinite DEF Dead
<1>5. Cardinality(OldLive \cup Dead(oldtbl)) = Cardinality(OldLive) + Cardinality(Dead(oldtbl)) - Cardinality(OldLive \cap Dead(oldtbl))
  BY <1>1, <1>4, FS_Union
<1>6. hentries = oldentries + hdeleted
  <2>1. Cardinality(OldLive \cap Dead(oldtbl)) = 0
    BY <1>3, FS_EmptySet
  <2>2. Cardinality(OldLive \cup Dead(oldtbl)) = hentries
    BY <1>2, <1>3
  <2> QED
    BY <1>1, <1>2, <1>4, <1>5, <2>1, <2>2
<1> QED
  BY <1>1, <1>2, <1>4, <1>6 DEF SaneCount

(* The sanity check of reorganize (hashlib.c:294) cannot be the first error. *)
THEOREM SanityHoldsCorrect == Spec => SanityHolds
<1> DEFINE A == herror = {} => "INTERR" \notin herror'
<1>1. IInv /\ [Next]_vars => A
  <2> SUFFICES ASSUME IInv, [Next]_vars, herror = {} PROVE "INTERR" \notin herror'
    OBVIOUS
  <2>1. ~SanityFails
    BY SaneMove DEF SanityFails
  <2>2. herror' \subseteq {"NOMEM", "TBLFULL"}
    <3>1. ASSUME NEW k \in Keys, HshInsert(k) \/ BeginReorganize(k) \/ ReorganizeFails(k)
          PROVE  herror' \subseteq {"NOMEM", "TBLFULL"}
      BY <3>1 DEF HshInsert, BeginReorganize, ReorganizeFails, table
    <3>2. CASE MoveEntry \/ EndReorganize
      BY <3>2 DEF MoveEntry, EndReorganize
    <3>3. CASE Put
      BY <3>3 DEF Put
    <3>4. ASSUME NEW k \in Keys, HshFind(k) \/ HshDelete(k)
          PROVE  herror' \subseteq {"NOMEM", "TBLFULL"}
      BY <3>4 DEF HshFind, HshDelete, table
    <3>5. CASE UNCHANGED vars
      BY <3>5 DEF vars, table
    <3> QED
      BY <2>1, <3>1, <3>2, <3>3, <3>4, <3>5 DEF Next, Reorganize
  <2> QED
    BY <2>2
<1>2. Spec => [][A]_vars
  BY <1>1, Inductive, PTL DEF Spec
<1> QED
  BY <1>2 DEF SanityHolds
-----------------------------------------------------------------------------
(* An empty table is the empty set of the promise. *)
LEMMA KeptStart == Init => Promise!Init
<1> SUFFICES ASSUME Init PROVE Promise!Init
  OBVIOUS
<1>1. Live(htbl) = {}
  <2>1. INITSZ \in Nat
    BY SizeFacts DEF Sizes
  <2> QED
    BY <2>1, UsedEmpty DEF Init
<1> QED
  BY <1>1 DEF Init, Promise!Init

(* putintbl is the promised insertion, or a failure that herror records. *)
LEMMA PutPromised == ASSUME IInv, Put PROVE Promise!Next
<1> DEFINE s == Landing(item, {NULL, item})
           k == item
<1>1. pc = "put" /\ pc' = "ready" /\ k \in Keys
  BY DEF Put, IInv, TypeOK
<1>2. currentsz \in Nat /\ htbl \in [0..currentsz-1 -> Entry] /\ s \in 0..currentsz-1
  BY <1>1, AlwaysRoom, LandingFacts
<1>3. CASE /\ htbl[s] = NULL
           /\ htbl' = [htbl EXCEPT ![s] = k]
           /\ result' = k
           /\ UNCHANGED herror
  <2>1. Write(htbl', htbl, currentsz, s, k) /\ htbl[s] = NULL
    BY <1>1, <1>2, <1>3, WriteExcept DEF Entry
  <2>2. Live(htbl') = Live(htbl) \cup {k}
    <3> HIDE DEF s, k
    <3> QED
      BY <1>1, <1>2, <2>1, UsedPut
  <2>3. Promise!Insert(k)
    BY <1>1, <1>3, <2>2 DEF Promise!Insert, Live
  <2> QED
    BY <1>1, <2>3 DEF Promise!Next
<1>4. CASE htbl' = htbl /\ herror' = herror \cup {"NOMEM"} /\ result' = NULL
  <2>1. Promise!InsertFails
    BY <1>1, <1>4 DEF Promise!InsertFails, Live
  <2> QED
    BY <2>1 DEF Promise!Next
<1>5. CASE /\ htbl[s] # NULL
           /\ result' = IF htbl[s] = k THEN k ELSE NULL
           /\ UNCHANGED <<htbl, herror>>
  <2>1. CASE htbl[s] = k
    <3>1. k \in Live(htbl)
      BY <1>1, <1>2, <2>1 DEF Live
    <3>2. Promise!Insert(k)
      BY <1>1, <1>5, <2>1, <3>1 DEF Promise!Insert, Live
    <3> QED
      BY <1>1, <3>2 DEF Promise!Next
  <2>2. CASE htbl[s] # k
    <3>1. herror # {}
      BY <1>1, <1>5, <2>2, LandingFacts
    <3>2. Promise!InsertFails
      BY <1>1, <1>5, <2>2, <3>1 DEF Promise!InsertFails, Live
    <3> QED
      BY <3>2 DEF Promise!Next
  <2> QED
    BY <2>1, <2>2
<1> QED
  BY <1>3, <1>4, <1>5 DEF Put

(* Swapping in the new table keeps every entry, or loses some when herror
   was set before (hashlib.c:242, 291). *)
LEMMA EndPromised == ASSUME IInv, EndReorganize PROVE [Promise!Next]_(Promise!vars)
<1>1. /\ pc = "moving" /\ pc' = "put" /\ htbl' = htbl /\ herror' = herror /\ result' = result
      /\ j = oldsize
  BY DEF EndReorganize
<1>2. /\ oldtbl \in [0..oldsize-1 -> Entry] /\ oldsize \in Nat
  BY <1>1, OldRoom
<1>3. OldKeys = Live(oldtbl)
  BY <1>1, <1>2 DEF OldKeys, OldLive, Live
<1>4. Live(htbl) \subseteq Live(oldtbl) /\ (herror = {} => Live(htbl) = Live(oldtbl))
  BY <1>1, <1>3 DEF IInv, Moving
<1>5. CASE herror = {}
  BY <1>1, <1>4, <1>5 DEF Promise!vars, Live
<1>6. CASE herror # {}
  <2>1. Promise!Lose
    BY <1>1, <1>4, <1>6 DEF Promise!Lose, Live
  <2> QED
    BY <2>1 DEF Promise!Next
<1> QED
  BY <1>5, <1>6

(* hshdelete is the promised deletion: it removes k and only k. *)
LEMMA DeletePromised == ASSUME IInv, NEW k \in Keys, HshDelete(k) PROVE Promise!Next
<1> DEFINE p == huntup(k)
<1>1. /\ pc = "ready" /\ pc' = "ready" /\ herror' = herror /\ result' = htbl[p]
      /\ htbl[p] # NULL => htbl' = [htbl EXCEPT ![p] = DELETED]
      /\ htbl[p] = NULL => htbl' = htbl
  BY DEF HshDelete, Tombstone
<1>2. /\ currentsz \in Sizes /\ currentsz \in Nat /\ htbl \in [0..currentsz-1 -> Entry] /\ p \in 0..currentsz-1
      /\ htbl[p] \in {NULL, k} /\ (htbl[p] = k <=> k \in Live(htbl))
      /\ ReachIn(htbl, currentsz)
  BY AlwaysRoom, HuntFacts DEF IInv
<1> HIDE DEF p
<1>3. CASE htbl[p] = NULL
  <2>1. k \notin Live(htbl)
    BY <1>2, <1>3, KeysAssumption
  <2>2. Promise!Delete(k)
    BY <1>1, <1>3, <2>1 DEF Promise!Delete, Promise!Answer, Live
  <2> QED
    BY <2>2 DEF Promise!Next
<1>4. CASE htbl[p] # NULL
  <2>1. htbl[p] = k /\ k \in Live(htbl)
    BY <1>2, <1>4
  <2>2. \A q \in 0..currentsz-1 : q # p => htbl[q] # k
    BY <1>2, <2>1, ReachUnique
  <2>3. \A q \in 0..currentsz-1 : htbl'[q] = IF q = p THEN DELETED ELSE htbl[q]
    BY <1>1, <1>2, <1>4
  <2>4. DOMAIN htbl' = 0..currentsz-1 /\ DOMAIN htbl = 0..currentsz-1
    BY <1>1, <1>2, <1>4
  <2>5. Live(htbl') = Live(htbl) \ {k}
    BY <1>2, <2>1, <2>2, <2>3, <2>4, KeysAssumption DEF Live
  <2>6. Promise!Delete(k)
    BY <1>1, <2>1, <2>5 DEF Promise!Delete, Promise!Answer, Live
  <2> QED
    BY <2>6 DEF Promise!Next
<1> QED
  BY <1>3, <1>4

(* Every step of hashlib.c is a step of the promise or invisible to it. *)
LEMMA StepPromised == IInv /\ [Next]_vars => [Promise!Next]_(Promise!vars)
<1> SUFFICES ASSUME IInv, [Next]_vars PROVE [Promise!Next]_(Promise!vars)
  OBVIOUS
<1>1. ASSUME NEW k \in Keys, HshInsert(k) PROVE UNCHANGED Promise!vars
  BY <1>1 DEF HshInsert, table, locals, Promise!vars, Live
<1>2. ASSUME NEW k \in Keys, BeginReorganize(k) PROVE UNCHANGED Promise!vars
  BY <1>2 DEF BeginReorganize, Promise!vars, Live
<1>3. ASSUME NEW k \in Keys, ReorganizeFails(k) PROVE Promise!Next
  <2>1. Promise!InsertFails
    BY <1>3 DEF ReorganizeFails, Promise!InsertFails, Live
  <2> QED
    BY <2>1 DEF Promise!Next
<1>4. CASE MoveEntry
  BY <1>4 DEF MoveEntry, Promise!vars, Live
<1>5. CASE EndReorganize
  BY <1>5, EndPromised
<1>6. CASE SanityFails
  <2>1. Promise!InsertFails
    BY <1>6 DEF SanityFails, Promise!InsertFails, Live
  <2> QED
    BY <2>1 DEF Promise!Next
<1>7. CASE Put
  BY <1>7, PutPromised
<1>8. ASSUME NEW k \in Keys, HshFind(k) PROVE Promise!Next
  <2>1. Promise!Find(k)
    BY <1>8, HuntFacts, KeysAssumption DEF HshFind, table, Promise!Find, Promise!Answer, Live
  <2> QED
    BY <2>1 DEF Promise!Next
<1>9. ASSUME NEW k \in Keys, HshDelete(k) PROVE Promise!Next
  BY <1>9, DeletePromised
<1>10. CASE UNCHANGED vars
  BY <1>10 DEF vars, table, locals, Promise!vars, Live
<1> QED
  BY <1>1, <1>2, <1>3, <1>4, <1>5, <1>6, <1>7, <1>8, <1>9, <1>10 DEF Next, Reorganize

(* The open-addressed table implements a set of keys: what hshinsert,
   hshfind and hshdelete return and keep is what KeyStore allows. *)
THEOREM TableKeepsPromise == Spec => PromiseSpec
<1>1. Spec => Promise!Init /\ [][Promise!Next]_(Promise!vars)
  BY KeptStart, StepPromised, Inductive, PTL DEF Spec
<1> QED
  BY <1>1 DEF PromiseSpec, Promise!Spec
=============================================================================

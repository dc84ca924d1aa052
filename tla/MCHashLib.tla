----------------------------- MODULE MCHashLib -----------------------------
(* Small instances of HashLib: tables of 5 and 7 slots, about half of each *)
(* kept free, so that a fourth item makes the table grow.                  *)
EXTENDS HashLib

CONSTANTS a, b, c, d

MCHashFns   == {[k \in Keys |-> 0], [k \in Keys |-> IF k \in {a, b} THEN 3 ELSE 4]}
MCRehashFns == {[k \in Keys |-> 0], [k \in Keys |-> IF k = a THEN 1 ELSE 2]}

MCPrimeTable == <<7>>

MCMallocsFail == {TRUE, FALSE}

(* The table of hashlib.c:107-111: every size is a prime, so that a probe  *)
(* sequence reaches every slot.                                            *)
primetbl == <<45, 45, 41, 45, 45, 45, 45, 49, 57, 49,
              41, 45, 59, 55, 57, 61, 63, 61, 45, 79>>

Composite(p) == \E f \in 2..12000 : f * f <= p /\ p % f = 0

ASSUME PrimesArePrime == \A i \in 1..20 : ~Composite(2^(7 + i) - primetbl[i])
=============================================================================

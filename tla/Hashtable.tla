----------------------------- MODULE Hashtable ------------------------------
(***************************************************************************)
(* The open-addressing hash table of librsync (src/src/hashtable.h and     *)
(* hashtable.c) in the form in which src/src/sumset.c instantiates it: the *)
(* entries are the blocks of a signature, the hash of a block is its weak  *)
(* sum, and a match compares the strong sums only.                         *)
(*                                                                         *)
(* A hash is a word of HashBits bits (32 in the code).  An entry of the    *)
(* table is the number of a block, counted from 1; 0 is the null pointer,  *)
(* and a key of 0 marks an empty bucket.  The tables are used by module    *)
(* Sumset.                                                                 *)
(***************************************************************************)
EXTENDS Integers, Sequences

CONSTANT HashBits   \* width of a hash

ASSUME HashAssumption == HashBits \in Nat \ {0}

\* The powers of two, as far as they are used.
ASSUME HashPowers == 2 ^ 0 = 1 /\ \A b \in 0 .. HashBits : 2 ^ (b + 1) = 2 * 2 ^ b

UINT_MAX == 2 ^ HashBits - 1

HASHTABLE_LOADFACTOR_NUM == 7
HASHTABLE_LOADFACTOR_DEN == 10

\* Hashes are never zero.
nozero(h) == IF h # 0 THEN h ELSE UINT_MAX

\* A block of a signature: its weak sum is its hash.
KEY_HASH(b) == nozero(b.weak_sum)

-----------------------------------------------------------------------------
\* _hashtable_new: the next power of two that keeps the load below the limit.
Wanted(size) == 1 + (size * HASHTABLE_LOADFACTOR_DEN) \div HASHTABLE_LOADFACTOR_NUM

hashtable_new(size) ==
    LET bits2 == CHOOSE b \in 1 .. HashBits :
                    /\ 2 ^ b >= Wanted(size)
                    /\ \A c \in 1 .. b - 1 : 2 ^ c < Wanted(size)
    IN  [size |-> 2 ^ bits2, count |-> 0, bshift |-> HashBits - bits2,
         kbloom |-> {},
         ktable |-> [i \in 0 .. 2 ^ bits2 - 1 |-> 0],
         etable |-> [i \in 0 .. 2 ^ bits2 - 1 |-> 0]]

\* The Bloom filter, as the set of its bits that are on, is indexed by the upper
\* bits of a hash.
hashtable_setbloom(tab, h) == [tab EXCEPT !.kbloom = @ \cup {h \div 2 ^ tab.bshift}]
\* Mutant: the filter is asked by the lower bits.
GetbloomLow(tab, h) == h % tab.size \in tab.kbloom

hashtable_getbloom(tab, h) == h \div 2 ^ tab.bshift \in tab.kbloom

\* Mutant: step s advances to the square of s.
ProbeSquares(tab, hk, s) == (hk + s * s) % tab.size

\* _for_probe: the bucket of hash hk after s steps; step s advances by s.
Probe(tab, hk, s) == (hk + (s * (s + 1)) \div 2) % tab.size

\* The loop ends at the first empty bucket.  The probes repeat after twice the
\* size of the table, so a loop that has not ended by then never does.
ProbeEnds(tab, hk) == \E s \in 0 .. 2 * tab.size - 1 : tab.ktable[Probe(tab, hk, s)] = 0
EmptyAt(tab, hk) ==
    CHOOSE s \in 0 .. 2 * tab.size - 1 :
        /\ tab.ktable[Probe(tab, hk, s)] = 0
        /\ \A r \in 0 .. s - 1 : tab.ktable[Probe(tab, hk, r)] # 0

\* hashtable_add: entry e with hash he.  It refuses to fill the last bucket.
hashtable_add(tab, he, e) ==
    IF tab.count + 1 = tab.size THEN tab
    ELSE LET b == hashtable_setbloom(tab, he)
             i == Probe(b, he, EmptyAt(b, he))
         IN  [b EXCEPT !.count = @ + 1, !.ktable[i] = he, !.etable[i] = e]

\* hashtable_find: the first entry on the way with the same hash that is one of
\* the matching entries, 0 if there is none.
hashtable_find(tab, hm, matching) ==
    LET hits == {s \in 0 .. EmptyAt(tab, hm) - 1 :
                    /\ tab.ktable[Probe(tab, hm, s)] = hm
                    /\ tab.etable[Probe(tab, hm, s)] \in matching}
    IN  IF ~hashtable_getbloom(tab, hm) \/ hits = {} THEN 0
        ELSE tab.etable[Probe(tab, hm, CHOOSE s \in hits : \A r \in hits : s <= r)]

\* hashtable_next: the next entry e from index i on, 0 if there is none, and the
\* index after it; hashtable_iter: the first entry.
hashtable_next(tab, i) ==
    LET full == {k \in i .. tab.size - 1 : tab.etable[k] # 0}
        k == CHOOSE k \in full : \A m \in full : k <= m
    IN  IF full = {} THEN [e |-> 0, i |-> tab.size] ELSE [e |-> tab.etable[k], i |-> k + 1]

hashtable_iter(tab) == hashtable_next(tab, 0)

=============================================================================

------------------------------- MODULE Sumset -------------------------------
(***************************************************************************)
(* The index of a signature (src/src/sumset.c): rs_build_hash_table enters *)
(* the blocks into a hash table, one at a time and each only if it is not  *)
(* there yet, and rs_signature_find_match looks up a weak sum and a strong *)
(* sum in it.  The blocks are those that a loadsig job has read, with the  *)
(* weak sums already mixed.                                                *)
(*                                                                         *)
(* The other client of a hash table fills one without looking for entries  *)
(* first, as tests/hashtable_test.c does: it adds blocks, equal ones too,  *)
(* until the table refuses them or it has no more.  In the end a loop may  *)
(* go over the entries of either table.                                    *)
(***************************************************************************)
EXTENDS Hashtable

CONSTANTS
    WeakSums,       \* the weak sums and the strong sums of the signature's blocks
    StrongSums,
    MaxBlocks,      \* bound on the number of those
    block_len,
    FillWeakSums,   \* the weak sums of the blocks that fill a table
    Requests,       \* the sizes that such a table is asked for
    MaxFill         \* bound on the number of those blocks

\* A size is an int in the code and a hash unsigned, so that no table has more
\* buckets than there are hashes.
ASSUME SumsetAssumption ==
    /\ block_len \in Nat \ {0} /\ MaxBlocks \in Nat /\ MaxFill \in Nat /\ Requests \subseteq Nat
    /\ WeakSums \cup FillWeakSums \subseteq 0 .. UINT_MAX
    /\ \A size \in (0 .. MaxBlocks) \cup Requests : Wanted(size) <= 2 ^ HashBits

VARIABLES
    blocks,         \* the blocks, [weak_sum, strong_sum], in order
    hashtable,      \* the table
    phase,          \* "new", "build" or "ready" for a signature; or "fill"
    entered,        \* how many of the blocks have been entered
    loop,           \* index i (-1 before the loop) and entry e (0 after it) of a
                    \* loop over the entries
    visited         \* the entries that it has gone over

sumset_vars == <<blocks, hashtable, phase, entered, loop, visited>>

Block(weak_sums) == [weak_sum : weak_sums, strong_sum : StrongSums]

SumsetInit ==
    /\ entered = 0
    /\ \/ /\ phase = "new" /\ hashtable = hashtable_new(0)
          /\ blocks \in UNION {[1 .. n -> Block(WeakSums)] : n \in 0 .. MaxBlocks}
       \/ /\ phase = "fill" /\ hashtable \in {hashtable_new(n) : n \in Requests}
          /\ blocks = <<>>
    /\ loop = [e |-> 0, i |-> -1] /\ visited = <<>>

\* rs_block_match_cmp: only the strong sums are compared.
Matching(strong_sum) == {e \in 1 .. Len(blocks) : blocks[e].strong_sum = strong_sum}

\* rs_build_hash_table.
BuildNew ==
    /\ phase = "new"
    /\ hashtable' = hashtable_new(Len(blocks))
    /\ phase' = "build" /\ entered' = 0
    /\ UNCHANGED <<blocks, loop, visited>>

\* Mutant: blocks are added without looking for equal ones.
BuildDuplicates ==
    /\ phase = "build" /\ entered < Len(blocks)
    /\ hashtable' = hashtable_add(hashtable, KEY_HASH(blocks[entered + 1]), entered + 1)
    /\ entered' = entered + 1
    /\ UNCHANGED <<blocks, phase, loop, visited>>

BuildBlock ==
    /\ phase = "build" /\ entered < Len(blocks)
    /\ LET b == blocks[entered + 1]
       IN  hashtable' = IF hashtable_find(hashtable, KEY_HASH(b), Matching(b.strong_sum)) = 0
                          THEN hashtable_add(hashtable, KEY_HASH(b), entered + 1) ELSE hashtable
    /\ entered' = entered + 1
    /\ UNCHANGED <<blocks, phase, loop, visited>>

BuildDone ==
    /\ phase = "build" /\ entered >= Len(blocks)
    /\ phase' = "ready"
    /\ UNCHANGED <<blocks, hashtable, entered, loop, visited>>

rs_signature_find_match(weak_sum, strong_sum) ==
    LET b == hashtable_find(hashtable, nozero(weak_sum), Matching(strong_sum))
    IN  IF b # 0 THEN (b - 1) * block_len ELSE -1

\* The other client adds a block, which is refused when the table is full.
Fill(b) ==
    /\ phase = "fill" /\ Len(blocks) < MaxFill /\ loop.i = -1
    /\ LET after == hashtable_add(hashtable, KEY_HASH(b), Len(blocks) + 1)
       IN  /\ hashtable' = after
           /\ blocks' = IF after = hashtable THEN blocks ELSE Append(blocks, b)
    /\ entered' = Len(blocks')
    /\ UNCHANGED <<phase, loop, visited>>

\* for (e = hashtable_iter(t, &i); e != NULL; e = hashtable_next(t, &i))
Visit(next) ==
    /\ loop' = next
    /\ visited' = IF next.e = 0 THEN visited ELSE Append(visited, next.e)
    /\ UNCHANGED <<blocks, hashtable, phase, entered>>

VisitFirst == phase \in {"ready", "fill"} /\ loop.i = -1 /\ Visit(hashtable_iter(hashtable))

VisitNext == loop.e # 0 /\ Visit(hashtable_next(hashtable, loop.i))

LoopEnded == loop.i # -1 /\ loop.e = 0

SumsetNext ==
    \/ BuildNew \/ BuildBlock \/ BuildDone
    \/ \E b \in Block(FillWeakSums) : Fill(b)
    \/ VisitFirst \/ VisitNext
    \/ LoopEnded /\ UNCHANGED sumset_vars

SumsetSpec == SumsetInit /\ [][SumsetNext]_sumset_vars

-----------------------------------------------------------------------------
Words == 0 .. UINT_MAX

\* The blocks entered so far with a hash and a strong sum, and the first of them
\* or 0.
Same(h, strong) ==
    {k \in 1 .. entered : KEY_HASH(blocks[k]) = h /\ blocks[k].strong_sum = strong}
First(S) == IF S = {} THEN 0 ELSE CHOOSE k \in S : \A m \in S : k <= m

\* What the table holds: of a signature, the first block with each pair of sums;
\* of the other client, all the blocks.
Held ==
    IF phase = "fill" THEN 1 .. entered
    ELSE {k \in 1 .. entered : First(Same(KEY_HASH(blocks[k]), blocks[k].strong_sum)) = k}

\* However full the table is, every probe meets an empty bucket: hashtable_find
\* and hashtable_add come to an end for every hash, also one that collides with
\* all the entries.
ProbesEnd == \A h \in Words \ {0} : ProbeEnds(hashtable, h)

\* The definition of a lookup: the position of the first block with these sums.
\* The weak sums 0 and UINT_MAX are not told apart by the table.
Lookup(weak_sum, strong_sum) ==
    LET k == First(Same(nozero(weak_sum), strong_sum))
    IN  IF k = 0 THEN -1 ELSE (k - 1) * block_len

\* The table finds exactly what a search through the list of blocks entered so
\* far would find, for every weak sum, whether weak sums collide, blocks are
\* equal or the table is full: no match is lost and none is invented, and the
\* Bloom filter never hides an entry.
MatchIsFirstBlock ==
    \A w \in Words, s \in StrongSums : rs_signature_find_match(w, s) = Lookup(w, s)

\* Iterating over the table visits no entry twice and in the end has visited all
\* of them, as many as the table counts.  What a signature's table holds is the
\* first block with each pair of sums: it was never too full for a block, whose
\* refusal by hashtable_add would go unnoticed.  The other client's table holds
\* all the blocks that it was given.
EntriesDistinct ==
    /\ \A m, n \in 1 .. Len(visited) : visited[m] = visited[n] => m = n
    /\ LoopEnded =>
         /\ Len(visited) = hashtable.count
         /\ {visited[n] : n \in 1 .. Len(visited)} = Held

=============================================================================

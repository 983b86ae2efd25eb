------------------------------ MODULE Weaksum -------------------------------
(***************************************************************************)
(* The two rolling checksums of librsync behind the weaksum interface of   *)
(* src/src/checksum.h: the rsync rollsum (rollsum.h, rollsum.c) and        *)
(* RabinKarp (rabinkarp.h, rabinkarp.c).                                   *)
(*                                                                         *)
(* The words are unsigned and wrap around.  Their widths are parameters:   *)
(* the two halves of a rollsum are taken modulo RollMod (2^16 when the     *)
(* digest is formed), a RabinKarp hash modulo RkMod (2^32).  For a smaller *)
(* power of two the code's multiplier and inverse, taken modulo it, give   *)
(* the low-order bits of the code's hash: taking a residue commutes with   *)
(* the additions and multiplications that the hash is made of.             *)
(***************************************************************************)
EXTENDS Integers, Sequences

CONSTANTS
    RollMod,        \* 2^16
    RkMod,          \* 2^32
    RABINKARP_MULT, \* 0x08104225
    RABINKARP_INVM, \* 0x98f009ad
    mix32(_)        \* the mixing function of hashtable.h, any function on words

ASSUME WeaksumAssumption ==
    /\ RollMod \in Nat \ {0} /\ RkMod \in Nat \ {0}
    /\ RABINKARP_MULT \in Nat /\ RABINKARP_INVM \in Nat
    /\ (RABINKARP_MULT * RABINKARP_INVM) % RkMod = 1

ROLLSUM_CHAR_OFFSET == 31
RABINKARP_SEED == 1
RABINKARP_ADJ == (RABINKARP_MULT - 1) * RABINKARP_SEED

-----------------------------------------------------------------------------
(* rollsum.h and rollsum.c                                                 *)

RollsumInit == [kind |-> "RS_ROLLSUM", count |-> 0, s1 |-> 0, s2 |-> 0]

\* The loop adds the bytes, and the character offset of all of them is added
\* afterwards.
RollsumUpdate(sum, buf) ==
    LET len == Len(buf)
        s1[k \in 0 .. len] == IF k = 0 THEN sum.s1 ELSE (s1[k - 1] + buf[k]) % RollMod
        s2[k \in 0 .. len] == IF k = 0 THEN sum.s2 ELSE (s2[k - 1] + s1[k]) % RollMod
    IN  [sum EXCEPT
          !.s1 = (s1[len] + len * ROLLSUM_CHAR_OFFSET) % RollMod,
          !.s2 = (s2[len] + ((len * (len + 1)) \div 2) * ROLLSUM_CHAR_OFFSET) % RollMod,
          !.count = @ + len]

\* Mutant: the byte that leaves is weighted by one less than the window.
RotateOffByOne(sum, o, i) ==
    LET s1 == (sum.s1 + i - o) % RollMod
    IN  [sum EXCEPT !.s1 = s1,
                    !.s2 = (@ + s1 - (sum.count - 1) * (o + ROLLSUM_CHAR_OFFSET)) % RollMod]

RollsumRotate(sum, o, i) ==
    LET s1 == (sum.s1 + i - o) % RollMod
    IN  [sum EXCEPT !.s1 = s1,
                    !.s2 = (@ + s1 - sum.count * (o + ROLLSUM_CHAR_OFFSET)) % RollMod]

RollsumRollin(sum, i) ==
    LET s1 == (sum.s1 + i + ROLLSUM_CHAR_OFFSET) % RollMod
    IN  [sum EXCEPT !.s1 = s1, !.s2 = (@ + s1) % RollMod, !.count = @ + 1]

RollsumRollout(sum, o) ==
    [sum EXCEPT !.s1 = (@ - (o + ROLLSUM_CHAR_OFFSET)) % RollMod,
                !.s2 = (@ - sum.count * (o + ROLLSUM_CHAR_OFFSET)) % RollMod,
                !.count = @ - 1]

-----------------------------------------------------------------------------
(* rabinkarp.h and rabinkarp.c                                             *)

rabinkarp_init == [kind |-> "RS_RABINKARP", count |-> 0, hash |-> RABINKARP_SEED, mult |-> 1]

\* RABINKARP_MULT_POW2: the multiplier squared i times.
RABINKARP_MULT_POW2 ==
    LET square[i \in 0 .. 31] ==
            IF i = 0 THEN RABINKARP_MULT % RkMod ELSE (square[i - 1] * square[i - 1]) % RkMod
    IN  square

\* For each bit of n that is set, the answer is multiplied by the table's entry.
\* The code's loop ends when no bit is left; to go on changes nothing.
rabinkarp_pow(n) ==
    LET rest[i \in 0 .. 32] == IF i = 0 THEN n ELSE rest[i - 1] \div 2
        ans[i \in 0 .. 32] ==
            IF i = 0 THEN 1
            ELSE IF rest[i - 1] % 2 = 1 THEN (ans[i - 1] * RABINKARP_MULT_POW2[i - 1]) % RkMod
            ELSE ans[i - 1]
    IN  ans[32]

rabinkarp_update(sum, buf) ==
    LET hash[k \in 0 .. Len(buf)] ==
            IF k = 0 THEN sum.hash ELSE (RABINKARP_MULT * hash[k - 1] + buf[k]) % RkMod
    IN  [sum EXCEPT !.hash = hash[Len(buf)],
                    !.count = @ + Len(buf),
                    !.mult = (@ * rabinkarp_pow(Len(buf))) % RkMod]

rabinkarp_rotate(sum, o, i) ==
    [sum EXCEPT !.hash = (@ * RABINKARP_MULT + i - sum.mult * (o + RABINKARP_ADJ)) % RkMod]

rabinkarp_rollin(sum, i) ==
    [sum EXCEPT !.hash = (@ * RABINKARP_MULT + i) % RkMod,
                !.count = @ + 1,
                !.mult = (@ * RABINKARP_MULT) % RkMod]

rabinkarp_rollout(sum, o) ==
    LET mult == (sum.mult * RABINKARP_INVM) % RkMod
    IN  [sum EXCEPT !.hash = (@ - mult * (o + RABINKARP_ADJ)) % RkMod,
                    !.count = @ - 1,
                    !.mult = mult]

-----------------------------------------------------------------------------
(* checksum.h                                                              *)

Kinds == {"RS_ROLLSUM", "RS_RABINKARP"}

weaksum_init(kind) == IF kind = "RS_ROLLSUM" THEN RollsumInit ELSE rabinkarp_init
weaksum_reset(sum) == weaksum_init(sum.kind)
weaksum_update(sum, buf) ==
    IF sum.kind = "RS_ROLLSUM" THEN RollsumUpdate(sum, buf) ELSE rabinkarp_update(sum, buf)
weaksum_rotate(sum, o, i) ==
    IF sum.kind = "RS_ROLLSUM" THEN RollsumRotate(sum, o, i) ELSE rabinkarp_rotate(sum, o, i)
weaksum_rollin(sum, i) ==
    IF sum.kind = "RS_ROLLSUM" THEN RollsumRollin(sum, i) ELSE rabinkarp_rollin(sum, i)
weaksum_rollout(sum, o) ==
    IF sum.kind = "RS_ROLLSUM" THEN RollsumRollout(sum, o) ELSE rabinkarp_rollout(sum, o)

\* The 32 bits that stand for a window, as they are stored in a signature file.
RollsumDigest(sum) == sum.s2 * RollMod + sum.s1
rabinkarp_digest(sum) == sum.hash

\* Mutant: the digest of a rollsum is not mixed.
DigestUnmixed(sum) ==
    IF sum.kind = "RS_ROLLSUM" THEN RollsumDigest(sum) ELSE rabinkarp_digest(sum)

\* For matching, the digest of a rollsum is mixed ...
weaksum_digest(sum) ==
    IF sum.kind = "RS_ROLLSUM" THEN mix32(RollsumDigest(sum)) ELSE rabinkarp_digest(sum)

\* ... but not the one that is written to a signature file.
rs_calc_weak_sum(kind, buf) ==
    IF kind = "RS_ROLLSUM" THEN RollsumDigest(RollsumUpdate(RollsumInit, buf))
    ELSE rabinkarp_digest(rabinkarp_update(rabinkarp_init, buf))

=============================================================================

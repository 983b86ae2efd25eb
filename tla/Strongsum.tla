----------------------------- MODULE Strongsum ------------------------------
(***************************************************************************)
(* The strong sums of librsync: MD4 (src/src/mdfour.c) and BLAKE2b         *)
(* (src/src/blake2/blake2b-ref.c).                                         *)
(*                                                                         *)
(* What is modelled is everything around the compression functions: which  *)
(* blocks of bytes are compressed, in which order and with which counters  *)
(* and flags.  The compression functions themselves, rs_mdfour64 and       *)
(* blake2b_compress, are fixed mixtures of the state and of a block; here  *)
(* the state is the sequence of everything that was mixed into it.  The    *)
(* sizes of the blocks and of the counters are parameters.                 *)
(***************************************************************************)
EXTENDS Integers, Sequences

CONSTANTS
    MdBlock,            \* 64
    MdCountLen,         \* 8: bytes of the bit count at the end ...
    MdCountRadix,       \* ... and 256, their values
    BLAKE2B_BLOCKBYTES, \* 128
    BlakeCounterMod,    \* 2^64: range of each half of the byte counter
    RS_MAX_STRONG_SUM_LENGTH    \* 32

ASSUME StrongsumAssumption ==
    /\ MdBlock \in Nat /\ MdCountLen \in Nat /\ MdCountLen < MdBlock
    /\ MdCountRadix \in Nat \ {0} /\ RS_MAX_STRONG_SUM_LENGTH \in Nat \ {0}
    /\ BLAKE2B_BLOCKBYTES \in Nat \ {0} /\ BlakeCounterMod \in Nat
    /\ BLAKE2B_BLOCKBYTES < BlakeCounterMod

StrongKinds == {"RS_MD4", "RS_BLAKE2"}

Zeros(n) == [k \in 1 .. n |-> 0]

\* The buffer of a context, buf[1 .. len], with n bytes of in put behind it.
FillIn(buf, len, in, n) ==
    [k \in DOMAIN buf |-> IF len < k /\ k <= len + n THEN in[k - len] ELSE buf[k]]

-----------------------------------------------------------------------------
(* mdfour.c                                                                *)

\* rs_mdfour_begin.
rs_mdfour_begin ==
    [kind |-> "RS_MD4", chain |-> <<>>, totalN |-> 0, tail_len |-> 0, tail |-> Zeros(MdBlock),
     final |-> FALSE]

\* rs_mdfour_block and rs_mdfour64.
rs_mdfour_block(md, block) == [md EXCEPT !.chain = Append(@, block)]

\* rs_mdfour_update: the tail is made up to a whole block, whole blocks of the
\* input follow, and what is left over goes to the tail.
rs_mdfour_update(md, in) ==
    LET n == Len(in)
        gap == MdBlock - md.tail_len
        filled == md.tail_len > 0 /\ gap <= n
        first == [md EXCEPT !.totalN = @ + n, !.tail = FillIn(@, md.tail_len, in, gap)]
        second == IF filled THEN [rs_mdfour_block(first, first.tail) EXCEPT !.tail_len = 0]
                  ELSE [md EXCEPT !.totalN = @ + n]
        from == IF filled THEN gap ELSE 0
        whole == (n - from) \div MdBlock
        blocks == [k \in 1 .. whole |-> SubSeq(in, from + (k - 1) * MdBlock + 1, from + k * MdBlock)]
        rest == SubSeq(in, from + whole * MdBlock + 1, n)
    IN  [second EXCEPT !.chain = @ \o blocks,
                       !.tail = FillIn(@, second.tail_len, rest, Len(rest)),
                       !.tail_len = @ + Len(rest)]

\* copy8: the count in little-endian order, cut to its width.
copy8(x) == [k \in 1 .. MdCountLen |-> (x \div MdCountRadix ^ (k - 1)) % MdCountRadix]

PADDING == [k \in 1 .. MdBlock |-> IF k = 1 THEN 128 ELSE 0]

\* Mutant: no second block when the count just does not fit into the first.
MdfourTailShort(md) ==
    LET room == MdBlock - MdCountLen
        pad_len == IF md.tail_len <= room THEN room - md.tail_len
                   ELSE room + MdBlock - md.tail_len
    IN  rs_mdfour_update(rs_mdfour_update(md, SubSeq(PADDING, 1, pad_len)), copy8(8 * md.totalN))

\* rs_mdfour_tail: padding up to the place of the bit count, in this block or in
\* the next one, and the count of the bytes before the padding.
rs_mdfour_tail(md) ==
    LET room == MdBlock - MdCountLen
        pad_len == IF md.tail_len < room THEN room - md.tail_len
                   ELSE room + MdBlock - md.tail_len
    IN  rs_mdfour_update(rs_mdfour_update(md, SubSeq(PADDING, 1, pad_len)), copy8(8 * md.totalN))

\* rs_mdfour_result; the sum is made of all that was compressed.
rs_mdfour_result(md) == [rs_mdfour_tail(md) EXCEPT !.final = TRUE]

-----------------------------------------------------------------------------
(* blake2b-ref.c                                                           *)

\* blake2b_init_param and blake2b_init: the parameters go into the state.
blake2b_init(outlen) ==
    [kind |-> "RS_BLAKE2", chain |-> <<>>, param |-> <<outlen, 0>>, t |-> <<0, 0>>, f |-> FALSE,
     buflen |-> 0, buf |-> Zeros(BLAKE2B_BLOCKBYTES), outlen |-> outlen, final |-> FALSE]

\* The counter has two words.
blake2b_increment_counter(S, inc) ==
    LET t0 == (S.t[1] + inc) % BlakeCounterMod
    IN  [S EXCEPT !.t = <<t0, IF t0 < inc THEN S.t[2] + 1 ELSE S.t[2]>>]

\* blake2b_compress: the block is mixed in with the counter and the flag.
blake2b_compress(S, block) ==
    [S EXCEPT !.chain = Append(@, [block |-> block, t |-> S.t, f |-> S.f])]

\* Mutant: a block is compressed as soon as it is full, also the last one.
Blake2bUpdateEager(S, in) ==
    LET B == BLAKE2B_BLOCKBYTES
        inlen == Len(in)
        fill == B - S.buflen
        step(s, block) == blake2b_compress(blake2b_increment_counter(s, B), block)
        first == step(S, FillIn(S.buf, S.buflen, in, fill))
        whole == (inlen - fill) \div B
        after[k \in 0 .. whole] ==
            IF k = 0 THEN [first EXCEPT !.buf = FillIn(@, S.buflen, in, fill), !.buflen = 0]
            ELSE step(after[k - 1], SubSeq(in, fill + (k - 1) * B + 1, fill + k * B))
        rest == SubSeq(in, fill + whole * B + 1, inlen)
        last == after[whole]
    IN  IF inlen = 0 THEN S
        ELSE IF inlen < fill
          THEN [S EXCEPT !.buf = FillIn(@, S.buflen, in, inlen), !.buflen = @ + inlen]
        ELSE [last EXCEPT !.buf = FillIn(@, 0, rest, Len(rest)), !.buflen = Len(rest)]

\* blake2b_update: a full block is compressed only once more input is there, so
\* that the last block can be marked as such.
blake2b_update(S, in) ==
    LET B == BLAKE2B_BLOCKBYTES
        inlen == Len(in)
        fill == B - S.buflen
        step(s, block) == blake2b_compress(blake2b_increment_counter(s, B), block)
        first == step(S, FillIn(S.buf, S.buflen, in, fill))
        whole == (inlen - fill - 1) \div B
        after[k \in 0 .. whole] ==
            IF k = 0 THEN [first EXCEPT !.buf = FillIn(@, S.buflen, in, fill), !.buflen = 0]
            ELSE step(after[k - 1], SubSeq(in, fill + (k - 1) * B + 1, fill + k * B))
        rest == SubSeq(in, fill + whole * B + 1, inlen)
        last == after[whole]
    IN  IF inlen = 0 THEN S
        ELSE IF inlen <= fill
          THEN [S EXCEPT !.buf = FillIn(@, S.buflen, in, inlen), !.buflen = @ + inlen]
        ELSE [last EXCEPT !.buf = FillIn(@, 0, rest, Len(rest)), !.buflen = Len(rest)]

\* blake2b_init_key: the key, padded to a block, is the first input.
blake2b_init_key(outlen, key) ==
    blake2b_update([blake2b_init(outlen) EXCEPT !.param = <<outlen, Len(key)>>],
                   key \o Zeros(BLAKE2B_BLOCKBYTES - Len(key)))

\* blake2b_final: the last block is filled up with zeros and marked; a second
\* time it refuses, as it does for a sum that is too short.
blake2b_final(S, outlen) ==
    LET counted == blake2b_increment_counter(S, S.buflen)
        padded == FillIn(S.buf, S.buflen, Zeros(BLAKE2B_BLOCKBYTES), BLAKE2B_BLOCKBYTES - S.buflen)
    IN  IF outlen < S.outlen \/ S.f THEN [result |-> -1, state |-> S]
        ELSE [result |-> 0,
              state |-> [blake2b_compress([counted EXCEPT !.f = TRUE], padded)
                           EXCEPT !.buf = padded, !.final = TRUE]]

-----------------------------------------------------------------------------
(* checksum.c                                                              *)

\* rs_calc_strong_sum and rs_mdfour: a sum in one go.
rs_calc_strong_sum(kind, buf) ==
    IF kind = "RS_MD4" THEN rs_mdfour_result(rs_mdfour_update(rs_mdfour_begin, buf)).chain
    ELSE blake2b_final(blake2b_update(blake2b_init(RS_MAX_STRONG_SUM_LENGTH), buf),
                       RS_MAX_STRONG_SUM_LENGTH).state.chain

=============================================================================

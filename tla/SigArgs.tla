------------------------------ MODULE SigArgs -------------------------------
(***************************************************************************)
(* The parameters of a signature: rs_sig_args and rs_sig_args_check of     *)
(* src/src/sumset.c and sumset.h, with rs_long_ln2 and rs_long_sqrt of     *)
(* util.c.  rs_sig_file calls rs_sig_args with the size of the basis, the  *)
(* job that it starts calls it again with the outcome and no size, and so  *)
(* does the loading of a signature.                                        *)
(*                                                                         *)
(* The lengths of the sums and the default block length are parameters.    *)
(* A size of -1 is unknown.  Lengths are of type size_t: the -1 that asks  *)
(* for the shortest strong sum is the largest value of that type, and is   *)
(* tested for before lengths are compared.                                 *)
(***************************************************************************)
EXTENDS Integers

CONSTANTS
    RS_MD4_SIG_MAGIC, RS_BLAKE2_SIG_MAGIC, RS_RK_MD4_SIG_MAGIC, RS_RK_BLAKE2_SIG_MAGIC,
    RS_MD4_SUM_LENGTH, RS_BLAKE2_SUM_LENGTH, RS_MAX_STRONG_SUM_LENGTH,
    RS_DEFAULT_BLOCK_LEN, RS_DEFAULT_MIN_STRONG_LEN

ASSUME SigArgsAssumption ==
    /\ {RS_MD4_SIG_MAGIC, RS_BLAKE2_SIG_MAGIC, RS_RK_MD4_SIG_MAGIC, RS_RK_BLAKE2_SIG_MAGIC}
         \subseteq Nat
    /\ RS_DEFAULT_BLOCK_LEN \in Nat \ {0} /\ RS_DEFAULT_MIN_STRONG_LEN \in Nat \ {0}
    /\ RS_MAX_STRONG_SUM_LENGTH \in Nat
    /\ \A len \in {RS_MD4_SUM_LENGTH, RS_BLAKE2_SUM_LENGTH} :
          len \in Nat /\ RS_DEFAULT_MIN_STRONG_LEN <= len /\ len <= RS_MAX_STRONG_SUM_LENGTH

MD4Magics == {RS_MD4_SIG_MAGIC, RS_RK_MD4_SIG_MAGIC}
Blake2Magics == {RS_BLAKE2_SIG_MAGIC, RS_RK_BLAKE2_SIG_MAGIC}

\* Mutant: one shift too few.
Ln2OneShort(v) ==
    LET shifts[n \in Nat] == IF n < 4 THEN 0 ELSE 1 + shifts[n \div 2] IN shifts[v]

\* The number of shifts that leave nothing of v but its highest bit.
rs_long_ln2(v) ==
    LET shifts[n \in Nat] == IF n < 2 THEN 0 ELSE 1 + shifts[n \div 2] IN shifts[v]

\* The root, bit by bit from its highest: a bit stays if the square is not too big.
rs_long_sqrt(v) ==
    LET highest[n \in Nat] == IF n < 4 THEN 1 ELSE 2 * highest[n \div 4]
        walk[n \in Nat, b \in Nat] ==
            IF b = 0 THEN n
            ELSE walk[IF (n + b) * (n + b) > v THEN n ELSE n + b, b \div 2]
    IN  walk[0, highest[v]]

\* The recommended block length: the root, rounded down to blocks of BLAKE2b.
RecommendedBlockLen(old_fsize) ==
    CASE old_fsize < 0 -> RS_DEFAULT_BLOCK_LEN
      [] old_fsize \in 0 .. 256 * 256 -> 256
      [] OTHER -> 128 * (rs_long_sqrt(old_fsize) \div 128)

\* The shortest strong sum for a basis of this size: enough bits for comparing
\* each offset of a new file with each block, and two bytes more.
MinStrongLen(old_fsize, block_len) ==
    IF old_fsize < 0 THEN RS_DEFAULT_MIN_STRONG_LEN
    ELSE 2 + (rs_long_ln2(old_fsize + 2^24) + rs_long_ln2(old_fsize \div block_len + 1) + 7) \div 8

\* 0 stands for the recommended magic and block length and for the longest
\* strong sum, -1 for the shortest.  A strong sum shorter than recommended
\* only gets a warning, and is then not compared with the longest.
rs_sig_args(old_fsize, args) ==
    LET magic == IF args.magic # 0 THEN args.magic ELSE RS_RK_BLAKE2_SIG_MAGIC
        max == IF magic \in MD4Magics THEN RS_MD4_SUM_LENGTH ELSE RS_BLAKE2_SUM_LENGTH
        block == IF args.block_len = 0 THEN RecommendedBlockLen(old_fsize) ELSE args.block_len
        min == MinStrongLen(old_fsize, block)
        warned == old_fsize >= 0 /\ args.strong_len < min
    IN  [magic |-> magic, block_len |-> block,
         strong_len |-> CASE args.strong_len = 0 -> max
                          [] args.strong_len = -1 -> min
                          [] OTHER -> args.strong_len,
         result |-> IF magic \notin MD4Magics \cup Blake2Magics THEN "RS_BAD_MAGIC"
                    ELSE IF args.strong_len \notin {0, -1} /\ ~warned /\ args.strong_len > max
                         THEN "RS_PARAM_ERROR"
                    ELSE "RS_DONE"]

\* The assertions that a signature's parameters must satisfy.
rs_sig_args_check(magic, block_len, strong_len) ==
    /\ \/ magic \in MD4Magics /\ strong_len <= RS_MD4_SUM_LENGTH
       \/ magic \in Blake2Magics /\ strong_len <= RS_BLAKE2_SUM_LENGTH
    /\ block_len > 0
    /\ 0 < strong_len /\ strong_len <= RS_MAX_STRONG_SUM_LENGTH

=============================================================================

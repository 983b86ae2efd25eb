----------------------------- MODULE SigFormat ------------------------------
(***************************************************************************)
(* Signatures: the sums of a block (src/src/checksum.c), and what the      *)
(* signature file of a whole basis is.                                     *)
(*                                                                         *)
(* The strong sums are MD4 and BLAKE2 of the library's own or of another   *)
(* implementation; here they are any function StrongSum from a kind and a  *)
(* block to a sequence of RS_MAX_STRONG_SUM_LENGTH bytes.                  *)
(***************************************************************************)
EXTENDS Netint, Weaksum, SigArgs

CONSTANT StrongSum

rs_signature_weaksum_kind(magic) ==
    IF magic \in {RS_MD4_SIG_MAGIC, RS_BLAKE2_SIG_MAGIC} THEN "RS_ROLLSUM" ELSE "RS_RABINKARP"
rs_signature_strongsum_kind(magic) == IF magic \in MD4Magics THEN "RS_MD4" ELSE "RS_BLAKE2"

\* The strong sum of a block, cut to the length of the signature.
StrongPart(magic, strong_len, block) ==
    SubSeq(StrongSum[<<rs_signature_strongsum_kind(magic), block>>], 1, strong_len)

-----------------------------------------------------------------------------
(* What signatures are made of.                                            *)

\* A basis consists of bytes, and each of its pieces has its strong sums.
Summable(basis) ==
    /\ basis \in Seq(Nat)
    /\ \A m, n \in 1 .. Len(basis) : m <= n =>
          \A kind \in {"RS_MD4", "RS_BLAKE2"} :
            StrongSum[<<kind, SubSeq(basis, m, n)>>] \in [1 .. RS_MAX_STRONG_SUM_LENGTH -> Nat]

\* The types of the arguments; the -1 is that of rs_sig_args.
ArgsOK(x) ==
    x.magic \in Int /\ x.block_len \in Nat /\ x.strong_len \in Int /\ x.strong_len >= -1

-----------------------------------------------------------------------------
(* The file as a whole.                                                    *)

\* The blocks of a basis: all of block_len bytes but perhaps the last.
BlocksOf(basis, block_len) ==
    [k \in 1 .. (Len(basis) + block_len - 1) \div block_len |->
        SubSeq(basis, (k - 1) * block_len + 1,
               IF k * block_len <= Len(basis) THEN k * block_len ELSE Len(basis))]

HeaderOf(a) == Netint(a.magic, 4) \o Netint(a.block_len, 4) \o Netint(a.strong_len, 4)

\* The signature file of a basis for arguments that rs_sig_args accepts.
SignatureOf(basis, args) ==
    LET a == rs_sig_args(-1, args)
        blocks == BlocksOf(basis, a.block_len)
        sums(block) == Netint(rs_calc_weak_sum(rs_signature_weaksum_kind(a.magic), block), 4)
                         \o StrongPart(a.magic, a.strong_len, block)
        file[k \in 0 .. Len(blocks)] ==
            IF k = 0 THEN HeaderOf(a) ELSE file[k - 1] \o sums(blocks[k])
    IN  IF a.result # "RS_DONE" THEN <<>> ELSE file[Len(blocks)]

=============================================================================

------------------------------ MODULE MCMksum -------------------------------
(* Signatures of basis files of up to five bytes.  The longest strong sum     *)
(* has eight bytes, so that the sums of a block and the header are both as    *)
(* long as the tube.                                                          *)
EXTENDS Mksum

MCMix32(h) == h + 1
\* Different for different blocks of the inputs below.
MCStrongSum ==
    [kind \in {"RS_MD4", "RS_BLAKE2"}, block \in UNION {[1 .. n -> 1 .. 5] : n \in 1 .. 5} |->
        [k \in 1 .. 8 |-> (IF kind = "RS_MD4" THEN 0 ELSE 100) + 10 * block[1] + Len(block) + k]]

MCInputs == {<<>>, <<1>>, <<1, 2>>, <<1, 2, 3, 4, 5>>}

\* Both kinds of weak and of strong sums, every default, and arguments that
\* are refused.
Arguments(m, b, s) == [magic |-> m, block_len |-> b, strong_len |-> s]
MCArgs == {Arguments(0, 0, 0), Arguments(54, 2, -1), Arguments(55, 2, 1), Arguments(70, 2, 4),
           Arguments(71, 3, 0), Arguments(70, 2, 5), Arguments(56, 2, 1)}

=============================================================================

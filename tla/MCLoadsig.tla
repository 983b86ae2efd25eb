----------------------------- MODULE MCLoadsig ------------------------------
(* Signatures of both weak sums, whole, cut off, and with headers that are    *)
(* refused.                                                                   *)
EXTENDS Loadsig

MCMix32(h) == h + 1
MCStrongSum ==
    [kind \in {"RS_MD4", "RS_BLAKE2"}, block \in UNION {[1 .. n -> 1 .. 3] : n \in 1 .. 3} |->
        [k \in 1 .. 8 |-> (IF kind = "RS_MD4" THEN 0 ELSE 100) + 10 * block[1] + Len(block) + k]]

Source(b, m, l, s) ==
    [basis |-> b, args |-> [magic |-> m, block_len |-> l, strong_len |-> s]]
MCSources == {Source(<<>>, 71, 2, 1), Source(<<1, 2, 3>>, 54, 2, 1), Source(<<1, 2, 3>>, 71, 1, 2),
              Source(<<3, 2>>, 55, 1, 0)}

Header(m, l, s) == Netint(m, 4) \o Netint(l, 4) \o Netint(s, 4)

\* The prefixes of a file, and one that ends in the middle of a weak sum.
CutOff == LET file == SignatureOf(<<1, 2, 3>>, [magic |-> 70, block_len |-> 2, strong_len |-> 2])
          IN  {SubSeq(file, 1, n) : n \in 0 .. Len(file)}

\* The magic number 0 and a strong sum of length 0 stand for the defaults in a
\* file, too; the other headers are refused.
MCOtherFiles ==
    CutOff \cup {Header(0, 2, 0), Header(0, 2, 4), Header(56, 2, 1), Header(71, 0, 1),
                 Header(71, 32768, 1), Header(54, 2, 5), Header(71, 2, 9), Header(71, 2, 40000)}

MCSigFsizes == {-1, 0, 18}

=============================================================================

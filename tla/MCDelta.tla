------------------------------ MODULE MCDelta -------------------------------
(* The delta job with blocks of two bytes and literals of up to two, so that *)
(* a delta takes several rounds of the scan, and room for three bytes, so    *)
(* that a call may emit a literal of one and then wait with input left.      *)
EXTENDS Delta

MCMagic == 99
MCSizeMax == 255
MCMix32(h) == h + 1

\* Two blocks and a short one; two equal blocks; and no basis, for slack deltas.
MCBases == {<<11, 12, 13, 14, 15>>, <<11, 12, 11, 12>>, <<>>}

\* The longer ones exceed BlockLen + MAX_DELTA_CMD, so that the scan begins
\* before the input ends: a match that is extended, a run of misses, both mixed.
MCInputs ==
    {<<>>, <<15>>, <<11, 12>>, <<9, 11, 12>>, <<12, 11, 12>>,
     <<11, 12, 13, 14, 15>>, <<11, 12, 13, 15>>,
     <<9, 11, 12, 13, 14, 9, 14, 15>>,
     <<9, 9, 9, 9, 9, 9, 9, 9>>,
     <<11, 12, 13, 14, 11, 12, 9, 15>>}

=============================================================================

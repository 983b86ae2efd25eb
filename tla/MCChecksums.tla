---------------------------- MODULE MCChecksums -----------------------------
(* Windows of up to four bytes, at the ends and in the middle of their range. *)
(* The multiplier and its inverse are those of the code modulo 2^14.          *)
(* Messages of several blocks of four bytes: the count of MD4 runs over at 32 *)
(* bytes, the counter of BLAKE2b at 16.                                       *)
EXTENDS Checksums

MCMix32(h) == h + 1
MCKeys == {<<>>, <<91>>, <<91, 92, 93, 94>>}

=============================================================================

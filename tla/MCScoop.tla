------------------------------ MODULE MCScoop -------------------------------
(* The scoop on a short stream.  The allocation sizes 64, 128, 256, ... are  *)
(* scaled down to 2, 4, 8, so that a stream of MCStreamLen bytes meets every *)
(* combination of resize, move and append.                                   *)
EXTENDS Scoop

MCStreamLen == 6
MCMaxRead == 6
MCScoopSizes == {2, 4, 8}

=============================================================================

------------------------------ MODULE MCPatch -------------------------------
(* The patch job on deltas of up to two commands before the END command,     *)
(* and on what is left of them when they are cut off.  A byte of a network   *)
(* integer has four values, and a literal of up to two bytes is an immediate *)
(* one.                                                                      *)
EXTENDS Patch

MCMagic == 99
MCBasis == <<21, 22, 23, 24>>

\* Literals of either form.
Literals == {<<1, 31>>, <<2, 32, 33>>, <<4, 0, 3, 34, 35, 36>>}

\* Copies: inside the basis, in two widths, and running past its end.
Copies == {<<7, 1, 3>>, <<11, 0, 0, 1>>, <<7, 3, 2>>}

\* Commands that are refused: a literal of length 0 or of negative length, a
\* copy of length 0 or from a negative position, a reserved command byte.
Bogus == {<<3, 0>>, <<6, 2, 0, 0, 0, 0, 0, 0, 0>>, <<7, 1, 0>>,
          <<19, 3, 0, 0, 0, 0, 0, 0, 0, 1>>, <<23>>}

Complete == {rs_emit_delta_header \o c \o d \o <<0>> : c \in Literals \cup Copies,
                                                      d \in Literals \cup Copies}
Refused == {rs_emit_delta_header \o c \o d : c \in {<<1, 31>>}, d \in Bogus}
CutOff == UNION {{SubSeq(d, 1, n) : n \in 0 .. Len(d) - 1} :
                   d \in {rs_emit_delta_header \o <<4, 0, 3, 34, 35, 36, 7, 1, 3, 0>>}}
BadMagic == {<<1, 2, 0, 1, 0>>}

\* The END command ends the job even if something follows it.
Trailing == {rs_emit_delta_header \o <<1, 31, 0, 41, 42>>}

MCDeltas == Complete \cup Refused \cup CutOff \cup BadMagic \cup Trailing
MCSizeMax == 255

=============================================================================

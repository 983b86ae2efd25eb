----------------------------- MODULE MCPatchFile ----------------------------
(* Patching a file with buffers that are smaller than a command, larger than *)
(* the whole delta, and in between; either file may fail.                     *)
EXTENDS PatchFile

MCMagic == 99
MCBasis == <<21, 22, 23, 24>>
MCSizeMax == 255

\* Literals of both forms and a copy; a copy past the end of the basis; a delta
\* that is cut off; a refused command; bytes after the END command.
MCDeltas == {rs_emit_delta_header \o d :
    d \in {<<2, 31, 32, 7, 1, 3, 0>>, <<3, 3, 33, 34, 31, 0>>, <<7, 3, 2, 0>>,
           <<1, 31, 3, 3, 32>>, <<7, 1, 0>>, <<1, 31, 0, 41, 42, 43, 44>>}}

=============================================================================

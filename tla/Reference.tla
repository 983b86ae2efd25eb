----------------------------- MODULE Reference ------------------------------
(***************************************************************************)
(* What a delta means: applying a whole delta d to a basis, in one go.     *)
(* The patch job (module Patch) computes it piece by piece, and the delta  *)
(* job (module Delta) has to emit a delta whose meaning is the new file.   *)
(***************************************************************************)
EXTENDS Command

CONSTANT SIZE_MAX   \* largest value of a size_t

\* Output and verdict of the commands that follow the first p bytes of d, and the
\* number of bytes up to the last command byte that is looked at.
Commands(d, basis) ==
    LET rest[p \in 0 .. Len(d)] ==
            LET c == rs_prototab(d[p + 1])
                q == p + 1 + c.len_1 + c.len_2
                v1 == IF c.len_1 = 0 THEN c.immediate
                      ELSE NetintValue(SubSeq(d, p + 2, p + 1 + c.len_1))
                v2 == NetintValue(SubSeq(d, p + 2 + c.len_1, q))
                Stop(bytes, v) == [out |-> bytes, verdict |-> v, used |-> p + 1]
                Emit(bytes, next) == [rest[next] EXCEPT !.out = bytes \o @]
            IN  IF p = Len(d) \/ q > Len(d) THEN Stop(<<>>, "RS_INPUT_ENDED")
                ELSE IF c.kind = "END" THEN Stop(<<>>, "RS_DONE")
                ELSE IF c.kind = "LITERAL" THEN
                    IF v1 <= 0 \/ v1 > SIZE_MAX THEN Stop(<<>>, "RS_CORRUPT")
                    ELSE IF q + v1 > Len(d) THEN Stop(SubSeq(d, q + 1, Len(d)), "RS_INPUT_ENDED")
                    ELSE Emit(SubSeq(d, q + 1, q + v1), q + v1)
                ELSE IF c.kind = "COPY" /\ v1 >= 0 /\ v2 > 0 THEN
                    IF v1 + v2 > Len(basis)
                      THEN Stop(SubSeq(basis, v1 + 1, Len(basis)), "RS_INPUT_ENDED")
                      ELSE Emit(SubSeq(basis, v1 + 1, v1 + v2), q)
                ELSE Stop(<<>>, "RS_CORRUPT")
    IN  rest

Apply(d, basis) ==
    IF Len(d) < 4 THEN [out |-> <<>>, verdict |-> "RS_INPUT_ENDED", used |-> Len(d)]
    ELSE IF N4Value(SubSeq(d, 1, 4)) # RS_DELTA_MAGIC
      THEN [out |-> <<>>, verdict |-> "RS_BAD_MAGIC", used |-> 4]
    ELSE Commands(d, basis)[4]

=============================================================================

------------------------------ MODULE Command -------------------------------
(***************************************************************************)
(* The delta stream's encoding: the command table (src/src/prototab.c,     *)
(* prototab.h) and the emission of commands (src/src/emit.c).              *)
(*                                                                         *)
(* MaxImmediate, the longest literal whose length is the command byte      *)
(* itself (64 in the code), is a parameter, so that small instances meet   *)
(* both forms of a literal command.                                        *)
(***************************************************************************)
EXTENDS Netint

CONSTANTS MaxImmediate, RS_DELTA_MAGIC

ASSUME CommandAssumption ==
    /\ \A n \in 0 .. RS_MAX_INT_BYTES : Radix ^ n \in Nat \ {0}
    /\ MaxImmediate \in Nat /\ MaxImmediate >= 1
    /\ RS_DELTA_MAGIC \in Nat /\ RS_DELTA_MAGIC < Radix ^ 4 \div 2   \* it is compared as an int
ASSUME CommandPowers == \A n \in 0 .. RS_MAX_INT_BYTES - 1 : Radix ^ (n + 1) = Radix * Radix ^ n

-----------------------------------------------------------------------------
(* prototab.c                                                              *)

Widths == <<1, 2, 4, 8>>
RS_OP_END == 0
RS_OP_LITERAL_N1 == MaxImmediate + 1
RS_OP_COPY_N1_N1 == MaxImmediate + 5
LastCommand == RS_OP_COPY_N1_N1 + 15

\* The entry of a command byte: its kind, its immediate parameter and the
\* widths of the parameters that follow it.
rs_prototab(op) ==
    IF op = RS_OP_END
      THEN [kind |-> "END", immediate |-> 0, len_1 |-> 0, len_2 |-> 0]
    ELSE IF op <= MaxImmediate
      THEN [kind |-> "LITERAL", immediate |-> op, len_1 |-> 0, len_2 |-> 0]
    ELSE IF op < RS_OP_COPY_N1_N1
      THEN [kind |-> "LITERAL", immediate |-> 0,
            len_1 |-> Widths[(op - RS_OP_LITERAL_N1) + 1], len_2 |-> 0]
    ELSE IF op <= LastCommand
      THEN [kind |-> "COPY", immediate |-> 0,
            len_1 |-> Widths[((op - RS_OP_COPY_N1_N1) \div 4) + 1],
            len_2 |-> Widths[((op - RS_OP_COPY_N1_N1) % 4) + 1]]
    ELSE [kind |-> "RESERVED", immediate |-> op, len_1 |-> 0, len_2 |-> 0]

-----------------------------------------------------------------------------
(* emit.c: the bytes that each function puts into the tube.                *)

WidthIndex(len) == CHOOSE i \in 1 .. 4 : Widths[i] = len

rs_emit_delta_header == Netint(RS_DELTA_MAGIC, 4)

rs_emit_literal_cmd(len) ==
    IF len <= MaxImmediate THEN <<len>>
    ELSE <<RS_OP_LITERAL_N1 + WidthIndex(rs_int_len(len)) - 1>> \o Netint(len, rs_int_len(len))

rs_emit_copy_cmd(where, len) ==
    LET where_bytes == rs_int_len(where)
        len_bytes == rs_int_len(len)
    IN  <<RS_OP_COPY_N1_N1 + 4 * (WidthIndex(where_bytes) - 1) + WidthIndex(len_bytes) - 1>>
            \o Netint(where, where_bytes) \o Netint(len, len_bytes)

rs_emit_end_cmd == <<RS_OP_END>>

=============================================================================

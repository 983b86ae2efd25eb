------------------------------- MODULE Netint -------------------------------
(***************************************************************************)
(* Network integers (src/src/netint.c), in which the numbers of signatures *)
(* and deltas are sent.  Radix, the number of values of a byte of such an  *)
(* integer (256 in the code), is a parameter, so that small instances meet *)
(* every width.  A byte is a natural number.                               *)
(***************************************************************************)
EXTENDS Integers, Sequences

CONSTANT Radix

RS_MAX_INT_BYTES == 8

\* What powers of numbers are is not known to the provers (and in an instance with
\* signatures alone those above the fourth may be out of TLC's reach).
ASSUME NetintAssumption ==
    /\ Radix \in Nat /\ Radix >= 2 /\ Radix % 2 = 0
    /\ \A n \in 0 .. 4 : Radix ^ n \in Nat \ {0}
ASSUME NetintPowers == Radix ^ 0 = 1 /\ \A n \in 0 .. 3 : Radix ^ (n + 1) = Radix * Radix ^ n

\* A value as it sits in an rs_long_t, the widest integer.
Signed(v) ==
    IF v >= Radix ^ RS_MAX_INT_BYTES \div 2 THEN v - Radix ^ RS_MAX_INT_BYTES ELSE v

\* rs_squirt_netint: the len low-order digits of val, most significant first;
\* higher digits are truncated.
Netint(val, len) == [i \in 1 .. len |-> (val \div Radix ^ (len - i)) % Radix]

\* Shift in one byte after the other.
Shifted(bytes) ==
    LET shifted[i \in 0 .. Len(bytes)] ==
            IF i = 0 THEN 0 ELSE shifted[i - 1] * Radix + bytes[i]
    IN  shifted[Len(bytes)]

\* rs_suck_netint; and rs_suck_n4, which puts four bytes into an int.
NetintValue(bytes) == Signed(Shifted(bytes))
N4Value(bytes) ==
    LET v == Shifted(bytes) IN IF v >= Radix ^ 4 \div 2 THEN v - Radix ^ 4 ELSE v

\* rs_int_len: the width that a value is sent in.
rs_int_len(val) ==
    IF val < Radix THEN 1 ELSE IF val < Radix ^ 2 THEN 2 ELSE IF val < Radix ^ 4 THEN 4 ELSE 8

=============================================================================

------------------------------- MODULE Rolling ------------------------------
(***************************************************************************)
(* A weak sum as its clients use it: it follows a window of bytes through  *)
(* any sequence of the operations of checksum.h.  The delta job rotates    *)
(* and rolls out, mksum updates and resets.  The operations are            *)
(* incremental, and each is correct only if all the earlier ones were: the *)
(* sum must be the one that its definition gives for the window, computed  *)
(* from nothing.                                                           *)
(***************************************************************************)
EXTENDS Weaksum

CONSTANTS
    Bytes,          \* the bytes that occur in the window
    MaxWindow       \* bound on the window: lengths fit the argument of rabinkarp_pow

ASSUME RollingAssumption ==
    Bytes \subseteq 0 .. 255 /\ MaxWindow \in Nat /\ MaxWindow \div 65536 < 65536

VARIABLES
    window,         \* the bytes that the sum stands for
    weaksum         \* the weaksum_t

rolling_vars == <<window, weaksum>>

RollingInit == window = <<>> /\ weaksum \in {weaksum_init(kind) : kind \in Kinds}

Reset ==
    /\ window' = <<>>
    /\ weaksum' = weaksum_reset(weaksum)

Update(buf) ==
    /\ Len(window) + Len(buf) <= MaxWindow
    /\ window' = window \o buf
    /\ weaksum' = weaksum_update(weaksum, buf)

Rotate(i) ==
    /\ window # <<>>
    /\ window' = Tail(window) \o <<i>>
    /\ weaksum' = weaksum_rotate(weaksum, Head(window), i)

Rollin(i) ==
    /\ Len(window) < MaxWindow
    /\ window' = Append(window, i)
    /\ weaksum' = weaksum_rollin(weaksum, i)

Rollout ==
    /\ window # <<>>
    /\ window' = Tail(window)
    /\ weaksum' = weaksum_rollout(weaksum, Head(window))

Buffers == UNION {[1 .. n -> Bytes] : n \in 0 .. MaxWindow}

RollingNext ==
    \/ Reset
    \/ \E buf \in Buffers : Update(buf)
    \/ \E i \in Bytes : Rotate(i) \/ Rollin(i)
    \/ Rollout

RollingSpec == RollingInit /\ [][RollingNext]_rolling_vars

-----------------------------------------------------------------------------
(* The definitions of the sums, over a window w of n bytes.                *)

\* The sum of f[1], ..., f[n].
SumTo(f, n) == LET s[k \in 0 .. n] == IF k = 0 THEN 0 ELSE s[k - 1] + f[k] IN s[n]

RollsumOf(w) ==
    LET n == Len(w)
        byte == [k \in 1 .. n |-> w[k] + ROLLSUM_CHAR_OFFSET]
        weighted == [k \in 1 .. n |-> (n - k + 1) * byte[k]]
    IN  (SumTo(weighted, n) % RollMod) * RollMod + (SumTo(byte, n) % RollMod)

Power(n) == LET p[k \in 0 .. n] == IF k = 0 THEN 1 ELSE (p[k - 1] * RABINKARP_MULT) % RkMod IN p[n]

RabinKarpOf(w) ==
    LET n == Len(w)
        weighted == [k \in 1 .. n |-> w[k] * Power(n - k)]
    IN  (RABINKARP_SEED * Power(n) + SumTo(weighted, n)) % RkMod

\* After any sequence of rolling operations the digest is the one of the bytes
\* now in the window, computed from scratch: otherwise the delta job would look
\* up a digest that no block of the signature has.  weaksum_count, from which
\* rs_findmatch takes the length of a match, is the length of the window; and the
\* cached power of a RabinKarp sum, by which the next rollout multiplies, is the
\* one that belongs to that length.
DigestOfWindow ==
    /\ weaksum_digest(weaksum) = IF weaksum.kind = "RS_ROLLSUM" THEN mix32(RollsumOf(window))
                                 ELSE RabinKarpOf(window)
    /\ weaksum.count = Len(window)
    /\ weaksum.kind = "RS_RABINKARP" => weaksum.mult = Power(Len(window))

=============================================================================

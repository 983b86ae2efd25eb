------------------------------- MODULE Message ------------------------------
(***************************************************************************)
(* A strong sum as its clients use it: it is fed a message in pieces and   *)
(* then finished.  In whatever pieces the message comes, the sum must be   *)
(* the one that its definition gives for the whole message.                *)
(***************************************************************************)
EXTENDS Strongsum, SequencesExt

CONSTANTS
    Keys,           \* keys of a BLAKE2b sum; <<>> is none
    MaxMessage      \* bound on the message, whose bytes are numbered

ASSUME MessageAssumption ==
    MaxMessage \in Nat /\ \A key \in Keys : Len(key) \in 0 .. BLAKE2B_BLOCKBYTES

VARIABLES
    message,        \* the bytes that the sum stands for
    sum,            \* the rs_mdfour_t or blake2b_state
    key             \* the key of a BLAKE2b sum

message_vars == <<message, sum, key>>

MessageInit ==
    /\ message = <<>> /\ key \in Keys
    /\ sum \in IF key = <<>> THEN {rs_mdfour_begin, blake2b_init(RS_MAX_STRONG_SUM_LENGTH)}
               ELSE {blake2b_init_key(RS_MAX_STRONG_SUM_LENGTH, key)}

\* The next n bytes of the message of a strong sum.
StrongUpdate(n) ==
    /\ ~sum.final /\ Len(message) + n <= MaxMessage
    /\ LET buf == [k \in 1 .. n |-> Len(message) + k]
       IN  /\ message' = message \o buf
           /\ sum' = IF sum.kind = "RS_MD4" THEN rs_mdfour_update(sum, buf)
                     ELSE blake2b_update(sum, buf)
    /\ UNCHANGED key

\* The end of it.  Only BLAKE2b may be asked twice.
StrongResult ==
    /\ (sum.kind = "RS_MD4" => ~sum.final)
    /\ sum' = IF sum.kind = "RS_MD4" THEN rs_mdfour_result(sum)
              ELSE blake2b_final(sum, RS_MAX_STRONG_SUM_LENGTH).state
    /\ UNCHANGED <<message, key>>

Stopped == sum.final /\ UNCHANGED message_vars

MessageNext == (\E n \in 0 .. MaxMessage : StrongUpdate(n)) \/ StrongResult \/ Stopped

MessageSpec == MessageInit /\ [][MessageNext]_message_vars

-----------------------------------------------------------------------------
(* The definitions of the strong sums, over a whole message m.             *)

\* The b-byte blocks of a message whose length is a multiple of b.
CutInto(m, b) == [k \in 1 .. Len(m) \div b |-> SubSeq(m, (k - 1) * b + 1, k * b)]

\* RFC 1320: a byte 128, as many zeros as it takes, and the length in bits.
MD4Of(m) ==
    LET zeros == CHOOSE z \in 0 .. MdBlock - 1 : (Len(m) + 1 + z + MdCountLen) % MdBlock = 0
        length == [k \in 1 .. MdCountLen |->
                     ((8 * Len(m)) \div MdCountRadix ^ (k - 1)) % MdCountRadix]
    IN  CutInto(m \o <<128>> \o Zeros(zeros) \o length, MdBlock)

\* RFC 7693: the padded key, if there is one, and the message, filled up with
\* zeros to at least one block; each block is compressed with the number of
\* bytes up to its end, padding not counted, and the last one is marked.
BLAKE2Of(k, m) ==
    LET B == BLAKE2B_BLOCKBYTES
        all == (IF k = <<>> THEN <<>> ELSE k \o Zeros(B - Len(k))) \o m
        count == IF all = <<>> THEN 1 ELSE (Len(all) + B - 1) \div B
        blocks == CutInto(all \o Zeros(count * B - Len(all)), B)
        upto(n) == IF n = count THEN Len(all) ELSE n * B
    IN  [n \in 1 .. count |->
           [block |-> blocks[n], f |-> n = count,
            t |-> <<upto(n) % BlakeCounterMod, upto(n) \div BlakeCounterMod>>]]

\* In whatever pieces a message is fed, and also when a piece ends exactly at the
\* end of a block, what the finished sum is computed from is the message padded
\* as the standard says, with the right length or counters, also where those
\* run over from one word to the next.  It is the sum that rs_calc_strong_sum
\* gives for the message in one go.
StrongDigest ==
    sum.final =>
        /\ sum.chain = IF sum.kind = "RS_MD4" THEN MD4Of(message) ELSE BLAKE2Of(key, message)
        /\ key = <<>> => sum.chain = rs_calc_strong_sum(sum.kind, message)

Held == IF sum.kind = "RS_MD4" THEN SubSeq(sum.tail, 1, sum.tail_len)
        ELSE SubSeq(sum.buf, 1, sum.buflen)

\* Until then the blocks that were compressed and what is kept in the buffer are
\* the message so far, with nothing lost or repeated; the buffer has room for
\* another byte or, for BLAKE2b, holds back the last block, which must not be
\* compressed before it is known whether it is the last.
MessageIntact ==
    ~sum.final =>
        LET blocks == IF sum.kind = "RS_MD4" THEN sum.chain
                      ELSE [n \in 1 .. Len(sum.chain) |-> sum.chain[n].block]
            first == IF key = <<>> THEN <<>> ELSE key \o Zeros(BLAKE2B_BLOCKBYTES - Len(key))
        IN  /\ FlattenSeq(blocks) \o Held = first \o message
            /\ sum.kind = "RS_MD4" => Len(Held) < MdBlock
            /\ sum.kind = "RS_BLAKE2" =>
                  /\ Len(Held) > 0 \/ sum.chain = <<>>
                  /\ \A n \in 1 .. Len(sum.chain) : ~sum.chain[n].f

=============================================================================

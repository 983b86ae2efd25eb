------------------------------- MODULE Scoop --------------------------------
(***************************************************************************)
(* The scoop: readahead from caller-supplied buffers (src/src/scoop.c and  *)
(* the inline functions of src/src/scoop.h), at the level of its memory.   *)
(*                                                                         *)
(* A state function needs len contiguous bytes.  If the caller's buffer    *)
(* alone has them the pointer returned points into that buffer; otherwise  *)
(* the data is accumulated in scoop_buf, which is reallocated when it is   *)
(* too small and whose content is moved to the front when the room behind  *)
(* scoop_next is too small.                                                *)
(*                                                                         *)
(* Memory is a function from offsets to bytes and a byte is its position   *)
(* in the caller's stream (Junk for memory never written), so that a       *)
(* pointer and a length denote the bytes that are really there.  The       *)
(* caller's buffer holds the bytes next_in .. next_in + avail_in - 1.      *)
(***************************************************************************)
EXTENDS Integers

CONSTANTS
    StreamLen,      \* length of the caller's stream
    MaxRead,        \* largest readahead a state function asks for
    ScoopSizes      \* allocation sizes of the scoop: 64, 128, 256, ...

\* In the code every request fits one of the sizes 64 * 2^k, and the doubling
\* loop stops at the least one.
ASSUME SizesAssumption ==
    /\ StreamLen \in Nat
    /\ MaxRead \in Nat \ {0} /\ StreamLen <= MaxRead
    /\ ScoopSizes \subseteq Nat
    /\ \A len \in 0 .. MaxRead :
         \E s \in ScoopSizes :
            s >= len /\ \A t \in ScoopSizes : t >= len => s <= t

VARIABLES
    scoop,          \* the scoop fields of the job and the caller's input buffer:
                    \*   scoop_buf   content of the allocation
                    \*   scoop_alloc its size
                    \*   scoop_next  offset of the first byte yet to be processed
                    \*   scoop_avail number of such bytes
                    \*   next_in     position in the stream of the caller's next byte
                    \*   avail_in    bytes in the caller's buffer
    eof_in,         \* the caller has no more after those
    result,         \* what the last read returned
    ptr,            \* the pointer it returned: the memory (src) and place (off)
                    \* pointed to, and how many bytes (len) may be accessed there
    peek,           \* how many of those were looked at but not consumed
    sent            \* the bytes that the last copy wrote to the output

vars == <<scoop, eof_in, result, ptr, peek, sent>>

Junk == -1

Least(a, b) == IF a <= b THEN a ELSE b

-----------------------------------------------------------------------------
(* scoop.h and scoop.c as functions of the scoop s.                        *)

rs_scoop_avail(s) == s.scoop_avail + s.avail_in

\* Contiguous length of the next input.
rs_scoop_len(s) == IF s.scoop_avail > 0 THEN s.scoop_avail ELSE s.avail_in

\* The size that the doubling loop arrives at.
NewSize(len) ==
    CHOOSE size \in ScoopSizes :
        size >= len /\ \A t \in ScoopSizes : t >= len => size <= t

\* Mutant: the data is not moved to the front of a scoop that is large enough.
RoomNotMoved(s, len) ==
    IF s.scoop_alloc < len
      THEN [s EXCEPT !.scoop_alloc = NewSize(len),
                     !.scoop_next = 0,
                     !.scoop_buf = [k \in 0 .. NewSize(len) - 1 |->
                        IF k < s.scoop_avail THEN s.scoop_buf[s.scoop_next + k] ELSE Junk]]
    ELSE s

\* Make room for len bytes: replace the allocation by a larger one, or move the
\* data to the front of it.
Room(s, len) ==
    IF s.scoop_alloc < len
      THEN [s EXCEPT !.scoop_alloc = NewSize(len),
                     !.scoop_next = 0,
                     !.scoop_buf = [k \in 0 .. NewSize(len) - 1 |->
                        IF k < s.scoop_avail THEN s.scoop_buf[s.scoop_next + k] ELSE Junk]]
    ELSE IF s.scoop_alloc < s.scoop_next + len
      THEN [s EXCEPT !.scoop_next = 0,
                     !.scoop_buf = [k \in 0 .. s.scoop_alloc - 1 |->
                        IF k < s.scoop_avail THEN s.scoop_buf[s.scoop_next + k] ELSE s.scoop_buf[k]]]
    ELSE s

\* Append n bytes of input to the data in the scoop.
Take(s, n) ==
    [s EXCEPT !.scoop_buf = [k \in 0 .. s.scoop_alloc - 1 |->
                  IF s.scoop_next + s.scoop_avail <= k /\ k < s.scoop_next + s.scoop_avail + n
                    THEN s.next_in + (k - (s.scoop_next + s.scoop_avail)) ELSE s.scoop_buf[k]],
              !.scoop_avail = s.scoop_avail + n,
              !.next_in = s.next_in + n,
              !.avail_in = s.avail_in - n]

\* Mutant: more input is accepted than there is.
InputUnlimited(s, len) == Take(Room(s, len), len - s.scoop_avail)

\* Accept input to get up to len bytes in the scoop.
rs_scoop_input(s, len) == Take(Room(s, len), Least(len - s.scoop_avail, s.avail_in))

\* Step over n bytes, in the scoop if there is anything in it.
rs_scoop_advance(s, n) ==
    IF s.scoop_avail > 0
      THEN [s EXCEPT !.scoop_avail = s.scoop_avail - n, !.scoop_next = s.scoop_next + n]
      ELSE [s EXCEPT !.avail_in = s.avail_in - n, !.next_in = s.next_in + n]

\* Mutant: what is in the scoop and in the buffer counts together.
DirectPastScoop(s, len) == s.scoop_avail < len /\ rs_scoop_avail(s) >= len

\* rs_scoop_readahead: straight from the caller's buffer if nothing is in the
\* scoop and the buffer has enough, otherwise by way of the scoop.
Direct(s, len) == s.scoop_avail = 0 /\ s.avail_in >= len
rs_scoop_readahead(s, len) ==
    IF ~Direct(s, len) /\ s.scoop_avail < len /\ s.avail_in > 0
      THEN rs_scoop_input(s, len) ELSE s

\* It succeeds if len bytes are now in one place.
Enough(s, len) == Direct(s, len) \/ rs_scoop_readahead(s, len).scoop_avail >= len

\* What it returns ...
Answer(s, len) ==
    IF Enough(s, len) THEN "RS_DONE" ELSE IF eof_in THEN "RS_INPUT_ENDED" ELSE "RS_BLOCKED"

\* ... and the pointer it stores; NoPointer when there is nothing to access.
NoPointer == [src |-> "input", off |-> 0, len |-> 0]
\* Mutant: the pointer is to the start of the scoop.
PointerToStart(s, len) ==
    IF Direct(s, len) THEN [src |-> "input", off |-> s.next_in, len |-> len]
    ELSE IF Enough(s, len) THEN [src |-> "scoop", off |-> 0, len |-> len]
    ELSE [src |-> "input", off |-> 0, len |-> 0]

Pointer(s, len) ==
    IF Direct(s, len) THEN [src |-> "input", off |-> s.next_in, len |-> len]
    ELSE IF Enough(s, len)
      THEN [src |-> "scoop", off |-> rs_scoop_readahead(s, len).scoop_next, len |-> len]
    ELSE NoPointer

-----------------------------------------------------------------------------
Init ==
    /\ scoop = [scoop_buf |-> [k \in {} |-> Junk], scoop_alloc |-> 0, scoop_next |-> 0,
                scoop_avail |-> 0, next_in |-> 0, avail_in |-> 0]
    /\ eof_in = FALSE
    /\ result = "RS_RUNNING"
    /\ ptr = NoPointer /\ peek = 0
    /\ sent = [i \in {} |-> Junk]

\* Between two calls of rs_job_iter the caller adds n bytes to what is left in
\* its buffer; pointers into the buffer do not survive that.
Supply(n, e) ==
    /\ ~eof_in
    /\ scoop.next_in + scoop.avail_in + n <= StreamLen
    /\ e => scoop.next_in + scoop.avail_in + n = StreamLen
    /\ scoop' = [scoop EXCEPT !.avail_in = @ + n]
    /\ eof_in' = e
    /\ ptr' = NoPointer /\ peek' = 0
    /\ UNCHANGED <<result, sent>>

\* rs_scoop_readahead.
Readahead(len) ==
    /\ scoop' = rs_scoop_readahead(scoop, len)
    /\ result' = Answer(scoop, len)
    /\ ptr' = Pointer(scoop, len)
    /\ peek' = ptr'.len
    /\ UNCHANGED <<eof_in, sent>>

\* rs_scoop_advance over bytes that were looked at; the state function moves
\* its pointer along (delta.c, scan_buf).
Advance(n) ==
    /\ n <= peek
    /\ scoop' = rs_scoop_advance(scoop, n)
    /\ ptr' = [ptr EXCEPT !.off = @ + n, !.len = @ - n]
    /\ peek' = peek - n
    /\ UNCHANGED <<eof_in, result, sent>>

\* rs_scoop_read: the pointer stays where the bytes were.
Read(len) ==
    /\ LET s == rs_scoop_readahead(scoop, len)
       IN  scoop' = IF Enough(scoop, len) THEN rs_scoop_advance(s, len) ELSE s
    /\ result' = Answer(scoop, len)
    /\ ptr' = Pointer(scoop, len)
    /\ peek' = 0
    /\ UNCHANGED <<eof_in, sent>>

\* rs_scoop_read_rest.
ReadRest ==
    \/ rs_scoop_avail(scoop) > 0 /\ Read(rs_scoop_avail(scoop))
    \/ /\ rs_scoop_avail(scoop) = 0
       /\ result' = IF eof_in THEN "RS_INPUT_ENDED" ELSE "RS_BLOCKED"
       /\ ptr' = NoPointer /\ peek' = 0
       /\ UNCHANGED <<scoop, eof_in, sent>>

\* The rs_scoop_iterbuf / rs_scoop_nextbuf loop of rs_tube_catchup_copy: first
\* what is in the scoop, then the rest from the caller's buffer.
CopyThrough(n) ==
    LET first == Least(n, rs_scoop_len(scoop))
        s == rs_scoop_advance(scoop, first)
    IN  /\ n <= rs_scoop_avail(scoop)
        /\ scoop' = IF n > first THEN rs_scoop_advance(s, n - first) ELSE s
        /\ sent' = [i \in 0 .. n - 1 |->
                      IF scoop.scoop_avail > 0 /\ i < first
                        THEN scoop.scoop_buf[scoop.scoop_next + i]
                      ELSE IF scoop.scoop_avail > 0 THEN s.next_in + (i - first)
                      ELSE scoop.next_in + i]
        /\ IF n <= peek
             THEN peek' = peek - n /\ ptr' = [ptr EXCEPT !.off = @ + n, !.len = @ - n]
             ELSE peek' = 0 /\ ptr' = NoPointer
        /\ UNCHANGED <<eof_in, result>>

Next ==
    \/ \E n \in 0 .. StreamLen, e \in BOOLEAN : Supply(n, e)
    \/ \E len \in 0 .. MaxRead : Readahead(len)
    \/ \E len \in 0 .. MaxRead : Read(len)
    \/ ReadRest
    \/ \E n \in 1 .. StreamLen : Advance(n)
    \/ \E n \in 1 .. StreamLen : CopyThrough(n)

Spec == Init /\ [][Next]_vars

-----------------------------------------------------------------------------
Byte == 0 .. StreamLen - 1

\* Every field has its type; the whole allocation is there.
TypeOK ==
    /\ scoop \in [scoop_buf : [0 .. scoop.scoop_alloc - 1 -> Byte \cup {Junk}],
                  scoop_alloc : Nat, scoop_next : Nat, scoop_avail : Nat,
                  next_in : Nat, avail_in : Nat]
    /\ eof_in \in BOOLEAN
    /\ result \in {"RS_RUNNING", "RS_DONE", "RS_BLOCKED", "RS_INPUT_ENDED"}
    /\ ptr \in [src : {"scoop", "input"}, off : Nat, len : Nat]
    /\ peek \in Nat

\* The data in the scoop lies within the allocation and is exactly the part of
\* the stream that precedes the caller's next byte, in order: no resize, move
\* or append of rs_scoop_input, in whatever order they come, loses, repeats or
\* overwrites a byte.
ScoopIntegrity ==
    /\ scoop.scoop_next + scoop.scoop_avail <= scoop.scoop_alloc
    /\ scoop.scoop_avail <= scoop.next_in
    /\ \A i \in 0 .. scoop.scoop_avail - 1 :
         scoop.scoop_buf[scoop.scoop_next + i] = scoop.next_in - scoop.scoop_avail + i

\* What a state function has looked at and not consumed is contiguous, so the
\* assertions of rs_scoop_advance hold: it never steps over "a mixture of bytes
\* from the scoop and input".
PeekContiguous == peek <= rs_scoop_len(scoop)

\* What makes the above inductive.  Bytes are handed over only up to the end of
\* the stream; and the bytes that may still be consumed are the ones behind the
\* pointer, which points to the front of the scoop or, if that is empty, of the
\* caller's buffer.
StreamBound ==
    /\ scoop.next_in + scoop.avail_in <= StreamLen
    /\ eof_in => scoop.next_in + scoop.avail_in = StreamLen
PointerAtFront ==
    peek > 0 =>
        /\ ptr.len = peek
        /\ \/ /\ ptr.src = "scoop" /\ ptr.off = scoop.scoop_next
              /\ peek <= scoop.scoop_avail
           \/ /\ ptr.src = "input" /\ ptr.off = scoop.next_in
              /\ scoop.scoop_avail = 0 /\ peek <= scoop.avail_in

IInv == TypeOK /\ ScoopIntegrity /\ StreamBound /\ PointerAtFront

\* The bytes behind the last pointer returned.
View ==
    [i \in 0 .. ptr.len - 1 |->
        IF ptr.src = "scoop" THEN scoop.scoop_buf[ptr.off + i] ELSE ptr.off + i]

\* The scoop implements the byte stream: every pointer shows, and every copy
\* writes, the bytes of the stream at the cursor, each once and in order.
Stream ==
    INSTANCE ByteStream WITH
        cursor <- scoop.next_in - scoop.scoop_avail,
        have <- rs_scoop_avail(scoop),
        eof <- eof_in,
        view <- View

ImplementsByteStream == Stream!Spec

=============================================================================

----------------------------- MODULE ByteStream -----------------------------
(***************************************************************************)
(* What the input side of a librsync job promises to the state functions   *)
(* (src/src/scoop.c, src/src/scoop.h), with all buffering left out.        *)
(*                                                                         *)
(* The caller owns a stream of StreamLen bytes and hands it over piece by  *)
(* piece.  A job reads it through a cursor: it can look at the next len    *)
(* bytes without taking them, take bytes it has looked at, or have bytes   *)
(* copied through to the output.  Whatever the sizes of the pieces, it     *)
(* sees every byte once and in order.                                      *)
(*                                                                         *)
(* A byte is identified by its position in the stream, so "the right byte" *)
(* is expressed by an equation between positions.                          *)
(***************************************************************************)
EXTENDS Integers

CONSTANTS
    StreamLen,      \* length of the caller's stream
    MaxRead         \* largest readahead a state function asks for

VARIABLES
    cursor,         \* bytes the job has consumed so far
    have,           \* bytes handed over by the caller and not yet consumed
    eof,            \* the caller said that nothing follows them
    result,         \* what the last read returned
    peek,           \* bytes looked at that may still be consumed
    view,           \* the bytes visible through the last pointer returned
    sent            \* the bytes copied through by the last copy

vars == <<cursor, have, eof, result, peek, view, sent>>

\* n consecutive bytes of the stream, starting at position p.
Bytes(p, n) == [i \in 0 .. n - 1 |-> p + i]

\* What a request for len bytes returns.
Answer(len) ==
    IF have >= len THEN "RS_DONE" ELSE IF eof THEN "RS_INPUT_ENDED" ELSE "RS_BLOCKED"

Init ==
    /\ cursor = 0 /\ have = 0 /\ eof = FALSE
    /\ result = "RS_RUNNING" /\ peek = 0
    /\ view = Bytes(0, 0) /\ sent = Bytes(0, 0)

\* The caller adds n bytes, and may say that they are the last ones.
Supply(n, e) ==
    /\ ~eof
    /\ cursor + have + n <= StreamLen
    /\ e => cursor + have + n = StreamLen
    /\ have' = have + n /\ eof' = e
    /\ peek' = 0 /\ view' = Bytes(0, 0)
    /\ UNCHANGED <<cursor, result, sent>>

\* Look at the next len bytes.
Readahead(len) ==
    /\ result' = Answer(len)
    /\ IF have >= len
         THEN peek' = len /\ view' = Bytes(cursor, len)
         ELSE peek' = 0 /\ view' = Bytes(0, 0)
    /\ UNCHANGED <<cursor, have, eof, sent>>

\* Consume n of the bytes looked at; the pointer moves with the cursor.
Advance(n) ==
    /\ n <= peek
    /\ cursor' = cursor + n /\ have' = have - n
    /\ peek' = peek - n /\ view' = Bytes(cursor + n, peek - n)
    /\ UNCHANGED <<eof, result, sent>>

\* Look at the next len bytes and consume them.
Read(len) ==
    /\ result' = Answer(len)
    /\ peek' = 0
    /\ IF have >= len
         THEN cursor' = cursor + len /\ have' = have - len /\ view' = Bytes(cursor, len)
         ELSE view' = Bytes(0, 0) /\ UNCHANGED <<cursor, have>>
    /\ UNCHANGED <<eof, sent>>

\* Copy the next n bytes through to the output.
CopyThrough(n) ==
    /\ n <= have
    /\ cursor' = cursor + n /\ have' = have - n
    /\ sent' = Bytes(cursor, n)
    /\ IF n <= peek
         THEN peek' = peek - n /\ view' = Bytes(cursor + n, peek - n)
         ELSE peek' = 0 /\ view' = Bytes(0, 0)
    /\ UNCHANGED <<eof, result>>

Next ==
    \/ \E n \in 0 .. StreamLen, e \in BOOLEAN : Supply(n, e)
    \/ \E len \in 0 .. MaxRead : Readahead(len) \/ Read(len)
    \/ \E n \in 1 .. StreamLen : Advance(n) \/ CopyThrough(n)

Spec == Init /\ [][Next]_vars

=============================================================================

-------------------------------- MODULE Drive -------------------------------
(***************************************************************************)
(* Running a job to its end between two files: the loop of rs_job_drive    *)
(* (src/src/job.c), the callbacks that fill its input buffer from a file   *)
(* and drain its output buffer to a file (src/src/buf.c), and the choice   *)
(* of buffers by rs_whole_run (src/src/whole.c).                           *)
(*                                                                         *)
(* The buffers are modelled as memory: a byte of the input buffer is its   *)
(* position in the file.  The files are the C library's; fread returns     *)
(* less than it was asked for at the end of the file or on an error,       *)
(* fwrite on an error.  The job itself is that of a module that extends    *)
(* Job; what it has done to the buffers is seen when rs_job_iter returns.  *)
(***************************************************************************)
EXTENDS Job

CONSTANTS
    InBufLens,      \* sizes of the input buffer
    OutBufLens,     \* sizes of the output buffer
    IoFaults,       \* which of "fread" and "fwrite" may fail
    EofResults      \* what an input callback returns at the end of the file:
                    \* RS_DONE (rs_infilebuf_fill); RS_INPUT_ENDED (one that an
                    \* application has written after doc/callbacks.md)

ASSUME DriveAssumption ==
    /\ InBufLens \subseteq Nat \ {0} /\ OutBufLens \subseteq 1 .. MaxOut
    /\ IoFaults \subseteq {"fread", "fwrite"}
    /\ EofResults \subseteq {"RS_DONE", "RS_INPUT_ENDED"}

VARIABLES
    drive,          \* where rs_job_drive is: "fill", "iter", inside rs_job_iter
                    \* ("wait"), "drain", or "returned"
    drive_result,   \* what it returned
    buf,            \* the rs_buffers_t as of the last call of rs_job_iter:
                    \* next_in (an offset), avail_in, eof_in, avail_out, and
                    \* whether next_out has been set
    in_fb,          \* the input's rs_filebuf_t and FILE: buf_len, the buffer buf,
                    \* the position pos in the file, ferror; and what the input
                    \* callback returns at_eof
    out_fb          \* the output's: buf_len, buf (what lies before next_out),
                    \* the content of the file, ferror

driveVars == <<drive, drive_result, buf, in_fb, out_fb>>

Unused == -1        \* memory that was never written

\* rs_whole_run and the start of rs_job_drive.
DriveInit ==
    /\ drive = "fill" /\ drive_result = "RS_RUNNING"
    /\ buf = [next_in |-> 0, avail_in |-> 0, eof_in |-> FALSE, avail_out |-> 0,
              next_out_set |-> FALSE]
    /\ in_fb \in {[buf_len |-> n, buf |-> [k \in 0 .. n - 1 |-> Unused], pos |-> 0,
                   ferror |-> FALSE, at_eof |-> r] : n \in InBufLens, r \in EofResults}
    /\ out_fb \in {[buf_len |-> n, buf |-> <<>>, content |-> <<>>, ferror |-> FALSE] :
                    n \in OutBufLens}

DriveReturns(r) == drive' = "returned" /\ drive_result' = r
DriveGoes(to) == drive' = to /\ UNCHANGED drive_result

-----------------------------------------------------------------------------
(* buf.c                                                                   *)

\* What fread may do when asked for n bytes: read them, as far as there are
\* any, or fail after some of them.
fread(n) ==
    LET most == Lesser(n, Len(input) - in_fb.pos)
    IN  {[len |-> most, ferror |-> FALSE]}
          \cup {[len |-> k, ferror |-> TRUE] : k \in IF "fread" \in IoFaults THEN 0 .. most ELSE {}}

\* fwrite writes all of n bytes, or fails after some of them.
fwrite(n) == {n} \cup (IF "fwrite" \in IoFaults THEN 0 .. n - 1 ELSE {})

\* Mutant: the tail is not moved to the front.
FilledNotMoved(len) ==
    [k \in 0 .. in_fb.buf_len - 1 |->
        IF buf.avail_in <= k /\ k < buf.avail_in + len THEN in_fb.pos + (k - buf.avail_in)
        ELSE in_fb.buf[k]]

\* The input buffer after what was left in it has been moved to the front and
\* len bytes have been read behind it.
Filled(len) ==
    [k \in 0 .. in_fb.buf_len - 1 |->
        IF k < buf.avail_in THEN in_fb.buf[buf.next_in + k]
        ELSE IF k < buf.avail_in + len THEN in_fb.pos + (k - buf.avail_in)
        ELSE in_fb.buf[k]]

\* Full enough, and nothing is read.
InBufFull == buf.avail_in > in_fb.buf_len \div 2

\* Mutant: a short read passes for the end of the file.
FillEndsEarly ==
    /\ drive = "fill"
    /\ IF buf.eof_in \/ InBufFull THEN DriveGoes("iter") /\ UNCHANGED <<buf, in_fb>>
       ELSE \E r \in fread(in_fb.buf_len - buf.avail_in) :
              /\ in_fb' = [in_fb EXCEPT !.buf = Filled(r.len), !.pos = @ + r.len,
                                        !.ferror = @ \/ r.ferror]
              /\ buf' = [buf EXCEPT !.next_in = 0, !.avail_in = @ + r.len,
                                    !.eof_in = r.len < in_fb.buf_len - buf.avail_in]
              /\ DriveGoes("iter")
    /\ UNCHANGED out_fb

\* Mutant: the end of the file goes unnoticed.
FillForgetsEof ==
    /\ drive = "fill"
    /\ IF buf.eof_in \/ InBufFull THEN DriveGoes("iter") /\ UNCHANGED <<buf, in_fb>>
       ELSE \E r \in fread(in_fb.buf_len - buf.avail_in) :
              /\ in_fb' = [in_fb EXCEPT !.buf = Filled(r.len), !.pos = @ + r.len,
                                        !.ferror = @ \/ r.ferror]
              /\ buf' = [buf EXCEPT !.next_in = 0, !.avail_in = @ + r.len]
              /\ IF r.len = 0 /\ r.ferror THEN DriveReturns("RS_IO_ERROR") ELSE DriveGoes("iter")
    /\ UNCHANGED out_fb

\* Called unless the end has been seen.  The end is seen only when nothing was
\* read.  rs_job_drive returns at once when a callback returns anything but
\* RS_DONE.
rs_infilebuf_fill ==
    /\ drive = "fill"
    /\ IF buf.eof_in \/ InBufFull THEN DriveGoes("iter") /\ UNCHANGED <<buf, in_fb>>
       ELSE \E r \in fread(in_fb.buf_len - buf.avail_in) :
              /\ in_fb' = [in_fb EXCEPT !.buf = Filled(r.len), !.pos = @ + r.len,
                                        !.ferror = @ \/ r.ferror]
              /\ buf' = [buf EXCEPT !.next_in = 0, !.avail_in = @ + r.len,
                                    !.eof_in = r.len = 0 /\ ~r.ferror]
              /\ IF r.len > 0 THEN DriveGoes("iter")
                 ELSE IF r.ferror THEN DriveReturns("RS_IO_ERROR")
                 ELSE IF in_fb.at_eof # "RS_DONE" THEN DriveReturns(in_fb.at_eof)
                 ELSE DriveGoes("iter")
    /\ UNCHANGED out_fb

\* Mutant: the buffer is written again with the next output.
DrainKeeps ==
    /\ drive = "drain"
    /\ \E n \in fwrite(Len(out_fb.buf)) :
          /\ out_fb' = [out_fb EXCEPT !.content = @ \o SubSeq(out_fb.buf, 1, n),
                                      !.ferror = @ \/ n < Len(out_fb.buf)]
          /\ buf' = [buf EXCEPT !.avail_out = out_fb.buf_len, !.next_out_set = TRUE]
          /\ IF n < Len(out_fb.buf) THEN DriveReturns("RS_IO_ERROR")
             ELSE IF result = "RS_DONE" THEN DriveReturns("RS_DONE")
             ELSE DriveGoes("fill")
    /\ UNCHANGED in_fb

\* Mutant: a failed write is not noticed.
DrainUnchecked ==
    /\ drive = "drain"
    /\ \E n \in fwrite(Len(out_fb.buf)) :
          /\ out_fb' = [out_fb EXCEPT !.content = @ \o SubSeq(out_fb.buf, 1, n), !.buf = <<>>,
                                      !.ferror = @ \/ n < Len(out_fb.buf)]
          /\ buf' = [buf EXCEPT !.avail_out = out_fb.buf_len, !.next_out_set = TRUE]
          /\ IF result = "RS_DONE" THEN DriveReturns("RS_DONE") ELSE DriveGoes("fill")
    /\ UNCHANGED in_fb

\* Everything in the output buffer is written; the first time, the job is given
\* the buffer.  The job's last output is drained as well before the loop ends.
rs_outfilebuf_drain ==
    /\ drive = "drain"
    /\ \E n \in fwrite(Len(out_fb.buf)) :
          LET failed == n < Len(out_fb.buf)
          IN  /\ out_fb' = [out_fb EXCEPT !.content = @ \o SubSeq(out_fb.buf, 1, n),
                                          !.buf = IF failed THEN @ ELSE <<>>,
                                          !.ferror = @ \/ failed]
              /\ buf' = [buf EXCEPT !.avail_out = IF failed THEN @ ELSE out_fb.buf_len,
                                    !.next_out_set = TRUE]
              /\ IF failed THEN DriveReturns("RS_IO_ERROR")
                 ELSE IF result = "RS_DONE" THEN DriveReturns("RS_DONE")
                 ELSE DriveGoes("fill")
    /\ UNCHANGED in_fb

-----------------------------------------------------------------------------
(* job.c                                                                   *)

\* rs_job_iter is called with the buffers as they are.
DriveIter ==
    /\ drive = "iter"
    /\ Call(buf.avail_in - job.avail_in, buf.eof_in, buf.avail_out)
    /\ DriveGoes("wait")
    /\ UNCHANGED <<buf, in_fb, out_fb>>

\* What rs_job_iter has done to the buffers so far.
Taken == buf.avail_in - job.avail_in
Written == SubSeq(job.out, Len(job.out) - (buf.avail_out - job.avail_out) + 1, Len(job.out))

\* rs_job_iter returns.
DriveCheck ==
    /\ drive = "wait" /\ pc = "caller"
    /\ buf' = [buf EXCEPT !.next_in = @ + Taken, !.avail_in = job.avail_in,
                          !.avail_out = job.avail_out]
    /\ out_fb' = [out_fb EXCEPT !.buf = @ \o Written]
    /\ IF result \in {"RS_DONE", "RS_BLOCKED"} THEN DriveGoes("drain") ELSE DriveReturns(result)
    /\ UNCHANGED in_fb

\* A step of the job inside rs_job_iter.
Inside(A) == drive = "wait" /\ A /\ UNCHANGED driveVars

\* The files at work, while the job waits.
DriveIO == (rs_infilebuf_fill \/ rs_outfilebuf_drain \/ DriveCheck) /\ UNCHANGED engineVars

-----------------------------------------------------------------------------
\* While rs_job_iter runs, the job's own counts are the current ones.
NextIn == IF drive = "wait" THEN buf.next_in + Taken ELSE buf.next_in
AvailIn == IF drive = "wait" THEN job.avail_in ELSE buf.avail_in
OutBuf == IF drive = "wait" THEN out_fb.buf \o Written ELSE out_fb.buf
AvailOut == IF drive = "wait" THEN job.avail_out ELSE buf.avail_out

\* The part of the input buffer that the job has not taken lies within the
\* buffer (the assertions of rs_infilebuf_fill) and holds the bytes of the file
\* that follow the ones the job has, however often the tail was moved.
InputBufferIntact ==
    /\ NextIn + AvailIn <= in_fb.buf_len
    /\ \A k \in 0 .. AvailIn - 1 :
          in_fb.buf[NextIn + k] = job.cursor + job.scoop_avail + k
    /\ in_fb.pos = job.cursor + job.scoop_avail + AvailIn

\* The output buffer ends where it should (the assertion of rs_outfilebuf_drain),
\* and the file followed by the buffer is what the job has put out: the job's
\* output is written once and in order.
OutputBufferIntact ==
    /\ buf.next_out_set => Len(OutBuf) + AvailOut = out_fb.buf_len
    /\ ~buf.next_out_set => Len(OutBuf) + AvailOut = 0
    /\ ~out_fb.ferror => out_fb.content \o OutBuf = job.out

=============================================================================

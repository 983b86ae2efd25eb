-------------------------------- MODULE Job ---------------------------------
(***************************************************************************)
(* The engine that runs every librsync job: rs_job_iter and rs_job_work    *)
(* (src/src/job.c), the output tube (src/src/tube.c) and the input side    *)
(* (src/src/scoop.c) as far as it is visible to a job.                     *)
(*                                                                         *)
(* The caller hands over input and room for output piece by piece and      *)
(* calls rs_job_iter until it no longer returns RS_BLOCKED.  Inside,       *)
(* rs_job_work alternates between emptying the tube and calling the job's  *)
(* current state function.  The state functions are those of the modules   *)
(* that extend this one.                                                   *)
(*                                                                         *)
(* Module Scoop shows that the memory of the scoop behaves as a stream     *)
(* with a cursor, so only the amounts are kept here: how much of the input *)
(* has been consumed, and how much lies in the scoop or in the caller's    *)
(* buffer.  The two are kept apart because rs_job_iter looks at the        *)
(* caller's buffer alone to decide whether the job made progress.          *)
(***************************************************************************)
EXTENDS Integers, Sequences, Contract

CONSTANTS
    MaxOut,         \* bound on the room for output offered in one call
    TubeSize        \* size of write_buf (36)

ASSUME JobAssumption == MaxOut \in Nat \ {0} /\ TubeSize \in Nat

VARIABLES
    input,          \* all the bytes that the caller is going to hand over
    job,            \* the job's buffers and the caller's rs_buffers_t:
                    \*   cursor      bytes of input consumed
                    \*   scoop_avail bytes held in the scoop
                    \*   avail_in    bytes in the caller's input buffer
                    \*   eof_in      nothing follows those
                    \*   avail_out   room in the caller's output buffer
                    \*   write_buf   bytes waiting in the tube
                    \*   copy_len    bytes to be copied through after those
                    \*   out         everything written to the output so far
                    \*   asserts     no assert() of the code has failed
    statefn,        \* the current state function; "NULL" when the job is done
    pc,             \* who runs: the "caller", the loop of rs_job_work ("work"),
                    \* or the state function ("statefn", or inside one of its loops)
    result,         \* what the last rs_job_iter returned
    orig            \* avail_in and avail_out when rs_job_iter was entered

engineVars == <<input, job, statefn, pc, result, orig>>

Lesser(a, b) == IF a <= b THEN a ELSE b

Assert_(j, cond) == [j EXCEPT !.asserts = @ /\ cond]

-----------------------------------------------------------------------------
(* scoop.c and scoop.h                                                     *)

rs_scoop_avail(j) == j.scoop_avail + j.avail_in
rs_scoop_eof(j) == rs_scoop_avail(j) = 0 /\ j.eof_in

\* The next n bytes of the stream.
NextBytes(j, n) == SubSeq(input, j.cursor + 1, j.cursor + n)

\* rs_scoop_advance: in the scoop if there is anything in it.
rs_scoop_advance(j, n) ==
    IF j.scoop_avail > 0
      THEN [Assert_(j, n <= j.scoop_avail) EXCEPT !.scoop_avail = @ - n, !.cursor = @ + n]
      ELSE [Assert_(j, n <= j.avail_in) EXCEPT !.avail_in = @ - n, !.cursor = @ + n]

\* Mutant: the end of the input goes unnoticed.
ReadaheadForgetsEof(j, len) ==
    LET direct == j.scoop_avail = 0 /\ j.avail_in >= len
        n == IF ~direct /\ j.scoop_avail < len THEN Lesser(len - j.scoop_avail, j.avail_in) ELSE 0
        k == [j EXCEPT !.scoop_avail = @ + n, !.avail_in = @ - n]
    IN  [job |-> k,
         result |-> IF direct \/ k.scoop_avail >= len THEN "RS_DONE" ELSE "RS_BLOCKED"]

\* rs_scoop_readahead: the buffers afterwards and what is returned.
Readahead(j, len) ==
    LET direct == j.scoop_avail = 0 /\ j.avail_in >= len
        n == IF ~direct /\ j.scoop_avail < len THEN Lesser(len - j.scoop_avail, j.avail_in) ELSE 0
        k == [j EXCEPT !.scoop_avail = @ + n, !.avail_in = @ - n]
    IN  [job |-> k,
         result |-> IF direct \/ k.scoop_avail >= len THEN "RS_DONE"
                    ELSE IF j.eof_in THEN "RS_INPUT_ENDED" ELSE "RS_BLOCKED"]

\* rs_scoop_read.
Read(j, len) ==
    LET r == Readahead(j, len)
    IN  [r EXCEPT !.job = IF r.result = "RS_DONE" THEN rs_scoop_advance(@, len) ELSE @]

\* rs_scoop_read_rest.
ReadRest(j) ==
    IF rs_scoop_avail(j) > 0 THEN Read(j, rs_scoop_avail(j))
    ELSE [job |-> j, result |-> IF j.eof_in THEN "RS_INPUT_ENDED" ELSE "RS_BLOCKED"]

-----------------------------------------------------------------------------
(* tube.c                                                                  *)

rs_tube_is_idle(j) == j.write_buf = <<>> /\ j.copy_len = 0

rs_tube_write(j, bytes) ==
    [Assert_(j, j.copy_len = 0 /\ Len(j.write_buf) + Len(bytes) <= TubeSize)
        EXCEPT !.write_buf = @ \o bytes]

rs_tube_copy(j, len) == [Assert_(j, j.copy_len = 0) EXCEPT !.copy_len = len]

\* Mutant: what there is no room for is dropped.
CatchupWriteDrops(j) ==
    LET n == Lesser(Len(j.write_buf), j.avail_out)
    IN  [j EXCEPT !.out = @ \o SubSeq(j.write_buf, 1, n),
                  !.avail_out = @ - n,
                  !.write_buf = IF n > 0 THEN <<>> ELSE @]

\* As much of the pending bytes as there is room for.
rs_tube_catchup_write(j) ==
    LET n == Lesser(Len(j.write_buf), j.avail_out)
    IN  [j EXCEPT !.out = @ \o SubSeq(j.write_buf, 1, n),
                  !.avail_out = @ - n,
                  !.write_buf = SubSeq(@, n + 1, Len(@))]

\* As much of the pending copy as there is input and room for, from the scoop
\* first and then from the caller's buffer.
rs_tube_catchup_copy(j) ==
    LET n == Lesser(Lesser(j.copy_len, rs_scoop_avail(j)), j.avail_out)
        first == Lesser(n, j.scoop_avail)
    IN  [j EXCEPT !.out = @ \o NextBytes(j, n),
                  !.avail_out = @ - n,
                  !.copy_len = @ - n,
                  !.cursor = @ + n,
                  !.scoop_avail = @ - first,
                  !.avail_in = @ - (n - first)]

\* Mutant: a copy waits for input after its end.
CatchupIgnoresEof(j) ==
    LET w == rs_tube_catchup_write(j)
        c == rs_tube_catchup_copy(w)
    IN  IF w.write_buf # <<>> THEN [job |-> w, result |-> "RS_BLOCKED"]
        ELSE [job |-> c, result |-> IF c.copy_len = 0 THEN "RS_DONE" ELSE "RS_BLOCKED"]

rs_tube_catchup(j) ==
    LET w == rs_tube_catchup_write(j)
        c == rs_tube_catchup_copy(w)
    IN  IF w.write_buf # <<>> THEN [job |-> w, result |-> "RS_BLOCKED"]
        ELSE [job |-> c,
              result |-> IF c.copy_len = 0 THEN "RS_DONE"
                         ELSE IF rs_scoop_eof(c) THEN "RS_INPUT_ENDED" ELSE "RS_BLOCKED"]

-----------------------------------------------------------------------------
(* job.c                                                                   *)

\* rs_job_new, with the first state function of the job.
EngineInit(first) ==
    /\ job = [cursor |-> 0, scoop_avail |-> 0, avail_in |-> 0, eof_in |-> FALSE,
              avail_out |-> 0, write_buf |-> <<>>, copy_len |-> 0, out |-> <<>>,
              asserts |-> TRUE]
    /\ statefn = first
    /\ pc = "caller"
    /\ result = "RS_RUNNING"
    /\ orig = <<0, 0>>

\* rs_job_iter is called with n more bytes of input, eof_in set to e and room for
\* m bytes of output.
Call(n, e, m) ==
    /\ pc = "caller"
    /\ job' = [job EXCEPT !.avail_in = @ + n, !.eof_in = e, !.avail_out = m]
    /\ orig' = <<job'.avail_in, m>>
    /\ pc' = "work"
    /\ UNCHANGED <<input, statefn, result>>

\* A caller that keeps to rs_buffers_t: it comes back while the job is blocked,
\* with more of the input, perhaps saying that this is the last of it, and takes
\* no room back.
Iter(n, e, m) ==
    /\ result \in {"RS_RUNNING", "RS_BLOCKED"}
    /\ LET supplied == job.cursor + rs_scoop_avail(job) + n
       IN  /\ supplied <= Len(input)
           /\ n > 0 => ~job.eof_in
           /\ IF job.eof_in THEN e ELSE e => supplied = Len(input)
    /\ job.avail_out <= m
    /\ Call(n, e, m)

CallIter == \E n \in 0 .. Len(input), e \in BOOLEAN, m \in 0 .. MaxOut : Iter(n, e, m)

\* A call that brings whatever the job may be waiting for: input, or the news
\* that there is none, and room for output.
Feed ==
    \E n \in 0 .. Len(input), m \in 1 .. MaxOut :
        LET left == Len(input) - (job.cursor + rs_scoop_avail(job))
        IN  /\ n > 0 \/ left = 0
            /\ Iter(n, n = left, m)

\* rs_job_work returns r, by way of rs_job_complete unless the job is blocked;
\* rs_job_iter checks that the job has made progress.
NoProgress(j) ==
    j.avail_in = orig[1] /\ j.avail_out = orig[2] /\ orig[1] > 0 /\ orig[2] > 0
Return(j, r) ==
    /\ pc' = "caller"
    /\ result' = IF r \in {"RS_BLOCKED", "RS_DONE"} /\ NoProgress(j)
                   THEN "RS_INTERNAL_ERROR" ELSE r
    /\ job' = IF r = "RS_BLOCKED" THEN j
              ELSE Assert_(j, r # "RS_RUNNING" /\ (rs_tube_is_idle(j) \/ r # "RS_DONE"))
    /\ UNCHANGED <<input, orig>>

\* Mutant: the state function runs although the tube is not empty.
CatchupNotAwaited ==
    /\ pc = "work"
    /\ LET c == rs_tube_catchup(job)
       IN  \/ /\ statefn # "NULL"
              /\ job' = c.job /\ pc' = "statefn"
              /\ UNCHANGED <<input, statefn, result, orig>>
           \/ /\ statefn = "NULL"
              /\ Return(c.job, c.result)
              /\ UNCHANGED statefn

\* The head of the loop of rs_job_work: empty the tube, and go on to the state
\* function if that succeeds and there is one.
Catchup ==
    /\ pc = "work"
    /\ LET c == rs_tube_catchup(job)
       IN  \/ /\ c.result = "RS_DONE" /\ statefn # "NULL"
              /\ job' = c.job /\ pc' = "statefn"
              /\ UNCHANGED <<input, statefn, result, orig>>
           \/ /\ ~(c.result = "RS_DONE" /\ statefn # "NULL")
              /\ Return(c.job, c.result)
              /\ UNCHANGED statefn

\* The state function returns r, having set the job to j and statefn to fn.
Finish(j, fn, r) ==
    IF r \in {"RS_RUNNING", "RS_DONE"}
      THEN /\ job' = j /\ pc' = "work"
           /\ statefn' = IF r = "RS_DONE" THEN "NULL" ELSE fn
           /\ UNCHANGED <<input, result, orig>>
      ELSE Return(j, r) /\ statefn' = fn

\* The caller has its answer.
Over == result \notin {"RS_RUNNING", "RS_BLOCKED"}
Verdict == IF Over THEN result ELSE "RS_RUNNING"

\* What the caller sees when rs_job_iter has returned: module Contract.  The job
\* has put out so much, counted as its promise counts it.
Answer(put) ==
    IF pc # "caller" \/ result = "RS_RUNNING" THEN NoAnswer
    ELSE [result |-> result, taken |-> job.cursor + job.scoop_avail, put |-> put,
          avail_in |-> job.avail_in, eof_in |-> job.eof_in, avail_out |-> job.avail_out]

=============================================================================

------------------------------ MODULE Contract ------------------------------
(***************************************************************************)
(* What rs_job_iter may answer (src/src/librsync.h, the streaming          *)
(* interface): the contract between a job and the loop that drives it.     *)
(* The four jobs are shown to keep it (module Transducer), and the loops   *)
(* of the streaming examples are written against it (module Stream).       *)
(*                                                                         *)
(* A promise tells one job's task from another's:                          *)
(*   target        amount of output in all                                 *)
(*   verdict       the result in the end                                   *)
(*   need          amount of input that is taken when the job succeeds     *)
(*   to_eof        it succeeds only after eof_in was set                   *)
(*   writes        it needs room for output                                *)
(*   ends_writing  it succeeds in the call that writes the last output     *)
(*   leaves        amount of input that may be left when it waits for more *)
(* An answer is what the caller sees when rs_job_iter returns: the result, *)
(* the input taken and the output put so far, and the buffers.             *)
(***************************************************************************)
EXTENDS Integers

\* While rs_job_iter has not returned.
NoAnswer == [result |-> "RS_RUNNING"]

\* A job is blocked only on something that the caller can supply: it needs more
\* input than there is and does not know whether more is to come, or it has used
\* all the room for output and is not finished.  In the first case it has taken
\* the input, unless it works directly on the caller's buffer and needs more "to
\* proceed without copying into internal buffers" (the delta job).
Blocked(promise, a) ==
    /\ \/ a.avail_in <= promise.leaves /\ ~a.eof_in
       \/ /\ promise.writes /\ a.avail_out = 0
          /\ a.put < promise.target \/ promise.verdict # "RS_DONE"
    /\ promise.ends_writing => a.put < promise.target

\* A job completes with its verdict and all of its output.
Completed(promise, a) ==
    /\ a.put = promise.target
    /\ a.result = "RS_DONE" => a.taken = promise.need /\ (promise.to_eof => a.eof_in)

MayAnswer(promise, a) ==
    /\ a.put <= promise.target
    /\ \/ a.result = "RS_BLOCKED" /\ Blocked(promise, a)
       \/ a.result = promise.verdict /\ Completed(promise, a)

=============================================================================

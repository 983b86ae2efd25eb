------------------------------- MODULE Patch --------------------------------
(***************************************************************************)
(* The patch job (src/src/patch.c): the state machine that reads a delta   *)
(* from the input and writes the new file, taking the matching parts of it *)
(* from the basis through a callback.                                      *)
(*                                                                         *)
(* The input is any of a set of deltas, well formed or not.  The callback  *)
(* is the application's or rs_file_copy_cb: it may return less than it is  *)
(* asked for, but at least one byte while there are any, and               *)
(* RS_INPUT_ENDED at the end of the basis; CallbackFaults are the results  *)
(* that it may return instead.                                             *)
(***************************************************************************)
EXTENDS Job, Reference

CONSTANTS
    Deltas,         \* the inputs considered
    Basis,          \* the basis file
    CallbackFaults  \* what copy_cb may return instead of data

ASSUME PatchAssumption ==
    /\ Deltas \subseteq Seq(Nat) /\ Basis \in Seq(Nat) /\ SIZE_MAX \in Nat
    /\ CallbackFaults \cap {"RS_RUNNING", "RS_DONE"} = {}

VARIABLES
    cmd,            \* the table entry of the command being processed
    param1, param2, \* its parameters
    basis_pos,      \* where in the basis the rest of a COPY starts
    basis_len,      \* and how long it is
    stats           \* bytes of literals, of copies, and of commands

commandVars == <<cmd, param1, param2>>
vars == <<engineVars, cmd, param1, param2, basis_pos, basis_len, stats>>

Init ==
    /\ input \in Deltas
    /\ EngineInit("rs_patch_s_header")
    /\ cmd = rs_prototab(RS_OP_END) /\ param1 = 0 /\ param2 = 0
    /\ basis_pos = 0 /\ basis_len = 0
    /\ stats = [lit_bytes |-> 0, copy_bytes |-> 0, cmdbytes |-> 0]

Running(fn) == pc = "statefn" /\ statefn = fn

-----------------------------------------------------------------------------
rs_patch_s_header ==
    /\ Running("rs_patch_s_header")
    /\ LET r == Read(job, 4)
       IN  IF r.result # "RS_DONE" THEN Finish(r.job, statefn, r.result)
           ELSE IF N4Value(NextBytes(job, 4)) # RS_DELTA_MAGIC
             THEN Finish(r.job, statefn, "RS_BAD_MAGIC")
           ELSE Finish(r.job, "rs_patch_s_cmdbyte", "RS_RUNNING")
    /\ UNCHANGED <<commandVars, basis_pos, basis_len, stats>>

rs_patch_s_cmdbyte ==
    /\ Running("rs_patch_s_cmdbyte")
    /\ LET r == Read(job, 1)
           c == rs_prototab(NextBytes(job, 1)[1])
       IN  \/ /\ r.result # "RS_DONE"
              /\ Finish(r.job, statefn, r.result)
              /\ UNCHANGED commandVars
           \/ /\ r.result = "RS_DONE" /\ cmd' = c
              /\ IF c.len_1 > 0
                   THEN Finish(r.job, "rs_patch_s_params", "RS_RUNNING") /\ UNCHANGED param1
                   ELSE Finish(r.job, "rs_patch_s_run", "RS_RUNNING") /\ param1' = c.immediate
              /\ UNCHANGED param2
    /\ UNCHANGED <<basis_pos, basis_len, stats>>

\* Mutant: only the first parameter is awaited.
ParamsAwaitsOne ==
    /\ Running("rs_patch_s_params")
    /\ LET r == Readahead(job, cmd.len_1)
           one == Read(r.job, cmd.len_1)
           two == Read(one.job, cmd.len_2)
           done == [one |-> one.result = "RS_DONE",
                    two |-> cmd.len_2 = 0 \/ two.result = "RS_DONE"]
       IN  \/ /\ r.result # "RS_DONE"
              /\ Finish(r.job, statefn, r.result)
              /\ UNCHANGED <<param1, param2>>
           \/ /\ r.result = "RS_DONE"
              /\ param1' = NetintValue(NextBytes(r.job, cmd.len_1))
              /\ param2' = IF done.two /\ cmd.len_2 > 0
                             THEN NetintValue(NextBytes(one.job, cmd.len_2)) ELSE param2
              /\ Finish(Assert_(two.job, done.one /\ done.two), "rs_patch_s_run", "RS_RUNNING")
    /\ UNCHANGED <<cmd, basis_pos, basis_len, stats>>

\* All the parameter bytes are awaited together, so that neither of the two
\* reads can fail.
rs_patch_s_params ==
    /\ Running("rs_patch_s_params")
    /\ LET r == Readahead(job, cmd.len_1 + cmd.len_2)
           one == Read(r.job, cmd.len_1)
           two == Read(one.job, cmd.len_2)
           done == [one |-> one.result = "RS_DONE", two |-> two.result = "RS_DONE"]
       IN  \/ /\ r.result # "RS_DONE"
              /\ Finish(r.job, statefn, r.result)
              /\ UNCHANGED <<param1, param2>>
           \/ /\ r.result = "RS_DONE"
              /\ param1' = NetintValue(NextBytes(r.job, cmd.len_1))
              /\ IF cmd.len_2 > 0
                   THEN /\ param2' = NetintValue(NextBytes(one.job, cmd.len_2))
                        /\ Finish(Assert_(two.job, done.one /\ done.two), "rs_patch_s_run", "RS_RUNNING")
                   ELSE /\ param2' = param2
                        /\ Finish(Assert_(one.job, done.one), "rs_patch_s_run", "RS_RUNNING")
    /\ UNCHANGED <<cmd, basis_pos, basis_len, stats>>

rs_patch_s_run ==
    /\ Running("rs_patch_s_run")
    /\ CASE cmd.kind = "LITERAL" -> Finish(job, "rs_patch_s_literal", "RS_RUNNING")
         [] cmd.kind = "END" -> Finish(job, statefn, "RS_DONE")
         [] cmd.kind = "COPY" -> Finish(job, "rs_patch_s_copy", "RS_RUNNING")
         [] OTHER -> Finish(job, statefn, "RS_CORRUPT")
    /\ UNCHANGED <<commandVars, basis_pos, basis_len, stats>>

\* Mutant: the parameter of a literal command is not counted.
LiteralMiscounted ==
    /\ Running("rs_patch_s_literal")
    /\ IF param1 <= 0 \/ param1 > SIZE_MAX
         THEN Finish(job, statefn, "RS_CORRUPT") /\ UNCHANGED stats
         ELSE /\ stats' = [stats EXCEPT !.lit_bytes = @ + param1, !.cmdbytes = @ + 1]
              /\ Finish(rs_tube_copy(job, param1), "rs_patch_s_cmdbyte", "RS_RUNNING")
    /\ UNCHANGED <<commandVars, basis_pos, basis_len>>

rs_patch_s_literal ==
    /\ Running("rs_patch_s_literal")
    /\ IF param1 <= 0 \/ param1 > SIZE_MAX
         THEN Finish(job, statefn, "RS_CORRUPT") /\ UNCHANGED stats
         ELSE /\ stats' = [stats EXCEPT !.lit_bytes = @ + param1, !.cmdbytes = @ + 1 + cmd.len_1]
              /\ Finish(rs_tube_copy(job, param1), "rs_patch_s_cmdbyte", "RS_RUNNING")
    /\ UNCHANGED <<commandVars, basis_pos, basis_len>>

rs_patch_s_copy ==
    /\ Running("rs_patch_s_copy")
    /\ IF param2 <= 0 \/ param1 < 0
         THEN Finish(job, statefn, "RS_CORRUPT") /\ UNCHANGED <<basis_pos, basis_len, stats>>
         ELSE /\ stats' = [stats EXCEPT !.copy_bytes = @ + param2,
                                        !.cmdbytes = @ + 1 + cmd.len_1 + cmd.len_2]
              /\ basis_pos' = param1 /\ basis_len' = param2
              /\ Finish(job, "rs_patch_s_copying", "RS_RUNNING")
    /\ UNCHANGED commandVars

\* What copy_cb may answer to a request for len bytes at pos: how many bytes it
\* provides, or the result it returns instead.
copy_cb(pos, len) ==
    IF pos < Len(Basis) THEN 1 .. Lesser(len, Len(Basis) - pos) ELSE {}
copy_cb_failure(pos) ==
    CallbackFaults \cup (IF pos < Len(Basis) THEN {} ELSE {"RS_INPUT_ENDED"})

\* Mutant: after part of a copy the position stays where it was.
CopyingStays ==
    /\ Running("rs_patch_s_copying")
    /\ \/ /\ job.avail_out = 0
          /\ Finish(job, statefn, "RS_BLOCKED")
          /\ UNCHANGED <<basis_pos, basis_len>>
       \/ /\ job.avail_out > 0
          /\ \E len \in copy_cb(basis_pos, Lesser(basis_len, job.avail_out)) :
                /\ basis_len' = basis_len - len
                /\ Finish([job EXCEPT !.out = @ \o SubSeq(Basis, basis_pos + 1, basis_pos + len),
                                      !.avail_out = @ - len],
                          IF basis_len = len THEN "rs_patch_s_cmdbyte" ELSE statefn,
                          "RS_RUNNING")
          /\ UNCHANGED basis_pos
       \/ /\ job.avail_out > 0
          /\ \E r \in copy_cb_failure(basis_pos) : Finish(job, statefn, r)
          /\ UNCHANGED <<basis_pos, basis_len>>
    /\ UNCHANGED <<commandVars, stats>>

rs_patch_s_copying ==
    /\ Running("rs_patch_s_copying")
    /\ \/ /\ job.avail_out = 0
          /\ Finish(job, statefn, "RS_BLOCKED")
          /\ UNCHANGED <<basis_pos, basis_len>>
       \/ /\ job.avail_out > 0
          /\ \E len \in copy_cb(basis_pos, Lesser(basis_len, job.avail_out)) :
                /\ basis_pos' = basis_pos + len /\ basis_len' = basis_len - len
                /\ Finish([job EXCEPT !.out = @ \o SubSeq(Basis, basis_pos + 1, basis_pos + len),
                                      !.avail_out = @ - len],
                          IF basis_len = len THEN "rs_patch_s_cmdbyte" ELSE statefn,
                          "RS_RUNNING")
       \/ /\ job.avail_out > 0
          /\ \E r \in copy_cb_failure(basis_pos) : Finish(job, statefn, r)
          /\ UNCHANGED <<basis_pos, basis_len>>
    /\ UNCHANGED <<commandVars, stats>>

StateFn ==
    \/ rs_patch_s_header \/ rs_patch_s_cmdbyte \/ rs_patch_s_params \/ rs_patch_s_run
    \/ rs_patch_s_literal \/ rs_patch_s_copy \/ rs_patch_s_copying

Caller(A) == A /\ UNCHANGED <<commandVars, basis_pos, basis_len, stats>>

Step == StateFn \/ Caller(Catchup)

\* Once the caller has its answer nothing happens any more.
Stopped == Over /\ UNCHANGED vars

Next == Caller(CallIter) \/ Step \/ Stopped

\* The code runs once it is called; and the caller does not give up, but keeps
\* coming back with input and room for output, as rs_job_drive does.  The first
\* is WF_vars(Step): a step of the code is possible exactly when control is not
\* with the caller.
CodeRuns == []<>(pc = "caller") \/ []<><<pc # "caller">>_vars

Fairness == CodeRuns /\ SF_vars(Caller(Feed))

Spec == Init /\ [][Next]_vars /\ Fairness

-----------------------------------------------------------------------------
\* What each delta means, as a whole.
Meaning == [d \in Deltas |-> Apply(d, Basis)]

-----------------------------------------------------------------------------
\* The new file and the verdict are those of the delta as a whole, whatever the
\* sizes of the buffers and of the callback's answers: nothing is written that
\* does not belong to the new file, and the job ends only when all of it is
\* written.  The job is blocked only when it has taken all the input or used all
\* the room, and it succeeds with the END command, told of the end or not.
NewFile(d) == Meaning[d].out
PatchPromise(d) ==
    [target |-> Len(Meaning[d].out), verdict |-> Meaning[d].verdict, need |-> Meaning[d].used,
     to_eof |-> FALSE, writes |-> TRUE, ends_writing |-> FALSE, leaves |-> 0]
Whole == INSTANCE Transducer WITH
    source <- input, TargetOf <- NewFile, PromiseOf <- PatchPromise,
    out <- job.out, result <- Verdict, answer <- Answer(Len(job.out))
ImplementsTransducer == Whole!Spec

\* None of the assertions of patch.c, tube.c, scoop.c and job.c fails: the tube
\* is free when a literal is queued, parameters that were awaited can be read,
\* nothing is left in the tube when the job completes.
AssertionsHold == job.asserts

\* When the job is done, its statistics account for every byte of the new file
\* and for every byte of the delta it has read.
StatisticsBalance ==
    result = "RS_DONE" =>
        /\ Len(job.out) = stats.lit_bytes + stats.copy_bytes
        /\ job.cursor = 4 + stats.cmdbytes + stats.lit_bytes + 1

\* Every job ends, whatever the sizes of the buffers, when the caller keeps
\* feeding it.
Terminates == <>Over

\* doc/pull.md on callbacks: "If the callback returns RS_BLOCKED, then
\* rs_job_iter() will also return RS_BLOCKED shortly."
BlockedCallbackBlocksJob == result # "RS_INTERNAL_ERROR"

=============================================================================

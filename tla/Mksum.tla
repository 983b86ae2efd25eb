------------------------------- MODULE Mksum --------------------------------
(***************************************************************************)
(* The signature job (src/src/mksum.c): it reads the basis block by block  *)
(* and writes the header of a signature and the sums of each block.        *)
(***************************************************************************)
EXTENDS Job, SigFormat

CONSTANTS
    Inputs,         \* the basis files considered
    Args            \* the arguments of rs_sig_begin, [magic, block_len, strong_len]

\* The header and the sums of a block fit into write_buf.  The lengths are
\* of type size_t, and the strong sums of blocks are RS_MAX_STRONG_SUM_LENGTH
\* bytes.
ASSUME MksumAssumption ==
    /\ \A basis \in Inputs : Summable(basis)
    /\ \A a \in Args : ArgsOK(a)
    /\ 12 <= TubeSize /\ 4 + RS_MAX_STRONG_SUM_LENGTH <= TubeSize

VARIABLES
    args,           \* sig_magic, sig_block_len and sig_strong_len
    sig,            \* the parameters of the signature; those of nothing at first
    sig_blocks      \* blocks written, in the statistics

vars == <<engineVars, args, sig, sig_blocks>>

Init ==
    /\ input \in Inputs /\ args \in Args
    /\ EngineInit("rs_sig_s_header")
    /\ sig = [magic |-> 0, block_len |-> 0, strong_len |-> 0]
    /\ sig_blocks = 0

Running(fn) == pc = "statefn" /\ statefn = fn

rs_sig_s_header ==
    /\ Running("rs_sig_s_header")
    /\ LET a == rs_sig_args(-1, args)
           new == [magic |-> a.magic, block_len |-> a.block_len, strong_len |-> a.strong_len]
           checked == Assert_(job, rs_sig_args_check(new.magic, new.block_len, new.strong_len))
           n1 == rs_tube_write(checked, Netint(new.magic, 4))
           n2 == rs_tube_write(n1, Netint(new.block_len, 4))
           n3 == rs_tube_write(n2, Netint(new.strong_len, 4))
       IN  \/ /\ a.result # "RS_DONE"
              /\ Finish(job, statefn, a.result)
              /\ UNCHANGED sig
           \/ /\ a.result = "RS_DONE"
              /\ sig' = new
              /\ Finish(n3, "rs_sig_s_generate", "RS_RUNNING")
    /\ UNCHANGED <<args, sig_blocks>>

\* rs_sig_do_block: the sums of a block go into the tube.
rs_sig_do_block(j, block) ==
    LET weak_sum == rs_calc_weak_sum(rs_signature_weaksum_kind(sig.magic), block)
    IN  rs_tube_write(rs_tube_write(j, Netint(weak_sum, 4)),
                      StrongPart(sig.magic, sig.strong_len, block))

\* A whole block or, near the end of the input, whatever is left.
rs_sig_s_generate ==
    /\ Running("rs_sig_s_generate")
    /\ LET whole == Read(job, sig.block_len)
           near_eof == whole.result = "RS_INPUT_ENDED"
           r == IF near_eof THEN ReadRest(whole.job) ELSE whole
           len == IF near_eof THEN rs_scoop_avail(whole.job) ELSE sig.block_len
       IN  \/ /\ r.result = "RS_DONE"
              /\ Finish(rs_sig_do_block(r.job, NextBytes(job, len)), statefn, "RS_RUNNING")
              /\ sig_blocks' = sig_blocks + 1
           \/ /\ r.result # "RS_DONE"
              /\ Finish(r.job, statefn,
                        IF r.result = "RS_INPUT_ENDED" THEN "RS_DONE" ELSE r.result)
              /\ UNCHANGED sig_blocks
    /\ UNCHANGED <<args, sig>>

Caller(A) == A /\ UNCHANGED <<args, sig, sig_blocks>>

Step == rs_sig_s_header \/ rs_sig_s_generate \/ Caller(Catchup)

Stopped == Over /\ UNCHANGED vars

Next == Caller(CallIter) \/ Step \/ Stopped

\* WF_vars(Step), and a caller that keeps coming back (see module Patch).
CodeRuns == []<>(pc = "caller") \/ []<><<pc # "caller">>_vars
Fairness == CodeRuns /\ SF_vars(Caller(Feed))

Spec == Init /\ [][Next]_vars /\ Fairness

-----------------------------------------------------------------------------
\* The signature file depends on the basis and the arguments alone: blocks are
\* cut at multiples of the block length, whatever the pieces in which the basis
\* arrives, and the last short block is neither lost nor repeated.
SignatureFile(pair) == SignatureOf(pair[1], pair[2])
SigPromise(pair) ==
    [target |-> Len(SignatureOf(pair[1], pair[2])), verdict |-> rs_sig_args(-1, pair[2]).result,
     need |-> Len(pair[1]), to_eof |-> TRUE, writes |-> TRUE, ends_writing |-> FALSE,
     leaves |-> 0]
Whole == INSTANCE Transducer WITH
    source <- <<input, args>>, TargetOf <- SignatureFile, PromiseOf <- SigPromise,
    out <- job.out, result <- Verdict, answer <- Answer(Len(job.out))
ImplementsTransducer == Whole!Spec

\* None of the assertions fails: the header and the sums of a block fit into
\* write_buf, which is exactly as large as the longest sums of a block, because
\* the tube has been emptied before each state function runs.
AssertionsHold == job.asserts

\* Every job ends when the caller keeps feeding it.
Terminates == <>Over

=============================================================================

------------------------------ MODULE Loadsig -------------------------------
(***************************************************************************)
(* The loadsig job (src/src/readsums.c with rs_signature_init and          *)
(* rs_signature_add_block of src/src/sumset.c): it reads a signature file  *)
(* into memory.  The job has no output; what it produces is the signature. *)
(***************************************************************************)
EXTENDS Job, SigFormat

CONSTANTS
    Sources,        \* what the signature files were made of, [basis, args]
    OtherFiles,     \* and files that are not, or no longer, signatures
    SigFsizes,      \* what the caller takes for the size of the file
    FirstBlocks     \* number of blocks first allocated, 16

\* The files consist of bytes.  A weak sum fits into four bytes and so do, as an
\* int, the parameters that a signature is made with: a longer block would be cut
\* off in the header.
ASSUME LoadsigAssumption ==
    /\ \A s \in Sources :
          /\ Summable(s.basis) /\ ArgsOK(s.args)
          /\ LET a == rs_sig_args(-1, s.args)
             IN  \A v \in {a.magic, a.block_len, a.strong_len} : 0 <= v /\ v < Radix ^ 4 \div 2
    /\ RollMod * RollMod <= Radix ^ 4 /\ RkMod <= Radix ^ 4
    /\ OtherFiles \subseteq Seq(Nat) /\ SigFsizes \subseteq Int
    /\ FirstBlocks \in Nat \ {0}

VARIABLES
    sig_fsize,      \* expected size of the file, only a hint
    sig_magic, sig_block_len, sig_strong_len,    \* the header as it is read
    weak_sig,       \* the weak sum of the block being read
    sig,            \* the signature: its parameters, size and block_sigs
    sig_blocks      \* blocks read, in the statistics

headerVars == <<sig_fsize, sig_magic, sig_block_len, sig_strong_len>>
vars == <<engineVars, headerVars, weak_sig, sig, sig_blocks>>

Init ==
    /\ input \in {SignatureOf(s.basis, s.args) : s \in Sources} \cup OtherFiles
    /\ EngineInit("rs_loadsig_s_magic")
    /\ sig_fsize \in SigFsizes
    /\ sig_magic = 0 /\ sig_block_len = 0 /\ sig_strong_len = 0 /\ weak_sig = 0
    /\ sig = [magic |-> 0, block_len |-> 0, strong_sum_len |-> 0, size |-> 0, block_sigs |-> <<>>]
    /\ sig_blocks = 0

Running(fn) == pc = "statefn" /\ statefn = fn

\* A state function that reads a number: it stops if there is none yet.
Number == N4Value(NextBytes(job, 4))

-----------------------------------------------------------------------------
rs_loadsig_s_magic ==
    /\ Running("rs_loadsig_s_magic")
    /\ LET r == Read(job, 4)
       IN  \/ /\ r.result # "RS_DONE" /\ Finish(r.job, statefn, r.result)
              /\ UNCHANGED sig_magic
           \/ /\ r.result = "RS_DONE" /\ sig_magic' = Number
              /\ Finish(r.job, "rs_loadsig_s_blocklen", "RS_RUNNING")
    /\ UNCHANGED <<sig_fsize, sig_block_len, sig_strong_len, weak_sig, sig, sig_blocks>>

rs_loadsig_s_blocklen ==
    /\ Running("rs_loadsig_s_blocklen")
    /\ LET r == Read(job, 4)
       IN  \/ /\ r.result # "RS_DONE" /\ Finish(r.job, statefn, r.result)
              /\ UNCHANGED sig_block_len
           \/ /\ r.result = "RS_DONE" /\ Number < 1
              /\ Finish(r.job, statefn, "RS_CORRUPT")
              /\ UNCHANGED sig_block_len
           \/ /\ r.result = "RS_DONE" /\ Number >= 1 /\ sig_block_len' = Number
              /\ Finish(r.job, "rs_loadsig_s_stronglen", "RS_RUNNING")
    /\ UNCHANGED <<sig_fsize, sig_magic, sig_strong_len, weak_sig, sig, sig_blocks>>

\* rs_signature_check.
SignatureOK(s) ==
    /\ rs_sig_args_check(s.magic, s.block_len, s.strong_sum_len)
    /\ Len(s.block_sigs) <= s.size

\* rs_signature_init: room for the blocks that the expected size announces.
rs_signature_init(a, fsize) ==
    [magic |-> a.magic, block_len |-> a.block_len, strong_sum_len |-> a.strong_len,
     size |-> IF fsize < 12 THEN 0 ELSE (fsize - 12) \div (4 + a.strong_len),
     block_sigs |-> <<>>]

\* The magic number is looked at only now, when the whole header is there.
rs_loadsig_s_stronglen ==
    /\ Running("rs_loadsig_s_stronglen")
    /\ LET r == Read(job, 4)
           a == rs_sig_args(-1, [magic |-> sig_magic, block_len |-> sig_block_len,
                                 strong_len |-> Number])
           new == rs_signature_init(a, sig_fsize)
           implausible == Number < 0 \/ Number > RS_MAX_STRONG_SUM_LENGTH
       IN  \/ /\ r.result # "RS_DONE" /\ Finish(r.job, statefn, r.result)
              /\ UNCHANGED <<sig_strong_len, sig>>
           \/ /\ r.result = "RS_DONE" /\ implausible
              /\ Finish(r.job, statefn, "RS_CORRUPT")
              /\ UNCHANGED <<sig_strong_len, sig>>
           \/ /\ r.result = "RS_DONE" /\ ~implausible
              /\ sig_strong_len' = Number
              /\ IF a.result # "RS_DONE"
                   THEN Finish(r.job, statefn, a.result) /\ UNCHANGED sig
                   ELSE /\ sig' = new
                        /\ Finish(Assert_(r.job, SignatureOK(new)),
                                  "rs_loadsig_s_weak", "RS_RUNNING")
    /\ UNCHANGED <<sig_fsize, sig_magic, sig_block_len, weak_sig, sig_blocks>>

\* The file may end before a weak sum, and then the job is done.
rs_loadsig_s_weak ==
    /\ Running("rs_loadsig_s_weak")
    /\ LET r == Read(job, 4)
       IN  \/ /\ r.result # "RS_DONE"
              /\ Finish(r.job, statefn,
                        IF r.result = "RS_INPUT_ENDED" THEN "RS_DONE" ELSE r.result)
              /\ UNCHANGED weak_sig
           \/ /\ r.result = "RS_DONE"
              /\ weak_sig' = Number % Radix ^ 4
              /\ Finish(r.job, "rs_loadsig_s_strong", "RS_RUNNING")
    /\ UNCHANGED <<headerVars, sig, sig_blocks>>

\* Mutant: the array grows one block too late.
AddBlockLate(s, weak_sum, strong_sum) ==
    LET mixed == IF rs_signature_weaksum_kind(s.magic) = "RS_ROLLSUM" THEN mix32(weak_sum)
                 ELSE weak_sum
        full == Len(s.block_sigs) > s.size
    IN  [s EXCEPT
          !.size = IF ~full THEN @ ELSE IF @ > 0 THEN @ * 2 ELSE FirstBlocks,
          !.block_sigs = Append(@, [weak_sum |-> mixed, strong_sum |-> strong_sum])]

\* rs_signature_add_block: rollsums are mixed, and a full array grows.
rs_signature_add_block(s, weak_sum, strong_sum) ==
    LET mixed == IF rs_signature_weaksum_kind(s.magic) = "RS_ROLLSUM" THEN mix32(weak_sum)
                 ELSE weak_sum
        full == Len(s.block_sigs) = s.size
    IN  [s EXCEPT
          !.size = IF ~full THEN @ ELSE IF @ > 0 THEN @ * 2 ELSE FirstBlocks,
          !.block_sigs = Append(@, [weak_sum |-> mixed, strong_sum |-> strong_sum])]

\* Mutant: the file may end before a strong sum, too.
StrongMayEnd ==
    /\ Running("rs_loadsig_s_strong")
    /\ LET r == Read(job, sig.strong_sum_len)
       IN  \/ /\ r.result # "RS_DONE"
              /\ Finish(r.job, statefn,
                        IF r.result = "RS_INPUT_ENDED" THEN "RS_DONE" ELSE r.result)
              /\ UNCHANGED <<sig, sig_blocks>>
           \/ /\ r.result = "RS_DONE"
              /\ sig' = rs_signature_add_block(sig, weak_sig, NextBytes(job, sig.strong_sum_len))
              /\ sig_blocks' = sig_blocks + 1
              /\ Finish(Assert_(r.job, SignatureOK(sig)), "rs_loadsig_s_weak", "RS_RUNNING")
    /\ UNCHANGED <<headerVars, weak_sig>>

rs_loadsig_s_strong ==
    /\ Running("rs_loadsig_s_strong")
    /\ LET r == Read(job, sig.strong_sum_len)
       IN  \/ /\ r.result # "RS_DONE"
              /\ Finish(r.job, statefn, r.result)
              /\ UNCHANGED <<sig, sig_blocks>>
           \/ /\ r.result = "RS_DONE"
              /\ sig' = rs_signature_add_block(sig, weak_sig, NextBytes(job, sig.strong_sum_len))
              /\ sig_blocks' = sig_blocks + 1
              /\ Finish(Assert_(r.job, SignatureOK(sig)), "rs_loadsig_s_weak", "RS_RUNNING")
    /\ UNCHANGED <<headerVars, weak_sig>>

Caller(A) == A /\ UNCHANGED <<headerVars, weak_sig, sig, sig_blocks>>

Step ==
    \/ rs_loadsig_s_magic \/ rs_loadsig_s_blocklen \/ rs_loadsig_s_stronglen
    \/ rs_loadsig_s_weak \/ rs_loadsig_s_strong \/ Caller(Catchup)

Stopped == Over /\ UNCHANGED vars

Next == Caller(CallIter) \/ Step \/ Stopped

\* WF_vars(Step), and a caller that keeps coming back (see module Patch).
CodeRuns == []<>(pc = "caller") \/ []<><<pc # "caller">>_vars
Fairness == CodeRuns /\ SF_vars(Caller(Feed))

Spec == Init /\ [][Next]_vars /\ Fairness

-----------------------------------------------------------------------------
(* What a file means, as a whole.                                          *)

Field(file, k) == N4Value(SubSeq(file, 4 * k - 3, 4 * k))

\* The parameters in a header, 0 for the default, and the verdict on them.
HeaderMeaning(file) ==
    LET a == rs_sig_args(-1, [magic |-> Field(file, 1), block_len |-> Field(file, 2),
                              strong_len |-> Field(file, 3)])
        Refused(v) == [strong_len |-> 1, magic |-> 0, result |-> v]
    IN  IF Len(file) < 8 THEN Refused("RS_INPUT_ENDED")
        ELSE IF Field(file, 2) < 1 THEN Refused("RS_CORRUPT")
        ELSE IF Len(file) < 12 THEN Refused("RS_INPUT_ENDED")
        ELSE IF Field(file, 3) \notin 0 .. RS_MAX_STRONG_SUM_LENGTH THEN Refused("RS_CORRUPT")
        ELSE [strong_len |-> a.strong_len, magic |-> a.magic, result |-> a.result]

\* Every complete pair of sums is a block; what is left must be less than a
\* weak sum.
BlocksIn(file) ==
    LET h == HeaderMeaning(file)
        len == 4 + h.strong_len
        weak(k) ==
            Shifted(SubSeq(file, 12 + (k - 1) * len + 1, 12 + (k - 1) * len + 4)) % Radix ^ 4
        strong(k) == SubSeq(file, 12 + (k - 1) * len + 5, 12 + k * len)
        kind == rs_signature_weaksum_kind(h.magic)
    IN  IF h.result # "RS_DONE" THEN <<>>
        ELSE [k \in 1 .. (Len(file) - 12) \div len |->
                [weak_sum |-> IF kind = "RS_ROLLSUM" THEN mix32(weak(k)) ELSE weak(k),
                 strong_sum |-> strong(k)]]

FileVerdict(file) ==
    LET h == HeaderMeaning(file)
    IN  IF h.result # "RS_DONE" THEN h.result
        ELSE IF (Len(file) - 12) % (4 + h.strong_len) < 4 THEN "RS_DONE" ELSE "RS_INPUT_ENDED"

-----------------------------------------------------------------------------
\* The blocks in memory and the verdict are those of the file as a whole,
\* wherever the file is cut into pieces: in a header field, between the two
\* sums of a block, inside a strong sum.
LoadsigPromise(file) ==
    [target |-> Len(BlocksIn(file)), verdict |-> FileVerdict(file), need |-> Len(file),
     to_eof |-> TRUE, writes |-> FALSE, ends_writing |-> FALSE, leaves |-> 0]
Whole == INSTANCE Transducer WITH
    source <- input, TargetOf <- BlocksIn, PromiseOf <- LoadsigPromise,
    out <- sig.block_sigs, result <- Verdict, answer <- Answer(Len(sig.block_sigs))
ImplementsTransducer == Whole!Spec

\* The signature that is loaded from the file that mksum writes for a basis has
\* the block length asked for and, for each block of the basis, the sums that
\* the delta job computes when it meets this block in the new file: the same
\* strong sum, and the digest of the rolling sum, mixed on both sides or not.
LoadedSignatureFindsBlocks ==
    result = "RS_DONE" => \A s \in Sources : input = SignatureOf(s.basis, s.args) =>
        LET a == rs_sig_args(-1, s.args)
            blocks == BlocksOf(s.basis, a.block_len)
            kind == rs_signature_weaksum_kind(a.magic)
        IN  /\ sig.block_len = a.block_len
            /\ Len(sig.block_sigs) = Len(blocks)
            /\ \A k \in 1 .. Len(blocks) :
                  /\ sig.block_sigs[k].weak_sum
                       = weaksum_digest(weaksum_update(weaksum_init(kind), blocks[k]))
                  /\ sig.block_sigs[k].strong_sum = StrongPart(a.magic, a.strong_len, blocks[k])

\* No assertion fails; in particular the parameters of a loaded signature are
\* valid whatever the file says, and the array holds the blocks read so far,
\* however wrong the expected size of the file was.
AssertionsHold == job.asserts /\ Len(sig.block_sigs) <= sig.size

\* Every job ends when the caller keeps feeding it.
Terminates == <>Over

=============================================================================

---------------------------- MODULE MksumProofs -----------------------------
(***************************************************************************)
(* The signature job, for every basis, every arguments and every way in    *)
(* which the basis is cut into pieces: no assertion fails, and the job     *)
(* implements module Transducer, that is, what it writes is the signature  *)
(* file of the basis and what it answers is what module Contract allows.   *)
(*                                                                         *)
(* The argument is that what has been put out and what waits in the tube   *)
(* are together, always, the signature file up to the blocks counted in    *)
(* the statistics, and that as many blocks of the basis have been read.    *)
(***************************************************************************)
EXTENDS Mksum, JobProofs

\* The parameters that the arguments stand for.
Params == rs_sig_args(-1, args)
Accepted == Params.result = "RS_DONE"

-----------------------------------------------------------------------------
(* The inductive invariant.                                                *)

MksumTypeOK ==
    /\ input \in Inputs /\ args \in Args /\ JobOK(job)
    /\ sig_blocks \in Nat
    /\ statefn \in {"rs_sig_s_header", "rs_sig_s_generate", "NULL"}
    /\ pc \in {"caller", "work", "statefn"}

\* The caller says that there is no more only when it has sent everything.
EofIsTrue == job.eof_in => job.cursor + job.scoop_avail + job.avail_in = Len(input)

\* A state function runs only when the tube is empty, and nothing is ever copied.
TubeFree == job.copy_len = 0 /\ (pc = "statefn" => job.write_buf = <<>> /\ statefn # "NULL")

\* Nothing has happened before the header is written.
BeforeHeader ==
    statefn = "rs_sig_s_header" =>
        job.cursor = 0 /\ job.out = <<>> /\ job.write_buf = <<>> /\ sig_blocks = 0

\* Afterwards the blocks counted have been read and their sums written.
AfterHeader ==
    statefn # "rs_sig_s_header" =>
        /\ Accepted
        /\ sig = [magic |-> Params.magic, block_len |-> Params.block_len,
                  strong_len |-> Params.strong_len]
        /\ sig_blocks <= BlockCount(input, Params.block_len)
        /\ job.cursor = Lesser(sig_blocks * Params.block_len, Len(input))
        /\ job.out \o job.write_buf = PartsOf(input, args)[sig_blocks]

\* The job is done when there is nothing left and nothing more to come.
AtEnd ==
    statefn = "NULL" =>
        /\ sig_blocks = BlockCount(input, Params.block_len)
        /\ job.eof_in /\ job.scoop_avail = 0 /\ job.avail_in = 0

\* While the job works the caller has no answer yet.
InTurn == Over => pc = "caller"

\* What the job has been returned with, and what is left to do then.
Answered ==
    pc = "caller" /\ result # "RS_RUNNING" =>
        \/ result = "RS_BLOCKED" /\ job.avail_in = 0 /\ ~job.eof_in
        \/ result = "RS_BLOCKED" /\ job.avail_out = 0 /\ job.write_buf # <<>>
        \/ result = "RS_DONE" /\ statefn = "NULL" /\ job.write_buf = <<>>
        \/ result = Params.result /\ ~Accepted /\ statefn = "rs_sig_s_header"

MksumInv ==
    /\ MksumTypeOK /\ EofIsTrue /\ TubeFree /\ BeforeHeader /\ AfterHeader /\ AtEnd /\ InTurn
    /\ Answered /\ AssertionsHold


-----------------------------------------------------------------------------
(* The signature file grows.                                               *)

\* Then it is a prefix in the sense of module Transducer, and shorter unless
\* nothing follows.
LEMMA StartsFacts ==
    ASSUME NEW s \in Seq(Nat), NEW u \in Seq(Nat)
    PROVE  /\ Whole!IsPrefixOf(s, s \o u) /\ Len(s) <= Len(s \o u)
           /\ u # <<>> => Len(s) < Len(s \o u)
  <1> DEFINE t == s \o u
  <1>1. /\ t \in Seq(Nat) /\ Len(t) = Len(s) + Len(u)
        /\ \A i \in 1 .. Len(s) + Len(u) : t[i] = IF i <= Len(s) THEN s[i] ELSE u[i - Len(s)]
    BY ConcatProperties
  <1>2. Len(s) \in Nat /\ Len(u) \in Nat /\ \A i \in 1 .. Len(s) : s[i] \in Nat
    BY LenProperties
  <1>3. u # <<>> => Len(u) > 0
    BY <1>2, EmptySeq
  <1> HIDE DEF t
  <1>4. \A i \in 1 .. Len(s) : t[i] = s[i]
    BY <1>1, <1>2
  <1>5. /\ SubSeq(t, 1, Len(s)) \in Seq(Nat)
        /\ Len(SubSeq(t, 1, Len(s))) = IF 1 <= Len(s) THEN Len(s) - 1 + 1 ELSE 0
        /\ \A i \in 1 .. Len(s) - 1 + 1 : SubSeq(t, 1, Len(s))[i] = t[1 + i - 1]
    <2>1. \A i \in 1 .. Len(s) : t[i] \in Nat
      BY <1>2, <1>4
    <2>2. 1 \in Int /\ Len(s) \in Int
      BY <1>2
    <2> QED
      BY <2>1, <2>2, SubSeqProperties
  <1>6. SubSeq(t, 1, Len(s)) = s
    <2> DEFINE r == SubSeq(t, 1, Len(s))
    <2>1. r \in Seq(Nat) /\ Len(r) = Len(s)
      BY <1>2, <1>5
    <2>2. \A i \in 1 .. Len(r) : r[i] = s[i]
      <3> SUFFICES ASSUME NEW i \in 1 .. Len(s)
                   PROVE  r[i] = s[i]
        BY <2>1
      <3>1. i \in 1 .. Len(s) - 1 + 1 /\ 1 + i - 1 = i
        BY <1>2
      <3>2. r[i] = t[i]
        BY <1>5, <3>1
      <3> QED
        BY <1>4, <3>2
    <2> HIDE DEF r
    <2>3. r = s
      BY <2>1, <2>2, SeqEqual
    <2> QED
      BY <2>3 DEF r
  <1>7. Len(s) <= Len(t) /\ (u # <<>> => Len(s) < Len(t))
    BY <1>1, <1>2, <1>3
  <1> QED
    BY <1>6, <1>7 DEF Whole!IsPrefixOf, t

-----------------------------------------------------------------------------
(* The invariant is inductive.                                             *)

\* What has been written and read stays in step with the count of blocks when a
\* step reads nothing and writes nothing new.
LEMMA MksumKeeps ==
    ASSUME MksumInv, UNCHANGED <<input, args, sig, sig_blocks, statefn>>,
           job'.cursor = job.cursor, JobOK(job'),
           job'.out \o job'.write_buf = job.out \o job.write_buf
    PROVE  BeforeHeader' /\ AfterHeader'
  <1>1. BeforeHeader'
    <2> SUFFICES ASSUME statefn = "rs_sig_s_header"
                 PROVE  job'.cursor = 0 /\ job'.out = <<>> /\ job'.write_buf = <<>> /\ sig_blocks' = 0
      BY DEF BeforeHeader
    <2>1. job.cursor = 0 /\ job.out = <<>> /\ job.write_buf = <<>> /\ sig_blocks = 0
      BY DEF MksumInv, BeforeHeader
    <2>2. job'.out \in Seq(Nat) /\ job'.write_buf \in Seq(Nat)
      BY DEF JobOK
    <2>3. <<>> \in Seq(Nat) /\ <<>> \o <<>> = <<>>
      BY ConcatEmptySeq
    <2>4. \A s, t \in Seq(Nat) : s \o t = <<>> => s = <<>> /\ t = <<>>
      BY ConcatEqualIffEmpty
    <2> QED
      BY <2>1, <2>2, <2>3, <2>4
  <1>2. AfterHeader'
    BY DEF MksumInv, AfterHeader, Accepted, Params
  <1> QED
    BY <1>1, <1>2

\* What the assumptions say of the file and of the arguments.
LEMMA InputsFacts ==
    /\ \A basis \in Inputs : Summable(basis) /\ basis \in Seq(Nat)
    /\ \A x \in Args : /\ ArgsOK(x) /\ x.magic \in Int /\ x.block_len \in Nat
                       /\ x.strong_len \in Int /\ x.strong_len >= -1
  BY MksumAssumption DEF Summable, ArgsOK

\* rs_sig_begin: nothing is read, written or counted yet.
LEMMA MksumInit == Init => MksumInv
  <1> SUFFICES ASSUME Init
               PROVE  MksumInv
    OBVIOUS
  <1>1. input \in Inputs /\ args \in Args /\ sig_blocks = 0 /\ EngineInit("rs_sig_s_header")
    BY DEF Init
  <1>2. /\ JobOK(job) /\ job.cursor = 0 /\ job.eof_in = FALSE /\ job.write_buf = <<>>
        /\ job.copy_len = 0 /\ job.out = <<>> /\ job.asserts
        /\ statefn = "rs_sig_s_header" /\ pc = "caller" /\ result = "RS_RUNNING"
    <2>1. input \in Seq(Nat)
      BY <1>1, InputsFacts
    <2> QED
      BY <1>1, <2>1, EngineInitFacts
  <1> QED
    BY <1>1, <1>2 DEF MksumInv, MksumTypeOK, EofIsTrue, TubeFree, BeforeHeader, AfterHeader, AtEnd,
                      InTurn, Over, Answered, AssertionsHold

\* The caller calls again.
LEMMA MksumCallIter ==
    ASSUME MksumInv, Caller(CallIter)
    PROVE  MksumInv' /\ UNCHANGED <<input, args, result>> /\ job'.out = job.out /\ pc' = "work"
           /\ ~Over
  <1>1. PICK n \in 0 .. Len(input), e \in BOOLEAN, m \in 0 .. MaxOut : Iter(n, e, m)
    BY DEF Caller, CallIter
  <1>2. UNCHANGED <<args, sig, sig_blocks>>
    BY DEF Caller
  <1>3. /\ JobOK(job) /\ Call(n, e, m) /\ result \in {"RS_RUNNING", "RS_BLOCKED"}
        /\ n > 0 => ~job.eof_in
        /\ IF job.eof_in THEN e ELSE e => job.cursor + rs_scoop_avail(job) + n = Len(input)
    BY <1>1 DEF Iter, MksumInv, MksumTypeOK
  <1>30. /\ job.cursor \in Nat /\ job.scoop_avail \in Nat /\ job.avail_in \in Nat
         /\ Len(input) \in Nat /\ MaxOut \in Nat
    BY <1>3, LengthFacts, JobAssumption DEF JobOK
  <1>4. n \in Nat /\ m \in Nat /\ n \in Int /\ job.avail_in + n \in Nat
    BY <1>30
  <1>5. job.cursor + job.scoop_avail + job.avail_in + n <= Len(input)
    <2>1. job.cursor + (job.scoop_avail + job.avail_in) + n <= Len(input)
      BY <1>1 DEF Iter, rs_scoop_avail
    <2> QED
      BY <1>30, <1>4, <2>1
  <1>6. /\ JobOK(job') /\ job'.cursor = job.cursor /\ job'.scoop_avail = job.scoop_avail
        /\ job'.avail_in = job.avail_in + n /\ job'.eof_in = e
        /\ job'.out = job.out /\ job'.write_buf = job.write_buf
        /\ job'.copy_len = job.copy_len /\ job'.asserts = job.asserts
        /\ pc = "caller" /\ pc' = "work" /\ UNCHANGED <<input, statefn, result>>
    BY <1>3, <1>4, <1>5, CallFacts
  <1>7. JobOK(job)'
    BY <1>6 DEF JobOK
  <1>8. MksumTypeOK' /\ TubeFree' /\ AssertionsHold' /\ Answered'
    BY <1>2, <1>6, <1>7 DEF MksumInv, MksumTypeOK, TubeFree, AssertionsHold, Answered
  <1>9. BeforeHeader' /\ AfterHeader'
    BY <1>2, <1>6, MksumKeeps
  <1>10. ~Over /\ InTurn'
    BY <1>3, <1>6 DEF InTurn, Over
  <1>11. EofIsTrue'
    <2> SUFFICES ASSUME e
                 PROVE  job'.cursor + job'.scoop_avail + job'.avail_in = Len(input)
      BY <1>6 DEF EofIsTrue
    <2>1. job.eof_in => n = 0 /\ job.cursor + job.scoop_avail + job.avail_in = Len(input)
      BY <1>3, <1>4 DEF MksumInv, EofIsTrue
    <2>2. ~job.eof_in => job.cursor + (job.scoop_avail + job.avail_in) + n = Len(input)
      BY <1>3 DEF rs_scoop_avail
    <2> QED
      BY <1>30, <1>4, <1>6, <2>1, <2>2
  <1>12. AtEnd'
    <2> SUFFICES ASSUME statefn = "NULL"
                 PROVE  /\ sig_blocks = BlockCount(input, Params.block_len)
                        /\ e /\ job'.scoop_avail = 0 /\ job'.avail_in = 0
      BY <1>2, <1>6 DEF AtEnd, Params
    <2>1. /\ sig_blocks = BlockCount(input, Params.block_len)
          /\ job.eof_in /\ job.scoop_avail = 0 /\ job.avail_in = 0
      BY DEF MksumInv, AtEnd
    <2>2. e /\ n = 0
      BY <1>3, <1>4, <2>1
    <2> QED
      BY <1>6, <2>1, <2>2
  <1> QED
    BY <1>2, <1>6, <1>8, <1>9, <1>10, <1>11, <1>12 DEF MksumInv

\* The head of the loop of rs_job_work.
LEMMA MksumCatchup ==
    ASSUME MksumInv, Caller(Catchup)
    PROVE  MksumInv' /\ UNCHANGED <<input, args>> /\ Work(job, job') /\ ~Over
  <1> DEFINE c == rs_tube_catchup(job)
             k == c.job
  <1>1. pc = "work" /\ UNCHANGED <<args, sig, sig_blocks, statefn>>
    BY DEF Caller, Catchup
  <1>2. JobOK(job) /\ job.copy_len = 0 /\ job.asserts /\ ~Over
    BY <1>1 DEF MksumInv, MksumTypeOK, TubeFree, AssertionsHold, InTurn
  <1>3. /\ Work(job, k) /\ k.asserts = job.asserts
        /\ SameInput(job, k) /\ k.eof_in = job.eof_in /\ k.copy_len = 0
        /\ k.out \o k.write_buf = job.out \o job.write_buf
        /\ c.result = "RS_DONE" => k.write_buf = <<>>
        /\ c.result # "RS_DONE" =>
             c.result = "RS_BLOCKED" /\ k.write_buf # <<>> /\ k.avail_out = 0
    BY <1>2, CatchupPlain
  <1>4. \/ c.result = "RS_DONE" /\ statefn # "NULL" /\ job' = k /\ pc' = "statefn"
           /\ UNCHANGED <<input, result, orig>>
        \/ ~(c.result = "RS_DONE" /\ statefn # "NULL") /\ Return(k, c.result)
    BY DEF Caller, Catchup
  <1> HIDE DEF c
  <1>5. JobOK(k)
    BY <1>3 DEF Work
  <1>6. /\ Work(k, job') /\ SameOutput(k, job') /\ SameInput(k, job') /\ (k.asserts => job'.asserts)
        /\ input' = input
        /\ \/ pc' = "statefn" /\ statefn # "NULL" /\ result' = result /\ c.result = "RS_DONE"
           \/ /\ pc' = "caller" /\ result' = c.result
              /\ c.result = "RS_DONE" => statefn = "NULL"
    <2>1. CASE Return(k, c.result) /\ ~(c.result = "RS_DONE" /\ statefn # "NULL")
      <3>1. c.result # "RS_RUNNING" /\ (c.result = "RS_DONE" => rs_tube_is_idle(k))
        BY <1>3 DEF rs_tube_is_idle
      <3>2. k.avail_in = 0 \/ k.avail_out = 0
        BY <1>3, <2>1 DEF MksumInv, AtEnd, SameInput
      <3>3. result' = c.result
        BY <2>1, <3>2, ReturnStands
      <3> QED
        BY <1>3, <1>5, <2>1, <3>1, <3>3, ReturnFacts
    <2>2. CASE c.result = "RS_DONE" /\ statefn # "NULL" /\ job' = k /\ pc' = "statefn"
               /\ UNCHANGED <<input, result, orig>>
      BY <1>5, <2>2, WorkAddsUp DEF SameOutput, SameInput
    <2> QED
      BY <1>4, <2>1, <2>2
  <1>7. /\ JobOK(job') /\ SameInput(job, job') /\ job'.eof_in = job.eof_in /\ job'.copy_len = 0
        /\ job'.write_buf = k.write_buf /\ job'.avail_out = k.avail_out /\ job'.asserts
        /\ job'.out \o job'.write_buf = job.out \o job.write_buf
    BY <1>2, <1>3, <1>6 DEF SameOutput, SameInput, Work
  <1>8. Work(job, job')
    BY <1>2, <1>3, <1>6, WorkAddsUp
  <1>9. MksumTypeOK'
    <2>1. JobOK(job)'
      BY <1>6, <1>7 DEF JobOK
    <2> QED
      BY <1>1, <1>6, <2>1 DEF MksumInv, MksumTypeOK
  <1>10. TubeFree' /\ AssertionsHold'
    BY <1>1, <1>3, <1>6, <1>7 DEF TubeFree, AssertionsHold
  <1>11. BeforeHeader' /\ AfterHeader'
    BY <1>1, <1>6, <1>7, MksumKeeps DEF SameInput
  <1>12. EofIsTrue' /\ AtEnd'
    BY <1>1, <1>6, <1>7 DEF MksumInv, EofIsTrue, AtEnd, SameInput, Params
  <1>13. InTurn'
    BY <1>2, <1>6 DEF InTurn, Over
  <1>14. Answered'
    BY <1>1, <1>3, <1>6, <1>7 DEF Answered
  <1> QED
    BY <1>1, <1>2, <1>6, <1>8, <1>9, <1>10, <1>11, <1>12, <1>13, <1>14 DEF MksumInv

\* The header goes into the empty tube; arguments that are not accepted end the
\* job before anything is written.
LEMMA MksumHeader ==
    ASSUME MksumInv, rs_sig_s_header
    PROVE  MksumInv' /\ UNCHANGED <<input, args>> /\ Work(job, job') /\ ~Over
  <1> DEFINE a == Params
             new == [magic |-> a.magic, block_len |-> a.block_len, strong_len |-> a.strong_len]
             check == rs_sig_args_check(new.magic, new.block_len, new.strong_len)
             c == Assert_(job, check)
             s1 == Netint(new.magic, 4)
             s2 == Netint(new.block_len, 4)
             s3 == Netint(new.strong_len, 4)
             n1 == rs_tube_write(c, s1)
             n2 == rs_tube_write(n1, s2)
             n3 == rs_tube_write(n2, s3)
  <1>1. /\ pc = "statefn" /\ statefn = "rs_sig_s_header" /\ UNCHANGED <<args, sig_blocks>>
        /\ \/ a.result # "RS_DONE" /\ Finish(job, statefn, a.result) /\ UNCHANGED sig
           \/ a.result = "RS_DONE" /\ sig' = new /\ Finish(n3, "rs_sig_s_generate", "RS_RUNNING")
    BY DEF rs_sig_s_header, Running, Params
  <1>2. /\ JobOK(job) /\ job.copy_len = 0 /\ job.asserts /\ job.write_buf = <<>> /\ ~Over
        /\ job.cursor = 0 /\ job.out = <<>> /\ sig_blocks = 0
        /\ input \in Inputs /\ args \in Args
    BY <1>1 DEF MksumInv, MksumTypeOK, TubeFree, AssertionsHold, InTurn, BeforeHeader
  <1>3. /\ a.magic \in Int /\ a.block_len \in Nat \ {0} /\ a.strong_len \in Nat \ {0}
        /\ a.result \in {"RS_BAD_MAGIC", "RS_PARAM_ERROR", "RS_DONE"}
        /\ a.result = "RS_DONE" => check
    BY <1>2, InputsFacts, SigArgsFacts DEF Params
  <1>4. CASE a.result # "RS_DONE"
    <2>1. Finish(job, statefn, a.result) /\ UNCHANGED sig
      BY <1>1, <1>4
    <2>2. a.result \notin {"RS_RUNNING", "RS_DONE", "RS_BLOCKED"}
      BY <1>3, <1>4
    <2> HIDE DEF a
    <2>3. /\ input' = input /\ Work(job, job') /\ SameOutput(job, job') /\ SameInput(job, job')
          /\ job.asserts => job'.asserts
          /\ pc' = "caller" /\ statefn' = statefn
      BY <1>2, <2>1, <2>2, FinishFacts
    <2>4. result' = a.result
      BY <2>1, <2>2 DEF Finish, Return
    <2>5. JobOK(job') /\ job'.eof_in = job.eof_in
      BY <2>3 DEF Work
    <2>6. JobOK(job)'
      BY <2>3, <2>5 DEF JobOK
    <2>7. MksumTypeOK' /\ TubeFree' /\ AssertionsHold' /\ InTurn'
      BY <1>1, <1>2, <2>3, <2>6
         DEF MksumInv, MksumTypeOK, TubeFree, AssertionsHold, InTurn, SameOutput
    <2>8. BeforeHeader' /\ AfterHeader' /\ AtEnd'
      BY <1>1, <1>2, <2>3 DEF BeforeHeader, AfterHeader, AtEnd, SameInput, SameOutput
    <2>9. EofIsTrue'
      BY <2>3, <2>5 DEF MksumInv, EofIsTrue, SameInput
    <2>10. Answered'
      BY <1>1, <1>4, <2>3, <2>4 DEF Answered, Accepted, Params, a
    <2> QED
      BY <1>1, <1>2, <2>3, <2>7, <2>8, <2>9, <2>10 DEF MksumInv
  <1>5. CASE a.result = "RS_DONE"
    <2>1. sig' = new /\ Finish(n3, "rs_sig_s_generate", "RS_RUNNING") /\ check
      BY <1>1, <1>3, <1>5
    <2>2. /\ s1 \in Seq(Nat) /\ s2 \in Seq(Nat) /\ s3 \in Seq(Nat)
          /\ Len(s1) = 4 /\ Len(s2) = 4 /\ Len(s3) = 4
      <3>1. new.magic \in Int /\ new.block_len \in Int /\ new.strong_len \in Int
        BY <1>3
      <3> HIDE DEF new
      <3> QED
        BY <3>1, NetintFacts
    <2>3. HeaderOf(a) = (s1 \o s2) \o s3
      BY DEF HeaderOf
    <2> HIDE DEF a, check, s1, s2, s3
    <2>4. /\ Work(job, c) /\ SameOutput(job, c) /\ SameInput(job, c) /\ c.asserts
      BY <1>2, <2>1, AssertFacts
    <2>5. JobOK(c) /\ c.copy_len = 0 /\ c.write_buf = <<>> /\ c.out = <<>>
      BY <1>2, <2>4 DEF Work, SameOutput
    <2> HIDE DEF c
    <2>6. /\ Work(c, n1) /\ SameInput(c, n1) /\ n1.out = c.out /\ n1.copy_len = c.copy_len
          /\ n1.write_buf = c.write_buf \o s1
          /\ n1.asserts = (c.asserts /\ (c.copy_len = 0 /\ TubeLen(c) + Len(s1) <= TubeSize))
      BY <2>2, <2>5, TubeFacts
    <2>7. JobOK(n1) /\ n1.copy_len = 0 /\ n1.write_buf = s1 /\ n1.out = <<>> /\ TubeLen(c) = 0
      <3>1. <<>> \o s1 = s1
        BY <2>2, ConcatEmptySeq
      <3> QED
        BY <2>5, <2>6, <3>1 DEF Work, TubeLen
    <2> HIDE DEF n1
    <2>8. /\ Work(n1, n2) /\ SameInput(n1, n2) /\ n2.out = n1.out /\ n2.copy_len = n1.copy_len
          /\ n2.write_buf = n1.write_buf \o s2
          /\ n2.asserts = (n1.asserts /\ (n1.copy_len = 0 /\ TubeLen(n1) + Len(s2) <= TubeSize))
      <3>1. JobOK(n1) /\ s2 \in Seq(Nat)
        BY <2>2, <2>7
      <3> QED
        BY <3>1, TubeFacts
    <2>9. JobOK(n2) /\ n2.copy_len = 0 /\ n2.write_buf = s1 \o s2 /\ n2.out = <<>>
          /\ TubeLen(n1) = 4
      BY <2>2, <2>7, <2>8 DEF Work, TubeLen
    <2> HIDE DEF n2
    <2>10. /\ Work(n2, n3) /\ SameInput(n2, n3) /\ n3.out = n2.out /\ n3.copy_len = n2.copy_len
           /\ n3.write_buf = n2.write_buf \o s3
           /\ n3.asserts = (n2.asserts /\ (n2.copy_len = 0 /\ TubeLen(n2) + Len(s3) <= TubeSize))
      BY <2>2, <2>9, TubeFacts
    <2>11. TubeLen(n2) = 8
      <3>1. Len(s1 \o s2) = Len(s1) + Len(s2)
        BY <2>2, ConcatProperties
      <3> QED
        BY <2>2, <2>9, <3>1 DEF TubeLen
    <2>12. n3.asserts
      <3>1. 12 <= TubeSize /\ TubeSize \in Nat
        BY MksumAssumption, JobAssumption
      <3>2. 0 + 4 <= TubeSize /\ 4 + 4 <= TubeSize /\ 8 + 4 <= TubeSize
        BY <3>1
      <3>3. n1.asserts
        BY <2>2, <2>4, <2>5, <2>6, <2>7, <3>2
      <3>4. n2.asserts
        BY <2>2, <2>7, <2>8, <2>9, <3>2, <3>3
      <3> QED
        BY <2>2, <2>9, <2>10, <2>11, <3>2, <3>4
    <2>13. /\ JobOK(n3) /\ n3.copy_len = 0 /\ n3.out = <<>> /\ n3.write_buf = HeaderOf(a)
      BY <2>3, <2>9, <2>10 DEF Work
    <2>14. Work(job, n3) /\ SameInput(job, n3)
      <3>1. Work(job, n1)
        BY <1>2, <2>4, <2>6, WorkAddsUp
      <3>2. Work(job, n2)
        BY <1>2, <2>8, <3>1, WorkAddsUp
      <3>3. Work(job, n3)
        BY <1>2, <2>10, <3>2, WorkAddsUp
      <3> QED
        BY <2>4, <2>6, <2>8, <2>10, <3>3 DEF SameInput
    <2> HIDE DEF n3, new
    <2>15. /\ input' = input /\ Work(n3, job') /\ SameOutput(n3, job') /\ SameInput(n3, job')
           /\ n3.asserts => job'.asserts
           /\ pc' = "work" /\ statefn' = "rs_sig_s_generate" /\ result' = result
      BY <2>1, <2>13, FinishFacts
    <2>16. Work(job, job')
      BY <1>2, <2>14, <2>15, WorkAddsUp
    <2>17. /\ JobOK(job') /\ SameInput(job, job') /\ job'.eof_in = job.eof_in
           /\ job'.copy_len = 0 /\ job'.out = <<>> /\ job'.write_buf = HeaderOf(a) /\ job'.asserts
      BY <2>12, <2>13, <2>14, <2>15, <2>16 DEF Work, SameInput, SameOutput
    <2>18. JobOK(job)'
      BY <2>15, <2>17 DEF JobOK
    <2>19. MksumTypeOK' /\ TubeFree' /\ AssertionsHold' /\ BeforeHeader' /\ AtEnd' /\ Answered'
      BY <1>1, <1>2, <2>15, <2>17, <2>18
         DEF MksumInv, MksumTypeOK, TubeFree, AssertionsHold, BeforeHeader, AtEnd, Answered
    <2>20. EofIsTrue' /\ InTurn'
      BY <1>2, <2>15, <2>17 DEF MksumInv, EofIsTrue, SameInput, InTurn, Over
    <2>21. AfterHeader'
      <3>1. /\ PartsOf(input, args)[0] = HeaderOf(a)
            /\ BlockCount(input, a.block_len) \in Nat
        BY <1>2, <1>5, InputsFacts, PartsFacts DEF a, Params
      <3>2. HeaderOf(a) \in Seq(Nat) /\ <<>> \o HeaderOf(a) = HeaderOf(a)
        BY <1>3, HeaderFacts, ConcatEmptySeq
      <3>3. Lesser(0 * a.block_len, Len(input)) = 0 /\ 0 <= BlockCount(input, a.block_len)
        <4>1. Len(input) \in Nat /\ 0 * a.block_len = 0
          BY <1>2, <1>3, LengthFacts
        <4> QED
          BY <3>1, <4>1 DEF Lesser
      <3>4. Params' = a /\ input' = input /\ args' = args /\ sig_blocks' = 0
        BY <1>1, <1>2, <2>15 DEF a, Params
      <3>5. job'.cursor = 0
        BY <1>2, <2>17 DEF SameInput
      <3>6. sig' = [magic |-> a.magic, block_len |-> a.block_len, strong_len |-> a.strong_len]
        BY <2>1 DEF new
      <3> QED
        BY <1>5, <2>17, <3>1, <3>2, <3>3, <3>4, <3>5, <3>6 DEF AfterHeader, Accepted
    <2> QED
      BY <1>1, <1>2, <2>15, <2>16, <2>19, <2>20, <2>21 DEF MksumInv
  <1> QED
    BY <1>4, <1>5

\* What the invariant says of a job that is about to read the next block.
LEMMA MksumReading ==
    ASSUME MksumInv, Running("rs_sig_s_generate")
    PROVE  /\ JobOK(job) /\ job.copy_len = 0 /\ job.asserts /\ job.write_buf = <<>> /\ ~Over
           /\ input \in Inputs /\ args \in Args /\ input \in Seq(Nat) /\ Len(input) \in Nat
           /\ Accepted /\ sig.magic = Params.magic /\ sig.block_len = Params.block_len
           /\ sig.strong_len = Params.strong_len
           /\ Params.magic \in Int /\ Params.block_len \in Nat \ {0}
           /\ Params.strong_len \in Nat \ {0} /\ Params.strong_len <= RS_MAX_STRONG_SUM_LENGTH
           /\ sig_blocks \in Nat /\ BlockCount(input, Params.block_len) \in Nat
           /\ sig_blocks <= BlockCount(input, Params.block_len)
           /\ job.cursor = Lesser(sig_blocks * Params.block_len, Len(input))
           /\ job.out \in Seq(Nat) /\ job.out = PartsOf(input, args)[sig_blocks]
  <1>1. /\ JobOK(job) /\ job.copy_len = 0 /\ job.asserts /\ job.write_buf = <<>> /\ ~Over
        /\ input \in Inputs /\ args \in Args /\ sig_blocks \in Nat
    BY DEF MksumInv, MksumTypeOK, TubeFree, AssertionsHold, InTurn, Running
  <1>2. /\ Accepted
        /\ sig = [magic |-> Params.magic, block_len |-> Params.block_len,
                  strong_len |-> Params.strong_len]
        /\ sig_blocks <= BlockCount(input, Params.block_len)
        /\ job.cursor = Lesser(sig_blocks * Params.block_len, Len(input))
        /\ job.out \o job.write_buf = PartsOf(input, args)[sig_blocks]
    BY DEF MksumInv, AfterHeader, Running
  <1>3. input \in Seq(Nat) /\ Len(input) \in Nat
    BY <1>1, InputsFacts, LenProperties
  <1>4. /\ Params.magic \in Int /\ Params.block_len \in Nat \ {0}
        /\ Params.strong_len \in Nat \ {0} /\ Params.strong_len <= RS_MAX_STRONG_SUM_LENGTH
    BY <1>1, <1>2, InputsFacts, SigArgsFacts DEF Params, Accepted
  <1>5. BlockCount(input, Params.block_len) \in Nat
    BY <1>3, <1>4, BlockCountFacts
  <1>6. job.out \in Seq(Nat) /\ job.out \o <<>> = job.out
    BY <1>1, ConcatEmptySeq DEF JobOK
  <1>7. job.out = PartsOf(input, args)[sig_blocks]
    BY <1>1, <1>2, <1>6
  <1>8. sig.magic = Params.magic /\ sig.block_len = Params.block_len
        /\ sig.strong_len = Params.strong_len
    BY <1>2
  <1> QED
    BY <1>1, <1>2, <1>3, <1>4, <1>5, <1>6, <1>7, <1>8

\* The sums of the next block fit into the empty tube.
LEMMA MksumBlock ==
    ASSUME MksumInv, Running("rs_sig_s_generate"), NEW j, Work(job, j), SameOutput(job, j),
           j.asserts, sig_blocks < BlockCount(input, Params.block_len),
           j.cursor = Lesser((sig_blocks + 1) * Params.block_len, Len(input)),
           Finish(rs_sig_do_block(j, NextBlock(input, Params.block_len, sig_blocks)), statefn, "RS_RUNNING"),
           sig_blocks' = sig_blocks + 1, UNCHANGED <<args, sig>>
    PROVE  MksumInv' /\ UNCHANGED <<input, args>> /\ Work(job, job') /\ ~Over
  <1> DEFINE a == Params
             b == a.block_len
             k == sig_blocks
             q == BlockCount(input, b)
             block == NextBlock(input, b, k)
             weak == Netint(rs_calc_weak_sum(rs_signature_weaksum_kind(a.magic), block), 4)
             strong == StrongPart(a.magic, a.strong_len, block)
             n1 == rs_tube_write(j, weak)
             n2 == rs_tube_write(n1, strong)
  <1>1. /\ JobOK(job) /\ job.copy_len = 0 /\ job.asserts /\ job.write_buf = <<>> /\ ~Over
        /\ input \in Inputs /\ args \in Args /\ Len(input) \in Nat
        /\ Accepted /\ sig.magic = a.magic /\ sig.block_len = b /\ sig.strong_len = a.strong_len
        /\ a.magic \in Int /\ b \in Nat \ {0}
        /\ a.strong_len \in Nat \ {0} /\ a.strong_len <= RS_MAX_STRONG_SUM_LENGTH
        /\ k \in Nat /\ q \in Nat /\ k < q
        /\ job.out \in Seq(Nat) /\ job.out = PartsOf(input, args)[k]
    BY MksumReading
  <1>2. rs_sig_do_block(j, block) = n2
    BY <1>1 DEF rs_sig_do_block
  <1>3. /\ weak \in Seq(Nat) /\ Len(weak) = 4
        /\ strong \in Seq(Nat) /\ Len(strong) = a.strong_len
        /\ SumsOf(a, block) = weak \o strong
    <2> DEFINE m == k * b + 1
               n == Lesser((k + 1) * b, Len(input))
    <2> HIDE DEF a, b, k, q
    <2>1. m \in 1 .. Len(input) /\ n \in 1 .. Len(input) /\ m <= n
      BY <1>1, InputsFacts, NextBlockFacts DEF q
    <2>2. block = SubSeq(input, m, n)
      BY DEF NextBlock
    <2> HIDE DEF m, n, block
    <2> DEFINE piece == SubSeq(input, m, n)
               w == Netint(rs_calc_weak_sum(rs_signature_weaksum_kind(a.magic), piece), 4)
               s == StrongPart(a.magic, a.strong_len, piece)
    <2>3. /\ w \in Seq(Nat) /\ Len(w) = 4 /\ s \in Seq(Nat) /\ Len(s) = a.strong_len
          /\ SumsOf(a, piece) = w \o s
      <3>1. /\ Summable(input) /\ a.magic \in Int /\ a.strong_len \in Nat \ {0}
            /\ a.strong_len <= RS_MAX_STRONG_SUM_LENGTH
        BY <1>1, InputsFacts
      <3> QED
        BY <2>1, <3>1, SumsFacts, SMTT(40)
    <2> HIDE DEF piece
    <2>4. block = piece
      BY <2>2 DEF piece
    <2> QED
      BY <2>3, <2>4
  <1>4. /\ PartsOf(input, args)[k + 1] = job.out \o SumsOf(a, block)
    <2>1. /\ \A i \in 1 .. q : PartsOf(input, args)[i]
                = PartsOf(input, args)[i - 1] \o SumsOf(a, NextBlock(input, b, i - 1))
      <3>1. Summable(input) /\ ArgsOK(args) /\ rs_sig_args(-1, args).result = "RS_DONE"
        BY <1>1, InputsFacts DEF Params, Accepted
      <3> QED
        BY <3>1, PartsFacts DEF Params
    <2> HIDE DEF a, b, q
    <2>2. k + 1 \in 1 .. q /\ (k + 1) - 1 = k
      <3>1. k \in Nat /\ q \in Nat /\ k < q
        BY <1>1, Zenon
      <3> HIDE DEF k
      <3> QED
        BY <3>1
    <2>3. PartsOf(input, args)[k + 1]
            = PartsOf(input, args)[(k + 1) - 1] \o SumsOf(a, NextBlock(input, b, (k + 1) - 1))
      BY <2>1, <2>2
    <2> QED
      BY <1>1, <2>2, <2>3
  <1>5. Params' = a /\ Accepted' = Accepted
    <2>1. Params' = a
      BY DEF Params
    <2> QED
      BY <2>1 DEF Accepted
  <1> HIDE DEF a, b, q, block, weak, strong
  <1>6. JobOK(j) /\ j.copy_len = 0 /\ j.write_buf = <<>> /\ j.out = job.out
    BY <1>1 DEF Work, SameOutput
  <1>7. /\ Work(j, n1) /\ SameInput(j, n1) /\ n1.out = j.out /\ n1.copy_len = j.copy_len
        /\ n1.write_buf = j.write_buf \o weak
        /\ n1.asserts = (j.asserts /\ (j.copy_len = 0 /\ TubeLen(j) + Len(weak) <= TubeSize))
    BY <1>3, <1>6, TubeFacts
  <1>8. JobOK(n1) /\ n1.copy_len = 0 /\ n1.write_buf = weak /\ TubeLen(j) = 0 /\ TubeLen(n1) = 4
    <2>1. <<>> \o weak = weak
      BY <1>3, ConcatEmptySeq
    <2>2. n1.write_buf = weak
      BY <1>6, <1>7, <2>1
    <2> HIDE DEF n1
    <2> QED
      BY <1>3, <1>6, <1>7, <2>2 DEF Work, TubeLen
  <1> HIDE DEF n1
  <1>9. /\ Work(n1, n2) /\ SameInput(n1, n2) /\ n2.out = n1.out /\ n2.copy_len = n1.copy_len
        /\ n2.write_buf = n1.write_buf \o strong
        /\ n2.asserts = (n1.asserts /\ (n1.copy_len = 0 /\ TubeLen(n1) + Len(strong) <= TubeSize))
    <2>1. JobOK(n1) /\ strong \in Seq(Nat)
      BY <1>3, <1>8
    <2> QED
      BY <2>1, TubeFacts
  <1>10. n2.asserts
    <2>1. TubeSize \in Nat /\ 4 + RS_MAX_STRONG_SUM_LENGTH <= TubeSize
          /\ RS_MAX_STRONG_SUM_LENGTH \in Nat
      BY MksumAssumption, JobAssumption, SigArgsAssumption
    <2>2. 0 + 4 <= TubeSize /\ 4 + a.strong_len <= TubeSize
      BY <1>1, <2>1
    <2>3. n1.asserts
      BY <1>3, <1>6, <1>7, <1>8, <2>2
    <2> QED
      BY <1>3, <1>8, <1>9, <2>2, <2>3
  <1> HIDE DEF n2
  <1>11. JobOK(n2) /\ n2.copy_len = 0 /\ n2.out = job.out /\ n2.write_buf = SumsOf(a, block)
    BY <1>3, <1>6, <1>7, <1>8, <1>9 DEF Work
  <1>12. Work(job, n2) /\ SameInput(j, n2)
    <2>1. Work(job, n1)
      BY <1>1, <1>7, WorkAddsUp
    <2>2. Work(job, n2)
      BY <1>1, <1>9, <2>1, WorkAddsUp
    <2> QED
      BY <1>7, <1>9, <2>2 DEF SameInput
  <1>13. Finish(n2, statefn, "RS_RUNNING")
    BY <1>2 DEF block, b, a
  <1>14. /\ input' = input /\ Work(n2, job') /\ SameOutput(n2, job') /\ SameInput(n2, job')
         /\ n2.asserts => job'.asserts
         /\ pc' = "work" /\ statefn' = statefn /\ result' = result
    BY <1>11, <1>13, FinishFacts
  <1>15. Work(job, job')
    BY <1>1, <1>12, <1>14, WorkAddsUp
  <1>16. /\ JobOK(job') /\ job'.cursor = j.cursor /\ job'.eof_in = job.eof_in
         /\ job'.copy_len = 0 /\ job'.asserts
         /\ job'.out \o job'.write_buf = job.out \o SumsOf(a, block)
    BY <1>10, <1>11, <1>12, <1>14, <1>15 DEF Work, SameInput, SameOutput
  <1>17. JobOK(job)'
    BY <1>14, <1>16 DEF JobOK
  <1>18. MksumTypeOK' /\ TubeFree' /\ AssertionsHold' /\ BeforeHeader' /\ AtEnd' /\ Answered'
    <2>1. statefn = "rs_sig_s_generate" /\ k + 1 \in Nat
      BY <1>1 DEF Running
    <2> QED
      BY <1>1, <1>14, <1>16, <1>17, <2>1
         DEF MksumInv, MksumTypeOK, TubeFree, AssertionsHold, BeforeHeader, AtEnd, Answered
  <1>19. EofIsTrue' /\ InTurn'
    <2>1. job'.cursor + job'.scoop_avail + job'.avail_in = job.cursor + job.scoop_avail + job.avail_in
      BY <1>15 DEF Work
    <2> QED
      BY <1>1, <1>14, <1>16, <2>1 DEF MksumInv, EofIsTrue, InTurn, Over
  <1>20. AfterHeader'
    <2>1. k + 1 <= q
      BY <1>1
    <2>2. j.cursor = Lesser((k + 1) * b, Len(input))
      BY DEF b, a
    <2>3. sig = [magic |-> a.magic, block_len |-> a.block_len, strong_len |-> a.strong_len]
      BY DEF MksumInv, AfterHeader, Running, a
    <2> QED
      BY <1>1, <1>4, <1>5, <1>14, <1>16, <2>1, <2>2, <2>3 DEF AfterHeader, q, b
  <1> QED
    BY <1>1, <1>14, <1>15, <1>18, <1>19, <1>20 DEF MksumInv

\* A whole block, the last short one, or nothing because the input is at its end
\* or has not arrived.
LEMMA MksumGenerate ==
    ASSUME MksumInv, rs_sig_s_generate
    PROVE  MksumInv' /\ UNCHANGED <<input, args>> /\ Work(job, job') /\ ~Over
  <1> DEFINE b == Params.block_len
             k == sig_blocks
             q == BlockCount(input, b)
             L == Len(input)
             whole == Read(job, b)
             near_eof == whole.result = "RS_INPUT_ENDED"
             rest == ReadRest(whole.job)
             r == IF near_eof THEN rest ELSE whole
             len == IF near_eof THEN rs_scoop_avail(whole.job) ELSE b
  <1>0. Running("rs_sig_s_generate") /\ UNCHANGED <<args, sig>>
    BY DEF rs_sig_s_generate
  <1>1. /\ JobOK(job) /\ job.copy_len = 0 /\ job.asserts /\ job.write_buf = <<>> /\ ~Over
        /\ input \in Seq(Nat) /\ L \in Nat /\ sig.block_len = b /\ b \in Nat \ {0}
        /\ k \in Nat /\ q \in Nat /\ k <= q /\ job.cursor = Lesser(k * b, L)
    BY <1>0, MksumReading
  <1>2. \/ /\ r.result = "RS_DONE"
           /\ Finish(rs_sig_do_block(r.job, NextBytes(job, len)), statefn, "RS_RUNNING")
           /\ sig_blocks' = sig_blocks + 1
        \/ /\ r.result # "RS_DONE"
           /\ Finish(r.job, statefn, IF r.result = "RS_INPUT_ENDED" THEN "RS_DONE" ELSE r.result)
           /\ UNCHANGED sig_blocks
    <2> DEFINE x == sig.block_len
               wholex == Read(job, x)
               nearx == wholex.result = "RS_INPUT_ENDED"
               rx == IF nearx THEN ReadRest(wholex.job) ELSE wholex
               lenx == IF nearx THEN rs_scoop_avail(wholex.job) ELSE x
    <2>1. \/ /\ rx.result = "RS_DONE"
             /\ Finish(rs_sig_do_block(rx.job, NextBytes(job, lenx)), statefn, "RS_RUNNING")
             /\ sig_blocks' = sig_blocks + 1
          \/ /\ rx.result # "RS_DONE"
             /\ Finish(rx.job, statefn, IF rx.result = "RS_INPUT_ENDED" THEN "RS_DONE" ELSE rx.result)
             /\ UNCHANGED sig_blocks
      BY DEF rs_sig_s_generate
    <2>2. x = b
      BY <1>1
    <2> HIDE DEF x, b
    <2> QED
      BY <2>1, <2>2
  <1>3. /\ Work(job, whole.job) /\ SameOutput(job, whole.job) /\ whole.job.asserts
        /\ whole.result \in {"RS_DONE", "RS_INPUT_ENDED", "RS_BLOCKED"}
        /\ whole.job.cursor = IF whole.result = "RS_DONE" THEN job.cursor + b ELSE job.cursor
        /\ whole.result = "RS_INPUT_ENDED" => job.eof_in
        /\ whole.result = "RS_BLOCKED" => ~job.eof_in /\ whole.job.avail_in = 0
        /\ whole.result = "RS_DONE" => job.cursor + b <= L
    <2> HIDE DEF b
    <2>1. b \in Nat
      BY <1>1
    <2> QED
      BY <1>1, <2>1, ReadFacts
  <1>4. whole.result # "RS_DONE" =>
          whole.job.avail_in = 0 /\ rs_scoop_avail(whole.job) = rs_scoop_avail(job)
          /\ rs_scoop_avail(job) < b
    <2> HIDE DEF b
    <2>1. b \in Nat
      BY <1>1
    <2> QED
      BY <1>1, <2>1, ReadShort
  <1>5. JobOK(whole.job)
    BY <1>3 DEF Work
  <1> HIDE DEF whole
  <1>6. /\ Work(whole.job, rest.job) /\ SameOutput(whole.job, rest.job)
        /\ whole.job.asserts => rest.job.asserts
        /\ rs_scoop_avail(whole.job) > 0 =>
             rest.result = "RS_DONE" /\ rest.job.cursor = whole.job.cursor + rs_scoop_avail(whole.job)
        /\ rs_scoop_avail(whole.job) = 0 =>
             rest.job = whole.job
             /\ rest.result = IF whole.job.eof_in THEN "RS_INPUT_ENDED" ELSE "RS_BLOCKED"
    BY <1>5, ReadRestFacts
  <1> HIDE DEF rest
  <1>7. /\ job.cursor \in Nat /\ rs_scoop_avail(job) \in Nat /\ k * b \in Nat
        /\ (k + 1) * b = k * b + b
        /\ job.eof_in => job.cursor + rs_scoop_avail(job) = L
    <2>1. /\ job.cursor \in Nat /\ job.scoop_avail \in Nat /\ job.avail_in \in Nat
      BY <1>1 DEF JobOK
    <2>2. job.eof_in => job.cursor + job.scoop_avail + job.avail_in = L
      BY DEF MksumInv, EofIsTrue
    <2>3. \A v, w \in Nat : v * w \in Nat /\ (v + 1) * w = v * w + w
      OBVIOUS
    <2> HIDE DEF b, L
    <2>4. k * b \in Nat /\ (k + 1) * b = k * b + b
      BY <1>1, <2>3
    <2>5. rs_scoop_avail(job) \in Nat /\ (job.eof_in => job.cursor + rs_scoop_avail(job) = L)
      BY <1>1, <2>1, <2>2 DEF rs_scoop_avail
    <2> QED
      BY <2>1, <2>4, <2>5
  <1> DEFINE kb == k * b
  <1>8. k * b < L <=> k < q
    BY <1>1, BlockCountFacts
  <1>9. job.cursor < L => job.cursor = k * b /\ k < q
    <2> HIDE DEF b, L, q, kb
    <2>1. kb \in Nat /\ job.cursor = Lesser(kb, L) /\ (kb < L <=> k < q)
      BY <1>1, <1>7, <1>8 DEF kb
    <2>2. job.cursor < L => job.cursor = kb /\ k < q
      BY <1>1, <2>1 DEF Lesser
    <2> QED
      BY <2>2 DEF kb
  <1>10. NextBlock(input, b, k) = SubSeq(input, k * b + 1, Lesser((k + 1) * b, L))
    BY DEF NextBlock
  <1> HIDE DEF b, L, q, kb
  <1>11. CASE whole.result = "RS_DONE"
    <2>1. r = whole /\ len = b
      BY <1>11
    <2>2. job.cursor < L /\ job.cursor + b <= L
      BY <1>1, <1>3, <1>7, <1>11
    <2>3. job.cursor = k * b /\ k < q
      BY <1>9, <2>2
    <2>4. whole.job.cursor = Lesser((k + 1) * b, L) /\ Lesser((k + 1) * b, L) = job.cursor + b
      BY <1>3, <1>7, <1>11, <2>2, <2>3 DEF Lesser
    <2>5. NextBytes(job, len) = NextBlock(input, b, k)
      BY <1>10, <2>1, <2>3, <2>4 DEF NextBytes
    <2>6. Finish(rs_sig_do_block(whole.job, NextBlock(input, b, k)), statefn, "RS_RUNNING")
          /\ sig_blocks' = sig_blocks + 1
      BY <1>2, <1>11, <2>1, <2>5
    <2> QED
      BY <1>0, <1>3, <2>3, <2>4, <2>6, MksumBlock DEF b, L, q
  <1>12. CASE whole.result = "RS_INPUT_ENDED" /\ rs_scoop_avail(job) > 0
    <2>1. r = rest /\ len = rs_scoop_avail(job)
      BY <1>4, <1>12
    <2>2. rest.result = "RS_DONE" /\ rest.job.cursor = job.cursor + rs_scoop_avail(job)
      BY <1>3, <1>4, <1>6, <1>12
    <2>3. job.cursor + rs_scoop_avail(job) = L /\ rs_scoop_avail(job) < b
      BY <1>3, <1>4, <1>7, <1>12
    <2>4. job.cursor < L
      BY <1>1, <1>7, <1>12, <2>3
    <2>5. job.cursor = k * b /\ k < q
      BY <1>9, <2>4
    <2>6. (k + 1) * b = job.cursor + b /\ L < job.cursor + b /\ job.cursor + b \in Nat
      BY <1>1, <1>7, <2>3, <2>5
    <2>7. rest.job.cursor = Lesser((k + 1) * b, L) /\ Lesser((k + 1) * b, L) = L
      <3>1. Lesser(job.cursor + b, L) = L
        BY <1>1, <2>6 DEF Lesser
      <3> QED
        BY <2>2, <2>3, <2>6, <3>1
    <2>8. NextBytes(job, len) = NextBlock(input, b, k)
      BY <1>10, <2>1, <2>3, <2>5, <2>7 DEF NextBytes
    <2>9. Finish(rs_sig_do_block(rest.job, NextBlock(input, b, k)), statefn, "RS_RUNNING")
          /\ sig_blocks' = sig_blocks + 1
      BY <1>2, <2>1, <2>2, <2>8
    <2>10. Work(job, rest.job) /\ SameOutput(job, rest.job) /\ rest.job.asserts
      <3>1. Work(job, rest.job)
        BY <1>1, <1>3, <1>6, WorkAddsUp
      <3> QED
        BY <1>3, <1>6, <3>1 DEF SameOutput
    <2> QED
      BY <1>0, <2>5, <2>7, <2>9, <2>10, MksumBlock DEF b, L, q
  <1>13. CASE whole.result = "RS_INPUT_ENDED" /\ rs_scoop_avail(job) = 0
    <2>1. whole.job.eof_in = job.eof_in /\ job.eof_in
      BY <1>3, <1>13 DEF Work
    <2>2. r = rest /\ rest.job = whole.job /\ rest.result = "RS_INPUT_ENDED"
      BY <1>4, <1>6, <1>13, <2>1
    <2>3. Finish(whole.job, statefn, "RS_DONE") /\ UNCHANGED sig_blocks
      BY <1>2, <2>2
    <2>4. /\ input' = input /\ Work(whole.job, job') /\ SameOutput(whole.job, job')
          /\ SameInput(whole.job, job') /\ (whole.job.asserts => job'.asserts)
          /\ pc' = "work" /\ statefn' = "NULL" /\ result' = result
      BY <1>5, <2>3, FinishFacts
    <2>5. Work(job, job')
      BY <1>1, <1>3, <2>4, WorkAddsUp
    <2>6. /\ JobOK(job') /\ job'.eof_in /\ job'.cursor = job.cursor /\ job'.asserts
          /\ job'.copy_len = 0 /\ job'.out = job.out /\ job'.write_buf = job.write_buf
      BY <1>1, <1>3, <1>13, <2>1, <2>4, <2>5 DEF Work, SameOutput, SameInput
    <2>7. job'.scoop_avail = 0 /\ job'.avail_in = 0
      <3>1. rs_scoop_avail(whole.job) = 0 /\ whole.job.scoop_avail \in Nat
            /\ whole.job.avail_in \in Nat
        BY <1>4, <1>5, <1>13 DEF JobOK
      <3>2. whole.job.scoop_avail = 0 /\ whole.job.avail_in = 0
        BY <3>1 DEF rs_scoop_avail
      <3> QED
        BY <2>4, <3>2 DEF SameInput
    <2>8. k = q
      <3>1. job.cursor + 0 = L
        BY <1>7, <1>13, <2>1
      <3>2. ~(kb < L)
        <4>1. Lesser(kb, L) = L /\ kb \in Nat
          BY <1>1, <1>7, <3>1 DEF kb
        <4> QED
          BY <1>1, <4>1 DEF Lesser
      <3>3. ~(k < q)
        BY <1>8, <3>2 DEF kb
      <3> QED
        BY <1>1, <3>3
    <2>9. JobOK(job)'
      BY <2>4, <2>6 DEF JobOK
    <2>10. MksumTypeOK' /\ TubeFree' /\ AssertionsHold' /\ BeforeHeader' /\ Answered'
      BY <1>0, <1>1, <2>3, <2>4, <2>6, <2>9
         DEF MksumInv, MksumTypeOK, TubeFree, AssertionsHold, BeforeHeader, Answered
    <2>11. EofIsTrue' /\ InTurn'
      <3>1. job'.cursor + job'.scoop_avail + job'.avail_in
              = job.cursor + job.scoop_avail + job.avail_in
        BY <2>5 DEF Work
      <3> QED
        BY <1>1, <2>1, <2>4, <3>1 DEF MksumInv, EofIsTrue, InTurn, Over
    <2>12. AtEnd' /\ AfterHeader'
      <3>1. Params' = Params /\ Accepted' = Accepted
        BY <1>0, <2>4 DEF Params, Accepted
      <3>2. AtEnd'
        BY <2>3, <2>4, <2>6, <2>7, <2>8, <3>1 DEF AtEnd, q, b
      <3>3. AfterHeader'
        BY <1>0, <2>3, <2>4, <2>6, <3>1 DEF MksumInv, AfterHeader, Running
      <3> QED
        BY <3>2, <3>3
    <2> QED
      BY <1>0, <1>1, <2>4, <2>5, <2>10, <2>11, <2>12 DEF MksumInv
  <1>14. CASE whole.result = "RS_BLOCKED"
    <2>1. r = whole /\ Finish(whole.job, statefn, "RS_BLOCKED") /\ UNCHANGED sig_blocks
      BY <1>2, <1>14
    <2>2. /\ input' = input /\ Work(whole.job, job') /\ SameOutput(whole.job, job')
          /\ SameInput(whole.job, job') /\ (whole.job.asserts => job'.asserts)
          /\ pc' = "caller" /\ statefn' = statefn
      BY <1>5, <2>1, FinishFacts
    <2>3. result' = "RS_BLOCKED"
      <3>1. Return(whole.job, "RS_BLOCKED")
        BY <2>1 DEF Finish
      <3> QED
        BY <1>3, <1>14, <3>1, ReturnStands
    <2>4. Work(job, job')
      BY <1>1, <1>3, <2>2, WorkAddsUp
    <2>5. /\ JobOK(job') /\ ~job'.eof_in /\ job'.avail_in = 0 /\ job'.asserts
          /\ job'.cursor = job.cursor
          /\ job'.copy_len = 0 /\ job'.out = job.out /\ job'.write_buf = job.write_buf
      BY <1>1, <1>3, <1>14, <2>2, <2>4 DEF Work, SameOutput, SameInput
    <2>6. JobOK(job)'
      BY <2>2, <2>5 DEF JobOK
    <2>7. MksumTypeOK' /\ TubeFree' /\ AssertionsHold' /\ EofIsTrue' /\ AtEnd'
      BY <1>0, <1>1, <2>1, <2>2, <2>5, <2>6
         DEF MksumInv, MksumTypeOK, TubeFree, AssertionsHold, EofIsTrue, AtEnd, Running
    <2>8. BeforeHeader' /\ AfterHeader'
      BY <1>0, <2>1, <2>2, <2>5, MksumKeeps
    <2>9. InTurn' /\ Answered'
      BY <2>2, <2>3, <2>5 DEF InTurn, Answered
    <2> QED
      BY <1>0, <1>1, <2>2, <2>4, <2>7, <2>8, <2>9 DEF MksumInv
  <1> QED
    BY <1>3, <1>7, <1>11, <1>12, <1>13, <1>14

\* A step that changes nothing.
LEMMA MksumSame ==
    ASSUME MksumInv, UNCHANGED vars
    PROVE  MksumInv'
  <1>1. UNCHANGED <<input, job, statefn, pc, result, orig, args, sig, sig_blocks>>
    BY DEF vars, engineVars
  <1>2. JobOK(job)' = JobOK(job)
    BY <1>1 DEF JobOK
  <1> QED
    BY <1>1, <1>2 DEF MksumInv, MksumTypeOK, EofIsTrue, TubeFree, BeforeHeader, AfterHeader, AtEnd,
                      InTurn, Over, Answered, AssertionsHold, Params, Accepted

\* The invariant holds throughout, with or without fairness.
LEMMA MksumAlways == Init /\ [][Next]_vars => []MksumInv
  <1>1. Init => MksumInv
    BY MksumInit
  <1>2. MksumInv /\ [Next]_vars => MksumInv'
    <2> SUFFICES ASSUME MksumInv, [Next]_vars
                 PROVE  MksumInv'
      OBVIOUS
    <2>1. CASE Caller(CallIter)
      BY <2>1, MksumCallIter
    <2>2. CASE rs_sig_s_header
      BY <2>2, MksumHeader
    <2>3. CASE rs_sig_s_generate
      BY <2>3, MksumGenerate
    <2>4. CASE Caller(Catchup)
      BY <2>4, MksumCatchup
    <2>5. CASE UNCHANGED vars
      BY <2>5, MksumSame
    <2> QED
      BY <2>1, <2>2, <2>3, <2>4, <2>5 DEF Next, Step, Stopped
  <1> QED
    BY <1>1, <1>2, PTL

\* For every basis and all arguments, and however the caller cuts the basis into
\* pieces, no assertion of the signature job fails: the parameters in the header
\* are ones that rs_sig_args_check is content with, and neither the header nor the
\* sums of a block overrun write_buf, which has no byte to spare for the longest.
THEOREM MksumAssertions == Spec => []AssertionsHold
  <1>1. MksumInv => AssertionsHold
    BY DEF MksumInv
  <1> QED
    BY <1>1, MksumAlways, PTL DEF Spec

-----------------------------------------------------------------------------
(* The job implements module Transducer.                                   *)

\* What the caller has got is the beginning of the signature file, all of it
\* when it is told so, and the answers are ones that the contract allows.
MksumAnswers ==
    /\ job.out \in Seq(Nat)
    /\ Whole!IsPrefixOf(job.out, SignatureOf(input, args))
    /\ Answer(Len(job.out)).result # "RS_RUNNING" =>
         MayAnswer(SigPromise(<<input, args>>), Answer(Len(job.out)))
    /\ Over => result = Params.result /\ job.out = SignatureOf(input, args)

\* How far the output has got.
LEMMA MksumProgress ==
    ASSUME MksumInv
    PROVE  /\ job.out \in Seq(Nat) /\ SignatureOf(input, args) \in Seq(Nat)
           /\ Whole!IsPrefixOf(job.out, SignatureOf(input, args))
           /\ Len(job.out) <= Len(SignatureOf(input, args))
           /\ job.write_buf # <<>> => Len(job.out) < Len(SignatureOf(input, args)) /\ Accepted
           /\ statefn = "NULL" /\ job.write_buf = <<>> => job.out = SignatureOf(input, args)
           /\ ~Accepted => job.out = <<>> /\ SignatureOf(input, args) = <<>>
  <1> DEFINE S == SignatureOf(input, args)
             q == BlockCount(input, Params.block_len)
             p == PartsOf(input, args)
  <1>1. /\ JobOK(job) /\ input \in Inputs /\ args \in Args /\ sig_blocks \in Nat
        /\ job.out \in Seq(Nat) /\ job.write_buf \in Seq(Nat)
    BY DEF MksumInv, MksumTypeOK, JobOK
  <1>2. ~Accepted => S = <<>> /\ statefn = "rs_sig_s_header" /\ job.write_buf = <<>>
    <2>1. ~Accepted => statefn = "rs_sig_s_header" /\ job.write_buf = <<>>
      BY DEF MksumInv, AfterHeader, BeforeHeader
    <2>2. ~Accepted => S = <<>>
      BY DEF SignatureOf, Accepted, Params
    <2> QED
      BY <2>1, <2>2
  <1>3. /\ \A s, u \in Seq(Nat) : Whole!IsPrefixOf(s, s \o u) /\ Len(s) <= Len(s \o u)
        /\ \A s, u \in Seq(Nat) : u # <<>> => Len(s) < Len(s \o u)
    BY StartsFacts
  <1>4. /\ <<>> \in Seq(Nat) /\ (\A s \in Seq(Nat) : <<>> \o s = s /\ s \o <<>> = s)
        /\ \A s \in Seq(Nat) : Len(s) \in Nat
    BY ConcatEmptySeq, LenProperties
  <1>5. Accepted => S \in Seq(Nat) /\ q \in Nat /\ S = p[q]
    <2> SUFFICES ASSUME Accepted
                 PROVE  S \in Seq(Nat) /\ q \in Nat /\ S = p[q]
      OBVIOUS
    <2>1. q \in Nat /\ S = p[q] /\ \A i \in 0 .. q : p[i] \in Seq(Nat)
      BY <1>1, InputsFacts, PartsFacts DEF Accepted, Params
    <2> HIDE DEF q, p, S
    <2> QED
      BY <2>1
  <1>6. S \in Seq(Nat)
    BY <1>2, <1>4, <1>5
  <1>7. CASE statefn = "rs_sig_s_header"
    <2>1. job.out = <<>> /\ job.write_buf = <<>>
      BY <1>7 DEF MksumInv, BeforeHeader
    <2> HIDE DEF S
    <2>2. Whole!IsPrefixOf(<<>>, S) /\ Len(<<>>) <= Len(S)
      <3>1. Whole!IsPrefixOf(<<>>, <<>> \o S) /\ Len(<<>>) <= Len(<<>> \o S)
        BY <1>3, <1>4, <1>6
      <3> QED
        BY <1>4, <1>6, <3>1
    <2> QED
      BY <1>2, <1>6, <1>7, <2>1, <2>2, <1>4 DEF S
  <1>8. CASE statefn # "rs_sig_s_header"
    <2>1. Accepted /\ job.out \o job.write_buf = p[sig_blocks] /\ sig_blocks <= q
      BY <1>8 DEF MksumInv, AfterHeader
    <2>2. sig_blocks \in 0 .. q
      BY <1>1, <1>5, <2>1
    <2>3. Starts(job.out \o job.write_buf, S)
      BY <1>1, <2>1, <2>2, InputsFacts, PartsGrow DEF Accepted, Params
    <2>4. PICK v \in Seq(Nat) : S = (job.out \o job.write_buf) \o v
      BY <2>3 DEF Starts
    <2> DEFINE o == job.out
               w == job.write_buf
    <2>5. o \in Seq(Nat) /\ w \in Seq(Nat) /\ S = (o \o w) \o v
      BY <1>1, <2>4
    <2>6. statefn = "NULL" => S = o \o w
      BY <1>5, <2>1 DEF MksumInv, AtEnd
    <2> HIDE DEF S, o, w, q, p
    <2>7. o \o w \in Seq(Nat) /\ w \o v \in Seq(Nat)
      BY <2>5, ConcatProperties
    <2>8. (o \o w) \o v = o \o (w \o v)
      BY <2>5, ConcatBytes
    <2>9. Whole!IsPrefixOf(o, S) /\ Len(o) <= Len(S)
      BY <1>3, <2>5, <2>7, <2>8
    <2>10. w # <<>> => Len(o) < Len(S)
      <3>1. w # <<>> => Len(o) < Len(o \o w)
        BY <1>3, <2>5
      <3>2. Len(o \o w) <= Len(S)
        BY <1>3, <2>5, <2>7
      <3>3. Len(o) \in Nat /\ Len(o \o w) \in Nat /\ Len(S) \in Nat
        BY <1>4, <1>6, <2>5, <2>7
      <3> QED
        BY <3>1, <3>2, <3>3
    <2>11. statefn = "NULL" /\ w = <<>> => o = S
      BY <1>4, <2>5, <2>6
    <2> QED
      BY <1>1, <1>2, <1>6, <1>8, <2>1, <2>9, <2>10, <2>11 DEF o, w, S
  <1> QED
    BY <1>7, <1>8

\* The invariant says as much as the caller is promised.
LEMMA MksumPromise == MksumInv => MksumAnswers
  <1> SUFFICES ASSUME MksumInv
               PROVE  MksumAnswers
    OBVIOUS
  <1> DEFINE S == SignatureOf(input, args)
             put == Len(job.out)
             P == SigPromise(<<input, args>>)
             A == Answer(put)
             target == Len(S)
  <1>1. /\ job.out \in Seq(Nat) /\ S \in Seq(Nat) /\ Whole!IsPrefixOf(job.out, S)
        /\ put <= target
        /\ job.write_buf # <<>> => put < target /\ Accepted
        /\ statefn = "NULL" /\ job.write_buf = <<>> => job.out = S
        /\ ~Accepted => job.out = <<>> /\ S = <<>>
    BY MksumProgress
  <1>2. /\ P.target = target /\ P.verdict = Params.result /\ P.need = Len(input)
        /\ P.to_eof /\ P.writes /\ ~P.ends_writing /\ P.leaves = 0
    BY DEF SigPromise, Params
  <1>3. pc = "caller" /\ result # "RS_RUNNING" =>
          /\ A.result = result /\ A.taken = job.cursor + job.scoop_avail /\ A.put = put
          /\ A.avail_in = job.avail_in /\ A.eof_in = job.eof_in /\ A.avail_out = job.avail_out
    <2> HIDE DEF put
    <2> QED
      BY DEF Answer
  <1>4. ~(pc = "caller" /\ result # "RS_RUNNING") => A.result = "RS_RUNNING"
    BY DEF Answer, NoAnswer
  <1>5. Over => pc = "caller" /\ result # "RS_RUNNING" /\ result # "RS_BLOCKED"
    BY DEF MksumInv, InTurn, Over
  <1>6. Params.result = "RS_DONE" <=> Accepted
    BY DEF Accepted
  <1>7. pc = "caller" /\ result # "RS_RUNNING" =>
          \/ result = "RS_BLOCKED" /\ job.avail_in = 0 /\ ~job.eof_in
          \/ result = "RS_BLOCKED" /\ job.avail_out = 0 /\ put < target
          \/ /\ result = "RS_DONE" /\ Accepted /\ job.out = S /\ job.eof_in
             /\ job.cursor + job.scoop_avail = Len(input)
          \/ result = Params.result /\ ~Accepted /\ job.out = S
    <2> SUFFICES ASSUME pc = "caller", result # "RS_RUNNING"
                 PROVE  \/ result = "RS_BLOCKED" /\ job.avail_in = 0 /\ ~job.eof_in
                        \/ result = "RS_BLOCKED" /\ job.avail_out = 0 /\ put < target
                        \/ /\ result = "RS_DONE" /\ Accepted /\ job.out = S /\ job.eof_in
                           /\ job.cursor + job.scoop_avail = Len(input)
                        \/ result = Params.result /\ ~Accepted /\ job.out = S
      OBVIOUS
    <2>1. \/ result = "RS_BLOCKED" /\ job.avail_in = 0 /\ ~job.eof_in
          \/ result = "RS_BLOCKED" /\ job.avail_out = 0 /\ job.write_buf # <<>>
          \/ result = "RS_DONE" /\ statefn = "NULL" /\ job.write_buf = <<>>
          \/ result = Params.result /\ ~Accepted /\ statefn = "rs_sig_s_header"
      BY DEF MksumInv, Answered
    <2>2. statefn = "NULL" => /\ Accepted /\ job.eof_in
                              /\ job.cursor + job.scoop_avail = Len(input)
      <3> SUFFICES ASSUME statefn = "NULL"
                   PROVE  /\ Accepted /\ job.eof_in
                          /\ job.cursor + job.scoop_avail = Len(input)
        OBVIOUS
      <3>1. job.eof_in /\ job.scoop_avail = 0 /\ job.avail_in = 0 /\ Accepted
        BY DEF MksumInv, AtEnd, AfterHeader
      <3>2. job.cursor + job.scoop_avail + job.avail_in = Len(input) /\ job.cursor \in Nat
        BY <3>1 DEF MksumInv, EofIsTrue, MksumTypeOK, JobOK
      <3> QED
        BY <3>1, <3>2
    <2> HIDE DEF S, put, target
    <2> QED
      BY <1>1, <2>1, <2>2
  <1>8. job.out = S => put = target
    OBVIOUS
  <1> HIDE DEF S, P, A, put, target
  <1>9. A.result # "RS_RUNNING" => MayAnswer(P, A)
    <2> SUFFICES ASSUME pc = "caller", result # "RS_RUNNING"
                 PROVE  MayAnswer(P, A)
      BY <1>4
    <2>1. A.put <= P.target
      BY <1>1, <1>2, <1>3
    <2>2. CASE result = "RS_BLOCKED" /\ ((job.avail_in = 0 /\ ~job.eof_in)
                                         \/ (job.avail_out = 0 /\ put < target))
      BY <1>2, <1>3, <2>1, <2>2 DEF MayAnswer, Blocked
    <2>3. CASE result = "RS_DONE" /\ Accepted /\ job.out = S /\ job.eof_in
               /\ job.cursor + job.scoop_avail = Len(input)
      BY <1>2, <1>3, <1>6, <1>8, <2>1, <2>3 DEF MayAnswer, Completed
    <2>4. CASE result = Params.result /\ ~Accepted /\ job.out = S
      BY <1>2, <1>3, <1>6, <1>8, <2>1, <2>4 DEF MayAnswer, Completed
    <2> QED
      BY <1>7, <2>2, <2>3, <2>4
  <1>10. Over => result = Params.result /\ job.out = S
    BY <1>5, <1>6, <1>7
  <1> QED
    BY <1>1, <1>9, <1>10 DEF MksumAnswers, S, P, A, put

\* Work only adds to the output.
LEMMA MksumAppends ==
    ASSUME NEW j, NEW k, JobOK(j), Work(j, k)
    PROVE  Whole!IsPrefixOf(j.out, k.out)
  BY WorkAppends DEF BeginsWith, Whole!IsPrefixOf

\* Module Transducer means the same contract.
LEMMA SameContract ==
    /\ Whole!NoAnswer = NoAnswer
    /\ \A p, a : Whole!MayAnswer(p, a) = MayAnswer(p, a)
  BY DEF Whole!NoAnswer, NoAnswer, Whole!MayAnswer, MayAnswer, Whole!Blocked, Blocked,
         Whole!Completed, Completed

\* Each step is one of the transducer's, or none.
LEMMA MksumStep ==
    ASSUME MksumInv, MksumAnswers, MksumAnswers', [Next]_vars
    PROVE  [Whole!Next]_(Whole!vars)
  <1> DEFINE A == Answer(Len(job.out))
  <1>1. CASE UNCHANGED vars
    BY <1>1 DEF vars, engineVars, Whole!vars, Verdict, Over, Answer
  <1>2. ASSUME UNCHANGED <<input, args>>, ~Over, Whole!IsPrefixOf(job.out, job'.out)
        PROVE  Whole!Next
    <2>1. Verdict = "RS_RUNNING"
      BY <1>2 DEF Verdict
    <2>2. Whole!IsPrefixOf(job'.out, SignatureOf(input, args))
      BY <1>2 DEF MksumAnswers
    <2>3. A'.result # "RS_RUNNING" => MayAnswer(SigPromise(<<input, args>>), A')
      BY <1>2 DEF MksumAnswers
    <2>4. \/ Verdict' = "RS_RUNNING"
          \/ Verdict' = Params.result /\ job'.out = SignatureOf(input, args)
      BY <1>2 DEF MksumAnswers, Verdict, Params
    <2>5. SigPromise(<<input, args>>).verdict = Params.result
          /\ SignatureFile(<<input, args>>) = SignatureOf(input, args)
      BY DEF SigPromise, Params, SignatureFile
    <2>6. NoAnswer.result = "RS_RUNNING"
      BY DEF NoAnswer
    <2>7. PICK x : x = A'
      OBVIOUS
    <2>8. x.result # Whole!NoAnswer.result => Whole!MayAnswer(SigPromise(<<input, args>>), x)
      BY <2>3, <2>6, <2>7, SameContract
    <2>9. A'.result # Whole!NoAnswer.result => Whole!MayAnswer(SigPromise(<<input, args>>), A')
      BY <2>7, <2>8
    <2> QED
      BY <1>2, <2>1, <2>2, <2>4, <2>5, <2>9 DEF Whole!Next
  <1>3. CASE Caller(CallIter)
    <2>1. UNCHANGED <<input, args>> /\ ~Over /\ job'.out = job.out
      BY <1>3, MksumCallIter
    <2>2. JobOK(job) /\ Work(job, job)
      BY WorkAddsUp DEF MksumInv, MksumTypeOK
    <2>3. Whole!IsPrefixOf(job.out, job.out)
      BY <2>2, MksumAppends
    <2> QED
      BY <1>2, <2>1, <2>3
  <1>4. CASE Step
    <2>1. UNCHANGED <<input, args>> /\ Work(job, job') /\ ~Over
      BY <1>4, MksumHeader, MksumGenerate, MksumCatchup DEF Step
    <2>2. JobOK(job)
      BY DEF MksumInv, MksumTypeOK
    <2>3. PICK k : k = job'
      OBVIOUS
    <2>4. Whole!IsPrefixOf(job.out, k.out)
      BY <2>1, <2>2, <2>3, MksumAppends
    <2> QED
      BY <1>2, <2>1, <2>3, <2>4
  <1> QED
    BY <1>1, <1>3, <1>4 DEF Next, Stopped

\* The signature job implements module Transducer: whatever the pieces in which the
\* basis arrives and the output is taken away, what is written grows into the
\* signature file of the basis and is all of it at the end; blocks are cut at
\* multiples of the block length, none is lost and none written twice; a job is
\* blocked only on what the caller can supply, and it ends as rs_sig_args decides.
THEOREM MksumRefinement == Spec => ImplementsTransducer
  <1>1. Init => Whole!Init
    <2> SUFFICES ASSUME Init
                 PROVE  Whole!Init
      OBVIOUS
    <2>1. /\ job.out = <<>> /\ pc = "caller" /\ result = "RS_RUNNING"
      BY DEF Init, EngineInit
    <2> QED
      BY <2>1, SameContract DEF Whole!Init, Verdict, Over, Answer
  <1>2. MksumInv /\ MksumAnswers /\ MksumAnswers' /\ [Next]_vars => [Whole!Next]_(Whole!vars)
    BY MksumStep
  <1>3. MksumInv => MksumAnswers
    BY MksumPromise
  <1>4. Spec => Init /\ [][Next]_vars
    BY DEF Spec
  <1> QED
    BY <1>1, <1>2, <1>3, <1>4, MksumAlways, PTL DEF ImplementsTransducer, Whole!Spec
=============================================================================

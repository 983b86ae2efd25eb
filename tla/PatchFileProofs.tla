--------------------------- MODULE PatchFileProofs --------------------------
(***************************************************************************)
(* The patch job with any caller, and between two files, for all deltas,   *)
(* all bases, and all sizes of the buffers.                                *)
(*                                                                         *)
(* The assertions of the code and the balance of the statistics are not    *)
(* inductive: the tube has to be empty whenever a state function runs      *)
(* (TubeFree), a result has to leave control with the caller (ResultLast), *)
(* and input and output have to be accounted for in every state of the     *)
(* job, with the command whose parameters are read and the literal or copy *)
(* whose bytes are still to come (Account).                                *)
(*                                                                         *)
(* That the job puts out what the delta means needs to know, in every      *)
(* state of the job, where in the delta it is: what is done, followed by   *)
(* what is to come of the current command and by the meaning of the        *)
(* commands after it, is the meaning of the delta (Meant).  And that the   *)
(* answers are the promised ones needs the scoop to be empty except within *)
(* a magic number or parameters (ScoopUse), and the call that ends the job *)
(* to have read something (Progress).                                      *)
(*                                                                         *)
(* Between two files the buffers are related to what the job has done in   *)
(* the current call, and rs_job_drive is shown to be one of the callers    *)
(* that module Patch allows for, so that all of it holds there, too, and   *)
(* the file that is written is the new file.                               *)
(***************************************************************************)
EXTENDS PatchFile, JobProofs

StateFns == {"rs_patch_s_header", "rs_patch_s_cmdbyte", "rs_patch_s_params", "rs_patch_s_run",
             "rs_patch_s_literal", "rs_patch_s_copy", "rs_patch_s_copying", "NULL"}

StatsOK ==
    /\ DOMAIN stats = {"lit_bytes", "copy_bytes", "cmdbytes"}
    /\ stats.lit_bytes \in Nat /\ stats.copy_bytes \in Nat /\ stats.cmdbytes \in Nat

\* The job's own state.
DataOK ==
    /\ CommandOK(cmd) /\ param1 \in Int /\ param2 \in Int
    /\ basis_pos \in Nat /\ basis_len \in Nat
    /\ StatsOK

PatchTypeOK ==
    /\ input \in Deltas /\ JobOK(job)
    /\ statefn \in StateFns /\ pc \in {"caller", "work", "statefn"}
    /\ DataOK

\* The patch job queues nothing but copies, and is not called before the tube
\* is empty.
TubeFree ==
    /\ job.write_buf = <<>>
    /\ pc = "statefn" => job.copy_len = 0 /\ statefn # "NULL"
    /\ statefn # "rs_patch_s_cmdbyte" => job.copy_len = 0

\* A final result leaves control with the caller; success is the END command's.
ResultLast ==
    /\ result \notin {"RS_RUNNING", "RS_BLOCKED"} => pc = "caller"
    /\ result = "RS_DONE" => statefn = "NULL"

\* The bytes read up to the end of the last command that was counted, and the
\* bytes of the new file that the commands counted stand for.
Counted == 4 + stats.cmdbytes + stats.lit_bytes
Promised == stats.lit_bytes + stats.copy_bytes

Account ==
    /\ statefn = "rs_patch_s_header" =>
         /\ Counted = 4 /\ Promised = 0 /\ OutLen(job) = 0 /\ job.copy_len = 0
         /\ result \in {"RS_RUNNING", "RS_BLOCKED"} => job.cursor = 0
    /\ statefn = "rs_patch_s_cmdbyte" =>
         job.cursor + job.copy_len = Counted /\ OutLen(job) + job.copy_len = Promised
    /\ statefn = "rs_patch_s_params" =>
         job.cursor = Counted + 1 /\ OutLen(job) = Promised
    /\ statefn \in {"rs_patch_s_run", "rs_patch_s_literal", "rs_patch_s_copy"} =>
         /\ job.cursor = Counted + 1 + cmd.len_1 + cmd.len_2 /\ OutLen(job) = Promised
         /\ statefn = "rs_patch_s_literal" => cmd.kind = "LITERAL"
    /\ statefn = "rs_patch_s_copying" =>
         job.cursor = Counted /\ OutLen(job) + basis_len = Promised
    /\ statefn = "NULL" =>
         job.cursor = Counted + 1 /\ OutLen(job) = Promised

PatchInv == PatchTypeOK /\ TubeFree /\ ResultLast /\ AssertionsHold /\ Account

\* The buffers of rs_job_drive and the files.
DriveTypeOK ==
    /\ drive \in {"fill", "iter", "wait", "drain", "returned"}
    /\ DOMAIN buf = {"next_in", "avail_in", "eof_in", "avail_out", "next_out_set"}
    /\ buf.next_in \in Nat /\ buf.avail_in \in Nat /\ buf.avail_out \in Nat
    /\ buf.eof_in \in BOOLEAN /\ buf.next_out_set \in BOOLEAN
    /\ DOMAIN in_fb = {"buf_len", "buf", "pos", "ferror", "at_eof"}
    /\ in_fb.buf_len \in Nat \ {0} /\ in_fb.pos \in Nat
    /\ DOMAIN out_fb = {"buf_len", "buf", "content", "ferror"}
    /\ out_fb.buf_len \in 1 .. MaxOut /\ out_fb.buf \in Seq(Nat) /\ out_fb.content \in Seq(Nat)
    /\ out_fb.ferror \in BOOLEAN

\* rs_job_drive goes on only while the job is blocked, and stops when a write
\* has failed.
InTurn ==
    /\ drive # "wait" => pc = "caller"
    /\ drive \in {"fill", "iter"} => result \in {"RS_RUNNING", "RS_BLOCKED"}
    /\ drive = "drain" => result \in {"RS_DONE", "RS_BLOCKED"}
    /\ out_fb.ferror => drive = "returned"

\* The job has no more of the input buffer than was given to it, and has all of
\* it once the end of the file has been seen.
InputGiven ==
    /\ job.avail_in <= buf.avail_in /\ in_fb.pos <= Len(input)
    /\ buf.eof_in => in_fb.pos = Len(input)
    /\ drive = "wait" => job.eof_in = buf.eof_in
    /\ drive # "wait" /\ job.eof_in => buf.eof_in /\ job.avail_in = buf.avail_in

\* The lengths of the output file, and of what lies in the buffer for it; and
\* how much the current call of rs_job_iter has added.
ContentLen(f) == Len(f.content)
WaitingLen(f) == Len(f.buf)
Added == IF drive = "wait" THEN buf.avail_out - job.avail_out ELSE 0

OutputGiven ==
    /\ job.avail_out <= buf.avail_out
    /\ buf.next_out_set => WaitingLen(out_fb) + buf.avail_out = out_fb.buf_len
    /\ ~buf.next_out_set => WaitingLen(out_fb) = 0 /\ buf.avail_out = 0
    /\ ~out_fb.ferror =>
         /\ OutLen(job) = ContentLen(out_fb) + WaitingLen(out_fb) + Added
         /\ \A i \in 1 .. ContentLen(out_fb) : job.out[i] = out_fb.content[i]
         /\ \A i \in 1 .. WaitingLen(out_fb) :
               job.out[ContentLen(out_fb) + i] = out_fb.buf[i]

DriveInv == DriveTypeOK /\ InTurn /\ InputGiven /\ InputBufferIntact /\ OutputGiven

-----------------------------------------------------------------------------
(* The patch job.                                                          *)

\* What is the same at the end of every state function: given the buffers j that
\* it has left, everything but the account is in order.
LEMMA PatchFinish ==
    ASSUME PatchInv, pc = "statefn",
           NEW j, Work(job, j), j.write_buf = <<>>, j.asserts, NEW fn \in StateFns \ {"NULL"}, NEW r,
           Finish(j, fn, r),
           j.copy_len # 0 => fn = "rs_patch_s_cmdbyte" /\ r = "RS_RUNNING",
           DataOK'
    PROVE  /\ PatchTypeOK' /\ TubeFree' /\ ResultLast' /\ AssertionsHold'
           /\ job'.cursor = j.cursor /\ OutLen(job') = OutLen(j) /\ job'.copy_len = j.copy_len
           /\ statefn' = IF r = "RS_DONE" THEN "NULL" ELSE fn
           /\ result' \in {"RS_RUNNING", "RS_BLOCKED"} =>
                r \in {"RS_RUNNING", "RS_BLOCKED", "RS_DONE"}
           /\ Work(job, job') /\ input' = input
  <1>0. JobOK(job) /\ JobOK(j)
    BY DEF Work, PatchInv, PatchTypeOK
  <1>1. /\ input' = input /\ JobOK(job') /\ SameOutput(j, job') /\ SameInput(j, job')
        /\ job'.asserts /\ Work(j, job')
    BY <1>0, FinishFacts DEF Work
  <1>2. /\ r = "RS_RUNNING" => pc' = "work" /\ statefn' = fn /\ result' = result
        /\ r = "RS_DONE" => pc' = "work" /\ statefn' = "NULL" /\ result' = result
        /\ r \notin {"RS_RUNNING", "RS_DONE"} =>
             pc' = "caller" /\ statefn' = fn /\ result' \in {r, "RS_INTERNAL_ERROR"}
    BY <1>0, FinishFacts
  <1>3. result \in {"RS_RUNNING", "RS_BLOCKED"} /\ input \in Deltas
    BY DEF PatchInv, ResultLast, PatchTypeOK
  <1>4. JobOK(job)'
    BY <1>1 DEF JobOK
  <1>5. PatchTypeOK'
    BY <1>1, <1>2, <1>3, <1>4 DEF PatchTypeOK, StateFns
  <1>6. TubeFree'
    BY <1>1, <1>2 DEF TubeFree, SameOutput
  <1>7. ResultLast'
    BY <1>2, <1>3 DEF ResultLast
  <1>8. AssertionsHold'
    BY <1>1 DEF AssertionsHold
  <1>9. job'.cursor = j.cursor /\ OutLen(job') = OutLen(j) /\ job'.copy_len = j.copy_len
    BY <1>1 DEF SameOutput, SameInput, OutLen
  <1>10. Work(job, job')
    BY <1>0, <1>1, WorkAddsUp
  <1> QED
    BY <1>1, <1>2, <1>3, <1>5, <1>6, <1>7, <1>8, <1>9, <1>10

\* rs_patch_s_header reads the magic number, which the account has not counted yet.
LEMMA PatchHeader ==
    ASSUME PatchInv, rs_patch_s_header
    PROVE  PatchInv' /\ Work(job, job') /\ input' = input
  <1> DEFINE r == Read(job, 4)
  <1>1. /\ pc = "statefn" /\ statefn = "rs_patch_s_header"
        /\ UNCHANGED <<cmd, param1, param2, basis_pos, basis_len, stats>>
    BY DEF rs_patch_s_header, Running, commandVars
  <1>2. JobOK(job) /\ job.write_buf = <<>> /\ job.copy_len = 0 /\ job.asserts /\ DataOK
        /\ result \in {"RS_RUNNING", "RS_BLOCKED"}
    BY <1>1 DEF PatchInv, PatchTypeOK, TubeFree, AssertionsHold, ResultLast
  <1>3. DataOK'
    BY <1>1, <1>2 DEF DataOK, StatsOK
  <1>4. /\ Work(job, r.job) /\ SameOutput(job, r.job) /\ r.job.asserts
        /\ r.result \in {"RS_DONE", "RS_INPUT_ENDED", "RS_BLOCKED"}
        /\ r.job.cursor = IF r.result = "RS_DONE" THEN job.cursor + 4 ELSE job.cursor
    BY <1>2, ReadFacts
  <1>5. PICK fn, q :
          /\ Finish(r.job, fn, q)
          /\ \/ fn = "rs_patch_s_header" /\ r.result # "RS_DONE" /\ q = r.result
             \/ fn = "rs_patch_s_header" /\ q = "RS_BAD_MAGIC"
             \/ fn = "rs_patch_s_cmdbyte" /\ r.result = "RS_DONE" /\ q = "RS_RUNNING"
    BY <1>1 DEF rs_patch_s_header
  <1> HIDE DEF r
  <1>6. r.job.write_buf = <<>> /\ r.job.copy_len = 0 /\ OutLen(r.job) = OutLen(job)
    BY <1>2, <1>4 DEF SameOutput, OutLen
  <1>7. fn \in StateFns \ {"NULL"} /\ q # "RS_DONE"
    BY <1>4, <1>5 DEF StateFns
  <1>8. /\ PatchTypeOK' /\ TubeFree' /\ ResultLast' /\ AssertionsHold'
        /\ Work(job, job') /\ input' = input
        /\ job'.cursor = r.job.cursor /\ OutLen(job') = OutLen(r.job)
        /\ job'.copy_len = r.job.copy_len /\ statefn' = fn
        /\ result' \in {"RS_RUNNING", "RS_BLOCKED"} => q \in {"RS_RUNNING", "RS_BLOCKED"}
    BY <1>1, <1>3, <1>4, <1>5, <1>6, <1>7, PatchFinish
  <1>9. Account'
    <2>1. job.cursor = 0 /\ Counted = 4 /\ Promised = 0 /\ OutLen(job) = 0
      BY <1>1, <1>2 DEF PatchInv, Account
    <2>2. Counted' = 4 /\ Promised' = 0 /\ OutLen(job') = 0 /\ job'.copy_len = 0
      BY <1>1, <1>6, <1>8, <2>1 DEF Counted, Promised
    <2>3. CASE fn = "rs_patch_s_header"
      <3>1. q \in {"RS_RUNNING", "RS_BLOCKED"} => job'.cursor = 0
        BY <1>4, <1>5, <1>8, <2>1, <2>3
      <3> QED
        BY <1>8, <2>2, <2>3, <3>1 DEF Account
    <2>4. CASE fn = "rs_patch_s_cmdbyte"
      <3>1. job'.cursor = 4
        BY <1>4, <1>5, <1>8, <2>1, <2>4
      <3> QED
        BY <1>8, <2>2, <2>4, <3>1 DEF Account
    <2> QED
      BY <1>5, <2>3, <2>4
  <1> QED
    BY <1>8, <1>9 DEF PatchInv

\* rs_patch_s_cmdbyte: the command it sets is one of the table.
LEMMA PatchCmdbyte ==
    ASSUME PatchInv, rs_patch_s_cmdbyte
    PROVE  PatchInv' /\ Work(job, job') /\ input' = input
  <1> DEFINE r == Read(job, 1)
             c == rs_prototab(NextBytes(job, 1)[1])
  <1>1. /\ pc = "statefn" /\ statefn = "rs_patch_s_cmdbyte"
        /\ UNCHANGED <<param2, basis_pos, basis_len, stats>>
    BY DEF rs_patch_s_cmdbyte, Running, commandVars
  <1>2. /\ JobOK(job) /\ job.write_buf = <<>> /\ job.copy_len = 0 /\ job.asserts /\ DataOK
        /\ job.cursor \in Nat /\ input \in Seq(Nat)
    BY <1>1 DEF PatchInv, PatchTypeOK, TubeFree, AssertionsHold, JobOK
  <1>4. /\ Work(job, r.job) /\ SameOutput(job, r.job) /\ r.job.asserts
        /\ r.result \in {"RS_DONE", "RS_INPUT_ENDED", "RS_BLOCKED"}
        /\ r.job.cursor = IF r.result = "RS_DONE" THEN job.cursor + 1 ELSE job.cursor
        /\ r.result = "RS_DONE" => job.cursor + 1 <= Len(input)
    BY <1>2, ReadFacts
  <1>5. PICK fn, q :
          /\ Finish(r.job, fn, q)
          /\ \/ fn = "rs_patch_s_cmdbyte" /\ r.result # "RS_DONE" /\ q = r.result
                /\ cmd' = cmd /\ param1' = param1
             \/ fn = "rs_patch_s_params" /\ r.result = "RS_DONE" /\ q = "RS_RUNNING"
                /\ cmd' = c /\ param1' = param1
             \/ fn = "rs_patch_s_run" /\ r.result = "RS_DONE" /\ q = "RS_RUNNING"
                /\ cmd' = c /\ param1' = c.immediate /\ ~(c.len_1 > 0)
    BY <1>1 DEF rs_patch_s_cmdbyte, commandVars
  <1>3. r.result = "RS_DONE" => CommandOK(c)
    <2> HAVE r.result = "RS_DONE"
    <2>1. NextBytes(job, 1) \in Seq(Nat) /\ Len(NextBytes(job, 1)) = 1
      BY <1>2, <1>4, PieceFacts, ZenonT(60) DEF NextBytes
    <2>2. NextBytes(job, 1)[1] \in Nat
      <3> HIDE DEF r
      <3> QED
        BY <2>1, ElementOfSeq
    <2> QED
      BY <2>2, PrototabFacts
  <1> HIDE DEF r, c
  <1>6. r.job.write_buf = <<>> /\ r.job.copy_len = 0 /\ OutLen(r.job) = OutLen(job)
    BY <1>2, <1>4 DEF SameOutput, OutLen
  <1>7. fn \in StateFns \ {"NULL"} /\ q # "RS_DONE"
    BY <1>4, <1>5 DEF StateFns
  <1>10. DataOK'
    <2>1. CommandOK(cmd') /\ param1' \in Int
      BY <1>2, <1>3, <1>5 DEF CommandOK, DataOK
    <2>2. CommandOK(cmd)'
      BY <2>1 DEF CommandOK
    <2> QED
      BY <1>1, <1>2, <2>1, <2>2 DEF DataOK, StatsOK
  <1>8. /\ PatchTypeOK' /\ TubeFree' /\ ResultLast' /\ AssertionsHold'
        /\ Work(job, job') /\ input' = input
        /\ job'.cursor = r.job.cursor /\ OutLen(job') = OutLen(r.job)
        /\ job'.copy_len = r.job.copy_len /\ statefn' = fn
    BY <1>1, <1>4, <1>5, <1>6, <1>7, <1>10, PatchFinish
  <1>9. Account'
    <2>1. job.cursor + job.copy_len = Counted /\ OutLen(job) + job.copy_len = Promised
      BY <1>1 DEF PatchInv, Account
    <2>2. job.cursor = Counted /\ OutLen(job) = Promised /\ Counted \in Nat /\ Promised \in Nat
      <3>1. OutLen(job) \in Nat
        BY <1>2, LengthFacts
      <3> QED
        BY <1>2, <2>1, <3>1
    <2>3. Counted' = Counted /\ Promised' = Promised /\ OutLen(job') = Promised /\ job'.copy_len = 0
      BY <1>1, <1>6, <1>8, <2>2 DEF Counted, Promised
    <2>4. CASE fn = "rs_patch_s_cmdbyte"
      <3>1. job'.cursor = Counted
        BY <1>4, <1>5, <1>8, <2>2, <2>4
      <3> QED
        BY <1>8, <2>2, <2>3, <2>4, <3>1 DEF Account
    <2>5. CASE fn = "rs_patch_s_params"
      <3>1. job'.cursor = Counted + 1
        BY <1>4, <1>5, <1>8, <2>2, <2>5
      <3> QED
        BY <1>8, <2>2, <2>3, <2>5, <3>1 DEF Account
    <2>6. CASE fn = "rs_patch_s_run"
      <3>1. job'.cursor = Counted + 1 /\ cmd' = c /\ ~(c.len_1 > 0) /\ CommandOK(c)
        BY <1>3, <1>4, <1>5, <1>8, <2>2, <2>6
      <3>2. cmd'.len_1 = 0 /\ cmd'.len_2 = 0
        BY <3>1 DEF CommandOK
      <3> QED
        BY <1>8, <2>2, <2>3, <2>6, <3>1, <3>2 DEF Account
    <2> QED
      BY <1>5, <2>4, <2>5, <2>6
  <1> QED
    BY <1>8, <1>9 DEF PatchInv

\* rs_patch_s_params looks ahead for both parameters, so that reading them cannot fail.
LEMMA PatchParams ==
    ASSUME PatchInv, rs_patch_s_params
    PROVE  PatchInv' /\ Work(job, job') /\ input' = input
  <1> DEFINE r == Readahead(job, cmd.len_1 + cmd.len_2)
             one == Read(r.job, cmd.len_1)
             two == Read(one.job, cmd.len_2)
  <1>1. /\ pc = "statefn" /\ statefn = "rs_patch_s_params"
        /\ UNCHANGED <<cmd, basis_pos, basis_len, stats>>
    BY DEF rs_patch_s_params, Running
  <1>2. /\ JobOK(job) /\ job.write_buf = <<>> /\ job.copy_len = 0 /\ job.asserts /\ DataOK
        /\ job.cursor \in Nat /\ input \in Seq(Nat)
    BY <1>1 DEF PatchInv, PatchTypeOK, TubeFree, AssertionsHold, JobOK
  <1>3. /\ cmd.len_1 \in Nat /\ cmd.len_2 \in Nat /\ CommandOK(cmd)
    BY <1>2 DEF DataOK, CommandOK
  <1>4. cmd.len_1 + cmd.len_2 \in Nat
    BY <1>3
  <1>5. /\ Work(job, r.job) /\ JobOK(r.job) /\ SameOutput(job, r.job) /\ r.job.asserts
        /\ r.job.cursor = job.cursor
        /\ r.result \in {"RS_DONE", "RS_INPUT_ENDED", "RS_BLOCKED"}
        /\ r.result = "RS_DONE" => Contiguous(r.job, cmd.len_1 + cmd.len_2)
    BY <1>2, <1>4, ReadaheadFacts, ZenonT(60) DEF Work
  <1>6. DataOK' <=> param1' \in Int /\ param2' \in Int
    BY <1>1, <1>2 DEF DataOK, CommandOK, StatsOK
  <1>7. job.cursor = Counted + 1 /\ OutLen(job) = Promised
    BY <1>1 DEF PatchInv, Account
  <1>8. Counted' = Counted /\ Promised' = Promised
    BY <1>1 DEF Counted, Promised
  <1>9. CASE r.result # "RS_DONE"
    <2>1. Finish(r.job, "rs_patch_s_params", r.result) /\ param1' = param1 /\ param2' = param2
      BY <1>1, <1>9 DEF rs_patch_s_params
    <2> HIDE DEF r
    <2>2. DataOK'
      BY <1>2, <1>6, <2>1 DEF DataOK
    <2>3. r.job.write_buf = <<>> /\ r.job.copy_len = 0 /\ OutLen(r.job) = OutLen(job)
      BY <1>2, <1>5 DEF SameOutput, OutLen
    <2>4. /\ PatchTypeOK' /\ TubeFree' /\ ResultLast' /\ AssertionsHold'
          /\ Work(job, job') /\ input' = input
          /\ job'.cursor = r.job.cursor /\ OutLen(job') = OutLen(r.job)
          /\ job'.copy_len = r.job.copy_len /\ statefn' = "rs_patch_s_params"
      <3>1. "rs_patch_s_params" \in StateFns \ {"NULL"}
        BY DEF StateFns
      <3> QED
        BY <1>1, <1>5, <1>9, <2>1, <2>2, <2>3, <3>1, PatchFinish
    <2>5. job'.cursor = Counted' + 1 /\ OutLen(job') = Promised'
      BY <1>5, <1>7, <1>8, <2>3, <2>4
    <2> QED
      BY <2>4, <2>5 DEF Account, PatchInv
  <1>10. CASE r.result = "RS_DONE"
    <2>1. Contiguous(r.job, cmd.len_1 + cmd.len_2) /\ Contiguous(r.job, cmd.len_1)
      <3>1. r.job.scoop_avail \in Nat /\ r.job.avail_in \in Nat
        BY <1>5 DEF JobOK
      <3> QED
        BY <1>3, <1>5, <1>10, <3>1 DEF Contiguous
    <2> HIDE DEF r
    <2>2. /\ Work(r.job, one.job) /\ SameOutput(r.job, one.job) /\ one.job.asserts
          /\ one.result = "RS_DONE" /\ one.job.cursor = r.job.cursor + cmd.len_1
          /\ Contiguous(one.job, cmd.len_2) /\ r.job.cursor + cmd.len_1 <= Len(input)
      BY <1>3, <1>5, <2>1, ReadFacts
    <2>20. JobOK(one.job)
      BY <2>2 DEF Work
    <2> HIDE DEF one
    <2>3. /\ Work(one.job, two.job) /\ SameOutput(one.job, two.job) /\ two.job.asserts
          /\ two.result = "RS_DONE" /\ two.job.cursor = one.job.cursor + cmd.len_2
          /\ one.job.cursor + cmd.len_2 <= Len(input)
      BY <1>3, <2>2, <2>20, ReadFacts
    <2>30. JobOK(two.job)
      BY <2>3 DEF Work
    <2> HIDE DEF two
    <2>4. PICK k :
            /\ Finish(k, "rs_patch_s_run", "RS_RUNNING")
            /\ param1' = NetintValue(NextBytes(r.job, cmd.len_1))
            /\ \/ /\ k = Assert_(two.job, one.result = "RS_DONE" /\ two.result = "RS_DONE")
                  /\ param2' = NetintValue(NextBytes(one.job, cmd.len_2))
               \/ /\ k = Assert_(one.job, one.result = "RS_DONE") /\ ~(cmd.len_2 > 0)
                  /\ param2' = param2
      <3>1. /\ param1' = NetintValue(NextBytes(r.job, cmd.len_1))
            /\ IF cmd.len_2 > 0
                 THEN /\ param2' = NetintValue(NextBytes(one.job, cmd.len_2))
                      /\ Finish(Assert_(two.job, one.result = "RS_DONE" /\ two.result = "RS_DONE"),
                                "rs_patch_s_run", "RS_RUNNING")
                 ELSE /\ param2' = param2
                      /\ Finish(Assert_(one.job, one.result = "RS_DONE"),
                                "rs_patch_s_run", "RS_RUNNING")
        BY <1>10, Zenon DEF rs_patch_s_params, r, one, two
      <3> QED
        BY <3>1, Zenon
    <2>5. DataOK'
      <3>1. Radix ^ RS_MAX_INT_BYTES \in Nat
        BY CommandAssumption DEF RS_MAX_INT_BYTES
      <3>2. NextBytes(r.job, cmd.len_1) \in Seq(Nat)
        <4>1. r.job.cursor \in Nat
          BY <1>2, <1>5
        <4> QED
          BY <1>2, <1>3, <2>2, <4>1, PieceFacts DEF NextBytes
      <3>3. NextBytes(one.job, cmd.len_2) \in Seq(Nat)
        <4>1. one.job.cursor \in Nat
          BY <2>20 DEF JobOK
        <4> QED
          BY <1>2, <1>3, <2>3, <4>1, PieceFacts DEF NextBytes
      <3>4. /\ NetintValue(NextBytes(r.job, cmd.len_1)) \in Int
            /\ NetintValue(NextBytes(one.job, cmd.len_2)) \in Int
        BY <3>1, <3>2, <3>3, NetintValueType
      <3>5. param2 \in Int
        BY <1>2 DEF DataOK
      <3> QED
        BY <1>6, <2>4, <3>4, <3>5
    <2>6. /\ Work(job, k) /\ SameOutput(r.job, k) /\ k.asserts
          /\ k.cursor = job.cursor + cmd.len_1 + cmd.len_2
      <3>1. CASE k = Assert_(two.job, one.result = "RS_DONE" /\ two.result = "RS_DONE")
        <4>1. Work(two.job, k) /\ SameOutput(two.job, k) /\ SameInput(two.job, k) /\ k.asserts
          BY <2>2, <2>3, <2>30, <3>1, AssertFacts
        <4>2. k.cursor = job.cursor + cmd.len_1 + cmd.len_2
          BY <1>2, <1>3, <1>5, <2>2, <2>3, <4>1 DEF SameInput
        <4>3. Work(job, k)
          BY <1>2, <1>5, <2>2, <2>3, <4>1, WorkAddsUp
        <4> QED
          BY <2>2, <2>3, <4>1, <4>2, <4>3 DEF SameOutput
      <3>2. CASE k = Assert_(one.job, one.result = "RS_DONE") /\ ~(cmd.len_2 > 0)
        <4>1. Work(one.job, k) /\ SameOutput(one.job, k) /\ SameInput(one.job, k) /\ k.asserts
          BY <2>2, <2>20, <3>2, AssertFacts
        <4>2. k.cursor = job.cursor + cmd.len_1 + cmd.len_2
          BY <1>2, <1>3, <1>5, <2>2, <3>2, <4>1 DEF SameInput
        <4>3. Work(job, k)
          BY <1>2, <1>5, <2>2, <4>1, WorkAddsUp
        <4> QED
          BY <2>2, <4>1, <4>2, <4>3 DEF SameOutput
      <3> QED
        BY <2>4, <3>1, <3>2
    <2>7. k.write_buf = <<>> /\ k.copy_len = 0 /\ OutLen(k) = OutLen(job)
      BY <1>2, <1>5, <2>6 DEF SameOutput, OutLen
    <2>8. /\ PatchTypeOK' /\ TubeFree' /\ ResultLast' /\ AssertionsHold'
          /\ Work(job, job') /\ input' = input
          /\ job'.cursor = k.cursor /\ OutLen(job') = OutLen(k)
          /\ job'.copy_len = k.copy_len /\ statefn' = "rs_patch_s_run"
      <3>1. "rs_patch_s_run" \in StateFns \ {"NULL"}
        BY DEF StateFns
      <3> QED
        BY <1>1, <2>4, <2>5, <2>6, <2>7, <3>1, PatchFinish
    <2>9. job'.cursor = Counted' + 1 + cmd.len_1 + cmd.len_2 /\ OutLen(job') = Promised'
      BY <1>7, <1>8, <2>6, <2>7, <2>8
    <2> QED
      BY <1>1, <2>8, <2>9 DEF Account, PatchInv
  <1> QED
    BY <1>5, <1>9, <1>10

\* rs_patch_s_run passes the command on, or ends the job, with an empty tube.
LEMMA PatchRun ==
    ASSUME PatchInv, rs_patch_s_run
    PROVE  PatchInv' /\ Work(job, job') /\ input' = input
  <1>1. /\ pc = "statefn" /\ statefn = "rs_patch_s_run"
        /\ UNCHANGED <<cmd, param1, param2, basis_pos, basis_len, stats>>
    BY DEF rs_patch_s_run, Running, commandVars
  <1>2. /\ JobOK(job) /\ job.write_buf = <<>> /\ job.copy_len = 0 /\ job.asserts /\ DataOK
        /\ Work(job, job)
    BY <1>1, WorkAddsUp DEF PatchInv, PatchTypeOK, TubeFree, AssertionsHold
  <1>3. DataOK'
    BY <1>1, <1>2 DEF DataOK, CommandOK, StatsOK
  <1>4. PICK fn, q :
          /\ Finish(job, fn, q)
          /\ \/ fn = "rs_patch_s_literal" /\ q = "RS_RUNNING" /\ cmd.kind = "LITERAL"
             \/ fn = "rs_patch_s_copy" /\ q = "RS_RUNNING"
             \/ fn = "rs_patch_s_run" /\ q = "RS_DONE" /\ cmd.kind = "END"
             \/ fn = "rs_patch_s_run" /\ q = "RS_CORRUPT"
    BY <1>1 DEF rs_patch_s_run
  <1>5. /\ PatchTypeOK' /\ TubeFree' /\ ResultLast' /\ AssertionsHold'
        /\ Work(job, job') /\ input' = input
        /\ job'.cursor = job.cursor /\ OutLen(job') = OutLen(job)
        /\ statefn' = IF q = "RS_DONE" THEN "NULL" ELSE fn
    <2>1. fn \in StateFns \ {"NULL"}
      BY <1>4 DEF StateFns
    <2> QED
      BY <1>1, <1>2, <1>3, <1>4, <2>1, PatchFinish
  <1>6. Account'
    <2>1. job.cursor = Counted + 1 + cmd.len_1 + cmd.len_2 /\ OutLen(job) = Promised
      BY <1>1 DEF PatchInv, Account
    <2>2. job'.cursor = Counted' + 1 + cmd'.len_1 + cmd'.len_2 /\ OutLen(job') = Promised'
      BY <1>1, <1>5, <2>1 DEF Counted, Promised
    <2>3. CASE q = "RS_DONE"
      <3>1. cmd'.len_1 = 0 /\ cmd'.len_2 = 0 /\ Counted' + 1 \in Int
        BY <1>1, <1>2, <1>3, <1>4, <2>3 DEF DataOK, CommandOK, StatsOK, Counted
      <3>2. job'.cursor = Counted' + 1
        BY <2>2, <3>1
      <3> QED
        BY <1>5, <2>2, <2>3, <3>2 DEF Account
    <2>4. CASE q # "RS_DONE"
      BY <1>1, <1>4, <1>5, <2>2, <2>4 DEF Account
    <2> QED
      BY <2>3, <2>4
  <1> QED
    BY <1>5, <1>6 DEF PatchInv

\* rs_patch_s_literal counts the literal when it queues the copy in an idle tube.
LEMMA PatchLiteral ==
    ASSUME PatchInv, rs_patch_s_literal
    PROVE  PatchInv' /\ Work(job, job') /\ input' = input
  <1> DEFINE k == rs_tube_copy(job, param1)
  <1>1. /\ pc = "statefn" /\ statefn = "rs_patch_s_literal"
        /\ UNCHANGED <<cmd, param1, param2, basis_pos, basis_len>>
    BY DEF rs_patch_s_literal, Running, commandVars
  <1>2. /\ JobOK(job) /\ job.write_buf = <<>> /\ job.copy_len = 0 /\ job.asserts
        /\ DataOK /\ StatsOK /\ CommandOK(cmd) /\ param1 \in Int /\ Work(job, job)
    BY <1>1, WorkAddsUp DEF PatchInv, PatchTypeOK, TubeFree, AssertionsHold, DataOK
  <1>3. /\ job.cursor = Counted + 1 + cmd.len_1 + cmd.len_2 /\ OutLen(job) = Promised
        /\ cmd.len_1 \in Nat /\ cmd.len_2 = 0
    BY <1>1, <1>2 DEF PatchInv, Account, CommandOK
  <1>4. CASE param1 <= 0 \/ param1 > SIZE_MAX
    <2>1. Finish(job, "rs_patch_s_literal", "RS_CORRUPT") /\ stats' = stats
      BY <1>1, <1>4 DEF rs_patch_s_literal
    <2>2. DataOK'
      BY <1>1, <1>2, <2>1 DEF DataOK, CommandOK, StatsOK
    <2>3. /\ PatchTypeOK' /\ TubeFree' /\ ResultLast' /\ AssertionsHold'
          /\ Work(job, job') /\ input' = input
          /\ job'.cursor = job.cursor /\ OutLen(job') = OutLen(job)
          /\ statefn' = "rs_patch_s_literal"
      <3>1. "rs_patch_s_literal" \in StateFns \ {"NULL"}
        BY DEF StateFns
      <3> QED
        BY <1>1, <1>2, <2>1, <2>2, <3>1, PatchFinish
    <2>4. /\ job'.cursor = Counted' + 1 + cmd'.len_1 + cmd'.len_2 /\ OutLen(job') = Promised'
          /\ cmd'.kind = "LITERAL"
      BY <1>1, <1>3, <2>1, <2>3 DEF Counted, Promised, PatchInv, Account
    <2> QED
      BY <2>3, <2>4 DEF PatchInv, Account
  <1>5. CASE ~(param1 <= 0 \/ param1 > SIZE_MAX)
    <2>1. /\ Finish(k, "rs_patch_s_cmdbyte", "RS_RUNNING")
          /\ stats' = [stats EXCEPT !.lit_bytes = @ + param1, !.cmdbytes = @ + 1 + cmd.len_1]
      BY <1>1, <1>5 DEF rs_patch_s_literal
    <2>2. param1 \in Nat
      BY <1>2, <1>5
    <2>3. /\ Work(job, k) /\ k.asserts /\ k.write_buf = <<>> /\ SameInput(job, k)
          /\ k.out = job.out /\ k.copy_len = param1
      <3>1. /\ Work(job, k) /\ SameInput(job, k) /\ k.write_buf = job.write_buf
            /\ k.out = job.out /\ k.copy_len = param1 /\ (job.copy_len = 0 /\ job.asserts => k.asserts)
        BY <1>2, <2>2, TubeFacts
      <3> QED
        BY <1>2, <3>1
    <2> HIDE DEF k
    <2>4. /\ DOMAIN stats' = {"lit_bytes", "copy_bytes", "cmdbytes"}
          /\ stats'.lit_bytes = stats.lit_bytes + param1 /\ stats'.copy_bytes = stats.copy_bytes
          /\ stats'.cmdbytes = stats.cmdbytes + 1 + cmd.len_1
      BY <1>2, <2>1 DEF StatsOK
    <2>5. DataOK'
      <3>1. StatsOK'
        BY <1>2, <1>3, <2>2, <2>4 DEF StatsOK
      <3> QED
        BY <1>1, <1>2, <3>1 DEF DataOK, CommandOK
    <2>6. /\ PatchTypeOK' /\ TubeFree' /\ ResultLast' /\ AssertionsHold'
          /\ Work(job, job') /\ input' = input
          /\ job'.cursor = k.cursor /\ OutLen(job') = OutLen(k)
          /\ job'.copy_len = k.copy_len /\ statefn' = "rs_patch_s_cmdbyte"
      <3>1. "rs_patch_s_cmdbyte" \in StateFns \ {"NULL"}
        BY DEF StateFns
      <3> QED
        BY <1>1, <2>1, <2>3, <2>5, <3>1, PatchFinish
    <2>7. job'.cursor = job.cursor /\ OutLen(job') = OutLen(job) /\ job'.copy_len = param1
      BY <2>3, <2>6 DEF SameInput, OutLen
    <2>8. job'.cursor + job'.copy_len = Counted' /\ OutLen(job') + job'.copy_len = Promised'
      <3>1. stats.lit_bytes \in Nat /\ stats.copy_bytes \in Nat /\ stats.cmdbytes \in Nat
        BY <1>2 DEF StatsOK
      <3>2. /\ job.cursor = (4 + stats.cmdbytes + stats.lit_bytes) + 1 + cmd.len_1 + cmd.len_2
            /\ OutLen(job) = stats.lit_bytes + stats.copy_bytes
        BY <1>3 DEF Counted, Promised
      <3> QED
        BY <1>3, <2>2, <2>4, <2>7, <3>1, <3>2 DEF Counted, Promised
    <2> QED
      BY <2>6, <2>8 DEF PatchInv, Account
  <1> QED
    BY <1>4, <1>5

\* rs_patch_s_copy counts the copy before a byte of it has been written.
LEMMA PatchCopy ==
    ASSUME PatchInv, rs_patch_s_copy
    PROVE  PatchInv' /\ Work(job, job') /\ input' = input
  <1>1. /\ pc = "statefn" /\ statefn = "rs_patch_s_copy" /\ UNCHANGED <<cmd, param1, param2>>
    BY DEF rs_patch_s_copy, Running, commandVars
  <1>2. /\ JobOK(job) /\ job.write_buf = <<>> /\ job.copy_len = 0 /\ job.asserts
        /\ DataOK /\ StatsOK /\ CommandOK(cmd) /\ param1 \in Int /\ param2 \in Int
        /\ Work(job, job)
    BY <1>1, WorkAddsUp DEF PatchInv, PatchTypeOK, TubeFree, AssertionsHold, DataOK
  <1>3. /\ job.cursor = Counted + 1 + cmd.len_1 + cmd.len_2 /\ OutLen(job) = Promised
        /\ cmd.len_1 \in Nat /\ cmd.len_2 \in Nat
    BY <1>1, <1>2 DEF PatchInv, Account, CommandOK
  <1>4. CASE param2 <= 0 \/ param1 < 0
    <2>1. /\ Finish(job, "rs_patch_s_copy", "RS_CORRUPT")
          /\ stats' = stats /\ basis_pos' = basis_pos /\ basis_len' = basis_len
      BY <1>1, <1>4 DEF rs_patch_s_copy
    <2>2. DataOK'
      BY <1>1, <1>2, <2>1 DEF DataOK, CommandOK, StatsOK
    <2>3. /\ PatchTypeOK' /\ TubeFree' /\ ResultLast' /\ AssertionsHold'
          /\ Work(job, job') /\ input' = input
          /\ job'.cursor = job.cursor /\ OutLen(job') = OutLen(job) /\ statefn' = "rs_patch_s_copy"
      <3>1. "rs_patch_s_copy" \in StateFns \ {"NULL"}
        BY DEF StateFns
      <3> QED
        BY <1>1, <1>2, <2>1, <2>2, <3>1, PatchFinish
    <2>4. job'.cursor = Counted' + 1 + cmd'.len_1 + cmd'.len_2 /\ OutLen(job') = Promised'
      BY <1>1, <1>3, <2>1, <2>3 DEF Counted, Promised
    <2> QED
      BY <2>3, <2>4 DEF PatchInv, Account
  <1>5. CASE ~(param2 <= 0 \/ param1 < 0)
    <2>1. /\ Finish(job, "rs_patch_s_copying", "RS_RUNNING")
          /\ stats' = [stats EXCEPT !.copy_bytes = @ + param2,
                                    !.cmdbytes = @ + 1 + cmd.len_1 + cmd.len_2]
          /\ basis_pos' = param1 /\ basis_len' = param2
      BY <1>1, <1>5 DEF rs_patch_s_copy
    <2>2. param1 \in Nat /\ param2 \in Nat
      BY <1>2, <1>5
    <2>3. /\ DOMAIN stats' = {"lit_bytes", "copy_bytes", "cmdbytes"}
          /\ stats'.lit_bytes = stats.lit_bytes /\ stats'.copy_bytes = stats.copy_bytes + param2
          /\ stats'.cmdbytes = stats.cmdbytes + 1 + cmd.len_1 + cmd.len_2
      BY <1>2, <2>1 DEF StatsOK
    <2>4. DataOK'
      <3>1. StatsOK'
        BY <1>2, <1>3, <2>2, <2>3 DEF StatsOK
      <3> QED
        BY <1>1, <1>2, <2>1, <2>2, <3>1 DEF DataOK, CommandOK
    <2>5. /\ PatchTypeOK' /\ TubeFree' /\ ResultLast' /\ AssertionsHold'
          /\ Work(job, job') /\ input' = input
          /\ job'.cursor = job.cursor /\ OutLen(job') = OutLen(job) /\ statefn' = "rs_patch_s_copying"
      <3>1. "rs_patch_s_copying" \in StateFns \ {"NULL"}
        BY DEF StateFns
      <3> QED
        BY <1>1, <1>2, <2>1, <2>4, <3>1, PatchFinish
    <2>6. job'.cursor = Counted' /\ OutLen(job') + basis_len' = Promised'
      <3>1. stats.lit_bytes \in Nat /\ stats.copy_bytes \in Nat /\ stats.cmdbytes \in Nat
        BY <1>2 DEF StatsOK
      <3>2. /\ job.cursor = (4 + stats.cmdbytes + stats.lit_bytes) + 1 + cmd.len_1 + cmd.len_2
            /\ OutLen(job) = stats.lit_bytes + stats.copy_bytes
        BY <1>3 DEF Counted, Promised
      <3> QED
        BY <1>3, <2>1, <2>2, <2>3, <2>5, <3>1, <3>2 DEF Counted, Promised
    <2> QED
      BY <2>5, <2>6 DEF PatchInv, Account
  <1> QED
    BY <1>4, <1>5

\* rs_patch_s_copying: what the callback gives, at most what was asked for, is taken
\* off the length that is left.
LEMMA PatchCopying ==
    ASSUME PatchInv, rs_patch_s_copying
    PROVE  PatchInv' /\ Work(job, job') /\ input' = input
  <1>1. /\ pc = "statefn" /\ statefn = "rs_patch_s_copying"
        /\ UNCHANGED <<cmd, param1, param2, stats>>
    BY DEF rs_patch_s_copying, Running, commandVars
  <1>2. /\ JobOK(job) /\ job.write_buf = <<>> /\ job.copy_len = 0 /\ job.asserts
        /\ DataOK /\ basis_pos \in Nat /\ basis_len \in Nat /\ Work(job, job)
    BY <1>1, WorkAddsUp DEF PatchInv, PatchTypeOK, TubeFree, AssertionsHold, DataOK
  <1>3. job.cursor = Counted /\ OutLen(job) + basis_len = Promised
    BY <1>1 DEF PatchInv, Account
  <1>4. Counted' = Counted /\ Promised' = Promised
    BY <1>1 DEF Counted, Promised
  <1>5. ASSUME NEW r, r \notin {"RS_RUNNING", "RS_DONE"}, Finish(job, statefn, r),
               UNCHANGED <<basis_pos, basis_len>>
        PROVE  PatchInv' /\ Work(job, job') /\ input' = input
    <2>1. DataOK'
      BY <1>1, <1>2, <1>5 DEF DataOK, CommandOK, StatsOK
    <2>2. /\ PatchTypeOK' /\ TubeFree' /\ ResultLast' /\ AssertionsHold'
          /\ Work(job, job') /\ input' = input
          /\ job'.cursor = job.cursor /\ OutLen(job') = OutLen(job)
          /\ statefn' = "rs_patch_s_copying"
      <3>1. statefn \in StateFns \ {"NULL"}
        BY <1>1 DEF StateFns
      <3> QED
        BY <1>1, <1>2, <1>5, <2>1, <3>1, PatchFinish
    <2>3. job'.cursor = Counted' /\ OutLen(job') + basis_len' = Promised'
      BY <1>3, <1>4, <1>5, <2>2
    <2> QED
      BY <2>2, <2>3 DEF PatchInv, Account
  <1>6. ASSUME NEW len \in copy_cb(basis_pos, Lesser(basis_len, job.avail_out)),
               basis_pos' = basis_pos + len, basis_len' = basis_len - len,
               Finish([job EXCEPT !.out = @ \o SubSeq(Basis, basis_pos + 1, basis_pos + len),
                                  !.avail_out = @ - len],
                      IF basis_len = len THEN "rs_patch_s_cmdbyte" ELSE statefn, "RS_RUNNING")
        PROVE  PatchInv' /\ Work(job, job') /\ input' = input
    <2> DEFINE bytes == SubSeq(Basis, basis_pos + 1, basis_pos + len)
               k == [job EXCEPT !.out = @ \o bytes, !.avail_out = @ - len]
               fn == IF basis_len = len THEN "rs_patch_s_cmdbyte" ELSE statefn
    <2>1. /\ len \in Nat /\ len <= basis_len /\ len <= job.avail_out
          /\ basis_pos + len <= Len(Basis) /\ Basis \in Seq(Nat)
      <3>1. Basis \in Seq(Nat) /\ Len(Basis) \in Nat /\ job.avail_out \in Nat
        BY <1>2, PatchAssumption, LenProperties DEF JobOK
      <3> QED
        BY <1>2, <1>6, <3>1, SMTT(40) DEF copy_cb, Lesser
    <2>2. bytes \in Seq(Nat) /\ Len(bytes) = len
      BY <1>2, <2>1, PieceFacts
    <2>3. /\ DOMAIN k = JobFields /\ k.out = job.out \o bytes /\ k.avail_out = job.avail_out - len
          /\ \A f \in JobFields \ {"out", "avail_out"} : k[f] = job[f]
      BY <1>2 DEF JobOK, JobFields
    <2>4. Finish(k, fn, "RS_RUNNING")
      BY <1>6
    <2> HIDE DEF k, bytes
    <2>5. /\ k.eof_in = job.eof_in /\ k.write_buf = job.write_buf /\ k.copy_len = job.copy_len
          /\ k.cursor = job.cursor /\ k.scoop_avail = job.scoop_avail /\ k.avail_in = job.avail_in
          /\ k.asserts = job.asserts
      BY <2>3 DEF JobFields
    <2>6. OutLen(job) \in Nat /\ job.cursor \in Nat
      BY <1>2, LengthFacts DEF JobOK
    <2>7. Work(job, k) /\ OutLen(k) = OutLen(job) + len
      <3>1. /\ k.cursor \in Nat /\ k.scoop_avail \in Nat /\ k.avail_in \in Nat
            /\ k.copy_len \in Nat /\ k.write_buf \in Seq(Nat)
        BY <1>2, <2>5 DEF JobOK
      <3>2. /\ k.avail_in <= job.avail_in /\ DOMAIN k = JobFields
            /\ k.cursor + k.scoop_avail + k.avail_in = job.cursor + job.scoop_avail + job.avail_in
        BY <2>3, <2>5, <3>1
      <3>3. k.out = job.out \o bytes /\ k.avail_out = job.avail_out - Len(bytes)
        BY <2>2, <2>3
      <3>4. Len(bytes) <= job.avail_out
        BY <2>1, <2>2
      <3>5. k.eof_in = job.eof_in /\ bytes \in Seq(Nat) /\ Len(bytes) = len
        BY <2>2, <2>5
      <3> QED
        BY <1>2, <3>1, <3>2, <3>3, <3>4, <3>5, PutOut
    <2>8. basis_pos' \in Nat /\ basis_len' \in Nat
      BY <1>2, <1>6, <2>1
    <2>9. DataOK'
      BY <1>1, <1>2, <2>8 DEF DataOK, CommandOK, StatsOK
    <2>10. fn \in StateFns \ {"NULL"}
      BY <1>1 DEF StateFns
    <2>11. /\ PatchTypeOK' /\ TubeFree' /\ ResultLast' /\ AssertionsHold'
           /\ Work(job, job') /\ input' = input
           /\ job'.cursor = k.cursor /\ OutLen(job') = OutLen(k)
           /\ job'.copy_len = k.copy_len /\ statefn' = fn
      <3>1. k.write_buf = <<>> /\ k.asserts /\ k.copy_len = 0
        BY <1>2, <2>5
      <3> HIDE DEF fn
      <3> QED
        BY <1>1, <2>4, <2>7, <2>9, <2>10, <3>1, PatchFinish
    <2>12. /\ job'.cursor = Counted' /\ OutLen(job') + basis_len' = Promised' /\ job'.copy_len = 0
           /\ Counted' \in Nat /\ OutLen(job') \in Nat
      <3>1. OutLen(job') = OutLen(job) + len /\ basis_len' = basis_len - len
            /\ job'.cursor = job.cursor /\ job'.copy_len = 0
        BY <1>2, <1>6, <2>5, <2>7, <2>11
      <3> QED
        BY <1>2, <1>3, <1>4, <2>1, <2>6, <3>1
    <2>13. CASE basis_len = len
      <3>1. basis_len' = 0 /\ statefn' = "rs_patch_s_cmdbyte"
        BY <1>2, <1>6, <2>11, <2>13
      <3>2. job'.cursor + job'.copy_len = Counted' /\ OutLen(job') + job'.copy_len = Promised'
        <4>1. basis_len' = 0 /\ job'.copy_len = 0
          BY <2>12, <3>1
        <4>2. job'.cursor = Counted' /\ Counted' \in Nat
          BY <2>12
        <4>3. OutLen(job') + basis_len' = Promised'
          BY <2>12
        <4>4. job'.cursor + job'.copy_len = job'.cursor
          <5>1. job'.cursor \in Nat /\ job'.copy_len = 0
            BY <2>5, <2>6, <2>11, <4>1
          <5> QED
            BY <5>1
        <4>5. job'.copy_len = basis_len'
          BY <4>1
        <4>6. OutLen(job') + job'.copy_len = Promised'
          BY <4>3, <4>5
        <4> QED
          BY <4>2, <4>4, <4>6
      <3> QED
        BY <2>11, <3>1, <3>2 DEF PatchInv, Account
    <2>14. CASE basis_len # len
      <3>1. statefn' = "rs_patch_s_copying"
        BY <1>1, <2>11, <2>14
      <3> QED
        BY <2>11, <2>12, <3>1 DEF PatchInv, Account
    <2> QED
      BY <2>13, <2>14
  <1>7. \A r \in copy_cb_failure(basis_pos) : r \notin {"RS_RUNNING", "RS_DONE"}
    BY PatchAssumption DEF copy_cb_failure
  <1> QED
    BY <1>5, <1>6, <1>7 DEF rs_patch_s_copying

\* The head of the loop of rs_job_work.
LEMMA PatchCatchup ==
    ASSUME PatchInv, Caller(Catchup)
    PROVE  PatchInv' /\ Work(job, job') /\ input' = input
  <1> DEFINE c == rs_tube_catchup(job)
             k == c.job
  <1>1. pc = "work" /\ UNCHANGED <<cmd, param1, param2, basis_pos, basis_len, stats, statefn>>
    BY DEF Caller, Catchup, commandVars
  <1>2. /\ JobOK(job) /\ job.write_buf = <<>> /\ job.asserts /\ DataOK /\ statefn \in StateFns
        /\ statefn # "rs_patch_s_cmdbyte" => job.copy_len = 0
        /\ result \in {"RS_RUNNING", "RS_BLOCKED"}
    BY <1>1 DEF PatchInv, PatchTypeOK, TubeFree, AssertionsHold, ResultLast
  <1>3. /\ Work(job, k) /\ k.asserts = job.asserts
        /\ c.result \in {"RS_DONE", "RS_INPUT_ENDED", "RS_BLOCKED"}
        /\ c.result = "RS_DONE" => rs_tube_is_idle(k)
        /\ k.cursor + k.copy_len = job.cursor + job.copy_len
        /\ OutLen(k) + TubeLen(k) + k.copy_len = OutLen(job) + TubeLen(job) + job.copy_len
        /\ k.write_buf = <<>>
    BY <1>2, CatchupFacts
  <1>4. \/ c.result = "RS_DONE" /\ statefn # "NULL" /\ job' = k /\ pc' = "statefn"
           /\ UNCHANGED <<input, result, orig>>
        \/ ~(c.result = "RS_DONE" /\ statefn # "NULL") /\ Return(k, c.result)
    BY DEF Caller, Catchup
  <1> HIDE DEF c
  <1>5. JobOK(k)
    BY <1>3 DEF Work
  <1>6. /\ job' = k \/ (JobOK(job') /\ SameOutput(k, job') /\ SameInput(k, job'))
        /\ Work(k, job') /\ (k.asserts => job'.asserts) /\ input' = input
        /\ \/ pc' = "statefn" /\ statefn # "NULL" /\ result' = result /\ c.result = "RS_DONE"
           \/ /\ pc' = "caller" /\ result' \in {c.result, "RS_INTERNAL_ERROR"}
              /\ c.result = "RS_DONE" => statefn = "NULL"
    <2>1. CASE Return(k, c.result) /\ ~(c.result = "RS_DONE" /\ statefn # "NULL")
      <3>1. c.result # "RS_RUNNING"
        BY <1>3
      <3> QED
        BY <1>3, <1>5, <2>1, <3>1, ReturnFacts DEF Work
    <2>2. CASE c.result = "RS_DONE" /\ statefn # "NULL" /\ job' = k /\ pc' = "statefn"
               /\ UNCHANGED <<input, result, orig>>
      BY <1>5, <2>2, WorkAddsUp
    <2> QED
      BY <1>4, <2>1, <2>2
  <1>7. /\ JobOK(job') /\ job'.cursor = k.cursor /\ job'.copy_len = k.copy_len
        /\ OutLen(job') = OutLen(k) /\ job'.write_buf = <<>> /\ job'.asserts
    BY <1>2, <1>3, <1>5, <1>6 DEF SameOutput, SameInput, OutLen
  <1>8. Work(job, job')
    BY <1>2, <1>3, <1>6, WorkAddsUp
  <1>9. /\ job.copy_len \in Nat /\ k.copy_len \in Nat /\ job.cursor \in Nat /\ k.cursor \in Nat
        /\ OutLen(job) \in Nat /\ OutLen(k) \in Nat /\ TubeLen(job) = 0 /\ TubeLen(k) = 0
        /\ job.avail_out \in Nat /\ k.avail_out \in Nat
    <2>1. TubeLen(job) = 0 /\ TubeLen(k) = 0
      BY <1>2, <1>3 DEF TubeLen
    <2> QED
      BY <1>2, <1>5, <2>1, LengthFacts DEF JobOK
  <1>10. /\ OutLen(k) + k.copy_len = OutLen(job) + job.copy_len
         /\ job.copy_len = 0 => k.copy_len = 0 /\ OutLen(k) = OutLen(job) /\ k.cursor = job.cursor
    <2>1. /\ OutLen(k) + TubeLen(k) + k.copy_len = OutLen(job) + TubeLen(job) + job.copy_len
          /\ k.cursor + k.copy_len = job.cursor + job.copy_len
          /\ k.avail_out <= job.avail_out
          /\ OutLen(k) + k.avail_out = OutLen(job) + job.avail_out
      BY <1>3 DEF Work
    <2> QED
      BY <1>9, <2>1
  <1>11. PatchTypeOK'
    <2>1. input \in Deltas
      BY DEF PatchInv, PatchTypeOK
    <2>2. JobOK(job)'
      BY <1>6, <1>7 DEF JobOK
    <2>3. DataOK'
      BY <1>1, <1>2 DEF DataOK, CommandOK, StatsOK
    <2> QED
      BY <1>1, <1>2, <1>6, <2>1, <2>2, <2>3 DEF PatchTypeOK
  <1>12. TubeFree'
    <2>1. statefn' # "rs_patch_s_cmdbyte" => job'.copy_len = 0
      BY <1>1, <1>2, <1>7, <1>10
    <2>2. pc' = "statefn" => job'.copy_len = 0 /\ statefn' # "NULL"
      BY <1>1, <1>3, <1>6, <1>7 DEF rs_tube_is_idle
    <2> QED
      BY <1>7, <2>1, <2>2 DEF TubeFree
  <1>13. ResultLast'
    BY <1>1, <1>2, <1>6, <1>3 DEF ResultLast
  <1>14. AssertionsHold'
    BY <1>7 DEF AssertionsHold
  <1>15. Account'
    <2>1. Counted' = Counted /\ Promised' = Promised
      BY <1>1 DEF Counted, Promised
    <2>2. CASE statefn = "rs_patch_s_cmdbyte"
      <3>1. job.cursor + job.copy_len = Counted /\ OutLen(job) + job.copy_len = Promised
        BY <2>2 DEF PatchInv, Account
      <3>2. job'.cursor + job'.copy_len = Counted' /\ OutLen(job') + job'.copy_len = Promised'
        BY <1>3, <1>7, <1>10, <2>1, <3>1
      <3> QED
        BY <1>1, <2>2, <3>2 DEF Account
    <2>3. CASE statefn # "rs_patch_s_cmdbyte"
      <3>1. job'.cursor = job.cursor /\ OutLen(job') = OutLen(job) /\ job'.copy_len = job.copy_len
        BY <1>2, <1>7, <1>10, <2>3
      <3>2. Account
        BY DEF PatchInv
      <3> QED
        BY <1>1, <1>2, <2>1, <2>3, <3>1, <3>2 DEF Account
    <2> QED
      BY <2>2, <2>3
  <1> QED
    BY <1>6, <1>8, <1>11, <1>12, <1>13, <1>14, <1>15 DEF PatchInv

\* The caller calls again.
LEMMA PatchCallIter ==
    ASSUME PatchInv, Caller(CallIter)
    PROVE  PatchInv'
  <1>1. PICK n \in 0 .. Len(input), e \in BOOLEAN, m \in 0 .. MaxOut : Iter(n, e, m)
    BY DEF Caller, CallIter
  <1>2. UNCHANGED <<cmd, param1, param2, basis_pos, basis_len, stats>>
    BY DEF Caller, commandVars
  <1>3. JobOK(job) /\ Call(n, e, m) /\ result \in {"RS_RUNNING", "RS_BLOCKED"}
    BY <1>1 DEF Iter, PatchInv, PatchTypeOK
  <1>4. n \in Nat /\ m \in Nat /\ n \in Int /\ job.avail_in + n \in Nat
    <2>1. Len(input) \in Nat /\ MaxOut \in Nat /\ job.avail_in \in Nat
      BY <1>3, LengthFacts, JobAssumption DEF JobOK
    <2> QED
      BY <2>1
  <1>5. job.cursor + job.scoop_avail + job.avail_in + n <= Len(input)
    <2>1. job.cursor + (job.scoop_avail + job.avail_in) + n <= Len(input)
      BY <1>1 DEF Iter, rs_scoop_avail
    <2>2. /\ job.cursor \in Nat /\ job.scoop_avail \in Nat /\ job.avail_in \in Nat
          /\ Len(input) \in Nat
      BY <1>3, LengthFacts DEF JobOK
    <2> QED
      BY <1>4, <2>1, <2>2
  <1>6. /\ JobOK(job') /\ job'.cursor = job.cursor
        /\ job'.out = job.out /\ job'.write_buf = job.write_buf
        /\ job'.copy_len = job.copy_len /\ job'.asserts = job.asserts
        /\ pc = "caller" /\ pc' = "work" /\ UNCHANGED <<input, statefn, result>>
    BY <1>3, <1>4, <1>5, CallFacts
  <1>7. OutLen(job') = OutLen(job) /\ JobOK(job)'
    BY <1>6 DEF OutLen, JobOK
  <1>8. PatchTypeOK'
    BY <1>2, <1>6, <1>7 DEF PatchInv, PatchTypeOK, DataOK, CommandOK, StatsOK
  <1>9. TubeFree' /\ ResultLast' /\ AssertionsHold'
    BY <1>3, <1>6 DEF PatchInv, TubeFree, ResultLast, AssertionsHold
  <1>10. Account'
    BY <1>2, <1>6, <1>7 DEF PatchInv, Account, Counted, Promised
  <1> QED
    BY <1>8, <1>9, <1>10 DEF PatchInv

\* rs_patch_begin: nothing is read, written or counted yet.
LEMMA PatchInit == Init => PatchInv
  <1> SUFFICES ASSUME Init
               PROVE  PatchInv
    OBVIOUS
  <1>1. /\ input \in Deltas /\ statefn = "rs_patch_s_header" /\ pc = "caller"
        /\ result = "RS_RUNNING" /\ cmd = rs_prototab(RS_OP_END) /\ param1 = 0 /\ param2 = 0
        /\ basis_pos = 0 /\ basis_len = 0
        /\ stats = [lit_bytes |-> 0, copy_bytes |-> 0, cmdbytes |-> 0]
    BY DEF Init, EngineInit
  <1>2. /\ JobOK(job) /\ job.cursor = 0 /\ job.write_buf = <<>> /\ job.copy_len = 0
        /\ OutLen(job) = 0 /\ job.asserts
    <2>1. input \in Seq(Nat)
      BY <1>1, PatchAssumption
    <2> QED
      BY <2>1, EngineInitFacts DEF Init
  <1>5. StatsOK /\ Counted = 4 /\ Promised = 0
    BY <1>1 DEF StatsOK, Counted, Promised
  <1>6. CommandOK(cmd)
    BY <1>1, PrototabFacts DEF RS_OP_END
  <1>7. PatchTypeOK
    BY <1>1, <1>2, <1>5, <1>6 DEF PatchTypeOK, DataOK, StateFns
  <1> QED
    BY <1>1, <1>2, <1>5, <1>7
       DEF PatchInv, TubeFree, ResultLast, AssertionsHold, Account

\* Inside rs_job_iter the job works on the caller's buffers and keeps its own
\* state in order.
LEMMA PatchStep ==
    ASSUME PatchInv, Step
    PROVE  PatchInv' /\ Work(job, job') /\ input' = input
  BY PatchHeader, PatchCmdbyte, PatchParams, PatchRun, PatchLiteral, PatchCopy, PatchCopying,
     PatchCatchup DEF Step, StateFn

\* A stuttering step.
LEMMA PatchSame ==
    ASSUME PatchInv, UNCHANGED vars
    PROVE  PatchInv'
  <1>1. UNCHANGED <<input, job, statefn, pc, result, orig, cmd, param1, param2, basis_pos,
                    basis_len, stats>>
    BY DEF vars, engineVars
  <1>2. JobOK(job)' /\ DataOK' /\ OutLen(job') = OutLen(job)
    BY <1>1 DEF PatchInv, PatchTypeOK, JobOK, DataOK, CommandOK, StatsOK
  <1> QED
    BY <1>1, <1>2 DEF PatchInv, PatchTypeOK, TubeFree, ResultLast, AssertionsHold, Account,
                      Counted, Promised

\* The invariant holds without the help of fairness.
LEMMA PatchAlways == Init /\ [][Next]_vars => []PatchInv
  <1>1. PatchInv /\ [Next]_vars => PatchInv'
    BY PatchCallIter, PatchStep, PatchSame DEF Next, Stopped
  <1> QED
    BY PatchInit, <1>1, PTL

\* The assertions of patch.c, tube.c, scoop.c and job.c hold for every delta,
\* well formed or not, every basis, and every caller that keeps to rs_buffers_t.
THEOREM PatchAssertions == Spec => []AssertionsHold
  <1>1. PatchInv => AssertionsHold
    BY DEF PatchInv
  <1> QED
    BY <1>1, PatchAlways, PTL DEF Spec

\* The account, read when the job is done.
LEMMA PatchBalance ==
    ASSUME PatchInv
    PROVE  StatisticsBalance
  <1> SUFFICES ASSUME result = "RS_DONE"
               PROVE  /\ OutLen(job) = stats.lit_bytes + stats.copy_bytes
                      /\ job.cursor = 4 + stats.cmdbytes + stats.lit_bytes + 1
    BY DEF StatisticsBalance, OutLen
  <1>1. job.cursor = Counted + 1 /\ OutLen(job) = Promised
    BY DEF PatchInv, ResultLast, Account
  <1> QED
    BY <1>1 DEF Counted, Promised

\* When the patch job is done its statistics account for every byte of the new
\* file and for every byte of the delta that it has read.
THEOREM PatchStatistics == Spec => []StatisticsBalance
  <1>1. PatchInv => StatisticsBalance
    BY PatchBalance
  <1> QED
    BY <1>1, PatchAlways, PTL DEF Spec

-----------------------------------------------------------------------------
(* What the patch job puts out is what the delta means.                    *)

\* Of the delta d, done has been put out, and the commands from p on are to come;
\* or everything has, and the verdict is v.
Leaves(d, done, p) == Apply(d, Basis) = Preceded(done, Commands(d, Basis)[p])
Ends(d, done, v) == MeansEnd(Apply(d, Basis), done, v)

\* The bytes of a literal or of a part of the basis that are to come, from b to e of
\* the file s: it may be cut off.
ToCome(d, done, s, b, e, p) ==
    /\ e <= Len(s) => Leaves(d, done \o SubSeq(s, b + 1, e), p)
    /\ e > Len(s) => Ends(d, done \o SubSeq(s, b + 1, Len(s)), "RS_INPUT_ENDED")

\* A literal is on its way through the tube, or none is.
AtCommand ==
    ToCome(input, job.out, input, job.cursor, job.cursor + job.copy_len, job.cursor + job.copy_len)

\* The command byte has been read, and the parameters.
InCommand ==
    Counted < Len(input) /\ cmd = CommandAt(input, Counted) /\ Leaves(input, job.out, Counted)
HasParams ==
    /\ param1 = FirstParam(input, Counted)
    /\ cmd.len_2 > 0 => param2 = SecondParam(input, Counted)

\* Part of the basis is being copied.
AtCopy ==
    /\ basis_len > 0
    /\ ToCome(input, job.out, Basis, basis_pos, basis_pos + basis_len, job.cursor)

Meant ==
    /\ statefn = "rs_patch_s_header" => job.out = <<>>
    /\ statefn = "rs_patch_s_cmdbyte" => AtCommand
    /\ statefn \in {"rs_patch_s_params", "rs_patch_s_run", "rs_patch_s_literal", "rs_patch_s_copy"}
         => InCommand
    /\ statefn = "rs_patch_s_params" => cmd.len_1 > 0
    /\ statefn \in {"rs_patch_s_run", "rs_patch_s_literal", "rs_patch_s_copy"} => HasParams
    /\ statefn = "rs_patch_s_copy" => cmd.kind = "COPY"
    /\ statefn = "rs_patch_s_copying" => AtCopy
    /\ statefn = "NULL" => Ends(input, job.out, "RS_DONE") /\ Apply(input, Basis).used = job.cursor

\* The scoop holds only what is too little for a read of several bytes.
ScoopUse ==
    /\ statefn = "rs_patch_s_header" => job.scoop_avail < 4
    /\ statefn = "rs_patch_s_params" => job.scoop_avail < cmd.len_1 + cmd.len_2
    /\ statefn \notin {"rs_patch_s_header", "rs_patch_s_params"} => job.scoop_avail = 0

EofIsTrue == job.eof_in => job.cursor + job.scoop_avail + job.avail_in = Len(input)

\* The END command is read in the call that ends the job, which is thus seen to
\* make progress.
Progress ==
    pc # "caller" =>
        /\ orig[1] \in Nat /\ job.avail_in <= orig[1]
        /\ statefn = "NULL" \/ (statefn = "rs_patch_s_run" /\ cmd.kind = "END") =>
             job.avail_in < orig[1]

\* A job that is to be called again waits for input or room.
Resumes ==
    pc = "caller" /\ result \in {"RS_RUNNING", "RS_BLOCKED"} =>
        statefn \in {"rs_patch_s_header", "rs_patch_s_cmdbyte", "rs_patch_s_params",
                     "rs_patch_s_copying"}

\* What rs_job_iter has returned, unless it is the callback's own result.
Says ==
    pc = "caller" /\ result # "RS_RUNNING" /\ result \notin CallbackFaults =>
        /\ result = "RS_BLOCKED" =>
             \/ job.avail_in = 0 /\ ~job.eof_in
             \/ /\ job.avail_out = 0
                /\ OutLen(job) < Len(Apply(input, Basis).out) \/ Apply(input, Basis).verdict # "RS_DONE"
        /\ result # "RS_BLOCKED" => Ends(input, job.out, result)
        /\ result = "RS_DONE" => Apply(input, Basis).used = job.cursor + job.scoop_avail

MeantInv == Meant /\ ScoopUse /\ EofIsTrue /\ Progress /\ Resumes /\ Says

\* The files and what they mean.
LEMMA RestFacts ==
    ASSUME PatchInv
    PROVE  /\ input \in Seq(Nat) /\ Len(input) \in Nat /\ Basis \in Seq(Nat) /\ Len(Basis) \in Nat
           /\ SIZE_MAX \in Nat /\ Meaning[input] = Apply(input, Basis)
           /\ \A p \in 0 .. Len(input) : Commands(input, Basis)[p] \in Meanings
  <1>1. input \in Deltas
    BY DEF PatchInv, PatchTypeOK
  <1>2. input \in Seq(Nat) /\ Basis \in Seq(Nat) /\ SIZE_MAX \in Nat
    BY <1>1, PatchAssumption
  <1>3. Len(input) \in Nat /\ Len(Basis) \in Nat
    BY <1>2, LenProperties
  <1>4. Meaning[input] = Apply(input, Basis)
    BY <1>1 DEF Meaning
  <1>5. \A p \in 0 .. Len(input) : Commands(input, Basis)[p] \in Meanings
    BY <1>2, CommandsFacts
  <1> QED
    BY <1>2, <1>3, <1>4, <1>5

\* What is the same at the end of every state function.
LEMMA MeantFinish ==
    ASSUME PatchInv, MeantInv, pc = "statefn",
           NEW j, Work(job, j), NEW fn, NEW r, Finish(j, fn, r)
    PROVE  /\ SameOutput(j, job') /\ SameInput(j, job') /\ job'.eof_in = j.eof_in
           /\ input' = input /\ EofIsTrue' /\ orig' = orig
           /\ job'.avail_in <= orig'[1] /\ orig'[1] \in Nat /\ job'.avail_in \in Nat
           /\ r = "RS_RUNNING" => pc' = "work" /\ statefn' = fn /\ result' = result
           /\ r = "RS_DONE" => pc' = "work" /\ statefn' = "NULL" /\ result' = result
           /\ r \notin {"RS_RUNNING", "RS_DONE"} => pc' = "caller" /\ statefn' = fn
           /\ r \notin {"RS_RUNNING", "RS_DONE", "RS_BLOCKED"} => result' = r
           /\ r = "RS_BLOCKED" /\ (j.avail_in = 0 \/ j.avail_out = 0) => result' = r
  <1>0. JobOK(job) /\ JobOK(j) /\ pc # "caller"
    BY DEF Work, PatchInv, PatchTypeOK
  <1>1. /\ input' = input /\ orig' = orig
        /\ Work(j, job') /\ SameOutput(j, job') /\ SameInput(j, job')
        /\ r = "RS_RUNNING" => pc' = "work" /\ statefn' = fn /\ result' = result
        /\ r = "RS_DONE" => pc' = "work" /\ statefn' = "NULL" /\ result' = result
        /\ r \notin {"RS_RUNNING", "RS_DONE"} =>
             pc' = "caller" /\ statefn' = fn /\ result' \in {r, "RS_INTERNAL_ERROR"}
    BY <1>0, FinishFacts
  <1>2. /\ r \notin {"RS_RUNNING", "RS_DONE", "RS_BLOCKED"} => result' = r
        /\ r = "RS_BLOCKED" /\ (j.avail_in = 0 \/ j.avail_out = 0) => result' = r
    <2>1. r \notin {"RS_RUNNING", "RS_DONE"} => Return(j, r)
      BY DEF Finish
    <2>2. r \notin {"RS_RUNNING", "RS_DONE", "RS_BLOCKED"} => result' = r
      BY <2>1 DEF Return
    <2> QED
      BY <2>1, <2>2, ReturnStands
  <1>3. /\ job'.eof_in = j.eof_in /\ j.eof_in = job.eof_in
        /\ job'.cursor + job'.scoop_avail + job'.avail_in = job.cursor + job.scoop_avail + job.avail_in
        /\ job'.avail_in = j.avail_in /\ j.avail_in <= job.avail_in /\ j.avail_in \in Nat
        /\ job.avail_in \in Nat
    BY <1>0, <1>1 DEF Work, SameInput, JobOK
  <1>4. job.avail_in <= orig[1] /\ orig[1] \in Nat
    BY <1>0 DEF MeantInv, Progress
  <1>5. EofIsTrue'
    BY <1>1, <1>3 DEF MeantInv, EofIsTrue
  <1>6. job'.avail_in <= orig[1]
    BY <1>3, <1>4
  <1> QED
    BY <1>1, <1>2, <1>3, <1>4, <1>5, <1>6

\* Nothing is on its way.
LEMMA NothingToCome ==
    ASSUME NEW d, NEW done \in Seq(Nat), NEW s \in Seq(Nat), NEW c \in Nat, c <= Len(s), NEW p
    PROVE  ToCome(d, done, s, c, c, p) <=> Leaves(d, done, p)
  <1>1. SubSeq(s, c + 1, c) = <<>> /\ done \o <<>> = done
    BY PartFacts, ConcatEmptySeq
  <1>2. done \o SubSeq(s, c + 1, c) = done
    BY <1>1
  <1>3. ~(c > Len(s))
    BY LenProperties
  <1>4. ToCome(d, done, s, c, c, p) <=> Leaves(d, done \o SubSeq(s, c + 1, c), p)
    BY <1>3, Zenon DEF ToCome
  <1> QED
    BY <1>2, <1>4, Zenon

\* rs_patch_s_header.
LEMMA MeantHeader ==
    ASSUME PatchInv, PatchInv', MeantInv, rs_patch_s_header
    PROVE  MeantInv'
  <1> DEFINE r == Read(job, 4)
  <1>1. pc = "statefn" /\ statefn = "rs_patch_s_header"
    BY DEF rs_patch_s_header, Running
  <1>2. /\ JobOK(job) /\ job.cursor = 0 /\ job.out = <<>> /\ job.scoop_avail < 4
        /\ job.scoop_avail \in Nat /\ job.avail_in \in Nat /\ EofIsTrue
    <2>1. JobOK(job) /\ result \in {"RS_RUNNING", "RS_BLOCKED"}
      BY <1>1 DEF PatchInv, PatchTypeOK, ResultLast
    <2> QED
      BY <1>1, <2>1 DEF PatchInv, Account, MeantInv, Meant, ScoopUse, JobOK
  <1>3. /\ Work(job, r.job) /\ SameOutput(job, r.job)
        /\ r.result \in {"RS_DONE", "RS_INPUT_ENDED", "RS_BLOCKED"}
        /\ r.job.cursor = IF r.result = "RS_DONE" THEN 4 ELSE 0
        /\ r.result = "RS_INPUT_ENDED" => job.eof_in
        /\ r.result = "RS_BLOCKED" => ~job.eof_in
        /\ r.result = "RS_DONE" => 4 <= Len(input)
    BY <1>2, ReadFacts
  <1>4. /\ r.result = "RS_DONE" => r.job.scoop_avail = 0
        /\ r.result # "RS_DONE" =>
             r.job.avail_in = 0 /\ r.job.scoop_avail < 4 /\ job.scoop_avail + job.avail_in < 4
    BY <1>2, ReadExact DEF rs_scoop_avail
  <1>5. input \in Seq(Nat) /\ Len(input) \in Nat
    BY RestFacts
  <1>6. NextBytes(job, 4) = SubSeq(input, 1, 4)
    BY <1>2 DEF NextBytes
  <1>7. PICK fn, q :
          /\ Finish(r.job, fn, q)
          /\ \/ fn = "rs_patch_s_header" /\ r.result # "RS_DONE" /\ q = r.result
             \/ /\ fn = "rs_patch_s_header" /\ r.result = "RS_DONE" /\ q = "RS_BAD_MAGIC"
                /\ N4Value(SubSeq(input, 1, 4)) # RS_DELTA_MAGIC
             \/ /\ fn = "rs_patch_s_cmdbyte" /\ r.result = "RS_DONE" /\ q = "RS_RUNNING"
                /\ N4Value(SubSeq(input, 1, 4)) = RS_DELTA_MAGIC
    BY <1>1, <1>6 DEF rs_patch_s_header
  <1> HIDE DEF r
  <1>8. /\ SameOutput(r.job, job') /\ SameInput(r.job, job') /\ job'.eof_in = r.job.eof_in
        /\ input' = input /\ EofIsTrue' /\ orig' = orig
        /\ job'.avail_in <= orig'[1] /\ orig'[1] \in Nat /\ job'.avail_in \in Nat
        /\ q = "RS_RUNNING" => pc' = "work" /\ statefn' = fn /\ result' = result
        /\ q = "RS_DONE" => pc' = "work" /\ statefn' = "NULL" /\ result' = result
        /\ q \notin {"RS_RUNNING", "RS_DONE"} => pc' = "caller" /\ statefn' = fn
        /\ q \notin {"RS_RUNNING", "RS_DONE", "RS_BLOCKED"} => result' = q
        /\ q = "RS_BLOCKED" /\ (r.job.avail_in = 0 \/ r.job.avail_out = 0) => result' = q
    BY <1>1, <1>3, <1>7, MeantFinish
  <1>9. /\ job'.out = <<>> /\ job'.scoop_avail = r.job.scoop_avail /\ job'.cursor = r.job.cursor
        /\ job'.avail_in = r.job.avail_in /\ job'.eof_in = job.eof_in
        /\ job'.copy_len = job.copy_len
    BY <1>2, <1>3, <1>8 DEF SameOutput, SameInput, Work
  <1>10. CASE r.result = "RS_BLOCKED"
    BY <1>1, <1>3, <1>4, <1>7, <1>8, <1>9, <1>10
      DEF MeantInv, Meant, ScoopUse, Progress, Resumes, Says
  <1>11. CASE r.result = "RS_INPUT_ENDED"
    <2>1. Len(input) < 4
      BY <1>2, <1>3, <1>4, <1>11 DEF EofIsTrue
    <2>2. Apply(input, Basis).out = <<>> /\ Apply(input, Basis).verdict = "RS_INPUT_ENDED"
      BY <1>5, <2>1 DEF Apply
    <2>3. Ends(input, job.out, result)'
      BY <1>7, <1>8, <1>9, <1>11, <2>2 DEF Ends, MeansEnd
    <2> QED
      BY <1>3, <1>4, <1>7, <1>8, <1>9, <1>11, <2>3
        DEF MeantInv, Meant, ScoopUse, Progress, Resumes, Says
  <1>12. CASE r.result = "RS_DONE" /\ q = "RS_BAD_MAGIC"
    <2>1. Apply(input, Basis).out = <<>> /\ Apply(input, Basis).verdict = "RS_BAD_MAGIC"
      BY <1>3, <1>5, <1>7, <1>12 DEF Apply
    <2>2. Ends(input, job.out, result)'
      BY <1>7, <1>8, <1>9, <1>12, <2>1 DEF Ends, MeansEnd
    <2> QED
      BY <1>3, <1>4, <1>7, <1>8, <1>9, <1>12, <2>2
        DEF MeantInv, Meant, ScoopUse, Progress, Resumes, Says
  <1>13. CASE r.result = "RS_DONE" /\ q = "RS_RUNNING"
    <2>1. Apply(input, Basis) = Commands(input, Basis)[4]
      BY <1>3, <1>5, <1>7, <1>13 DEF Apply
    <2>2. Commands(input, Basis)[4] \in Meanings /\ 4 <= Len(input)
      BY <1>3, <1>5, <1>13, RestFacts
    <2>3. Apply(input, Basis) = Preceded(<<>>, Commands(input, Basis)[4])
      BY <2>1, <2>2, PrecededFacts, EmptySeq
    <2>4. job'.copy_len = 0 /\ job'.cursor = 4
      BY <1>1, <1>3, <1>9, <1>13 DEF PatchInv, TubeFree
    <2>5. AtCommand'
      <3>1. Leaves(input, <<>>, 4) /\ 4 + 0 = 4
        BY <2>3 DEF Leaves
      <3>2. ToCome(input, <<>>, input, 4, 4, 4)
        BY <1>5, <2>2, <3>1, NothingToCome, EmptySeq
      <3> QED
        BY <1>8, <1>9, <2>4, <3>1, <3>2 DEF AtCommand
    <2> QED
      BY <1>3, <1>4, <1>7, <1>8, <1>9, <1>13, <2>5
        DEF MeantInv, Meant, ScoopUse, Progress, Resumes, Says
  <1> QED
    BY <1>3, <1>7, <1>10, <1>11, <1>12, <1>13

\* rs_patch_s_cmdbyte.
LEMMA MeantCmdbyte ==
    ASSUME PatchInv, PatchInv', MeantInv, rs_patch_s_cmdbyte
    PROVE  MeantInv'
  <1> DEFINE r == Read(job, 1)
             c == rs_prototab(NextBytes(job, 1)[1])
             p == job.cursor
  <1>1. /\ pc = "statefn" /\ statefn = "rs_patch_s_cmdbyte"
        /\ stats' = stats
    BY DEF rs_patch_s_cmdbyte, Running
  <1>2. /\ JobOK(job) /\ job.copy_len = 0 /\ job.scoop_avail = 0 /\ job.out \in Seq(Nat)
        /\ job.cursor \in Nat /\ job.avail_in \in Nat /\ EofIsTrue
        /\ job.avail_in <= orig[1] /\ orig[1] \in Nat
    BY <1>1 DEF PatchInv, PatchTypeOK, TubeFree, MeantInv, ScoopUse, JobOK, Progress
  <1>20. p = Counted
    BY <1>1, <1>2 DEF PatchInv, Account
  <1>3. /\ Work(job, r.job) /\ SameOutput(job, r.job)
        /\ r.result \in {"RS_DONE", "RS_INPUT_ENDED", "RS_BLOCKED"}
        /\ r.job.cursor = IF r.result = "RS_DONE" THEN p + 1 ELSE p
        /\ r.result = "RS_INPUT_ENDED" => job.eof_in
        /\ r.result = "RS_BLOCKED" => ~job.eof_in
        /\ r.result = "RS_DONE" => p + 1 <= Len(input)
    BY <1>2, ReadFacts
  <1>4. /\ r.result = "RS_DONE" => r.job.scoop_avail = 0
        /\ r.result # "RS_DONE" =>
             r.job.avail_in = 0 /\ r.job.scoop_avail < 1 /\ job.scoop_avail + job.avail_in < 1
    BY <1>2, ReadExact DEF rs_scoop_avail
  <1>5. /\ input \in Seq(Nat) /\ Len(input) \in Nat /\ Basis \in Seq(Nat) /\ SIZE_MAX \in Nat
        /\ p <= Len(input)
    <2>1. p + job.scoop_avail + job.avail_in <= Len(input)
      BY <1>2 DEF JobOK
    <2> QED
      BY <1>2, <2>1, RestFacts
  <1>6. Leaves(input, job.out, p)
    <2>1. AtCommand
      BY <1>1 DEF MeantInv, Meant
    <2>2. p + job.copy_len = p /\ p <= Len(input)
      BY <1>2, <1>5
    <2>3. ToCome(input, job.out, input, p, p, p)
      BY <2>1, <2>2 DEF AtCommand
    <2> QED
      BY <1>2, <1>5, <2>3, NothingToCome
  <1>7. r.result = "RS_DONE" => c = CommandAt(input, p)
    <2> HAVE r.result = "RS_DONE"
    <2>1. SubSeq(input, p + 1, p + 1)[1] = input[p + 1]
      BY <1>2, <1>3, <1>5, PieceFacts
    <2> QED
      BY <2>1 DEF NextBytes, CommandAt
  <1>8. PICK fn, q :
          /\ Finish(r.job, fn, q)
          /\ \/ fn = "rs_patch_s_cmdbyte" /\ r.result # "RS_DONE" /\ q = r.result
             \/ fn = "rs_patch_s_params" /\ r.result = "RS_DONE" /\ q = "RS_RUNNING"
                /\ cmd' = c /\ c.len_1 > 0
             \/ fn = "rs_patch_s_run" /\ r.result = "RS_DONE" /\ q = "RS_RUNNING"
                /\ cmd' = c /\ param1' = c.immediate /\ ~(c.len_1 > 0)
    BY <1>1 DEF rs_patch_s_cmdbyte
  <1> HIDE DEF r, c
  <1>9. /\ SameOutput(r.job, job') /\ SameInput(r.job, job') /\ job'.eof_in = r.job.eof_in
        /\ input' = input /\ EofIsTrue' /\ orig' = orig
        /\ job'.avail_in <= orig'[1] /\ orig'[1] \in Nat /\ job'.avail_in \in Nat
        /\ q = "RS_RUNNING" => pc' = "work" /\ statefn' = fn /\ result' = result
        /\ q = "RS_DONE" => pc' = "work" /\ statefn' = "NULL" /\ result' = result
        /\ q \notin {"RS_RUNNING", "RS_DONE"} => pc' = "caller" /\ statefn' = fn
        /\ q \notin {"RS_RUNNING", "RS_DONE", "RS_BLOCKED"} => result' = q
        /\ q = "RS_BLOCKED" /\ (r.job.avail_in = 0 \/ r.job.avail_out = 0) => result' = q
    BY <1>1, <1>3, <1>8, MeantFinish
  <1>10. /\ job'.out = job.out /\ job'.scoop_avail = r.job.scoop_avail /\ job'.cursor = r.job.cursor
         /\ job'.avail_in = r.job.avail_in /\ job'.eof_in = job.eof_in
         /\ job'.copy_len = 0
    BY <1>2, <1>3, <1>9 DEF SameOutput, SameInput, Work
  <1>11. Counted' = p
    BY <1>1, <1>20 DEF Counted
  <1>12. r.job.scoop_avail = 0 /\ job'.scoop_avail = 0
    <2>1. r.job.scoop_avail \in Nat
      BY <1>3 DEF Work, JobOK
    <2> QED
      BY <1>3, <1>4, <1>10, <2>1
  <1>13. CASE r.result # "RS_DONE"
    <2>1. AtCommand'
      <3>1. job'.cursor + job'.copy_len = p /\ job'.cursor = p
        BY <1>2, <1>3, <1>10, <1>13
      <3>3. ToCome(input, job.out, input, p, p, p)
        BY <1>2, <1>5, <1>6, NothingToCome
      <3> QED
        BY <1>9, <1>10, <3>1, <3>3 DEF AtCommand
    <2>2. CASE r.result = "RS_BLOCKED"
      BY <1>3, <1>4, <1>8, <1>9, <1>10, <1>12, <1>13, <2>1, <2>2
        DEF MeantInv, Meant, ScoopUse, Progress, Resumes, Says
    <2>3. CASE r.result = "RS_INPUT_ENDED"
      <3>1. p = Len(input)
        BY <1>2, <1>3, <1>4, <1>5, <2>3 DEF EofIsTrue
      <3>2. MeansEnd(Apply(input, Basis), job.out, "RS_INPUT_ENDED")
        <4>1. p \in 0 .. Len(input)
          BY <1>2, <1>5
        <4>2. Apply(input, Basis) = Preceded(job.out, Commands(input, Basis)[p])
          BY <1>6 DEF Leaves
        <4> HIDE DEF p
        <4> QED
          BY <1>2, <1>5, <3>1, <4>1, <4>2, CommandMeans
      <3>3. Ends(input, job.out, result)'
        BY <1>8, <1>9, <1>10, <1>13, <2>3, <3>2 DEF Ends, MeansEnd
      <3> QED
        BY <1>3, <1>4, <1>8, <1>9, <1>10, <1>12, <1>13, <2>1, <2>3, <3>3
          DEF MeantInv, Meant, ScoopUse, Progress, Resumes, Says
    <2> QED
      BY <1>3, <1>13, <2>2, <2>3
  <1>14. CASE r.result = "RS_DONE"
    <2>1. InCommand'
      <3>1. cmd' = CommandAt(input, p) /\ p < Len(input)
        BY <1>2, <1>3, <1>5, <1>7, <1>8, <1>14
      <3>2. (cmd = CommandAt(input, Counted))'
        BY <1>9, <1>11, <3>1 DEF CommandAt
      <3>3. Leaves(input, job.out, Counted)'
        BY <1>6, <1>9, <1>10, <1>11 DEF Leaves
      <3>4. (Counted < Len(input))'
        BY <1>9, <1>11, <3>1
      <3> QED
        BY <3>2, <3>3, <3>4 DEF InCommand
    <2>2. CommandOK(c)
      <3>1. p \in 0 .. Len(input) - 1
        BY <1>2, <1>3, <1>5, <1>14
      <3> QED
        BY <1>5, <1>7, <1>14, <3>1, CommandFacts
    <2>3. job'.avail_in < orig'[1]
      <3>1. r.job.cursor + r.job.scoop_avail + r.job.avail_in = p + job.scoop_avail + job.avail_in
        BY <1>3 DEF Work
      <3>2. r.job.avail_in \in Nat
        BY <1>3 DEF Work, JobOK
      <3> QED
        BY <1>2, <1>3, <1>9, <1>10, <1>12, <1>14, <3>1, <3>2
    <2>4. CASE fn = "rs_patch_s_params"
      <3>1. cmd' = c /\ c.len_1 > 0 /\ c.len_1 \in Nat /\ c.len_2 \in Nat
        BY <1>8, <1>14, <2>2, <2>4 DEF CommandOK
      <3>2. 0 < cmd'.len_1 + cmd'.len_2
        BY <3>1
      <3> QED
        BY <1>8, <1>9, <1>10, <1>12, <1>14, <2>1, <2>3, <2>4, <3>1, <3>2
          DEF MeantInv, Meant, ScoopUse, Progress, Resumes, Says
    <2>5. CASE fn = "rs_patch_s_run"
      <3>1. cmd' = c /\ ~(c.len_1 > 0) /\ param1' = c.immediate
        BY <1>8, <1>14, <2>5
      <3>2. c.len_1 = 0 /\ c.len_2 = 0
        BY <2>2, <3>1 DEF CommandOK
      <3>3. param1' = FirstParam(input, p)
        BY <1>7, <1>14, <3>1, <3>2 DEF FirstParam
      <3>4. (param1 = FirstParam(input, Counted))'
        BY <1>9, <1>11, <3>3 DEF FirstParam, CommandAt
      <3>5. HasParams'
        BY <3>1, <3>2, <3>4 DEF HasParams
      <3> QED
        BY <1>8, <1>9, <1>10, <1>12, <1>14, <2>1, <2>3, <2>5, <3>5
          DEF MeantInv, Meant, ScoopUse, Progress, Resumes, Says
    <2> QED
      BY <1>8, <1>14, <2>4, <2>5
  <1> QED
    BY <1>13, <1>14

\* The command whose byte has been read.
LEMMA InCommandFacts ==
    ASSUME PatchInv, InCommand
    PROVE  /\ input \in Seq(Nat) /\ Len(input) \in Nat /\ Basis \in Seq(Nat) /\ SIZE_MAX \in Nat
           /\ Counted \in 0 .. Len(input) /\ Counted \in 0 .. Len(input) - 1 /\ job.out \in Seq(Nat)
           /\ cmd = CommandAt(input, Counted) /\ CommandOK(cmd)
           /\ CommandEnd(input, Counted) = Counted + 1 + cmd.len_1 + cmd.len_2
           /\ Apply(input, Basis) = Preceded(job.out, Commands(input, Basis)[Counted])
  <1>1. /\ input \in Seq(Nat) /\ Len(input) \in Nat /\ Basis \in Seq(Nat) /\ SIZE_MAX \in Nat
    BY RestFacts
  <1>2. Counted \in Nat /\ job.out \in Seq(Nat)
    BY DEF PatchInv, PatchTypeOK, JobOK, DataOK, StatsOK, Counted
  <1>3. Counted \in 0 .. Len(input) /\ Counted \in 0 .. Len(input) - 1
    BY <1>1, <1>2 DEF InCommand
  <1>4. cmd = CommandAt(input, Counted) /\ Leaves(input, job.out, Counted)
    BY DEF InCommand
  <1>5. CommandOK(cmd)
    BY <1>1, <1>3, <1>4, CommandFacts
  <1>6. CommandEnd(input, Counted) = Counted + 1 + cmd.len_1 + cmd.len_2
    BY <1>4 DEF CommandEnd
  <1> QED
    BY <1>1, <1>2, <1>3, <1>4, <1>5, <1>6 DEF Leaves

\* rs_patch_s_params: both parameters are read, or neither.
LEMMA MeantParams ==
    ASSUME PatchInv, PatchInv', MeantInv, rs_patch_s_params
    PROVE  MeantInv'
  <1> DEFINE n == cmd.len_1 + cmd.len_2
             r == Readahead(job, n)
             one == Read(r.job, cmd.len_1)
             two == Read(one.job, cmd.len_2)
             p == Counted
  <1>1. /\ pc = "statefn" /\ statefn = "rs_patch_s_params" /\ stats' = stats /\ cmd' = cmd
    BY DEF rs_patch_s_params, Running
  <1>2. /\ JobOK(job) /\ job.copy_len = 0 /\ job.scoop_avail < n /\ job.scoop_avail \in Nat
        /\ job.cursor \in Nat /\ job.avail_in \in Nat /\ EofIsTrue
        /\ InCommand /\ cmd.len_1 > 0 /\ job.cursor = p + 1
    BY <1>1 DEF PatchInv, PatchTypeOK, TubeFree, MeantInv, Meant, ScoopUse, JobOK, Account
  <1>3. /\ input \in Seq(Nat) /\ Len(input) \in Nat /\ Basis \in Seq(Nat) /\ SIZE_MAX \in Nat
        /\ p \in 0 .. Len(input) /\ p \in 0 .. Len(input) - 1 /\ job.out \in Seq(Nat)
        /\ cmd = CommandAt(input, p) /\ CommandOK(cmd)
        /\ CommandEnd(input, p) = p + 1 + cmd.len_1 + cmd.len_2
        /\ Apply(input, Basis) = Preceded(job.out, Commands(input, Basis)[p])
    BY <1>2, InCommandFacts
  <1>4. cmd.len_1 \in Nat /\ cmd.len_2 \in Nat /\ n \in Nat /\ cmd.kind # "END"
    <2>1. CommandOK(cmd) /\ cmd.len_1 > 0
      BY <1>2, <1>3
    <2>2. cmd.len_1 \in Nat /\ cmd.len_2 \in Nat /\ (cmd.kind = "END" => cmd.len_1 = 0)
      BY <2>1 DEF CommandOK
    <2> QED
      BY <2>1, <2>2
  <1>5. /\ Work(job, r.job) /\ SameOutput(job, r.job) /\ r.job.cursor = job.cursor
        /\ r.result \in {"RS_DONE", "RS_INPUT_ENDED", "RS_BLOCKED"}
        /\ r.result = "RS_DONE" => Contiguous(r.job, n)
        /\ r.result = "RS_INPUT_ENDED" => job.eof_in
        /\ r.result = "RS_BLOCKED" => ~job.eof_in
    <2> HIDE DEF n
    <2> QED
      BY <1>2, <1>4, ReadaheadFacts
  <1>6. /\ r.result = "RS_DONE" => r.job.scoop_avail \in {0, n}
        /\ r.result # "RS_DONE" =>
             r.job.avail_in = 0 /\ r.job.scoop_avail < n /\ job.scoop_avail + job.avail_in < n
    <2> HIDE DEF n
    <2>1. job.scoop_avail <= n
      BY <1>2, <1>4
    <2> QED
      BY <1>2, <1>4, <2>1, ReadaheadExact DEF rs_scoop_avail
  <1>8. ASSUME job'.out = job.out, input' = input
        PROVE  InCommand'
    <2>1. Counted' = Counted
      BY <1>1 DEF Counted
    <2> QED
      BY <1>1, <1>2, <1>8, <2>1 DEF InCommand
  <1>9. CASE r.result # "RS_DONE"
    <2>1. Finish(r.job, "rs_patch_s_params", r.result)
      BY <1>1, <1>9 DEF rs_patch_s_params
    <2> HIDE DEF r
    <2>2. /\ SameOutput(r.job, job') /\ SameInput(r.job, job') /\ job'.eof_in = r.job.eof_in
          /\ input' = input /\ EofIsTrue' /\ orig' = orig
          /\ pc' = "caller" /\ statefn' = "rs_patch_s_params" /\ result' = r.result
      BY <1>1, <1>5, <1>6, <1>9, <2>1, MeantFinish
    <2>3. /\ job'.out = job.out /\ job'.scoop_avail = r.job.scoop_avail
          /\ job'.avail_in = r.job.avail_in /\ job'.eof_in = job.eof_in
      BY <1>5, <2>2 DEF SameOutput, SameInput, Work
    <2>4. InCommand'
      BY <1>8, <2>2, <2>3
    <2>5. job'.scoop_avail < cmd'.len_1 + cmd'.len_2 /\ cmd'.len_1 > 0
      BY <1>1, <1>2, <1>6, <1>9, <2>3
    <2>6. CASE r.result = "RS_BLOCKED"
      BY <1>5, <1>6, <1>9, <2>2, <2>3, <2>4, <2>5, <2>6
        DEF MeantInv, Meant, ScoopUse, Progress, Resumes, Says
    <2>7. CASE r.result = "RS_INPUT_ENDED"
      <3>1. CommandEnd(input, p) > Len(input)
        <4> HIDE DEF p
        <4>1. p \in Nat /\ job.cursor + job.scoop_avail + job.avail_in = Len(input)
          BY <1>2, <1>3, <1>5, <2>7 DEF EofIsTrue
        <4>2. p + 1 + cmd.len_1 + cmd.len_2 > Len(input)
          BY <1>2, <1>4, <1>6, <2>7, <4>1
        <4> QED
          BY <1>3, <4>2
      <3>2. MeansEnd(Apply(input, Basis), job.out, "RS_INPUT_ENDED")
        <4> HIDE DEF p
        <4> QED
          BY <1>3, <3>1, CommandMeans
      <3>3. Ends(input, job.out, result)'
        BY <2>2, <2>3, <2>7, <3>2 DEF Ends
      <3> QED
        BY <1>5, <1>6, <1>9, <2>2, <2>3, <2>4, <2>5, <2>7, <3>3
          DEF MeantInv, Meant, ScoopUse, Progress, Resumes, Says
    <2> QED
      BY <1>5, <1>9, <2>6, <2>7
  <1>10. CASE r.result = "RS_DONE"
    <2>0. JobOK(r.job) /\ r.job.scoop_avail \in Nat /\ r.job.avail_in \in Nat
      BY <1>5 DEF Work, JobOK
    <2>1. Contiguous(r.job, n) /\ Contiguous(r.job, cmd.len_1) /\ r.job.scoop_avail \in {0, n}
      BY <1>4, <1>5, <1>6, <1>10, <2>0 DEF Contiguous
    <2> HIDE DEF r
    <2>2. /\ Work(r.job, one.job) /\ SameOutput(r.job, one.job)
          /\ one.result = "RS_DONE" /\ one.job.cursor = r.job.cursor + cmd.len_1
          /\ Contiguous(one.job, cmd.len_2) /\ r.job.cursor + cmd.len_1 <= Len(input)
          /\ one.job.scoop_avail = IF r.job.scoop_avail > 0 THEN r.job.scoop_avail - cmd.len_1 ELSE 0
      BY <1>4, <2>0, <2>1, ReadFacts, ReadContiguous
    <2>20. JobOK(one.job)
      BY <2>2 DEF Work
    <2> HIDE DEF one
    <2>3. /\ Work(one.job, two.job) /\ SameOutput(one.job, two.job)
          /\ two.result = "RS_DONE"
          /\ one.job.cursor + cmd.len_2 <= Len(input)
          /\ two.job.scoop_avail = IF one.job.scoop_avail > 0 THEN one.job.scoop_avail - cmd.len_2 ELSE 0
      BY <1>4, <2>2, <2>20, ReadFacts, ReadContiguous
    <2>30. JobOK(two.job)
      BY <2>3 DEF Work
    <2> HIDE DEF two
    <2>4. PICK k :
            /\ Finish(k, "rs_patch_s_run", "RS_RUNNING")
            /\ param1' = NetintValue(NextBytes(r.job, cmd.len_1))
            /\ \/ /\ k = Assert_(two.job, one.result = "RS_DONE" /\ two.result = "RS_DONE")
                  /\ cmd.len_2 > 0
                  /\ param2' = NetintValue(NextBytes(one.job, cmd.len_2))
               \/ k = Assert_(one.job, one.result = "RS_DONE") /\ ~(cmd.len_2 > 0)
      <3>1. /\ param1' = NetintValue(NextBytes(r.job, cmd.len_1))
            /\ IF cmd.len_2 > 0
                 THEN /\ param2' = NetintValue(NextBytes(one.job, cmd.len_2))
                      /\ Finish(Assert_(two.job, one.result = "RS_DONE" /\ two.result = "RS_DONE"),
                                "rs_patch_s_run", "RS_RUNNING")
                 ELSE /\ param2' = param2
                      /\ Finish(Assert_(one.job, one.result = "RS_DONE"),
                                "rs_patch_s_run", "RS_RUNNING")
        BY <1>10, Zenon DEF rs_patch_s_params, r, one, two
      <3> QED
        BY <3>1, Zenon
    <2>5. Work(job, k) /\ k.out = job.out /\ k.scoop_avail = 0
      <3>1. CASE k = Assert_(two.job, one.result = "RS_DONE" /\ two.result = "RS_DONE") /\ cmd.len_2 > 0
        <4>1. Work(two.job, k) /\ SameOutput(two.job, k) /\ SameInput(two.job, k)
          BY <2>2, <2>3, <2>30, <3>1, AssertFacts
        <4>2. two.job.scoop_avail = 0
          BY <1>2, <1>4, <2>0, <2>1, <2>2, <2>3, <3>1
        <4>3. Work(job, k)
          BY <1>2, <1>5, <2>2, <2>3, <4>1, WorkAddsUp
        <4> QED
          BY <1>5, <2>2, <2>3, <4>1, <4>2, <4>3 DEF SameOutput, SameInput
      <3>2. CASE k = Assert_(one.job, one.result = "RS_DONE") /\ ~(cmd.len_2 > 0)
        <4>1. Work(one.job, k) /\ SameOutput(one.job, k) /\ SameInput(one.job, k)
          BY <2>2, <2>20, <3>2, AssertFacts
        <4>2. one.job.scoop_avail = 0
          BY <1>2, <1>4, <2>0, <2>1, <2>2, <3>2
        <4>3. Work(job, k)
          BY <1>2, <1>5, <2>2, <4>1, WorkAddsUp
        <4> QED
          BY <1>5, <2>2, <4>1, <4>2, <4>3 DEF SameOutput, SameInput
      <3> QED
        BY <2>4, <3>1, <3>2
    <2>6. /\ SameOutput(k, job') /\ SameInput(k, job') /\ job'.eof_in = k.eof_in
          /\ input' = input /\ EofIsTrue' /\ orig' = orig
          /\ job'.avail_in <= orig'[1] /\ orig'[1] \in Nat /\ job'.avail_in \in Nat
          /\ pc' = "work" /\ statefn' = "rs_patch_s_run" /\ result' = result
      BY <1>1, <2>4, <2>5, MeantFinish
    <2>7. job'.out = job.out /\ job'.scoop_avail = 0
      BY <2>5, <2>6 DEF SameOutput, SameInput
    <2>8. InCommand'
      BY <1>8, <2>6, <2>7
    <2>9. HasParams'
      <3>1. Counted' = p
        BY <1>1 DEF Counted
      <3>2. param1' = FirstParam(input, p)
        <4>1. NextBytes(r.job, cmd.len_1) = SubSeq(input, p + 2, p + 1 + cmd.len_1)
          <5>1. r.job.cursor + 1 = p + 2 /\ r.job.cursor + cmd.len_1 = p + 1 + cmd.len_1
            <6> HIDE DEF p
            <6> QED
              BY <1>2, <1>3, <1>4, <1>5
          <5> QED
            BY <5>1 DEF NextBytes
        <4> HIDE DEF p
        <4> QED
          BY <1>2, <1>3, <2>4, <4>1 DEF FirstParam
      <3>3. cmd.len_2 > 0 => param2' = SecondParam(input, p)
        <4>1. NextBytes(one.job, cmd.len_2) = SubSeq(input, p + 2 + cmd.len_1, CommandEnd(input, p))
          <5>1. /\ one.job.cursor + 1 = p + 2 + cmd.len_1
                /\ one.job.cursor + cmd.len_2 = CommandEnd(input, p)
            <6> HIDE DEF p
            <6>1. p \in Nat
              BY <1>3
            <6>2. /\ one.job.cursor + 1 = p + 2 + cmd.len_1
                  /\ one.job.cursor + cmd.len_2 = p + 1 + cmd.len_1 + cmd.len_2
              <7>1. one.job.cursor = p + 1 + cmd.len_1
                BY <1>2, <1>5, <2>2, Zenon
              <7>2. \A a, b, e \in Nat : (a + 1 + b) + 1 = a + 2 + b /\ (a + 1 + b) + e = a + 1 + b + e
                OBVIOUS
              <7> QED
                BY <1>4, <6>1, <7>1, <7>2, Zenon
            <6> QED
              BY <1>3, <6>2, Zenon
          <5> QED
            BY <5>1 DEF NextBytes
        <4> HIDE DEF p
        <4> QED
          BY <1>2, <1>3, <2>4, <4>1 DEF SecondParam
      <3> HIDE DEF p
      <3> QED
        BY <1>1, <2>6, <3>1, <3>2, <3>3 DEF HasParams
    <2> QED
      BY <1>1, <1>4, <2>6, <2>7, <2>8, <2>9
        DEF MeantInv, Meant, ScoopUse, Progress, Resumes, Says
  <1> QED
    BY <1>9, <1>10

\* rs_patch_s_run, rs_patch_s_literal and rs_patch_s_copy are called when the whole
\* command has been read.
LEMMA WholeCommand ==
    ASSUME PatchInv, MeantInv, pc = "statefn",
           statefn \in {"rs_patch_s_run", "rs_patch_s_literal", "rs_patch_s_copy"}
    PROVE  /\ JobOK(job) /\ Work(job, job) /\ job.scoop_avail = 0 /\ job.copy_len = 0
           /\ job.cursor \in Nat /\ job.avail_in \in Nat
           /\ InCommand /\ HasParams
           /\ job.cursor = CommandEnd(input, Counted) /\ job.cursor <= Len(input)
           /\ Counted < Len(input)
           /\ job.cursor = Counted + 1 + cmd.len_1 + cmd.len_2
  <1>1. /\ JobOK(job) /\ job.scoop_avail = 0 /\ job.copy_len = 0
        /\ job.cursor \in Nat /\ job.avail_in \in Nat
        /\ InCommand /\ HasParams
    BY DEF PatchInv, PatchTypeOK, TubeFree, MeantInv, Meant, ScoopUse, JobOK
  <1>2. job.cursor = Counted + 1 + cmd.len_1 + cmd.len_2
    BY DEF PatchInv, Account
  <1>3. CommandEnd(input, Counted) = Counted + 1 + cmd.len_1 + cmd.len_2 /\ Len(input) \in Nat
    BY <1>1, InCommandFacts
  <1>4. job.cursor <= Len(input)
    <2>1. job.cursor + job.scoop_avail + job.avail_in <= Len(input)
      BY <1>1 DEF JobOK
    <2> QED
      BY <1>1, <1>3, <2>1
  <1>5. Work(job, job)
    BY <1>1, WorkAddsUp
  <1> QED
    BY <1>1, <1>2, <1>3, <1>4, <1>5 DEF InCommand

\* rs_patch_s_run.
LEMMA MeantRun ==
    ASSUME PatchInv, PatchInv', MeantInv, rs_patch_s_run
    PROVE  MeantInv'
  <1> DEFINE p == Counted
  <1>1. /\ pc = "statefn" /\ statefn = "rs_patch_s_run"
        /\ UNCHANGED <<cmd, param1, param2, stats>>
    BY DEF rs_patch_s_run, Running, commandVars
  <1>2. /\ JobOK(job) /\ Work(job, job) /\ job.scoop_avail = 0 /\ job.copy_len = 0
        /\ job.cursor \in Nat /\ job.avail_in \in Nat
        /\ InCommand /\ HasParams
        /\ job.cursor = CommandEnd(input, p) /\ job.cursor <= Len(input)
        /\ p < Len(input)
        /\ job.cursor = p + 1 + cmd.len_1 + cmd.len_2
    BY <1>1, WholeCommand
  <1>3. /\ input \in Seq(Nat) /\ Len(input) \in Nat /\ Basis \in Seq(Nat) /\ SIZE_MAX \in Nat
        /\ p \in 0 .. Len(input) /\ job.out \in Seq(Nat)
        /\ cmd = CommandAt(input, p) /\ CommandOK(cmd)
        /\ Apply(input, Basis) = Preceded(job.out, Commands(input, Basis)[p])
    BY <1>2, InCommandFacts
  <1>4. PICK fn, q :
          /\ Finish(job, fn, q)
          /\ \/ fn = "rs_patch_s_literal" /\ q = "RS_RUNNING" /\ cmd.kind = "LITERAL"
             \/ fn = "rs_patch_s_copy" /\ q = "RS_RUNNING" /\ cmd.kind = "COPY"
             \/ fn = "rs_patch_s_run" /\ q = "RS_DONE" /\ cmd.kind = "END"
             \/ fn = "rs_patch_s_run" /\ q = "RS_CORRUPT" /\ cmd.kind \notin {"END", "LITERAL", "COPY"}
    BY <1>1 DEF rs_patch_s_run
  <1>5. /\ SameOutput(job, job') /\ SameInput(job, job')
        /\ input' = input /\ EofIsTrue' /\ orig' = orig
        /\ job'.avail_in <= orig'[1] /\ orig'[1] \in Nat /\ job'.avail_in \in Nat
        /\ q = "RS_RUNNING" => pc' = "work" /\ statefn' = fn
        /\ q = "RS_DONE" => pc' = "work" /\ statefn' = "NULL"
        /\ q \notin {"RS_RUNNING", "RS_DONE"} => pc' = "caller" /\ statefn' = fn
        /\ q = "RS_CORRUPT" => result' = q
    BY <1>1, <1>2, <1>4, MeantFinish
  <1>6. job'.out = job.out /\ job'.scoop_avail = 0 /\ job'.avail_in = job.avail_in /\ Counted' = p
        /\ job'.cursor = job.cursor
    BY <1>1, <1>2, <1>5 DEF SameOutput, SameInput, Counted
  <1>7. InCommand'
    BY <1>1, <1>2, <1>5, <1>6 DEF InCommand
  <1>8. HasParams'
    BY <1>1, <1>2, <1>5, <1>6 DEF HasParams
  <1>9. /\ cmd.kind = "END" => MeansEnd(Apply(input, Basis), job.out, "RS_DONE")
                               /\ Apply(input, Basis).used = p + 1
        /\ cmd.kind \notin {"END", "LITERAL", "COPY"} =>
             MeansEnd(Apply(input, Basis), job.out, "RS_CORRUPT")
    <2>1. CommandEnd(input, p) <= Len(input)
      BY <1>2
    <2> HIDE DEF p
    <2>2. ASSUME cmd.kind = "END"
          PROVE  MeansEnd(Apply(input, Basis), job.out, "RS_DONE") /\ Apply(input, Basis).used = p + 1
      <3>1. CommandAt(input, p).kind = "END"
        BY <1>3, <2>2
      <3>2. PICK m : m = Apply(input, Basis)
        OBVIOUS
      <3>3. m = Preceded(job.out, Commands(input, Basis)[p])
        BY <1>3, <3>2
      <3>4. MeansEnd(m, job.out, "RS_DONE") /\ Looked(m, p)
        BY <1>2, <1>3, <2>1, <3>1, <3>3, CommandMeans
      <3> QED
        BY <3>2, <3>4 DEF Looked
    <2>3. ASSUME cmd.kind \notin {"END", "LITERAL", "COPY"}
          PROVE  MeansEnd(Apply(input, Basis), job.out, "RS_CORRUPT")
      <3>1. CommandAt(input, p).kind \notin {"END", "LITERAL", "COPY"}
        BY <1>3, <2>3
      <3> QED
        BY <1>2, <1>3, <2>1, <3>1, CommandMeans
    <2> QED
      BY <2>2, <2>3
  <1>10. CASE q = "RS_DONE"
    <2>1. Ends(input, job.out, "RS_DONE")'
      BY <1>4, <1>5, <1>6, <1>9, <1>10 DEF Ends
    <2>2. (Apply(input, Basis).used = job.cursor)'
      <3>1. cmd.len_1 = 0 /\ cmd.len_2 = 0
        BY <1>3, <1>4, <1>10 DEF CommandOK
      <3>2. job.cursor = p + 1
        <4> HIDE DEF p
        <4> QED
          BY <1>2, <1>3, <3>1
      <3> QED
        BY <1>4, <1>5, <1>6, <1>9, <1>10, <3>2
    <2>3. job'.avail_in < orig'[1]
      BY <1>1, <1>4, <1>5, <1>6, <1>10 DEF MeantInv, Progress
    <2> QED
      BY <1>5, <1>6, <1>10, <2>1, <2>2, <2>3
        DEF MeantInv, Meant, ScoopUse, Progress, Resumes, Says
  <1>11. CASE q = "RS_CORRUPT"
    <2>1. Ends(input, job.out, result)'
      BY <1>4, <1>5, <1>6, <1>9, <1>11 DEF Ends
    <2> QED
      BY <1>4, <1>5, <1>6, <1>7, <1>8, <1>11, <2>1
        DEF MeantInv, Meant, ScoopUse, Progress, Resumes, Says
  <1>12. CASE q = "RS_RUNNING"
    BY <1>1, <1>4, <1>5, <1>6, <1>7, <1>8, <1>12
      DEF MeantInv, Meant, ScoopUse, Progress, Resumes, Says
  <1> QED
    BY <1>4, <1>10, <1>11, <1>12

\* rs_patch_s_literal.
LEMMA MeantLiteral ==
    ASSUME PatchInv, PatchInv', MeantInv, rs_patch_s_literal
    PROVE  MeantInv'
  <1> DEFINE p == Counted
             q == job.cursor
  <1>1. /\ pc = "statefn" /\ statefn = "rs_patch_s_literal"
        /\ UNCHANGED <<cmd, param1, param2>>
    BY DEF rs_patch_s_literal, Running, commandVars
  <1>2. /\ JobOK(job) /\ Work(job, job) /\ job.scoop_avail = 0 /\ job.copy_len = 0
        /\ job.cursor \in Nat /\ job.avail_in \in Nat
        /\ InCommand /\ HasParams
        /\ q = CommandEnd(input, p) /\ job.cursor <= Len(input)
        /\ p < Len(input)
    BY <1>1, WholeCommand
  <1>3. /\ input \in Seq(Nat) /\ Len(input) \in Nat /\ Basis \in Seq(Nat) /\ SIZE_MAX \in Nat
        /\ p \in 0 .. Len(input) /\ job.out \in Seq(Nat)
        /\ cmd = CommandAt(input, p)
        /\ Apply(input, Basis) = Preceded(job.out, Commands(input, Basis)[p])
    BY <1>2, InCommandFacts
  <1>4. cmd.kind = "LITERAL" /\ param1 = FirstParam(input, p) /\ param1 \in Int
    BY <1>1, <1>2 DEF PatchInv, Account, HasParams, PatchTypeOK, DataOK
  <1>5. /\ param1 <= 0 \/ param1 > SIZE_MAX => MeansEnd(Apply(input, Basis), job.out, "RS_CORRUPT")
        /\ ~(param1 <= 0 \/ param1 > SIZE_MAX) =>
             ToCome(input, job.out, input, q, q + param1, q + param1)
    <2>1. CommandEnd(input, p) <= Len(input)
      BY <1>2
    <2> HIDE DEF p
    <2>2. /\ param1 <= 0 \/ param1 > SIZE_MAX => MeansEnd(Apply(input, Basis), job.out, "RS_CORRUPT")
          /\ ~(param1 <= 0 \/ param1 > SIZE_MAX) =>
               /\ q + param1 > Len(input) =>
                    MeansEnd(Apply(input, Basis), job.out \o SubSeq(input, q + 1, Len(input)), "RS_INPUT_ENDED")
               /\ q + param1 <= Len(input) =>
                    Apply(input, Basis)
                      = Preceded(job.out \o SubSeq(input, q + 1, q + param1), Commands(input, Basis)[q + param1])
      <3> HIDE DEF q
      <3> QED
        BY <1>2, <1>3, <1>4, <2>1, CommandMeans
    <2> QED
      BY <2>2, Zenon DEF ToCome, Leaves, Ends
  <1>6. CASE param1 <= 0 \/ param1 > SIZE_MAX
    <2>1. Finish(job, "rs_patch_s_literal", "RS_CORRUPT") /\ stats' = stats
      BY <1>1, <1>6 DEF rs_patch_s_literal
    <2>2. /\ SameOutput(job, job') /\ SameInput(job, job')
          /\ input' = input /\ EofIsTrue'
          /\ pc' = "caller" /\ statefn' = "rs_patch_s_literal" /\ result' = "RS_CORRUPT"
      BY <1>1, <1>2, <2>1, MeantFinish
    <2>3. job'.out = job.out /\ job'.scoop_avail = 0 /\ Counted' = p
      BY <1>2, <2>1, <2>2 DEF SameOutput, SameInput, Counted
    <2>4. InCommand'
      BY <1>1, <1>2, <2>2, <2>3 DEF InCommand
    <2>5. HasParams'
      BY <1>1, <1>2, <2>2, <2>3 DEF HasParams
    <2>6. Ends(input, job.out, result)'
      BY <1>5, <1>6, <2>2, <2>3 DEF Ends
    <2> QED
      BY <2>2, <2>3, <2>4, <2>5, <2>6 DEF MeantInv, Meant, ScoopUse, Progress, Resumes, Says
  <1>7. CASE ~(param1 <= 0 \/ param1 > SIZE_MAX)
    <2> DEFINE k == rs_tube_copy(job, param1)
    <2>1. Finish(k, "rs_patch_s_cmdbyte", "RS_RUNNING")
      BY <1>7 DEF rs_patch_s_literal
    <2>2. /\ Work(job, k) /\ SameInput(job, k) /\ k.out = job.out /\ k.copy_len = param1
      <3>1. param1 \in Nat
        BY <1>4, <1>7
      <3> QED
        BY <1>2, <3>1, TubeFacts
    <2> HIDE DEF k
    <2>3. /\ SameOutput(k, job') /\ SameInput(k, job')
          /\ input' = input /\ EofIsTrue'
          /\ job'.avail_in <= orig'[1] /\ orig'[1] \in Nat
          /\ pc' = "work" /\ statefn' = "rs_patch_s_cmdbyte"
      BY <1>1, <2>1, <2>2, MeantFinish
    <2>4. job'.out = job.out /\ job'.scoop_avail = 0 /\ job'.cursor = q /\ job'.copy_len = param1
      BY <1>2, <2>2, <2>3 DEF SameOutput, SameInput
    <2>5. AtCommand'
      BY <1>5, <1>7, <2>3, <2>4 DEF AtCommand
    <2> QED
      BY <2>3, <2>4, <2>5 DEF MeantInv, Meant, ScoopUse, Progress, Resumes, Says
  <1> QED
    BY <1>6, <1>7

\* rs_patch_s_copy.
LEMMA MeantCopy ==
    ASSUME PatchInv, PatchInv', MeantInv, rs_patch_s_copy
    PROVE  MeantInv'
  <1> DEFINE p == Counted
             q == job.cursor
  <1>1. /\ pc = "statefn" /\ statefn = "rs_patch_s_copy"
        /\ UNCHANGED <<cmd, param1, param2>>
    BY DEF rs_patch_s_copy, Running, commandVars
  <1>2. /\ JobOK(job) /\ Work(job, job) /\ job.scoop_avail = 0 /\ job.copy_len = 0
        /\ job.cursor \in Nat /\ job.avail_in \in Nat
        /\ InCommand /\ HasParams
        /\ q = CommandEnd(input, p) /\ job.cursor <= Len(input)
        /\ p < Len(input)
    BY <1>1, WholeCommand
  <1>3. /\ input \in Seq(Nat) /\ Len(input) \in Nat /\ Basis \in Seq(Nat) /\ SIZE_MAX \in Nat
        /\ p \in 0 .. Len(input) /\ job.out \in Seq(Nat)
        /\ cmd = CommandAt(input, p) /\ CommandOK(cmd)
        /\ Apply(input, Basis) = Preceded(job.out, Commands(input, Basis)[p])
    BY <1>2, InCommandFacts
  <1>4. /\ cmd.kind = "COPY" /\ param1 = FirstParam(input, p) /\ param1 \in Int
        /\ param2 = SecondParam(input, p) /\ param2 \in Int
    <2>1. cmd.kind = "COPY" /\ param1 \in Int /\ param2 \in Int
      BY <1>1 DEF MeantInv, Meant, PatchInv, PatchTypeOK, DataOK
    <2>2. cmd.len_2 > 0
      BY <1>3, <2>1 DEF CommandOK
    <2> QED
      BY <1>2, <2>1, <2>2 DEF HasParams
  <1>5. /\ param2 <= 0 \/ param1 < 0 => MeansEnd(Apply(input, Basis), job.out, "RS_CORRUPT")
        /\ ~(param2 <= 0 \/ param1 < 0) =>
             ToCome(input, job.out, Basis, param1, param1 + param2, q)
    <2>1. CommandEnd(input, p) <= Len(input)
      BY <1>2
    <2> HIDE DEF p
    <2>2. /\ param2 <= 0 \/ param1 < 0 => MeansEnd(Apply(input, Basis), job.out, "RS_CORRUPT")
          /\ ~(param2 <= 0 \/ param1 < 0) =>
               /\ param1 + param2 > Len(Basis) =>
                    MeansEnd(Apply(input, Basis), job.out \o SubSeq(Basis, param1 + 1, Len(Basis)), "RS_INPUT_ENDED")
               /\ param1 + param2 <= Len(Basis) =>
                    Apply(input, Basis)
                      = Preceded(job.out \o SubSeq(Basis, param1 + 1, param1 + param2), Commands(input, Basis)[q])
      <3> HIDE DEF q
      <3> QED
        BY <1>2, <1>3, <1>4, <2>1, CommandMeans
    <2> QED
      BY <2>2, Zenon DEF ToCome, Leaves, Ends
  <1>6. CASE param2 <= 0 \/ param1 < 0
    <2>1. Finish(job, "rs_patch_s_copy", "RS_CORRUPT") /\ stats' = stats
      BY <1>1, <1>6 DEF rs_patch_s_copy
    <2>2. /\ SameOutput(job, job') /\ SameInput(job, job')
          /\ input' = input /\ EofIsTrue'
          /\ pc' = "caller" /\ statefn' = "rs_patch_s_copy" /\ result' = "RS_CORRUPT"
      BY <1>1, <1>2, <2>1, MeantFinish
    <2>3. job'.out = job.out /\ job'.scoop_avail = 0 /\ Counted' = p
      BY <1>2, <2>1, <2>2 DEF SameOutput, SameInput, Counted
    <2>4. InCommand'
      BY <1>1, <1>2, <2>2, <2>3 DEF InCommand
    <2>5. HasParams'
      BY <1>1, <1>2, <2>2, <2>3 DEF HasParams
    <2>6. Ends(input, job.out, result)'
      BY <1>5, <1>6, <2>2, <2>3 DEF Ends
    <2> QED
      BY <1>1, <1>4, <2>2, <2>3, <2>4, <2>5, <2>6 DEF MeantInv, Meant, ScoopUse, Progress, Resumes, Says
  <1>7. CASE ~(param2 <= 0 \/ param1 < 0)
    <2>1. Finish(job, "rs_patch_s_copying", "RS_RUNNING") /\ basis_pos' = param1 /\ basis_len' = param2
      BY <1>7 DEF rs_patch_s_copy
    <2>3. /\ SameOutput(job, job') /\ SameInput(job, job')
          /\ input' = input /\ EofIsTrue'
          /\ job'.avail_in <= orig'[1] /\ orig'[1] \in Nat
          /\ pc' = "work" /\ statefn' = "rs_patch_s_copying"
      BY <1>1, <1>2, <2>1, MeantFinish
    <2>4. job'.out = job.out /\ job'.scoop_avail = 0 /\ job'.cursor = q
      BY <1>2, <2>3 DEF SameOutput, SameInput
    <2>5. AtCopy'
      <3>1. basis_len' > 0
        BY <1>4, <1>7, <2>1
      <3> QED
        BY <1>5, <1>7, <2>1, <2>3, <2>4, <3>1 DEF AtCopy
    <2> QED
      BY <2>3, <2>4, <2>5 DEF MeantInv, Meant, ScoopUse, Progress, Resumes, Says
  <1> QED
    BY <1>6, <1>7

\* Some of the bytes to come are put out.
LEMMA ToComeMoves ==
    ASSUME NEW d, NEW done \in Seq(Nat), NEW s \in Seq(Nat), NEW b \in Nat, NEW c \in Nat,
           NEW e \in Nat, b <= c, c <= e, c <= Len(s), NEW p, ToCome(d, done, s, b, e, p)
    PROVE  ToCome(d, done \o SubSeq(s, b + 1, c), s, c, e, p)
  <1>1. Len(s) \in Nat
    BY LenProperties
  <1>2. ASSUME NEW n \in Nat, c <= n, n <= Len(s)
        PROVE  (done \o SubSeq(s, b + 1, c)) \o SubSeq(s, c + 1, n) = done \o SubSeq(s, b + 1, n)
    <2>1. SubSeq(s, b + 1, c) \in Seq(Nat) /\ SubSeq(s, c + 1, n) \in Seq(Nat)
      BY <1>2, PartFacts
    <2>2. SubSeq(s, b + 1, c) \o SubSeq(s, c + 1, n) = SubSeq(s, b + 1, n)
      BY <1>2, PiecesJoin
    <2>3. PICK x \in Seq(Nat), y \in Seq(Nat) : x = SubSeq(s, b + 1, c) /\ y = SubSeq(s, c + 1, n)
      BY <2>1
    <2>4. (done \o x) \o y = done \o (x \o y)
      BY ConcatBytes
    <2> QED
      BY <2>2, <2>3, <2>4
  <1>3. CASE e <= Len(s)
    <2>1. Leaves(d, done \o SubSeq(s, b + 1, e), p) /\ ~(e > Len(s))
      BY <1>1, <1>3 DEF ToCome
    <2>2. (done \o SubSeq(s, b + 1, c)) \o SubSeq(s, c + 1, e) = done \o SubSeq(s, b + 1, e)
      BY <1>2, <1>3
    <2>3. e <= Len(s)
      BY <1>3
    <2> QED
      BY <2>3, <2>1, <2>2, Zenon DEF ToCome
  <1>4. CASE ~(e <= Len(s))
    <2>1. Ends(d, done \o SubSeq(s, b + 1, Len(s)), "RS_INPUT_ENDED")
      BY <1>1, <1>4 DEF ToCome
    <2>2. (done \o SubSeq(s, b + 1, c)) \o SubSeq(s, c + 1, Len(s)) = done \o SubSeq(s, b + 1, Len(s))
      <3>1. PICK n \in Nat : n = Len(s)
        BY <1>1
      <3>2. c <= n /\ n <= Len(s)
        BY <3>1
      <3>3. (done \o SubSeq(s, b + 1, c)) \o SubSeq(s, c + 1, n) = done \o SubSeq(s, b + 1, n)
        BY <1>2, <3>2
      <3> QED
        BY <3>1, <3>3
    <2> QED
      BY <1>4, <2>1, <2>2, Zenon DEF ToCome
  <1> QED
    BY <1>3, <1>4

\* The bytes to come are cut off here.
LEMMA CutOff ==
    ASSUME NEW d, NEW done \in Seq(Nat), NEW s \in Seq(Nat), NEW b \in Nat, NEW e \in Nat,
           Len(s) <= b, b < e, NEW p, ToCome(d, done, s, b, e, p)
    PROVE  Ends(d, done, "RS_INPUT_ENDED")
  <1>1. Len(s) \in Nat
    BY LenProperties
  <1>2. SubSeq(s, b + 1, Len(s)) = <<>> /\ done \o <<>> = done
    BY <1>1, PartFacts, ConcatEmptySeq
  <1>3. done \o SubSeq(s, b + 1, Len(s)) = done
    BY <1>2
  <1>4. e > Len(s)
    BY <1>1
  <1>5. Ends(d, done \o SubSeq(s, b + 1, Len(s)), "RS_INPUT_ENDED")
    BY <1>4 DEF ToCome
  <1> QED
    BY <1>3, <1>5, Zenon

\* While something is to come, the new file is not complete.
LEMMA MoreToCome ==
    ASSUME NEW d \in Seq(Nat), NEW done \in Seq(Nat), NEW s \in Seq(Nat), NEW b \in Nat, NEW e \in Nat,
           b < e, NEW p \in 0 .. Len(d), SIZE_MAX \in Nat, Basis \in Seq(Nat),
           ToCome(d, done, s, b, e, p)
    PROVE  Len(done) < Len(Apply(d, Basis).out) \/ Apply(d, Basis).verdict # "RS_DONE"
  <1>1. Len(s) \in Nat
    BY LenProperties
  <1>2. CASE e <= Len(s)
    <2> DEFINE x == SubSeq(s, b + 1, e)
               m == Commands(d, Basis)[p]
    <2>1. Apply(d, Basis) = Preceded(done \o x, m)
      BY <1>2 DEF ToCome, Leaves
    <2>2. m \in Meanings
      BY CommandsFacts
    <2>3. x \in Seq(Nat) /\ Len(x) = e - b
      <3>1. PICK n \in Nat : b + n = e
        <4>1. e - b \in Nat /\ b + (e - b) = e
          OBVIOUS
        <4> QED
          BY <4>1
      <3>2. SubSeq(s, b + 1, b + n) \in Seq(Nat) /\ Len(SubSeq(s, b + 1, b + n)) = n
        BY <1>1, <1>2, <3>1, PieceFacts
      <3> QED
        BY <3>1, <3>2
    <2> HIDE DEF x, m
    <2>4. done \o x \in Seq(Nat) /\ Len(done \o x) = Len(done) + Len(x)
      BY <2>3, ConcatProperties
    <2>5. Apply(d, Basis).out = (done \o x) \o m.out
      <3>1. Preceded(done \o x, m).out = (done \o x) \o m.out
        BY <2>2, <2>4, PrecededFacts
      <3> QED
        BY <2>1, <3>1
    <2>6. m.out \in Seq(Nat)
      BY <2>2 DEF Meanings
    <2>7. Len((done \o x) \o m.out) = Len(done \o x) + Len(m.out) /\ Len(m.out) \in Nat /\ Len(done) \in Nat
      BY <2>4, <2>6, ConcatProperties, LenProperties
    <2>8. Len(x) > 0 /\ Len(x) \in Nat
      BY <2>3
    <2>9. PICK l : l = (done \o x) \o m.out
      OBVIOUS
    <2>10. PICK n \in Nat : n = Len(done \o x) /\ Len(done) < n
      <3>1. Len(done) + Len(x) \in Nat /\ Len(done) < Len(done) + Len(x)
        BY <2>7, <2>8
      <3> QED
        BY <2>4, <3>1
    <2>11. Len(l) = n + Len(m.out)
      BY <2>7, <2>9, <2>10
    <2>12. Len(m.out) \in Nat /\ Len(done) \in Nat
      BY <2>7
    <2>13. Len(done) < Len(l)
      <3>1. PICK i \in Nat, j \in Nat : i = Len(done) /\ j = Len(m.out)
        BY <2>12
      <3>2. i < n
        BY <2>10, <3>1
      <3>3. i < n + j
        BY <3>2
      <3> QED
        BY <2>11, <3>1, <3>3
    <2> QED
      BY <2>5, <2>9, <2>13
  <1>3. CASE e > Len(s)
    BY <1>3 DEF ToCome, Ends, MeansEnd
  <1> QED
    BY <1>1, <1>2, <1>3

\* rs_patch_s_copying, with a callback that does not say RS_BLOCKED itself.
LEMMA MeantCopying ==
    ASSUME PatchInv, PatchInv', MeantInv, rs_patch_s_copying, "RS_BLOCKED" \notin CallbackFaults
    PROVE  MeantInv'
  <1> DEFINE e == basis_pos + basis_len
  <1>1. pc = "statefn" /\ statefn = "rs_patch_s_copying"
    BY DEF rs_patch_s_copying, Running
  <1>2. /\ JobOK(job) /\ job.copy_len = 0 /\ Work(job, job) /\ job.scoop_avail = 0
        /\ basis_pos \in Nat /\ basis_len \in Nat /\ job.out \in Seq(Nat) /\ job.cursor \in Nat
        /\ basis_len > 0 /\ ToCome(input, job.out, Basis, basis_pos, e, job.cursor)
        /\ job.avail_in \in Nat
    <2>1. JobOK(job) /\ AtCopy
      BY <1>1 DEF PatchInv, PatchTypeOK, MeantInv, Meant
    <2> QED
      BY <1>1, <2>1, WorkAddsUp DEF PatchInv, PatchTypeOK, TubeFree, DataOK, JobOK, MeantInv, ScoopUse, AtCopy
  <1>3. /\ input \in Seq(Nat) /\ Len(input) \in Nat /\ Basis \in Seq(Nat) /\ Len(Basis) \in Nat
        /\ SIZE_MAX \in Nat /\ job.cursor \in 0 .. Len(input)
    <2>1. job.cursor + job.scoop_avail + job.avail_in <= Len(input)
      BY <1>2 DEF JobOK
    <2> QED
      BY <1>2, <2>1, RestFacts
  <1>4. ASSUME NEW r, r \notin {"RS_RUNNING", "RS_DONE"}, Finish(job, statefn, r),
               UNCHANGED <<basis_pos, basis_len>>,
               \/ r = "RS_BLOCKED" /\ job.avail_out = 0
               \/ r = "RS_INPUT_ENDED" /\ basis_pos >= Len(Basis)
               \/ r \in CallbackFaults
        PROVE  MeantInv'
    <2>1. /\ SameOutput(job, job') /\ SameInput(job, job')
          /\ input' = input /\ EofIsTrue'
          /\ pc' = "caller" /\ statefn' = "rs_patch_s_copying" /\ result' = r
      BY <1>1, <1>2, <1>4, MeantFinish
    <2>2. job'.out = job.out /\ job'.scoop_avail = 0 /\ job'.avail_out = job.avail_out
          /\ job'.cursor = job.cursor
      BY <1>2, <2>1 DEF SameOutput, SameInput
    <2>3. AtCopy'
      BY <1>2, <1>4, <2>1, <2>2 DEF AtCopy
    <2>4. Says'
      <3>1. CASE r = "RS_BLOCKED" /\ job.avail_out = 0
        <4>1. basis_pos < e /\ e \in Nat
          BY <1>2
        <4>2. Len(job.out) < Len(Apply(input, Basis).out) \/ Apply(input, Basis).verdict # "RS_DONE"
          <5> HIDE DEF e
          <5> QED
            BY <1>2, <1>3, <4>1, MoreToCome
        <4> QED
          BY <2>1, <2>2, <3>1, <4>2 DEF Says, OutLen
      <3>2. CASE r = "RS_INPUT_ENDED" /\ basis_pos >= Len(Basis)
        <4>1. basis_pos < e /\ e \in Nat /\ Len(Basis) <= basis_pos
          BY <1>2, <1>3, <3>2
        <4>2. Ends(input, job.out, "RS_INPUT_ENDED")
          <5> HIDE DEF e
          <5> QED
            BY <1>2, <1>3, <4>1, CutOff
        <4>3. Ends(input, job.out, result)'
          BY <2>1, <2>2, <3>2, <4>2
        <4> QED
          BY <2>1, <2>2, <3>2, <4>3 DEF Says
      <3>3. CASE r \in CallbackFaults
        BY <2>1, <3>3 DEF Says
      <3> QED
        BY <1>4, <3>1, <3>2, <3>3
    <2> QED
      BY <2>1, <2>2, <2>3, <2>4 DEF MeantInv, Meant, ScoopUse, Progress, Resumes
  <1>5. ASSUME NEW len \in copy_cb(basis_pos, Lesser(basis_len, job.avail_out)),
               basis_pos' = basis_pos + len, basis_len' = basis_len - len,
               Finish([job EXCEPT !.out = @ \o SubSeq(Basis, basis_pos + 1, basis_pos + len),
                                  !.avail_out = @ - len],
                      IF basis_len = len THEN "rs_patch_s_cmdbyte" ELSE statefn, "RS_RUNNING")
        PROVE  MeantInv'
    <2> DEFINE bytes == SubSeq(Basis, basis_pos + 1, basis_pos + len)
               k == [job EXCEPT !.out = @ \o bytes, !.avail_out = @ - len]
               fn == IF basis_len = len THEN "rs_patch_s_cmdbyte" ELSE statefn
               c == basis_pos + len
    <2>1. len \in Nat /\ len > 0 /\ len <= basis_len /\ len <= job.avail_out /\ c <= Len(Basis)
      <3>1. job.avail_out \in Nat /\ basis_pos \in Nat /\ basis_len \in Nat /\ Len(Basis) \in Nat
        BY <1>2, <1>3 DEF JobOK
      <3> QED
        BY <1>5, <3>1, SMTT(40) DEF copy_cb, Lesser
    <2>2. bytes \in Seq(Nat) /\ Len(bytes) = len
      BY <1>2, <1>3, <2>1, PieceFacts
    <2>3. /\ DOMAIN k = JobFields /\ k.out = job.out \o bytes /\ k.avail_out = job.avail_out - len
          /\ \A f \in JobFields \ {"out", "avail_out"} : k[f] = job[f]
      BY <1>2 DEF JobOK, JobFields
    <2>4. Finish(k, fn, "RS_RUNNING")
      BY <1>5
    <2> HIDE DEF k, bytes
    <2>5. /\ k.eof_in = job.eof_in /\ k.write_buf = job.write_buf /\ k.copy_len = job.copy_len
          /\ k.cursor = job.cursor /\ k.scoop_avail = job.scoop_avail /\ k.avail_in = job.avail_in
      BY <2>3 DEF JobFields
    <2>6. Work(job, k)
      <3>1. /\ k.cursor \in Nat /\ k.scoop_avail \in Nat /\ k.avail_in \in Nat
            /\ k.copy_len \in Nat /\ k.write_buf \in Seq(Nat)
        BY <1>2, <2>5 DEF JobOK
      <3>2. /\ k.avail_in <= job.avail_in /\ DOMAIN k = JobFields
            /\ k.cursor + k.scoop_avail + k.avail_in = job.cursor + job.scoop_avail + job.avail_in
        BY <2>3, <2>5, <3>1
      <3>3. k.out = job.out \o bytes /\ k.avail_out = job.avail_out - Len(bytes)
        BY <2>2, <2>3
      <3>4. Len(bytes) <= job.avail_out
        BY <2>1, <2>2
      <3>5. k.eof_in = job.eof_in /\ bytes \in Seq(Nat)
        BY <2>2, <2>5
      <3> QED
        BY <1>2, <3>1, <3>2, <3>3, <3>4, <3>5, PutOut
    <2>7. /\ SameOutput(k, job') /\ SameInput(k, job')
          /\ input' = input /\ EofIsTrue'
          /\ job'.avail_in <= orig'[1] /\ orig'[1] \in Nat
          /\ pc' = "work" /\ statefn' = fn
      <3> HIDE DEF fn
      <3> QED
        BY <1>1, <2>4, <2>6, MeantFinish
    <2>8. job'.out = job.out \o bytes /\ job'.scoop_avail = 0 /\ job'.copy_len = 0
          /\ job'.cursor = job.cursor
      BY <1>2, <2>3, <2>5, <2>7 DEF SameOutput, SameInput
    <2>9. ToCome(input, job.out \o bytes, Basis, c, e, job.cursor)
      <3>1. c \in Nat /\ e \in Nat /\ basis_pos <= c /\ c <= e
        BY <1>2, <2>1
      <3>2. bytes = SubSeq(Basis, basis_pos + 1, c)
        BY DEF bytes
      <3> HIDE DEF c, e
      <3> QED
        BY <1>2, <1>3, <2>1, <3>1, <3>2, ToComeMoves
    <2>10. CASE basis_len = len
      <3>1. statefn' = "rs_patch_s_cmdbyte" /\ c = e /\ c \in Nat
        BY <1>2, <2>1, <2>7, <2>10
      <3>2. job.out \o bytes \in Seq(Nat)
        BY <1>2, <2>2, ConcatProperties
      <3>3. Leaves(input, job.out \o bytes, job.cursor)
        <4>1. ToCome(input, job.out \o bytes, Basis, c, c, job.cursor)
          <5> HIDE DEF c, e
          <5> QED
            BY <2>9, <3>1
        <4> HIDE DEF c
        <4> QED
          BY <1>3, <2>1, <3>1, <3>2, <4>1, NothingToCome
      <3>4. ToCome(input, job.out \o bytes, input, job.cursor, job.cursor, job.cursor)
        <4>1. job.cursor \in Nat /\ job.cursor <= Len(input)
          BY <1>3
        <4> QED
          BY <1>3, <3>2, <3>3, <4>1, NothingToCome
      <3>5. AtCommand'
        <4>1. job'.cursor + job'.copy_len = job.cursor
          BY <1>2, <2>8
        <4> QED
          BY <2>7, <2>8, <3>4, <4>1 DEF AtCommand
      <3> QED
        BY <2>7, <2>8, <3>1, <3>5 DEF MeantInv, Meant, ScoopUse, Progress, Resumes, Says
    <2>11. CASE basis_len # len
      <3>1. statefn' = "rs_patch_s_copying"
        BY <1>1, <2>7, <2>11
      <3>2. basis_len' > 0 /\ basis_pos' = c /\ basis_pos' + basis_len' = e
        BY <1>2, <1>5, <2>1, <2>11
      <3>3. AtCopy'
        <4> HIDE DEF c, e
        <4> QED
          BY <2>7, <2>8, <2>9, <3>2 DEF AtCopy
      <3> QED
        BY <2>7, <2>8, <3>1, <3>3 DEF MeantInv, Meant, ScoopUse, Progress, Resumes, Says
    <2> QED
      BY <2>10, <2>11
  <1>6. \A r \in copy_cb_failure(basis_pos) :
            /\ r \notin {"RS_RUNNING", "RS_DONE"}
            /\ r \in CallbackFaults \/ (r = "RS_INPUT_ENDED" /\ basis_pos >= Len(Basis))
    BY <1>2, <1>3, PatchAssumption DEF copy_cb_failure
  <1> HIDE DEF e
  <1> QED
    BY <1>4, <1>5, <1>6 DEF rs_patch_s_copying

\* The head of the loop of rs_job_work.
LEMMA MeantCatchup ==
    ASSUME PatchInv, PatchInv', MeantInv, Caller(Catchup)
    PROVE  MeantInv'
  <1> DEFINE c == rs_tube_catchup(job)
             k == c.job
             p == job.cursor + job.copy_len
  <1>1. pc = "work" /\ UNCHANGED <<cmd, param1, param2, basis_pos, basis_len, stats, statefn>>
    BY DEF Caller, Catchup, commandVars
  <1>2. /\ JobOK(job) /\ job.write_buf = <<>> /\ statefn \in StateFns /\ job.out \in Seq(Nat)
        /\ statefn # "rs_patch_s_cmdbyte" => job.copy_len = 0
        /\ result \in {"RS_RUNNING", "RS_BLOCKED"}
        /\ job.copy_len \in Nat /\ job.cursor \in Nat /\ job.scoop_avail \in Nat
        /\ job.avail_in \in Nat /\ EofIsTrue /\ job.avail_in <= orig[1] /\ orig[1] \in Nat
    BY <1>1 DEF PatchInv, PatchTypeOK, TubeFree, ResultLast, MeantInv, Progress, JobOK
  <1>3. /\ Work(job, k) /\ k.scoop_avail <= job.scoop_avail
        /\ c.result \in {"RS_DONE", "RS_INPUT_ENDED", "RS_BLOCKED"}
        /\ k.cursor + k.copy_len = p
        /\ c.result = "RS_BLOCKED" => k.avail_out = 0 \/ (rs_scoop_avail(k) = 0 /\ ~k.eof_in)
        /\ c.result = "RS_DONE" => k.copy_len = 0
    BY <1>2, CatchupFacts DEF rs_tube_is_idle
  <1>4. /\ k.out = job.out \o SubSeq(input, job.cursor + 1, k.cursor) /\ job.cursor <= k.cursor
        /\ c.result # "RS_DONE" => k.copy_len # 0
        /\ c.result = "RS_INPUT_ENDED" => rs_scoop_avail(k) = 0 /\ k.eof_in
        /\ job.copy_len = 0 => c.result = "RS_DONE"
    BY <1>2, CatchupMoves
  <1>5. \/ c.result = "RS_DONE" /\ statefn # "NULL" /\ job' = k /\ pc' = "statefn"
           /\ UNCHANGED <<input, result, orig>>
        \/ ~(c.result = "RS_DONE" /\ statefn # "NULL") /\ Return(k, c.result)
    BY DEF Caller, Catchup
  <1> HIDE DEF c
  <1>6. /\ JobOK(k) /\ k.cursor \in Nat /\ k.copy_len \in Nat /\ k.scoop_avail \in Nat
        /\ k.avail_in \in Nat /\ k.avail_out \in Nat
        /\ k.cursor + k.scoop_avail + k.avail_in = job.cursor + job.scoop_avail + job.avail_in
        /\ k.eof_in = job.eof_in /\ k.avail_in <= job.avail_in /\ k.out \in Seq(Nat)
    BY <1>3 DEF Work, JobOK
  <1>7. /\ input' = input /\ orig' = orig
        /\ job'.cursor = k.cursor /\ job'.copy_len = k.copy_len /\ job'.out = k.out
        /\ job'.scoop_avail = k.scoop_avail /\ job'.avail_in = k.avail_in
        /\ job'.eof_in = k.eof_in /\ job'.avail_out = k.avail_out
    <2>1. CASE Return(k, c.result)
      <3>1. job' = k \/ \E b : job' = Assert_(k, b)
        BY <2>1 DEF Return
      <3>2. \A b : /\ SameOutput(k, Assert_(k, b)) /\ SameInput(k, Assert_(k, b))
                   /\ Assert_(k, b).eof_in = k.eof_in
        BY <1>6, AssertFacts DEF Work
      <3>3. input' = input /\ orig' = orig
        BY <2>1 DEF Return
      <3> QED
        BY <3>1, <3>2, <3>3 DEF SameOutput, SameInput
    <2> QED
      BY <1>5, <2>1
  <1>8. /\ input \in Seq(Nat) /\ Len(input) \in Nat /\ Basis \in Seq(Nat) /\ SIZE_MAX \in Nat
        /\ k.cursor <= Len(input)
    <2>1. k.cursor + k.scoop_avail + k.avail_in <= Len(input)
      BY <1>6 DEF JobOK
    <2> QED
      BY <1>6, <2>1, RestFacts
  <1>9. EofIsTrue'
    <2>1. job'.eof_in = job.eof_in
          /\ job'.cursor + job'.scoop_avail + job'.avail_in = job.cursor + job.scoop_avail + job.avail_in
      BY <1>6, <1>7
    <2> QED
      BY <1>2, <1>7, <2>1 DEF EofIsTrue
  <1>10. ScoopUse'
    <2>1. job'.scoop_avail <= job.scoop_avail /\ job'.scoop_avail \in Nat
      BY <1>3, <1>6, <1>7
    <2>2. ScoopUse /\ CommandOK(cmd)
      BY DEF MeantInv, PatchInv, PatchTypeOK, DataOK
    <2>3. cmd.len_1 + cmd.len_2 \in Nat
      BY <2>2 DEF CommandOK
    <2> QED
      BY <1>1, <1>2, <2>1, <2>2, <2>3 DEF ScoopUse
  <1>11. job'.avail_in <= orig'[1] /\ orig'[1] \in Nat
    BY <1>2, <1>6, <1>7
  <1>12. CASE statefn = "rs_patch_s_cmdbyte"
    <2>1. ToCome(input, k.out, input, k.cursor, p, p)
      <3>1. ToCome(input, job.out, input, job.cursor, p, p)
        BY <1>12 DEF MeantInv, Meant, AtCommand
      <3>2. p \in Nat /\ job.cursor <= k.cursor /\ k.cursor <= p
        <4>1. k.cursor + k.copy_len = p /\ k.cursor \in Nat /\ k.copy_len \in Nat
          BY <1>3, <1>6, Zenon
        <4>2. job.cursor <= k.cursor
          BY <1>4, Zenon
        <4> HIDE DEF p, k
        <4>3. p \in Nat /\ k.cursor <= p
          BY <4>1
        <4> QED
          BY <4>2, <4>3, Zenon
      <3>3. PICK y \in Nat : y = k.cursor
        BY <1>6
      <3> HIDE DEF p, k
      <3>4. ToCome(input, job.out \o SubSeq(input, job.cursor + 1, y), input, y, p, p)
        BY <1>2, <1>8, <3>1, <3>2, <3>3, ToComeMoves
      <3> QED
        BY <1>4, <3>3, <3>4
    <2>2. AtCommand'
      <3>1. job'.cursor + job'.copy_len = p
        BY <1>3, <1>7
      <3> HIDE DEF p, k
      <3> QED
        BY <1>7, <2>1, <3>1 DEF AtCommand
    <2>3. Meant'
      BY <1>1, <1>12, <2>2 DEF Meant
    <2>4. CASE c.result = "RS_DONE"
      BY <1>1, <1>5, <1>9, <1>10, <1>11, <1>12, <2>3, <2>4
        DEF MeantInv, Progress, Resumes, Says
    <2>5. CASE c.result # "RS_DONE"
      <3>1. Return(k, c.result) /\ k.copy_len # 0
        BY <1>4, <1>5, <2>5
      <3>2. k.cursor < p /\ p \in Nat
        <4>1. p \in Nat
          BY <1>2
        <4> HIDE DEF p, k
        <4>2. k.cursor + k.copy_len = p /\ k.cursor \in Nat /\ k.copy_len \in Nat /\ k.copy_len # 0
          BY <1>3, <1>6, <3>1
        <4> QED
          BY <4>1, <4>2
      <3>3. pc' = "caller" /\ result' = c.result
        <4>1. CASE c.result = "RS_INPUT_ENDED"
          BY <3>1, <4>1 DEF Return
        <4>2. CASE c.result = "RS_BLOCKED"
          <5>1. k.avail_in = 0 \/ k.avail_out = 0
            BY <1>3, <1>6, <4>2 DEF rs_scoop_avail
          <5> QED
            BY <3>1, <5>1, ReturnStands DEF Return
        <4> QED
          BY <1>3, <2>5, <4>1, <4>2
      <3>4. Says'
        <4>1. CASE c.result = "RS_INPUT_ENDED"
          <5>1. k.scoop_avail + k.avail_in = 0 /\ job.eof_in
            BY <1>4, <1>6, <4>1 DEF rs_scoop_avail
          <5>2. Len(input) <= k.cursor
            <6>1. job.cursor + job.scoop_avail + job.avail_in = Len(input)
              BY <1>2, <5>1 DEF EofIsTrue
            <6> HIDE DEF k
            <6>2. k.cursor + k.scoop_avail + k.avail_in = Len(input)
              BY <1>6, <6>1
            <6>3. k.cursor \in Nat /\ k.scoop_avail \in Nat /\ k.avail_in \in Nat
              BY <1>6
            <6> QED
              BY <1>8, <5>1, <6>2, <6>3
          <5>3. Ends(input, k.out, "RS_INPUT_ENDED")
            <6> HIDE DEF p, k
            <6> QED
              BY <1>6, <1>8, <2>1, <3>2, <5>2, CutOff
          <5>4. Ends(input, job.out, result)'
            BY <1>7, <3>3, <4>1, <5>3
          <5> QED
            BY <3>3, <4>1, <5>4 DEF Says
        <4>2. CASE c.result = "RS_BLOCKED"
          <5>1. CASE k.avail_out = 0
            <6>1. Len(k.out) < Len(Apply(input, Basis).out) \/ Apply(input, Basis).verdict # "RS_DONE"
              <7>1. CASE p <= Len(input)
                <8>1. p \in 0 .. Len(input)
                  BY <1>8, <3>2, <7>1
                <8> HIDE DEF p, k
                <8> QED
                  BY <1>6, <1>8, <2>1, <3>2, <8>1, MoreToCome
              <7>2. CASE p > Len(input)
                <8> HIDE DEF p, k
                <8> QED
                  BY <2>1, <7>2 DEF ToCome, Ends, MeansEnd
              <7> QED
                BY <1>8, <3>2, <7>1, <7>2
            <6> QED
              BY <1>7, <3>3, <4>2, <5>1, <6>1 DEF Says, OutLen
          <5>2. CASE rs_scoop_avail(k) = 0 /\ ~k.eof_in
            <6>1. k.avail_in = 0
              BY <1>6, <5>2 DEF rs_scoop_avail
            <6> QED
              BY <1>7, <3>3, <4>2, <5>2, <6>1 DEF Says
          <5> QED
            BY <1>3, <4>2, <5>1, <5>2
        <4> QED
          BY <1>3, <2>5, <4>1, <4>2
      <3> QED
        BY <1>1, <1>9, <1>10, <1>12, <2>3, <3>3, <3>4 DEF MeantInv, Progress, Resumes
    <2> QED
      BY <2>4, <2>5
  <1>13. CASE statefn # "rs_patch_s_cmdbyte"
    <2>1. /\ c.result = "RS_DONE" /\ k.cursor = job.cursor /\ k.copy_len = job.copy_len
          /\ job.copy_len = 0
      BY <1>2, <1>3, <1>4, <1>6, <1>13
    <2>2. k.out = job.out
      <3>1. SubSeq(input, job.cursor + 1, job.cursor) = <<>> /\ job.out \o <<>> = job.out
        BY <1>2, <1>8, <2>1, PartFacts, ConcatEmptySeq
      <3> QED
        BY <1>4, <2>1, <3>1
    <2>3. Counted' = Counted
      BY <1>1 DEF Counted
    <2>4. Meant'
      BY <1>1, <1>7, <1>13, <2>1, <2>2, <2>3
        DEF MeantInv, Meant, InCommand, HasParams, AtCopy
    <2>5. CASE statefn # "NULL"
      <3>1. pc' = "statefn"
        BY <1>5, <2>1, <2>5
      <3>2. statefn = "rs_patch_s_run" /\ cmd.kind = "END" => job.avail_in < orig[1]
        BY <1>1 DEF MeantInv, Progress
      <3>3. Progress'
        BY <1>1, <1>2, <1>6, <1>7, <1>11, <2>5, <3>2 DEF Progress
      <3> QED
        BY <1>9, <1>10, <2>4, <3>1, <3>3 DEF MeantInv, Resumes, Says
    <2>6. CASE statefn = "NULL"
      <3>1. Return(k, "RS_DONE")
        BY <1>5, <2>1, <2>6
      <3>2. job.avail_in < orig[1]
        BY <1>1, <2>6 DEF MeantInv, Progress
      <3>3. pc' = "caller" /\ result' = "RS_DONE"
        BY <1>2, <1>6, <3>1, <3>2 DEF Return, NoProgress
      <3>4. job'.scoop_avail = 0
        BY <1>1, <1>10, <2>6 DEF ScoopUse
      <3>5. Ends(input, job.out, result)' /\ (Apply(input, Basis).used = job.cursor + job.scoop_avail)'
        <4>1. Ends(input, job.out, "RS_DONE") /\ Apply(input, Basis).used = job.cursor
          BY <2>6 DEF MeantInv, Meant
        <4>2. job'.cursor + job'.scoop_avail = job.cursor
          BY <1>2, <1>7, <2>1, <3>4
        <4> QED
          BY <1>7, <2>2, <3>3, <4>1, <4>2
      <3> QED
        BY <1>9, <1>10, <2>4, <3>3, <3>5 DEF MeantInv, Resumes, Says, Progress
    <2> QED
      BY <2>5, <2>6
  <1> QED
    BY <1>12, <1>13

\* The caller calls again.
LEMMA MeantCallIter ==
    ASSUME PatchInv, PatchInv', MeantInv, Caller(CallIter)
    PROVE  MeantInv'
  <1>1. PICK n \in 0 .. Len(input), e \in BOOLEAN, m \in 0 .. MaxOut : Iter(n, e, m)
    BY DEF Caller, CallIter
  <1>2. UNCHANGED <<cmd, param1, param2, basis_pos, basis_len, stats>>
    BY DEF Caller, commandVars
  <1>3. /\ JobOK(job) /\ Call(n, e, m) /\ result \in {"RS_RUNNING", "RS_BLOCKED"}
        /\ job.cursor \in Nat /\ job.scoop_avail \in Nat /\ job.avail_in \in Nat /\ EofIsTrue
        /\ input \in Seq(Nat) /\ Len(input) \in Nat
    BY <1>1, RestFacts DEF Iter, PatchInv, PatchTypeOK, JobOK, MeantInv
  <1>4. n \in Nat /\ m \in Nat /\ n \in Int /\ job.avail_in + n \in Nat
    BY <1>3, JobAssumption
  <1>5. /\ job.cursor + job.scoop_avail + job.avail_in + n <= Len(input)
        /\ n > 0 => ~job.eof_in
        /\ IF job.eof_in THEN e ELSE e => job.cursor + job.scoop_avail + job.avail_in + n = Len(input)
    <2>1. /\ job.cursor + (job.scoop_avail + job.avail_in) + n <= Len(input)
          /\ n > 0 => ~job.eof_in
          /\ IF job.eof_in THEN e ELSE e => job.cursor + (job.scoop_avail + job.avail_in) + n = Len(input)
      BY <1>1 DEF Iter, rs_scoop_avail
    <2>2. job.cursor + (job.scoop_avail + job.avail_in) + n = job.cursor + job.scoop_avail + job.avail_in + n
      BY <1>3, <1>4
    <2> QED
      BY <2>1, <2>2, Zenon
  <1>6. /\ job'.cursor = job.cursor /\ job'.scoop_avail = job.scoop_avail
        /\ job'.avail_in = job.avail_in + n /\ job'.eof_in = e
        /\ job'.out = job.out /\ job'.copy_len = job.copy_len
        /\ pc = "caller" /\ pc' = "work" /\ UNCHANGED <<input, statefn, result>>
    BY <1>3, <1>4, <1>5, CallFacts
  <1>7. Counted' = Counted
    BY <1>2 DEF Counted
  <1>8. Meant'
    BY <1>2, <1>6, <1>7 DEF MeantInv, Meant, AtCommand, InCommand, HasParams, AtCopy
  <1>9. ScoopUse'
    BY <1>2, <1>6 DEF MeantInv, ScoopUse
  <1>10. EofIsTrue'
    <2>1. CASE job.eof_in
      <3>1. n = 0
        BY <1>4, <1>5, <2>1
      <3> QED
        BY <1>3, <1>6, <2>1, <3>1 DEF EofIsTrue
    <2>2. CASE ~job.eof_in
      <3>1. e => job.cursor + job.scoop_avail + (job.avail_in + n) = Len(input)
        BY <1>3, <1>4, <1>5, <2>2
      <3> QED
        BY <1>6, <3>1 DEF EofIsTrue
    <2> QED
      BY <2>1, <2>2
  <1>11. Progress'
    <2>1. statefn \notin {"NULL", "rs_patch_s_run"}
      BY <1>3, <1>6 DEF MeantInv, Resumes
    <2>2. orig'[1] = job'.avail_in /\ job'.avail_in \in Nat
      BY <1>3, <1>4, <1>6 DEF Call
    <2> QED
      BY <1>6, <2>1, <2>2 DEF Progress
  <1> QED
    BY <1>6, <1>8, <1>9, <1>10, <1>11 DEF MeantInv, Resumes, Says

\* rs_patch_begin.
LEMMA MeantInit == Init => MeantInv
  BY DEF Init, EngineInit, MeantInv, Meant, ScoopUse, EofIsTrue, Progress, Resumes, Says

\* A stuttering step.
LEMMA MeantSame ==
    ASSUME MeantInv, UNCHANGED vars
    PROVE  MeantInv'
  <1>1. UNCHANGED <<input, job, statefn, pc, result, orig, cmd, param1, param2, basis_pos,
                    basis_len, stats>>
    BY DEF vars, engineVars
  <1>2. Counted' = Counted /\ OutLen(job') = OutLen(job)
    BY <1>1 DEF Counted, OutLen
  <1>3. Meant'
    BY <1>1, <1>2 DEF MeantInv, Meant, AtCommand, InCommand, HasParams, AtCopy
  <1>4. Says'
    BY <1>1 DEF MeantInv, Says, OutLen
  <1> QED
    BY <1>1, <1>3, <1>4 DEF MeantInv, ScoopUse, EofIsTrue, Progress, Resumes

\* With a callback that does not block the whole invariant holds.
LEMMA MeantAlways ==
    ASSUME "RS_BLOCKED" \notin CallbackFaults
    PROVE  Init /\ [][Next]_vars => [](PatchInv /\ MeantInv)
  <1>1. PatchInv /\ PatchInv' /\ MeantInv /\ [Next]_vars => MeantInv'
    BY MeantCallIter, MeantHeader, MeantCmdbyte, MeantParams, MeantRun, MeantLiteral, MeantCopy,
       MeantCopying, MeantCatchup, MeantSame DEF Next, Stopped, Step, StateFn
  <1> QED
    BY <1>1, PatchAlways, MeantInit, PTL

-----------------------------------------------------------------------------
(* The job implements module Transducer.                                   *)

\* Everything that is to come is appended.
LEMMA PrefixOfConcat ==
    ASSUME NEW s \in Seq(Nat), NEW t \in Seq(Nat)
    PROVE  Whole!IsPrefixOf(s, s \o t)
  <1> DEFINE u == s \o t
             r == SubSeq(u, 1, Len(s))
  <1>1. /\ u \in Seq(Nat) /\ Len(u) = Len(s) + Len(t) /\ Len(s) \in Nat /\ Len(t) \in Nat
        /\ \A i \in 1 .. Len(s) : u[i] = s[i]
    BY ConcatProperties, LenProperties
  <1> HIDE DEF u
  <1>2. r \in Seq(Nat) /\ Len(r) = Len(s) /\ \A i \in 1 .. Len(s) : r[i] = u[0 + i]
    <2>1. 0 \in Nat /\ 0 + Len(s) = Len(s) /\ 0 + 1 = 1 /\ 0 + Len(s) <= Len(u)
      BY <1>1
    <2> QED
      BY <1>1, <2>1, PieceFacts
  <1> HIDE DEF r
  <1>3. \A i \in 1 .. Len(r) : r[i] = s[i]
    <2>1. \A i \in 1 .. Len(s) : 0 + i = i
      BY <1>1
    <2> QED
      BY <1>1, <1>2, <2>1
  <1>4. r = s
    BY <1>2, <1>3, SeqEqual
  <1>5. Len(s) <= Len(u)
    BY <1>1
  <1> QED
    BY <1>4, <1>5 DEF Whole!IsPrefixOf, r, u

\* What is left of a delta comes after what is done.
LEMMA LeavesPrefix ==
    ASSUME NEW d \in Seq(Nat), NEW done \in Seq(Nat), NEW p \in 0 .. Len(d),
           SIZE_MAX \in Nat, Basis \in Seq(Nat), Leaves(d, done, p)
    PROVE  Whole!IsPrefixOf(done, Apply(d, Basis).out) /\ Apply(d, Basis) \in Meanings
  <1> DEFINE m == Commands(d, Basis)[p]
  <1>1. m \in Meanings
    BY CommandsFacts
  <1>2. Apply(d, Basis) = Preceded(done, m)
    BY DEF Leaves
  <1> HIDE DEF m
  <1>3. Preceded(done, m).out = done \o m.out /\ Preceded(done, m) \in Meanings
    BY <1>1, PrecededFacts
  <1>4. m.out \in Seq(Nat)
    BY <1>1 DEF Meanings
  <1>5. Whole!IsPrefixOf(done, done \o m.out)
    BY <1>4, PrefixOfConcat
  <1> QED
    BY <1>2, <1>3, <1>5

LEMMA ToComePrefix ==
    ASSUME NEW d \in Seq(Nat), NEW done \in Seq(Nat), NEW s \in Seq(Nat), NEW b \in Nat, NEW e \in Nat,
           NEW p, e <= Len(s) => p \in 0 .. Len(d), SIZE_MAX \in Nat, Basis \in Seq(Nat),
           ToCome(d, done, s, b, e, p)
    PROVE  Whole!IsPrefixOf(done, Apply(d, Basis).out) /\ Apply(d, Basis).out \in Seq(Nat)
  <1>1. Len(s) \in Nat
    BY LenProperties
  <1>2. CASE e <= Len(s)
    <2> DEFINE x == SubSeq(s, b + 1, e)
               m == Commands(d, Basis)[p]
    <2>1. Apply(d, Basis) = Preceded(done \o x, m)
      BY <1>2 DEF ToCome, Leaves
    <2>2. m \in Meanings /\ x \in Seq(Nat)
      BY <1>2, CommandsFacts, PartFacts
    <2> HIDE DEF x, m
    <2>3. done \o x \in Seq(Nat) /\ m.out \in Seq(Nat)
      BY <2>2, ConcatProperties DEF Meanings
    <2>4. Preceded(done \o x, m).out = (done \o x) \o m.out
      BY <2>2, <2>3, PrecededFacts
    <2>5. (done \o x) \o m.out = done \o (x \o m.out) /\ x \o m.out \in Seq(Nat)
      <3>1. (done \o x) \o m.out = done \o (x \o m.out)
        BY <2>2, <2>3, ConcatBytes, ZenonT(30)
      <3>2. x \o m.out \in Seq(Nat)
        BY <2>2, <2>3, ConcatProperties
      <3> QED
        BY <3>1, <3>2, Zenon
    <2>6. Whole!IsPrefixOf(done, done \o (x \o m.out)) /\ done \o (x \o m.out) \in Seq(Nat)
      BY <2>5, PrefixOfConcat, ConcatProperties
    <2> QED
      BY <2>1, <2>4, <2>5, <2>6
  <1>3. CASE e > Len(s)
    <2> DEFINE x == SubSeq(s, b + 1, Len(s))
    <2>1. Apply(d, Basis).out = done \o x
      BY <1>3 DEF ToCome, Ends, MeansEnd
    <2>2. x \in Seq(Nat)
      BY <1>1, PartFacts
    <2> HIDE DEF x
    <2>3. Whole!IsPrefixOf(done, done \o x) /\ done \o x \in Seq(Nat)
      BY <2>2, PrefixOfConcat, ConcatProperties
    <2> QED
      BY <2>1, <2>3
  <1> QED
    BY <1>1, <1>2, <1>3

\* What a delta means is a sequence of bytes, in all.
LEMMA ApplyOut ==
    ASSUME NEW d \in Seq(Nat), SIZE_MAX \in Nat, Basis \in Seq(Nat)
    PROVE  Apply(d, Basis).out \in Seq(Nat)
  <1>1. Len(d) \in Nat /\ <<>> \in Seq(Nat)
    BY LenProperties, EmptySeq
  <1>2. CASE Len(d) < 4 \/ N4Value(SubSeq(d, 1, 4)) # RS_DELTA_MAGIC
    BY <1>1, <1>2 DEF Apply
  <1>3. CASE ~(Len(d) < 4 \/ N4Value(SubSeq(d, 1, 4)) # RS_DELTA_MAGIC)
    <2>1. 4 \in 0 .. Len(d)
      BY <1>1, <1>3
    <2>2. Commands(d, Basis)[4] \in Meanings
      BY <2>1, CommandsFacts
    <2>3. Apply(d, Basis) = Commands(d, Basis)[4]
      BY <1>3 DEF Apply
    <2> QED
      BY <2>2, <2>3 DEF Meanings
  <1> QED
    BY <1>2, <1>3

\* What has been put out belongs to the new file.
LEMMA PatchPrefix ==
    ASSUME PatchInv, MeantInv
    PROVE  /\ Whole!IsPrefixOf(job.out, NewFile(input))
           /\ NewFile(input) \in Seq(Nat) /\ job.out \in Seq(Nat)
  <1>1. /\ input \in Seq(Nat) /\ Len(input) \in Nat /\ Basis \in Seq(Nat) /\ Len(Basis) \in Nat
        /\ SIZE_MAX \in Nat /\ Meaning[input] = Apply(input, Basis)
    BY RestFacts
  <1>2. NewFile(input) = Apply(input, Basis).out /\ Apply(input, Basis).out \in Seq(Nat)
    BY <1>1, ApplyOut DEF NewFile
  <1>3. JobOK(job) /\ DataOK /\ Meant /\ statefn \in StateFns
    BY DEF PatchInv, PatchTypeOK, MeantInv
  <1>4. job.out \in Seq(Nat) /\ job.cursor \in Nat /\ job.cursor <= Len(input) /\ job.copy_len \in Nat
    BY <1>1, <1>3 DEF JobOK
  <1>5. CASE statefn = "rs_patch_s_header"
    <2>1. job.out = <<>>
      BY <1>3, <1>5 DEF Meant
    <2> DEFINE t == Apply(input, Basis).out
    <2>2. t \in Seq(Nat)
      BY <1>2
    <2> HIDE DEF t
    <2>3. Whole!IsPrefixOf(<<>>, <<>> \o t) /\ <<>> \o t = t
      BY <2>2, PrefixOfConcat, EmptySeq, ConcatEmptySeq
    <2> QED
      BY <1>2, <1>4, <2>1, <2>3 DEF t
  <1>6. CASE statefn = "rs_patch_s_cmdbyte"
    <2> DEFINE e == job.cursor + job.copy_len
    <2>1. ToCome(input, job.out, input, job.cursor, e, e)
      BY <1>3, <1>6 DEF Meant, AtCommand
    <2>2. e \in Nat /\ (e <= Len(input) => e \in 0 .. Len(input))
      BY <1>1, <1>4
    <2> HIDE DEF e
    <2> QED
      BY <1>1, <1>2, <1>4, <2>1, <2>2, ToComePrefix
  <1>7. CASE statefn \in {"rs_patch_s_params", "rs_patch_s_run", "rs_patch_s_literal", "rs_patch_s_copy"}
    <2>1. Leaves(input, job.out, Counted) /\ Counted < Len(input)
      BY <1>3, <1>7 DEF Meant, InCommand
    <2>2. Counted \in Nat
      BY <1>3 DEF Counted, DataOK, StatsOK
    <2>3. Counted \in 0 .. Len(input)
      BY <1>1, <2>1, <2>2
    <2> QED
      BY <1>1, <1>2, <1>4, <2>1, <2>3, LeavesPrefix
  <1>8. CASE statefn = "rs_patch_s_copying"
    <2> DEFINE e == basis_pos + basis_len
    <2>1. ToCome(input, job.out, Basis, basis_pos, e, job.cursor)
      BY <1>3, <1>8 DEF Meant, AtCopy
    <2>2. e \in Nat /\ basis_pos \in Nat /\ job.cursor \in 0 .. Len(input)
      BY <1>1, <1>3, <1>4 DEF DataOK
    <2> HIDE DEF e
    <2> QED
      BY <1>1, <1>2, <1>4, <2>1, <2>2, ToComePrefix
  <1>9. CASE statefn = "NULL"
    <2>1. Apply(input, Basis).out = job.out
      BY <1>3, <1>9 DEF Meant, Ends, MeansEnd
    <2>2. Whole!IsPrefixOf(job.out, job.out \o <<>>) /\ job.out \o <<>> = job.out
      BY <1>4, PrefixOfConcat, EmptySeq, ConcatEmptySeq
    <2> QED
      BY <1>2, <1>4, <2>1, <2>2
  <1> QED
    BY <1>3, <1>5, <1>6, <1>7, <1>8, <1>9 DEF StateFns

\* What is written belongs to the new file, all of it when the caller is told so,
\* and the answers are ones that the contract allows.
PatchAnswers ==
    /\ Whole!IsPrefixOf(job.out, NewFile(input))
    /\ Answer(Len(job.out)).result # "RS_RUNNING" =>
         MayAnswer(PatchPromise(input), Answer(Len(job.out)))
    /\ Over => result = PatchPromise(input).verdict /\ job.out = NewFile(input)

\* The invariant says as much as the caller is promised.
LEMMA PatchAnswersHold ==
    ASSUME CallbackFaults = {}, PatchInv, MeantInv
    PROVE  PatchAnswers
  <1> DEFINE P == PatchPromise(input)
             put == Len(job.out)
             A == Answer(put)
             B == NewFile(input)
             M == Apply(input, Basis)
  <1>1. Whole!IsPrefixOf(job.out, B) /\ B \in Seq(Nat) /\ job.out \in Seq(Nat)
    BY PatchPrefix
  <1>2. put \in Nat /\ Len(B) \in Nat /\ put <= Len(B)
    BY <1>1, LenProperties DEF Whole!IsPrefixOf
  <1>3. Meaning[input] = M
    BY RestFacts
  <1>4. /\ P.target = Len(B) /\ P.verdict = M.verdict /\ P.need = M.used
        /\ ~P.to_eof /\ P.writes /\ ~P.ends_writing /\ P.leaves = 0
    BY <1>3 DEF PatchPromise, NewFile
  <1>5. B = M.out
    BY <1>3 DEF NewFile
  <1>6. pc = "caller" /\ result # "RS_RUNNING" =>
          /\ A.result = result /\ A.taken = job.cursor + job.scoop_avail /\ A.put = put
          /\ A.avail_in = job.avail_in /\ A.eof_in = job.eof_in /\ A.avail_out = job.avail_out
    <2> HIDE DEF put
    <2> QED
      BY DEF Answer
  <1>7. ~(pc = "caller" /\ result # "RS_RUNNING") => A.result = "RS_RUNNING"
    BY DEF Answer, NoAnswer
  <1>8. Over => pc = "caller" /\ result # "RS_RUNNING" /\ result # "RS_BLOCKED"
    BY DEF PatchInv, ResultLast, Over
  <1>9. pc = "caller" /\ result # "RS_RUNNING" =>
          \/ /\ result = "RS_BLOCKED"
             /\ \/ job.avail_in = 0 /\ ~job.eof_in
                \/ job.avail_out = 0 /\ (put < Len(B) \/ M.verdict # "RS_DONE")
          \/ /\ result # "RS_BLOCKED" /\ result = M.verdict /\ job.out = B
             /\ result = "RS_DONE" => M.used = job.cursor + job.scoop_avail
    <2> HIDE DEF M, B
    <2>1. Says
      BY DEF MeantInv
    <2> QED
      BY <1>5, <2>1 DEF Says, OutLen, Ends, MeansEnd, M
  <1> HIDE DEF P, A, put, B, M
  <1>10. A.result # "RS_RUNNING" => MayAnswer(P, A)
    <2> SUFFICES ASSUME pc = "caller", result # "RS_RUNNING"
                 PROVE  MayAnswer(P, A)
      BY <1>7
    <2>1. A.put <= P.target
      BY <1>2, <1>4, <1>6
    <2>2. CASE /\ result = "RS_BLOCKED"
               /\ \/ job.avail_in = 0 /\ ~job.eof_in
                  \/ job.avail_out = 0 /\ (put < Len(B) \/ M.verdict # "RS_DONE")
      BY <1>4, <1>6, <2>1, <2>2 DEF MayAnswer, Blocked
    <2>3. CASE /\ result # "RS_BLOCKED" /\ result = M.verdict /\ job.out = B
               /\ result = "RS_DONE" => M.used = job.cursor + job.scoop_avail
      <3>1. put = Len(B)
        BY <2>3 DEF put
      <3> QED
        BY <1>4, <1>6, <2>1, <2>3, <3>1 DEF MayAnswer, Completed
    <2> QED
      BY <1>9, <2>2, <2>3
  <1>11. Over => result = P.verdict /\ job.out = B
    BY <1>4, <1>8, <1>9
  <1> QED
    BY <1>1, <1>10, <1>11 DEF PatchAnswers, P, A, put, B

\* Module Transducer means the same contract.
LEMMA SameContract ==
    /\ Whole!NoAnswer = NoAnswer
    /\ \A p, a : Whole!MayAnswer(p, a) = MayAnswer(p, a)
  BY DEF Whole!NoAnswer, NoAnswer, Whole!MayAnswer, MayAnswer, Whole!Blocked, Blocked,
         Whole!Completed, Completed

\* Each step is one of the transducer's, or none.
LEMMA PatchTransduces ==
    ASSUME PatchInv, PatchAnswers', [Next]_vars
    PROVE  [Whole!Next]_(Whole!vars)
  <1> DEFINE A == Answer(Len(job.out))
  <1>1. CASE UNCHANGED vars
    BY <1>1 DEF vars, engineVars, Whole!vars, Verdict, Over, Answer
  <1>2. ASSUME input' = input, ~Over, Whole!IsPrefixOf(job.out, job'.out)
        PROVE  Whole!Next
    <2>1. Verdict = "RS_RUNNING"
      BY <1>2 DEF Verdict
    <2>2. Whole!IsPrefixOf(job'.out, NewFile(input))
      BY <1>2 DEF PatchAnswers
    <2>3. A'.result # "RS_RUNNING" => MayAnswer(PatchPromise(input), A')
      BY <1>2 DEF PatchAnswers
    <2>4. \/ Verdict' = "RS_RUNNING"
          \/ Verdict' = PatchPromise(input).verdict /\ job'.out = NewFile(input)
      BY <1>2 DEF PatchAnswers, Verdict
    <2>5. NoAnswer.result = "RS_RUNNING"
      BY DEF NoAnswer
    <2>6. PICK x : x = A'
      OBVIOUS
    <2>7. x.result # Whole!NoAnswer.result => Whole!MayAnswer(PatchPromise(input), x)
      BY <2>3, <2>5, <2>6, SameContract
    <2>8. A'.result # Whole!NoAnswer.result => Whole!MayAnswer(PatchPromise(input), A')
      BY <2>6, <2>7
    <2> QED
      BY <1>2, <2>1, <2>2, <2>4, <2>8 DEF Whole!Next
  <1>3. JobOK(job)
    BY DEF PatchInv, PatchTypeOK
  <1>4. CASE Caller(CallIter)
    <2>1. input' = input /\ ~Over /\ job'.out = job.out
      BY <1>3, <1>4 DEF Caller, CallIter, Iter, Call, Over, JobOK, JobFields
    <2>2. Work(job, job)
      BY <1>3, WorkAddsUp
    <2>3. Whole!IsPrefixOf(job.out, job.out)
      BY <1>3, <2>2, WorkAppends DEF BeginsWith, Whole!IsPrefixOf
    <2> QED
      BY <1>2, <2>1, <2>3
  <1>5. CASE Step
    <2>1. input' = input /\ Work(job, job')
      BY <1>5, PatchStep
    <2>2. ~Over
      <3>1. pc # "caller"
        BY <1>5 DEF Step, StateFn, Caller, Catchup, Running, rs_patch_s_header, rs_patch_s_cmdbyte,
                    rs_patch_s_params, rs_patch_s_run, rs_patch_s_literal, rs_patch_s_copy,
                    rs_patch_s_copying
      <3> QED
        BY <3>1 DEF PatchInv, ResultLast, Over
    <2>3. PICK k : k = job'
      OBVIOUS
    <2>4. BeginsWith(k.out, job.out)
      BY <1>3, <2>1, <2>3, WorkAppends
    <2>5. Whole!IsPrefixOf(job.out, k.out)
      BY <2>4 DEF BeginsWith, Whole!IsPrefixOf
    <2> QED
      BY <1>2, <2>1, <2>2, <2>3, <2>5
  <1> QED
    BY <1>1, <1>4, <1>5 DEF Next, Stopped

\* The patch job implements module Transducer when the callback does not fail: for
\* every delta, well formed or not, and however it is cut into pieces - within the
\* magic number, a command's parameters, a literal or a copy - what is written
\* grows into the new file that the delta as a whole means, and is all of it at the
\* end, with the delta's verdict.
THEOREM PatchRefinement ==
    ASSUME CallbackFaults = {}
    PROVE  Spec => ImplementsTransducer
  <1>1. Init => Whole!Init
    <2> SUFFICES ASSUME Init
                 PROVE  Whole!Init
      OBVIOUS
    <2>1. /\ job.out = <<>> /\ pc = "caller" /\ result = "RS_RUNNING"
      BY DEF Init, EngineInit
    <2> QED
      BY <2>1, SameContract DEF Whole!Init, Verdict, Over, Answer
  <1>2. PatchInv /\ PatchAnswers' /\ [Next]_vars => [Whole!Next]_(Whole!vars)
    BY PatchTransduces
  <1>3. PatchInv /\ MeantInv => PatchAnswers
    BY PatchAnswersHold
  <1>4. Spec => Init /\ [][Next]_vars
    BY DEF Spec
  <1>5. Init /\ [][Next]_vars => [](PatchInv /\ MeantInv)
    BY MeantAlways
  <1> QED
    BY <1>1, <1>2, <1>3, <1>4, <1>5, PTL DEF ImplementsTransducer, Whole!Spec

-----------------------------------------------------------------------------
(* rs_job_drive.                                                           *)

\* A part of the input buffer holds the bytes of the file from base on, up to
\* where the file has been read.
Holds(f, next, avail, base) ==
    /\ next + avail <= f.buf_len
    /\ \A k \in 0 .. avail - 1 : f.buf[next + k] = base + k
    /\ f.pos = base + avail

\* Taking bytes from the front leaves the rest.
LEMMA TakeFront ==
    ASSUME NEW f, NEW next \in Nat, NEW avail \in Nat, NEW base \in Nat, NEW less \in Nat,
           less <= avail, Holds(f, next, avail, base)
    PROVE  Holds(f, next + (avail - less), less, base + (avail - less))
  <1>1. \A k \in 0 .. less - 1 :
           f.buf[(next + (avail - less)) + k] = (base + (avail - less)) + k
    <2> SUFFICES ASSUME NEW k \in 0 .. less - 1
                 PROVE  f.buf[(next + (avail - less)) + k] = (base + (avail - less)) + k
      OBVIOUS
    <2>1. (avail - less) + k \in 0 .. avail - 1
      OBVIOUS
    <2>2. f.buf[next + ((avail - less) + k)] = base + ((avail - less) + k)
      BY <2>1 DEF Holds
    <2>3. /\ next + ((avail - less) + k) = (next + (avail - less)) + k
          /\ base + ((avail - less) + k) = (base + (avail - less)) + k
      OBVIOUS
    <2> QED
      BY <2>2, <2>3
  <1>2. (next + (avail - less)) + less = next + avail /\ (base + (avail - less)) + less = base + avail
    OBVIOUS
  <1>3. next + avail <= f.buf_len /\ f.pos = base + avail
    BY DEF Holds
  <1> QED
    BY <1>1, <1>2, <1>3 DEF Holds

\* The numbers behind the buffers.
LEMMA DriveNumbers ==
    ASSUME PatchInv, DriveInv
    PROVE  /\ JobOK(job) /\ job.avail_in \in Nat /\ job.avail_out \in Nat /\ job.cursor \in Nat
           /\ job.scoop_avail \in Nat /\ job.cursor + job.scoop_avail \in Nat
           /\ OutLen(job) \in Nat /\ Len(input) \in Nat
           /\ buf.next_in \in Nat /\ buf.avail_in \in Nat /\ buf.avail_out \in Nat
           /\ in_fb.buf_len \in Nat \ {0} /\ in_fb.pos \in Nat /\ out_fb.buf_len \in Nat
           /\ ContentLen(out_fb) \in Nat /\ WaitingLen(out_fb) \in Nat
           /\ buf.avail_out <= MaxOut /\ MaxOut \in Nat
  <1>1. JobOK(job)
    BY DEF PatchInv, PatchTypeOK
  <1>2. /\ job.avail_in \in Nat /\ job.avail_out \in Nat /\ job.cursor \in Nat
        /\ job.scoop_avail \in Nat
    BY <1>1 DEF JobOK
  <1>3. /\ buf.next_in \in Nat /\ buf.avail_in \in Nat /\ buf.avail_out \in Nat
        /\ in_fb.buf_len \in Nat \ {0} /\ in_fb.pos \in Nat /\ out_fb.buf_len \in 1 .. MaxOut
        /\ out_fb.buf \in Seq(Nat) /\ out_fb.content \in Seq(Nat) /\ buf.next_out_set \in BOOLEAN
    BY DEF DriveInv, DriveTypeOK
  <1>4. ContentLen(out_fb) \in Nat /\ WaitingLen(out_fb) \in Nat
    BY <1>3, LenProperties DEF ContentLen, WaitingLen
  <1>5. MaxOut \in Nat
    BY JobAssumption
  <1>6. OutLen(job) \in Nat /\ Len(input) \in Nat
    BY <1>1, LengthFacts
  <1>7. out_fb.buf_len \in Nat /\ buf.avail_out <= MaxOut
    <2>1. \/ WaitingLen(out_fb) + buf.avail_out = out_fb.buf_len
          \/ buf.avail_out = 0
      BY <1>3 DEF DriveInv, OutputGiven
    <2>2. out_fb.buf_len \in Nat /\ out_fb.buf_len <= MaxOut
      BY <1>3, <1>5
    <2>3. buf.avail_out \in Nat
      BY <1>3
    <2> QED
      BY <1>4, <1>5, <2>1, <2>2, <2>3
  <1>8. job.cursor + job.scoop_avail \in Nat
    BY <1>2
  <1> QED
    BY <1>1, <1>2, <1>3, <1>4, <1>5, <1>6, <1>7, <1>8

\* rs_infilebuf_fill moves the tail to the front and reads behind it.
LEMMA DriveFills ==
    ASSUME PatchInv, DriveInv, rs_infilebuf_fill, UNCHANGED engineVars
    PROVE  DriveInv'
  <1> DEFINE base == job.cursor + job.scoop_avail
  <1>1. /\ drive = "fill" /\ out_fb' = out_fb
        /\ UNCHANGED <<input, job, statefn, pc, result, orig>>
    BY DEF rs_infilebuf_fill, engineVars
  <1>2. /\ job.avail_in \in Nat /\ base \in Nat /\ Len(input) \in Nat
        /\ buf.next_in \in Nat /\ buf.avail_in \in Nat
        /\ in_fb.buf_len \in Nat \ {0} /\ in_fb.pos \in Nat
    BY DriveNumbers
  <1> HIDE DEF base
  <1>3. Holds(in_fb, buf.next_in, buf.avail_in, base)
    BY <1>1 DEF DriveInv, InputBufferIntact, NextIn, AvailIn, Holds, base
  <1>4. CASE buf.eof_in \/ InBufFull
    <2>1. drive' = "iter" /\ buf' = buf /\ in_fb' = in_fb
      BY <1>4 DEF rs_infilebuf_fill, DriveGoes
    <2>2. DriveTypeOK' /\ InTurn'
      BY <1>1, <2>1 DEF DriveInv, DriveTypeOK, InTurn
    <2>3. InputGiven' /\ InputBufferIntact'
      BY <1>1, <2>1 DEF DriveInv, InputGiven, InputBufferIntact, NextIn, AvailIn
    <2>4. OutputGiven'
      BY <1>1, <2>1 DEF DriveInv, OutputGiven, Added, OutLen, ContentLen, WaitingLen
    <2> QED
      BY <2>2, <2>3, <2>4 DEF DriveInv
  <1>5. CASE ~(buf.eof_in \/ InBufFull)
    <2>1. PICK r \in fread(in_fb.buf_len - buf.avail_in) :
            /\ in_fb' = [in_fb EXCEPT !.buf = Filled(r.len), !.pos = @ + r.len,
                                      !.ferror = @ \/ r.ferror]
            /\ buf' = [buf EXCEPT !.next_in = 0, !.avail_in = @ + r.len,
                                  !.eof_in = r.len = 0 /\ ~r.ferror]
            /\ drive' \in {"iter", "returned"}
      BY <1>5 DEF rs_infilebuf_fill, DriveGoes, DriveReturns
    <2>2. /\ r.len \in Nat /\ buf.avail_in + r.len <= in_fb.buf_len
          /\ in_fb.pos + r.len <= Len(input)
          /\ r.len = 0 /\ ~r.ferror => in_fb.pos = Len(input)
      <3> DEFINE most == Lesser(in_fb.buf_len - buf.avail_in, Len(input) - in_fb.pos)
      <3>1. buf.avail_in < in_fb.buf_len
        BY <1>2, <1>5 DEF InBufFull
      <3>2. in_fb.pos <= Len(input)
        BY DEF DriveInv, InputGiven
      <3>3. /\ most \in Nat /\ most <= in_fb.buf_len - buf.avail_in
            /\ most <= Len(input) - in_fb.pos
            /\ most = 0 => in_fb.pos = Len(input)
        BY <1>2, <3>1, <3>2 DEF Lesser
      <3>4. \/ r = [len |-> most, ferror |-> FALSE]
            \/ \E k \in 0 .. most : r = [len |-> k, ferror |-> TRUE]
        <4> HIDE DEF most
        <4> QED
          BY <2>1 DEF fread, most
      <3> HIDE DEF most
      <3>5. r.len \in Nat /\ r.len <= most /\ (r.len = 0 /\ ~r.ferror => most = 0)
        BY <3>3, <3>4
      <3> QED
        BY <1>2, <3>2, <3>3, <3>5, SMTT(40)
    <2> DEFINE eof == r.len = 0 /\ ~r.ferror
    <2>3. /\ DOMAIN buf' = {"next_in", "avail_in", "eof_in", "avail_out", "next_out_set"}
          /\ buf'.next_in = 0 /\ buf'.avail_in = buf.avail_in + r.len /\ buf'.eof_in = eof
          /\ buf'.avail_out = buf.avail_out /\ buf'.next_out_set = buf.next_out_set
      BY <2>1 DEF DriveInv, DriveTypeOK
    <2>4. /\ DOMAIN in_fb' = {"buf_len", "buf", "pos", "ferror", "at_eof"}
          /\ in_fb'.buf_len = in_fb.buf_len /\ in_fb'.pos = in_fb.pos + r.len
          /\ in_fb'.buf = Filled(r.len)
      BY <2>1 DEF DriveInv, DriveTypeOK
    <2>5. DriveTypeOK'
      <3>1. buf'.next_in \in Nat /\ buf'.avail_in \in Nat /\ in_fb'.pos \in Nat
        BY <1>2, <2>2, <2>3, <2>4
      <3>2. buf'.eof_in \in BOOLEAN
        BY <2>3
      <3> QED
        BY <1>1, <2>1, <2>3, <2>4, <3>1, <3>2 DEF DriveInv, DriveTypeOK
    <2>6. InTurn'
      BY <1>1, <2>1 DEF DriveInv, InTurn
    <2>7. InputGiven'
      <3>1. job.avail_in <= buf.avail_in
        BY DEF DriveInv, InputGiven
      <3>2. job'.avail_in <= buf'.avail_in /\ in_fb'.pos <= Len(input')
        <4>1. job'.avail_in = job.avail_in /\ Len(input') = Len(input)
          BY <1>1
        <4> QED
          BY <1>2, <2>2, <2>3, <2>4, <3>1, <4>1
      <3>3. buf'.eof_in => in_fb'.pos = Len(input')
        <4> SUFFICES ASSUME eof
                     PROVE  in_fb'.pos = Len(input')
          BY <2>3
        <4>1. r.len = 0 /\ in_fb.pos = Len(input) /\ in_fb'.pos = in_fb.pos + r.len
          BY <2>2, <2>4
        <4>2. Len(input') = Len(input)
          BY <1>1
        <4> QED
          BY <1>2, <4>1, <4>2
      <3>4. ~job'.eof_in
        BY <1>1, <1>5 DEF DriveInv, InputGiven
      <3>5. drive' # "wait"
        BY <2>1
      <3> QED
        BY <3>2, <3>3, <3>4, <3>5 DEF InputGiven
    <2>8. Holds(in_fb', 0, buf.avail_in + r.len, base)
      <3>1. ASSUME NEW k \in 0 .. (buf.avail_in + r.len) - 1
            PROVE  Filled(r.len)[0 + k] = base + k
        <4>1. k \in 0 .. in_fb.buf_len - 1 /\ 0 + k = k
          BY <1>2, <2>2
        <4>2. CASE k < buf.avail_in
          <5>1. Filled(r.len)[k] = in_fb.buf[buf.next_in + k]
            BY <4>1, <4>2 DEF Filled
          <5>2. k \in 0 .. buf.avail_in - 1
            BY <1>2, <2>2, <4>2
          <5> QED
            BY <1>3, <4>1, <5>1, <5>2 DEF Holds
        <4>3. CASE ~(k < buf.avail_in)
          <5>1. k < buf.avail_in + r.len
            BY <1>2, <2>2
          <5>2. Filled(r.len)[k] = in_fb.pos + (k - buf.avail_in)
            BY <4>1, <4>3, <5>1 DEF Filled
          <5>3. in_fb.pos = base + buf.avail_in
            BY <1>3 DEF Holds
          <5> QED
            BY <1>2, <2>2, <4>1, <5>2, <5>3
        <4> QED
          BY <4>2, <4>3
      <3>2. 0 + (buf.avail_in + r.len) <= in_fb'.buf_len
        BY <1>2, <2>2, <2>4
      <3>3. in_fb'.pos = base + (buf.avail_in + r.len)
        <4>1. in_fb.pos = base + buf.avail_in
          BY <1>3 DEF Holds
        <4> QED
          BY <1>2, <2>2, <2>4, <4>1
      <3> QED
        BY <2>4, <3>1, <3>2, <3>3 DEF Holds
    <2>9. InputBufferIntact'
      <3>1. NextIn' = 0 /\ AvailIn' = buf.avail_in + r.len
        BY <2>1, <2>3 DEF NextIn, AvailIn
      <3>2. job'.cursor + job'.scoop_avail = base
        BY <1>1 DEF base
      <3> QED
        BY <2>8, <3>1, <3>2 DEF Holds, InputBufferIntact
    <2>10. OutputGiven'
      <3>1. drive' # "wait"
        BY <2>1
      <3> QED
        BY <1>1, <2>3, <3>1 DEF DriveInv, OutputGiven, Added, OutLen, ContentLen, WaitingLen
    <2> QED
      BY <2>5, <2>6, <2>7, <2>9, <2>10 DEF DriveInv
  <1> QED
    BY <1>4, <1>5

\* rs_outfilebuf_drain empties the buffer into the file, or fails.
LEMMA DriveDrains ==
    ASSUME PatchInv, DriveInv, rs_outfilebuf_drain, UNCHANGED engineVars
    PROVE  DriveInv'
  <1>1. /\ drive = "drain" /\ in_fb' = in_fb
        /\ UNCHANGED <<input, job, statefn, pc, result, orig>>
    BY DEF rs_outfilebuf_drain, engineVars
  <1>2. /\ job.avail_out \in Nat /\ OutLen(job) \in Nat /\ buf.avail_out \in Nat
        /\ out_fb.buf_len \in Nat /\ ContentLen(out_fb) \in Nat /\ WaitingLen(out_fb) \in Nat
    BY DriveNumbers
  <1>3. /\ DOMAIN buf = {"next_in", "avail_in", "eof_in", "avail_out", "next_out_set"}
        /\ DOMAIN out_fb = {"buf_len", "buf", "content", "ferror"}
        /\ out_fb.buf \in Seq(Nat) /\ out_fb.content \in Seq(Nat) /\ ~out_fb.ferror
        /\ out_fb.buf_len \in 1 .. MaxOut /\ buf.next_out_set \in BOOLEAN
        /\ out_fb.ferror = FALSE
    BY <1>1 DEF DriveInv, DriveTypeOK, InTurn
  <1>4. /\ OutLen(job) = ContentLen(out_fb) + WaitingLen(out_fb) + 0
        /\ \A i \in 1 .. ContentLen(out_fb) : job.out[i] = out_fb.content[i]
        /\ \A i \in 1 .. WaitingLen(out_fb) : job.out[ContentLen(out_fb) + i] = out_fb.buf[i]
        /\ job.avail_out <= buf.avail_out
        /\ buf.next_out_set => WaitingLen(out_fb) + buf.avail_out = out_fb.buf_len
        /\ ~buf.next_out_set => WaitingLen(out_fb) = 0 /\ buf.avail_out = 0
    BY <1>1, <1>3 DEF DriveInv, OutputGiven, Added
  <1>5. PICK n \in fwrite(Len(out_fb.buf)) :
          LET failed == n < Len(out_fb.buf)
          IN  /\ out_fb' = [out_fb EXCEPT !.content = @ \o SubSeq(out_fb.buf, 1, n),
                                          !.buf = IF failed THEN @ ELSE <<>>,
                                          !.ferror = @ \/ failed]
              /\ buf' = [buf EXCEPT !.avail_out = IF failed THEN @ ELSE out_fb.buf_len,
                                    !.next_out_set = TRUE]
              /\ IF failed THEN drive' = "returned"
                 ELSE drive' = IF result = "RS_DONE" THEN "returned" ELSE "fill"
    BY DEF rs_outfilebuf_drain, DriveReturns, DriveGoes
  <1>6. n \in Nat /\ n <= WaitingLen(out_fb)
    <2>1. n \in fwrite(WaitingLen(out_fb))
      BY DEF WaitingLen
    <2> QED
      BY <1>2, <2>1 DEF fwrite
  <1> DEFINE failed == n < WaitingLen(out_fb)
             bytes == SubSeq(out_fb.buf, 1, n)
  <1>7. /\ DOMAIN out_fb' = {"buf_len", "buf", "content", "ferror"}
        /\ out_fb'.content = out_fb.content \o bytes
        /\ out_fb'.buf = IF failed THEN out_fb.buf ELSE <<>>
        /\ out_fb'.ferror = failed /\ out_fb'.buf_len = out_fb.buf_len
    <2> DEFINE text == out_fb.content \o bytes
               rest == IF failed THEN out_fb.buf ELSE <<>>
               err == out_fb.ferror \/ failed
    <2>1. out_fb' = [out_fb EXCEPT !.content = text, !.buf = rest, !.ferror = err]
      BY <1>5 DEF WaitingLen
    <2>2. err = failed
      BY <1>3
    <2> HIDE DEF text, rest, err
    <2>3. /\ DOMAIN out_fb' = {"buf_len", "buf", "content", "ferror"}
          /\ out_fb'.content = text /\ out_fb'.buf = rest /\ out_fb'.ferror = err
          /\ out_fb'.buf_len = out_fb.buf_len
      BY <1>3, <2>1
    <2> QED
      BY <2>2, <2>3 DEF text, rest
  <1>8. /\ DOMAIN buf' = {"next_in", "avail_in", "eof_in", "avail_out", "next_out_set"}
        /\ buf'.avail_out = IF failed THEN buf.avail_out ELSE out_fb.buf_len
        /\ buf'.next_out_set = TRUE /\ buf'.next_in = buf.next_in
        /\ buf'.avail_in = buf.avail_in /\ buf'.eof_in = buf.eof_in
    BY <1>3, <1>5 DEF WaitingLen
  <1>9. IF failed THEN drive' = "returned"
        ELSE drive' = IF result = "RS_DONE" THEN "returned" ELSE "fill"
    BY <1>5 DEF WaitingLen
  <1>10. /\ bytes \in Seq(Nat) /\ Len(bytes) = n
         /\ \A i \in 1 .. n : bytes[i] = out_fb.buf[i]
    <2>1. 0 + n <= Len(out_fb.buf) /\ 0 \in Nat
      BY <1>2, <1>6 DEF WaitingLen
    <2>2. /\ SubSeq(out_fb.buf, 0 + 1, 0 + n) \in Seq(Nat)
          /\ Len(SubSeq(out_fb.buf, 0 + 1, 0 + n)) = n
          /\ \A i \in 1 .. n : SubSeq(out_fb.buf, 0 + 1, 0 + n)[i] = out_fb.buf[0 + i]
      BY <1>3, <1>6, <2>1, PieceFacts
    <2>3. SubSeq(out_fb.buf, 0 + 1, 0 + n) = bytes /\ \A i \in 1 .. n : 0 + i = i
      BY <1>6
    <2> QED
      BY <2>2, <2>3
  <1> HIDE DEF bytes
  <1>11. /\ out_fb'.content \in Seq(Nat) /\ ContentLen(out_fb') = ContentLen(out_fb) + n
         /\ \A i \in 1 .. ContentLen(out_fb) : out_fb'.content[i] = out_fb.content[i]
         /\ \A i \in 1 .. n : out_fb'.content[ContentLen(out_fb) + i] = out_fb.buf[i]
    <2> DEFINE old == out_fb.content
    <2>1. old \in Seq(Nat) /\ bytes \in Seq(Nat)
      BY <1>3, <1>10
    <2> HIDE DEF old
    <2>2. /\ old \o bytes \in Seq(Nat) /\ Len(old \o bytes) = Len(old) + Len(bytes)
          /\ \A i \in 1 .. Len(old) + Len(bytes) :
                (old \o bytes)[i] = IF i <= Len(old) THEN old[i] ELSE bytes[i - Len(old)]
      BY <2>1, ConcatProperties
    <2>3. Len(old) \in Nat
      BY <2>1, LenProperties
    <2>4. \A i \in 1 .. Len(old) : (old \o bytes)[i] = old[i]
      BY <1>6, <1>10, <2>2, <2>3
    <2>5. \A i \in 1 .. n : (old \o bytes)[Len(old) + i] = out_fb.buf[i]
      <3> SUFFICES ASSUME NEW i \in 1 .. n
                   PROVE  (old \o bytes)[Len(old) + i] = out_fb.buf[i]
        OBVIOUS
      <3>1. Len(old) + i \in 1 .. Len(old) + Len(bytes) /\ ~(Len(old) + i <= Len(old))
            /\ (Len(old) + i) - Len(old) = i
        BY <1>6, <1>10, <2>3
      <3> QED
        BY <1>10, <2>2, <3>1
    <2> QED
      BY <1>7, <1>10, <2>2, <2>4, <2>5 DEF ContentLen, old
  <1>12. /\ failed => WaitingLen(out_fb') = WaitingLen(out_fb)
         /\ ~failed => WaitingLen(out_fb') = 0 /\ n = WaitingLen(out_fb)
    BY <1>2, <1>6, <1>7 DEF WaitingLen
  <1>13. DriveTypeOK'
    <2>1. out_fb'.buf \in Seq(Nat) /\ buf'.avail_out \in Nat /\ out_fb'.ferror \in BOOLEAN
      BY <1>2, <1>3, <1>7, <1>8
    <2>2. drive' \in {"fill", "returned"}
      BY <1>9
    <2> QED
      BY <1>1, <1>3, <1>7, <1>8, <1>11, <2>1, <2>2 DEF DriveInv, DriveTypeOK
  <1>14. InTurn'
    BY <1>1, <1>7, <1>9 DEF DriveInv, InTurn
  <1>15. InputGiven' /\ InputBufferIntact'
    <2>1. drive' \in {"fill", "returned"}
      BY <1>9
    <2> QED
      BY <1>1, <1>8, <2>1 DEF DriveInv, InputGiven, InputBufferIntact, NextIn, AvailIn
  <1>16. OutputGiven'
    <2>0. OutLen(job') = OutLen(job) /\ job'.avail_out = job.avail_out /\ job'.out = job.out
          /\ Added' = 0
      <3>1. drive' # "wait"
        BY <1>9
      <3> QED
        BY <1>1, <3>1 DEF Added
    <2>1. CASE failed
      <3>1. buf.next_out_set
        BY <1>2, <1>4, <1>6, <2>1
      <3>2. out_fb'.ferror
        BY <1>7, <2>1
      <3>3. WaitingLen(out_fb') + buf'.avail_out = out_fb'.buf_len
        BY <1>4, <1>7, <1>8, <1>12, <2>1, <3>1
      <3>4. job'.avail_out <= buf'.avail_out
        BY <1>4, <1>8, <2>0, <2>1
      <3> QED
        BY <1>8, <3>2, <3>3, <3>4 DEF OutputGiven
    <2>2. CASE ~failed
      <3>1. WaitingLen(out_fb') = 0 /\ n = WaitingLen(out_fb) /\ buf'.avail_out = out_fb.buf_len
        BY <1>8, <1>12, <2>2
      <3>2. WaitingLen(out_fb') + buf'.avail_out = out_fb'.buf_len
        BY <1>2, <1>7, <3>1
      <3>3. job'.avail_out <= buf'.avail_out
        <4>1. buf.avail_out <= out_fb.buf_len
          BY <1>2, <1>3, <1>4
        <4>2. job.avail_out <= buf.avail_out
          BY <1>4
        <4> QED
          BY <1>2, <2>0, <3>1, <4>1, <4>2
      <3>4. OutLen(job') = ContentLen(out_fb') + WaitingLen(out_fb') + Added'
        <4>1. /\ OutLen(job) = ContentLen(out_fb) + WaitingLen(out_fb) + 0
              /\ ContentLen(out_fb') = ContentLen(out_fb) + n
          BY <1>4, <1>11
        <4> QED
          BY <1>2, <2>0, <3>1, <4>1
      <3>5. \A i \in 1 .. ContentLen(out_fb') : job'.out[i] = out_fb'.content[i]
        <4> SUFFICES ASSUME NEW i \in 1 .. ContentLen(out_fb')
                     PROVE  job.out[i] = out_fb'.content[i]
          BY <2>0
        <4>1. ContentLen(out_fb') = ContentLen(out_fb) + n
          BY <1>11
        <4>2. CASE i <= ContentLen(out_fb)
          <5>1. i \in 1 .. ContentLen(out_fb)
            BY <1>2, <1>6, <4>1, <4>2
          <5> QED
            BY <1>4, <1>11, <5>1
        <4>3. CASE ~(i <= ContentLen(out_fb))
          <5>1. PICK k \in 1 .. n : i = ContentLen(out_fb) + k
            <6>1. i - ContentLen(out_fb) \in 1 .. n /\ i = ContentLen(out_fb) + (i - ContentLen(out_fb))
              BY <1>2, <1>6, <4>1, <4>3
            <6> QED
              BY <6>1
          <5>2. job.out[ContentLen(out_fb) + k] = out_fb.buf[k]
            BY <1>4, <3>1
          <5>3. out_fb'.content[ContentLen(out_fb) + k] = out_fb.buf[k]
            BY <1>11
          <5> QED
            BY <5>1, <5>2, <5>3
        <4> QED
          BY <4>2, <4>3
      <3>6. 1 .. WaitingLen(out_fb') = {}
        BY <3>1
      <3> QED
        BY <1>8, <3>2, <3>3, <3>4, <3>5, <3>6 DEF OutputGiven
    <2> QED
      BY <2>1, <2>2
  <1> QED
    BY <1>13, <1>14, <1>15, <1>16 DEF DriveInv

\* While rs_job_iter runs, the output buffer together with what the job has
\* added to it continues the file.
LEMMA OutBufFacts ==
    ASSUME PatchInv, DriveInv, drive = "wait"
    PROVE  LET w == out_fb.buf \o Written
           IN  /\ w \in Seq(Nat) /\ Len(w) = WaitingLen(out_fb) + Added /\ Added \in Nat
               /\ \A i \in 1 .. WaitingLen(out_fb) + Added : job.out[ContentLen(out_fb) + i] = w[i]
  <1> DEFINE o == job.out
             m == OutLen(job) - Added
             b == out_fb.buf
  <1>1. /\ OutLen(job) \in Nat /\ ContentLen(out_fb) \in Nat /\ WaitingLen(out_fb) \in Nat
        /\ buf.avail_out \in Nat /\ job.avail_out \in Nat /\ o \in Seq(Nat)
    BY DriveNumbers DEF JobOK
  <1>2. b \in Seq(Nat) /\ WaitingLen(out_fb) = Len(b)
    BY DEF DriveInv, DriveTypeOK, WaitingLen
  <1>3. /\ job.avail_out <= buf.avail_out
        /\ OutLen(job) = ContentLen(out_fb) + WaitingLen(out_fb) + Added
        /\ \A i \in 1 .. WaitingLen(out_fb) : o[ContentLen(out_fb) + i] = b[i]
    BY DEF DriveInv, OutputGiven, InTurn
  <1>4. Added = buf.avail_out - job.avail_out
    BY DEF Added
  <1>5. Added \in Nat
    BY <1>1, <1>3, <1>4
  <1>6. m \in Nat /\ m + Added = OutLen(job) /\ m = ContentLen(out_fb) + WaitingLen(out_fb)
    BY <1>1, <1>3, <1>5
  <1>7. OutLen(job) = Len(o)
    BY DEF OutLen
  <1>8. Written = SubSeq(o, m + 1, m + Added)
    <2>1. Written = SubSeq(o, Len(o) - Added + 1, Len(o))
      BY <1>4 DEF Written
    <2> QED
      BY <1>6, <1>7, <2>1
  <1> HIDE DEF o, m, b
  <1>9. /\ Written \in Seq(Nat) /\ Len(Written) = Added
        /\ \A i \in 1 .. Added : Written[i] = o[m + i]
    <2>1. m + Added <= Len(o)
      BY <1>1, <1>6, <1>7
    <2> QED
      BY <1>1, <1>5, <1>6, <1>8, <2>1, PieceFacts, ZenonT(60)
  <1>10. /\ b \o Written \in Seq(Nat) /\ Len(b \o Written) = Len(b) + Len(Written)
         /\ \A i \in 1 .. Len(b) + Len(Written) :
               (b \o Written)[i] = IF i <= Len(b) THEN b[i] ELSE Written[i - Len(b)]
    BY <1>2, <1>9, ConcatProperties
  <1>11. ASSUME NEW i \in 1 .. WaitingLen(out_fb) + Added
         PROVE  o[ContentLen(out_fb) + i] = (b \o Written)[i]
    <2>1. i \in 1 .. Len(b) + Len(Written)
      BY <1>2, <1>9
    <2>2. CASE i <= WaitingLen(out_fb)
      <3>1. i \in 1 .. WaitingLen(out_fb) /\ (b \o Written)[i] = b[i]
        BY <1>1, <1>2, <1>5, <1>10, <2>1, <2>2
      <3> QED
        BY <1>3, <3>1
    <2>3. CASE ~(i <= WaitingLen(out_fb))
      <3>1. PICK k \in 1 .. Added : i = WaitingLen(out_fb) + k
        <4>1. /\ i - WaitingLen(out_fb) \in 1 .. Added
              /\ i = WaitingLen(out_fb) + (i - WaitingLen(out_fb))
          BY <1>1, <1>5, <2>3
        <4> QED
          BY <4>1
      <3>2. (b \o Written)[i] = Written[k]
        <4>1. i - Len(b) = k
          BY <1>1, <1>2, <1>5, <3>1
        <4> QED
          BY <1>2, <1>10, <2>1, <2>3, <4>1
      <3>3. ContentLen(out_fb) + i = m + k
        BY <1>1, <1>5, <1>6, <3>1
      <3> QED
        BY <1>9, <3>2, <3>3
    <2> QED
      BY <2>2, <2>3
  <1>12. Len(b \o Written) = WaitingLen(out_fb) + Added
    BY <1>2, <1>9, <1>10
  <1> QED
    BY <1>5, <1>10, <1>11, <1>12 DEF o, b

\* rs_job_iter returns to rs_job_drive.
LEMMA DriveChecks ==
    ASSUME PatchInv, DriveInv, DriveCheck, UNCHANGED engineVars
    PROVE  DriveInv'
  <1> DEFINE w == out_fb.buf \o Written
             base == job.cursor + job.scoop_avail
  <1>1. /\ drive = "wait" /\ pc = "caller" /\ in_fb' = in_fb
        /\ UNCHANGED <<input, job, statefn, pc, result, orig>>
        /\ drive' \in {"drain", "returned"}
        /\ drive' = "drain" => result \in {"RS_DONE", "RS_BLOCKED"}
    BY DEF DriveCheck, engineVars, DriveGoes, DriveReturns
  <1>2. /\ DOMAIN buf' = {"next_in", "avail_in", "eof_in", "avail_out", "next_out_set"}
        /\ buf'.next_in = buf.next_in + (buf.avail_in - job.avail_in)
        /\ buf'.avail_in = job.avail_in /\ buf'.eof_in = buf.eof_in
        /\ buf'.avail_out = job.avail_out /\ buf'.next_out_set = buf.next_out_set
    BY DEF DriveCheck, Taken, DriveInv, DriveTypeOK
  <1>3. /\ DOMAIN out_fb' = {"buf_len", "buf", "content", "ferror"}
        /\ out_fb'.buf = w /\ out_fb'.content = out_fb.content
        /\ out_fb'.ferror = out_fb.ferror /\ out_fb'.buf_len = out_fb.buf_len
    <2>1. out_fb' = [out_fb EXCEPT !.buf = w]
      BY DEF DriveCheck
    <2> HIDE DEF w
    <2> QED
      BY <2>1 DEF DriveInv, DriveTypeOK
  <1>4. /\ job.avail_in \in Nat /\ job.avail_out \in Nat /\ base \in Nat /\ buf.next_in \in Nat
        /\ buf.avail_in \in Nat /\ buf.avail_out \in Nat /\ OutLen(job) \in Nat
        /\ ContentLen(out_fb) \in Nat /\ WaitingLen(out_fb) \in Nat /\ out_fb.buf_len \in Nat
    BY DriveNumbers
  <1>5. /\ job.avail_in <= buf.avail_in /\ job.avail_out <= buf.avail_out
        /\ job.eof_in = buf.eof_in /\ ~out_fb.ferror
    BY <1>1 DEF DriveInv, InputGiven, OutputGiven, InTurn
  <1>6. /\ w \in Seq(Nat) /\ Len(w) = WaitingLen(out_fb) + Added /\ Added \in Nat
        /\ \A i \in 1 .. WaitingLen(out_fb) + Added : job.out[ContentLen(out_fb) + i] = w[i]
    BY <1>1, OutBufFacts
  <1> HIDE DEF w
  <1>7. DriveTypeOK'
    <2>1. buf'.next_in \in Nat /\ buf'.avail_in \in Nat /\ buf'.avail_out \in Nat
      BY <1>2, <1>4, <1>5
    <2>2. out_fb'.buf \in Seq(Nat)
      BY <1>3, <1>6
    <2> QED
      BY <1>1, <1>2, <1>3, <2>1, <2>2 DEF DriveInv, DriveTypeOK
  <1>8. InTurn'
    BY <1>1, <1>3, <1>5 DEF InTurn
  <1>9. InputGiven'
    <2>1. job.avail_in <= job.avail_in
      BY <1>4
    <2> QED
      BY <1>1, <1>2, <1>5, <2>1 DEF DriveInv, InputGiven
  <1>10. InputBufferIntact'
    <2>1. NextIn' = NextIn /\ AvailIn' = AvailIn
      BY <1>1, <1>2 DEF NextIn, AvailIn, Taken
    <2> QED
      BY <1>1, <2>1 DEF DriveInv, InputBufferIntact
  <1>11. OutputGiven'
    <2>1. /\ WaitingLen(out_fb') = WaitingLen(out_fb) + Added /\ ContentLen(out_fb') = ContentLen(out_fb)
          /\ OutLen(job') = OutLen(job) /\ job'.out = job.out /\ job'.avail_out = job.avail_out
      BY <1>1, <1>3, <1>6 DEF WaitingLen, ContentLen
    <2>2. Added' = 0 /\ Added = buf.avail_out - job.avail_out
      BY <1>1 DEF Added
    <2>3. /\ buf.next_out_set => WaitingLen(out_fb) + buf.avail_out = out_fb.buf_len
          /\ ~buf.next_out_set => WaitingLen(out_fb) = 0 /\ buf.avail_out = 0
          /\ OutLen(job) = ContentLen(out_fb) + WaitingLen(out_fb) + Added
          /\ \A i \in 1 .. ContentLen(out_fb) : job.out[i] = out_fb.content[i]
      BY <1>5 DEF DriveInv, OutputGiven
    <2>4. buf'.next_out_set => WaitingLen(out_fb') + buf'.avail_out = out_fb'.buf_len
      BY <1>2, <1>3, <1>4, <1>5, <2>1, <2>2, <2>3
    <2>5. ~buf'.next_out_set => WaitingLen(out_fb') = 0 /\ buf'.avail_out = 0
      BY <1>2, <1>4, <1>5, <2>1, <2>2, <2>3
    <2>6. OutLen(job') = ContentLen(out_fb') + WaitingLen(out_fb') + Added'
      <3>1. OutLen(job) = ContentLen(out_fb) + WaitingLen(out_fb) + Added
        BY <2>3
      <3> QED
        BY <1>4, <1>6, <2>1, <2>2, <3>1
    <2>7. job'.avail_out <= buf'.avail_out
      BY <1>2, <1>4, <2>1
    <2>8. \A i \in 1 .. WaitingLen(out_fb') : job'.out[ContentLen(out_fb') + i] = out_fb'.buf[i]
      BY <1>3, <1>6, <2>1
    <2>9. \A i \in 1 .. ContentLen(out_fb') : job'.out[i] = out_fb'.content[i]
      BY <1>3, <2>1, <2>3
    <2> QED
      BY <2>4, <2>5, <2>6, <2>7, <2>8, <2>9 DEF OutputGiven
  <1> QED
    BY <1>7, <1>8, <1>9, <1>10, <1>11 DEF DriveInv

\* rs_job_drive calls rs_job_iter as a caller may: with the bytes that were read
\* since, with the end of the input when the file has ended, and with all the
\* room there was or more.
LEMMA DriveCalls ==
    ASSUME PatchInv, DriveInv, Caller(DriveIter)
    PROVE  Caller(CallIter) /\ DriveInv'
  <1> DEFINE n == buf.avail_in - job.avail_in
             base == job.cursor + job.scoop_avail
  <1>1. /\ drive = "iter" /\ Call(n, buf.eof_in, buf.avail_out) /\ drive' = "wait"
        /\ UNCHANGED <<buf, in_fb, out_fb>>
    BY DEF Caller, DriveIter, DriveGoes
  <1>2. /\ JobOK(job) /\ job.avail_in \in Nat /\ job.avail_out \in Nat /\ job.cursor \in Nat
        /\ job.scoop_avail \in Nat /\ base \in Nat /\ OutLen(job) \in Nat /\ Len(input) \in Nat
        /\ buf.next_in \in Nat /\ buf.avail_in \in Nat /\ buf.avail_out \in Nat
        /\ in_fb.pos \in Nat /\ buf.avail_out <= MaxOut /\ MaxOut \in Nat
        /\ ContentLen(out_fb) \in Nat /\ WaitingLen(out_fb) \in Nat
    BY DriveNumbers
  <1>3. /\ job.avail_in <= buf.avail_in /\ in_fb.pos <= Len(input)
        /\ buf.eof_in => in_fb.pos = Len(input)
        /\ job.eof_in => buf.eof_in /\ job.avail_in = buf.avail_in
        /\ job.avail_out <= buf.avail_out /\ buf.eof_in \in BOOLEAN /\ ~out_fb.ferror
        /\ result \in {"RS_RUNNING", "RS_BLOCKED"}
    BY <1>1 DEF DriveInv, DriveTypeOK, InputGiven, OutputGiven, InTurn
  <1>4. Holds(in_fb, buf.next_in, buf.avail_in, base)
    BY <1>1 DEF DriveInv, InputBufferIntact, NextIn, AvailIn, Holds
  <1>5. in_fb.pos = base + buf.avail_in
    BY <1>4 DEF Holds
  <1>6. /\ n \in Nat /\ n \in 0 .. Len(input) /\ job.avail_in + n = buf.avail_in
        /\ job.cursor + job.scoop_avail + job.avail_in + n = in_fb.pos
        /\ job.cursor + rs_scoop_avail(job) + n = in_fb.pos
    <2>1. job.avail_in <= buf.avail_in /\ in_fb.pos <= Len(input)
      BY <1>3
    <2>2. /\ job.avail_in \in Nat /\ job.cursor \in Nat /\ job.scoop_avail \in Nat
          /\ Len(input) \in Nat /\ buf.avail_in \in Nat
      BY <1>2
    <2>3. rs_scoop_avail(job) = job.scoop_avail + job.avail_in
      BY DEF rs_scoop_avail
    <2> QED
      BY <1>5, <2>1, <2>2, <2>3
  <1> HIDE DEF n
  <1>7. Iter(n, buf.eof_in, buf.avail_out)
    <2>1. n > 0 => ~job.eof_in
      <3> SUFFICES ASSUME job.eof_in
                   PROVE  n = 0
        OBVIOUS
      <3>1. job.avail_in + n = job.avail_in /\ job.avail_in \in Nat /\ n \in Nat
        BY <1>2, <1>3, <1>6
      <3> QED
        BY <3>1
    <2>2. IF job.eof_in THEN buf.eof_in
          ELSE buf.eof_in => job.cursor + rs_scoop_avail(job) + n = Len(input)
      BY <1>3, <1>6
    <2>3. job.cursor + rs_scoop_avail(job) + n <= Len(input)
      BY <1>3, <1>6
    <2> QED
      BY <1>1, <1>3, <2>1, <2>2, <2>3 DEF Iter
  <1>8. Caller(CallIter)
    <2>1. buf.avail_out \in 0 .. MaxOut /\ buf.eof_in \in BOOLEAN /\ n \in 0 .. Len(input)
      BY <1>2, <1>3, <1>6
    <2>2. CallIter
      BY <1>7, <2>1 DEF CallIter
    <2> QED
      BY <2>2 DEF Caller
  <1>9. /\ job'.cursor = job.cursor /\ job'.scoop_avail = job.scoop_avail
        /\ job'.avail_in = buf.avail_in /\ job'.eof_in = buf.eof_in
        /\ job'.avail_out = buf.avail_out /\ job'.out = job.out
        /\ input' = input /\ result' = result
    <2>1. n \in Int /\ job.avail_in + n \in Nat
          /\ job.cursor + job.scoop_avail + job.avail_in + n <= Len(input)
      BY <1>2, <1>3, <1>6, SMTT(40)
    <2>2. /\ job'.cursor = job.cursor /\ job'.scoop_avail = job.scoop_avail
          /\ job'.avail_in = job.avail_in + n /\ job'.eof_in = buf.eof_in
          /\ job'.avail_out = buf.avail_out /\ job'.out = job.out
          /\ UNCHANGED <<input, statefn, result>>
      BY <1>1, <1>2, <1>3, <2>1, CallFacts
    <2> QED
      BY <1>6, <2>2
  <1>10. DriveTypeOK' /\ InTurn'
    BY <1>1, <1>3 DEF DriveInv, DriveTypeOK, InTurn
  <1>11. InputGiven'
    <2>1. buf.avail_in <= buf.avail_in
      BY <1>2
    <2> QED
      BY <1>1, <1>3, <1>9, <2>1 DEF InputGiven
  <1>12. InputBufferIntact'
    <2>1. NextIn' = buf.next_in /\ AvailIn' = buf.avail_in
      <3>1. NextIn' = buf.next_in + (buf.avail_in - buf.avail_in) /\ AvailIn' = buf.avail_in
        BY <1>1, <1>9 DEF NextIn, AvailIn, Taken
      <3> QED
        BY <1>2, <3>1
    <2>2. job'.cursor + job'.scoop_avail = base
      BY <1>9
    <2> QED
      BY <1>1, <1>4, <2>1, <2>2 DEF Holds, InputBufferIntact
  <1>13. OutputGiven'
    <2>1. Added' = 0 /\ Added = 0
      <3>1. Added' = buf.avail_out - buf.avail_out
        BY <1>1, <1>9 DEF Added
      <3>2. Added = 0
        BY <1>1 DEF Added
      <3> QED
        BY <1>2, <3>1, <3>2
    <2>2. /\ OutLen(job') = OutLen(job) /\ ContentLen(out_fb') = ContentLen(out_fb)
          /\ WaitingLen(out_fb') = WaitingLen(out_fb)
      BY <1>1, <1>9 DEF OutLen
    <2>3. job'.avail_out <= buf'.avail_out
      BY <1>1, <1>2, <1>9
    <2> QED
      BY <1>1, <1>9, <2>1, <2>2, <2>3 DEF DriveInv, OutputGiven
  <1> QED
    BY <1>8, <1>10, <1>11, <1>12, <1>13 DEF DriveInv

\* What the job does inside rs_job_iter.
LEMMA DriveWaits ==
    ASSUME PatchInv, DriveInv, Inside(Step)
    PROVE  DriveInv'
  <1> DEFINE base == job.cursor + job.scoop_avail
  <1>1. drive = "wait" /\ UNCHANGED <<drive, drive_result, buf, in_fb, out_fb>> /\ Step
    BY DEF Inside, driveVars
  <1>2. Work(job, job') /\ JobOK(job') /\ input' = input
    BY <1>1, PatchStep DEF Work
  <1>3. /\ job.avail_in \in Nat /\ job.avail_out \in Nat /\ base \in Nat /\ OutLen(job) \in Nat
        /\ buf.next_in \in Nat /\ buf.avail_in \in Nat /\ buf.avail_out \in Nat
        /\ ContentLen(out_fb) \in Nat /\ WaitingLen(out_fb) \in Nat
        /\ job.cursor \in Nat /\ job.scoop_avail \in Nat
    BY DriveNumbers
  <1>4. /\ job'.avail_in \in Nat /\ job'.avail_out \in Nat /\ job'.cursor \in Nat
        /\ job'.scoop_avail \in Nat
    BY <1>2 DEF JobOK
  <1>5. /\ job'.eof_in = job.eof_in /\ job'.avail_in <= job.avail_in
        /\ job'.cursor + job'.scoop_avail + job'.avail_in
             = job.cursor + job.scoop_avail + job.avail_in
        /\ job'.avail_out <= job.avail_out
        /\ OutLen(job') + job'.avail_out = OutLen(job) + job.avail_out
        /\ \A i \in 1 .. OutLen(job) : job'.out[i] = job.out[i]
    BY <1>2 DEF Work
  <1>6. /\ job.avail_in <= buf.avail_in /\ job.eof_in = buf.eof_in /\ ~out_fb.ferror
        /\ job.avail_out <= buf.avail_out
    BY <1>1 DEF DriveInv, InputGiven, OutputGiven, InTurn
  <1>7. DriveTypeOK' /\ InTurn'
    BY <1>1, <1>6 DEF DriveInv, DriveTypeOK, InTurn
  <1>8. InputGiven'
    <2>1. job'.avail_in <= buf.avail_in
      BY <1>3, <1>4, <1>5, <1>6
    <2> QED
      BY <1>1, <1>2, <1>5, <1>6, <2>1 DEF DriveInv, InputGiven
  <1>9. InputBufferIntact'
    <2> DEFINE next == buf.next_in + (buf.avail_in - job.avail_in)
    <2>1. Holds(in_fb, next, job.avail_in, base)
      BY <1>1 DEF DriveInv, InputBufferIntact, NextIn, AvailIn, Taken, Holds
    <2>2. next \in Nat
      BY <1>3, <1>6
    <2>3. PICK less : less = job'.avail_in
      OBVIOUS
    <2>4. less \in Nat /\ less <= job.avail_in
      BY <1>4, <1>5, <2>3
    <2> HIDE DEF next
    <2>5. Holds(in_fb, next + (job.avail_in - less), less, base + (job.avail_in - less))
      BY <1>3, <2>1, <2>2, <2>4, TakeFront
    <2>6. /\ next + (job.avail_in - less) = buf.next_in + (buf.avail_in - less)
          /\ base + (job.avail_in - less) = job'.cursor + job'.scoop_avail
      <3>1. job'.cursor + job'.scoop_avail + less = job.cursor + job.scoop_avail + job.avail_in
        BY <1>5, <2>3
      <3> QED
        BY <1>3, <1>4, <2>4, <3>1 DEF next
    <2>7. NextIn' = buf.next_in + (buf.avail_in - less) /\ AvailIn' = less
      BY <1>1, <2>3 DEF NextIn, AvailIn, Taken
    <2> QED
      BY <1>1, <2>5, <2>6, <2>7 DEF Holds, InputBufferIntact
  <1>10. OutputGiven'
    <2>1. Added = buf.avail_out - job.avail_out /\ Added' = buf.avail_out - job'.avail_out
      BY <1>1 DEF Added
    <2>2. /\ OutLen(job) = ContentLen(out_fb) + WaitingLen(out_fb) + Added
          /\ \A i \in 1 .. ContentLen(out_fb) : job.out[i] = out_fb.content[i]
          /\ \A i \in 1 .. WaitingLen(out_fb) : job.out[ContentLen(out_fb) + i] = out_fb.buf[i]
      BY <1>6 DEF DriveInv, OutputGiven
    <2>3. OutLen(job') = ContentLen(out_fb) + WaitingLen(out_fb) + Added'
      <3>1. /\ OutLen(job') + job'.avail_out = OutLen(job) + job.avail_out
            /\ OutLen(job) = ContentLen(out_fb) + WaitingLen(out_fb) + Added
        BY <1>5, <2>2
      <3>2. OutLen(job') \in Nat
        BY <1>2, LengthFacts
      <3> QED
        BY <1>3, <1>4, <2>1, <3>1, <3>2
    <2>4. job'.avail_out <= buf.avail_out
      BY <1>3, <1>4, <1>5, <1>6
    <2>5. ContentLen(out_fb) + WaitingLen(out_fb) <= OutLen(job)
      <3>1. OutLen(job) = ContentLen(out_fb) + WaitingLen(out_fb) + Added
        BY <2>2
      <3> QED
        BY <1>3, <1>6, <2>1, <3>1
    <2>6. \A i \in 1 .. ContentLen(out_fb) : job'.out[i] = out_fb.content[i]
      <3> SUFFICES ASSUME NEW i \in 1 .. ContentLen(out_fb)
                   PROVE  job'.out[i] = out_fb.content[i]
        OBVIOUS
      <3>1. i \in 1 .. OutLen(job)
        BY <1>3, <2>5
      <3> QED
        BY <1>5, <2>2, <3>1
    <2>7. \A i \in 1 .. WaitingLen(out_fb) : job'.out[ContentLen(out_fb) + i] = out_fb.buf[i]
      <3> SUFFICES ASSUME NEW i \in 1 .. WaitingLen(out_fb)
                   PROVE  job'.out[ContentLen(out_fb) + i] = out_fb.buf[i]
        OBVIOUS
      <3>1. ContentLen(out_fb) + i \in 1 .. OutLen(job)
        BY <1>3, <2>5
      <3> QED
        BY <1>5, <2>2, <3>1
    <2> QED
      BY <1>1, <2>3, <2>4, <2>6, <2>7 DEF DriveInv, OutputGiven
  <1> QED
    BY <1>7, <1>8, <1>9, <1>10 DEF DriveInv

\* rs_patch_file starts with empty buffers at the start of both files.
LEMMA DriveStarts == FileInit => DriveInv
  <1> SUFFICES ASSUME Init, DriveInit
               PROVE  DriveInv
    BY DEF FileInit
  <1>1. /\ job.cursor = 0 /\ job.scoop_avail = 0 /\ job.avail_in = 0
        /\ job.eof_in = FALSE /\ job.avail_out = 0 /\ OutLen(job) = 0
        /\ pc = "caller" /\ result = "RS_RUNNING" /\ Len(input) \in Nat
    <2>1. input \in Seq(Nat)
      BY PatchAssumption DEF Init
    <2> QED
      BY <2>1, EngineInitFacts, LenProperties DEF Init
  <1>2. /\ drive = "fill"
        /\ buf = [next_in |-> 0, avail_in |-> 0, eof_in |-> FALSE, avail_out |-> 0,
                  next_out_set |-> FALSE]
    BY DEF DriveInit
  <1>3. PICK n \in InBufLens, r \in EofResults :
          in_fb = [buf_len |-> n, buf |-> [k \in 0 .. n - 1 |-> Unused], pos |-> 0,
                   ferror |-> FALSE, at_eof |-> r]
    BY DEF DriveInit
  <1>4. PICK m \in OutBufLens :
          out_fb = [buf_len |-> m, buf |-> <<>>, content |-> <<>>, ferror |-> FALSE]
    BY DEF DriveInit
  <1>5. n \in Nat \ {0} /\ m \in 1 .. MaxOut
    BY DriveAssumption
  <1>6. /\ DOMAIN in_fb = {"buf_len", "buf", "pos", "ferror", "at_eof"}
        /\ in_fb.buf_len = n /\ in_fb.pos = 0
    BY <1>3
  <1>7. /\ DOMAIN out_fb = {"buf_len", "buf", "content", "ferror"}
        /\ out_fb.buf_len = m /\ out_fb.buf = <<>> /\ out_fb.content = <<>>
        /\ out_fb.ferror = FALSE
    BY <1>4
  <1>8. ContentLen(out_fb) = 0 /\ WaitingLen(out_fb) = 0
    BY <1>7 DEF ContentLen, WaitingLen
  <1>9. DriveTypeOK
    <2>1. /\ DOMAIN buf = {"next_in", "avail_in", "eof_in", "avail_out", "next_out_set"}
          /\ buf.next_in = 0 /\ buf.avail_in = 0 /\ buf.avail_out = 0
          /\ buf.eof_in = FALSE /\ buf.next_out_set = FALSE
      BY <1>2
    <2>2. out_fb.buf \in Seq(Nat) /\ out_fb.content \in Seq(Nat) /\ out_fb.buf_len \in 1 .. MaxOut
          /\ out_fb.ferror \in BOOLEAN
      <3>1. <<>> \in Seq(Nat)
        OBVIOUS
      <3>2. out_fb.buf_len \in 1 .. MaxOut
        BY <1>5, <1>7
      <3>3. out_fb.buf \in Seq(Nat) /\ out_fb.content \in Seq(Nat)
        BY <1>7, <3>1
      <3>4. out_fb.ferror \in BOOLEAN
        BY <1>7
      <3> QED
        BY <3>2, <3>3, <3>4
    <2>3. in_fb.buf_len \in Nat \ {0} /\ in_fb.pos \in Nat
      BY <1>5, <1>6
    <2> QED
      BY <1>2, <1>6, <1>7, <2>1, <2>2, <2>3 DEF DriveTypeOK
  <1>10. InTurn /\ InputGiven
    BY <1>1, <1>2, <1>6, <1>7 DEF InTurn, InputGiven
  <1>11. InputBufferIntact
    <2>1. NextIn = 0 /\ AvailIn = 0
      BY <1>2 DEF NextIn, AvailIn
    <2>2. 0 + 0 <= in_fb.buf_len /\ job.cursor + job.scoop_avail + 0 = 0 /\ 0 .. 0 - 1 = {}
      BY <1>1, <1>5, <1>6
    <2> QED
      BY <1>6, <2>1, <2>2 DEF InputBufferIntact
  <1>12. OutputGiven
    <2>1. Added = 0
      BY <1>2 DEF Added
    <2>2. 1 .. 0 = {}
      OBVIOUS
    <2> QED
      BY <1>1, <1>2, <1>7, <1>8, <2>1, <2>2 DEF OutputGiven
  <1> QED
    BY <1>9, <1>10, <1>11, <1>12 DEF DriveInv

\* A step of rs_patch_file keeps both invariants, and is a step of module Patch.
LEMMA DriveNext ==
    ASSUME PatchInv, DriveInv, [FileNext]_fileVars
    PROVE  PatchInv' /\ DriveInv' /\ [Next]_vars
  <1>1. CASE Caller(DriveIO)
    <2>1. UNCHANGED engineVars /\ UNCHANGED vars
      BY <1>1 DEF Caller, DriveIO, vars, engineVars, commandVars
    <2>2. DriveInv'
      BY <1>1, <2>1, DriveFills, DriveDrains, DriveChecks DEF Caller, DriveIO
    <2> QED
      BY <2>1, <2>2, PatchSame
  <1>2. CASE Caller(DriveIter)
    <2>1. Caller(CallIter) /\ DriveInv'
      BY <1>2, DriveCalls
    <2> QED
      BY <2>1, PatchCallIter DEF Next
  <1>3. CASE Inside(Step)
    <2>1. Step
      BY <1>3 DEF Inside
    <2> QED
      BY <1>3, <2>1, DriveWaits, PatchStep DEF Next
  <1>4. CASE UNCHANGED fileVars
    <2>1. UNCHANGED vars /\ UNCHANGED <<input, job, statefn, pc, result, orig>>
          /\ UNCHANGED <<drive, drive_result, buf, in_fb, out_fb>>
      BY <1>4 DEF fileVars, driveVars, vars, engineVars
    <2>2. DriveTypeOK' /\ InTurn' /\ InputGiven'
      BY <2>1 DEF DriveInv, DriveTypeOK, InTurn, InputGiven
    <2>3. InputBufferIntact'
      BY <2>1 DEF DriveInv, InputBufferIntact, NextIn, AvailIn, Taken
    <2>4. OutputGiven'
      BY <2>1 DEF DriveInv, OutputGiven, Added
    <2> QED
      BY <2>1, <2>2, <2>3, <2>4, PatchSame DEF DriveInv
  <1> QED
    BY <1>1, <1>2, <1>3, <1>4 DEF FileNext, FileStep, FileStopped

\* Both invariants hold, of the job and of the loop around it.
LEMMA DriveAlways == FileInit /\ [][FileNext]_fileVars => [](PatchInv /\ DriveInv)
  <1>1. FileInit => PatchInv /\ DriveInv
    BY PatchInit, DriveStarts DEF FileInit
  <1>2. PatchInv /\ DriveInv /\ [FileNext]_fileVars => (PatchInv /\ DriveInv)'
    BY DriveNext
  <1> QED
    BY <1>1, <1>2, PTL

\* rs_job_drive with the file buffers is one of the callers that the patch job is
\* meant for: rs_patch_file implements module Patch, for all sizes of the two
\* buffers and whatever the files do.
THEOREM FileRefinement == FileSpec => KeepsCallersContract
  <1>1. FileInit => Init
    BY DEF FileInit
  <1>2. PatchInv /\ DriveInv /\ [FileNext]_fileVars => [Next]_vars
    BY DriveNext
  <1> QED
    BY <1>1, <1>2, DriveAlways, PTL DEF FileSpec, KeepsCallersContract

\* The assertions of the job and the balance of its statistics, between two files.
THEOREM FileJob == FileSpec => [](AssertionsHold /\ StatisticsBalance)
  <1>1. PatchInv => AssertionsHold /\ StatisticsBalance
    BY PatchBalance DEF PatchInv
  <1> QED
    BY <1>1, DriveAlways, PTL DEF FileSpec

\* The part of rs_patch_file's input buffer that the job has not taken lies within
\* the buffer and holds the bytes of the delta that follow those the job has,
\* however often the tail was moved to the front.
THEOREM FileInput == FileSpec => []InputBufferIntact
  <1>1. DriveInv => InputBufferIntact
    BY DEF DriveInv
  <1> QED
    BY <1>1, DriveAlways, PTL DEF FileSpec

\* What rs_patch_file has written and what waits in its output buffer is what the
\* job has put out, once and in order, unless a write has failed; and the buffer
\* ends where it should.
THEOREM FileOutput == FileSpec => []OutputBufferIntact
  <1>1. PatchInv /\ DriveInv => OutputBufferIntact
    <2> SUFFICES ASSUME PatchInv, DriveInv
                 PROVE  OutputBufferIntact
      OBVIOUS
    <2> DEFINE b == OutBuf
               o == job.out
               c == out_fb.content
    <2>0. /\ job.avail_out \in Nat /\ buf.avail_out \in Nat /\ OutLen(job) \in Nat
          /\ ContentLen(out_fb) \in Nat /\ WaitingLen(out_fb) \in Nat
      BY DriveNumbers
    <2>1. /\ b \in Seq(Nat) /\ Len(b) = WaitingLen(out_fb) + Added /\ Added \in Nat
          /\ ~out_fb.ferror =>
               \A i \in 1 .. WaitingLen(out_fb) + Added : o[ContentLen(out_fb) + i] = b[i]
      <3>1. CASE drive = "wait"
        BY <3>1, OutBufFacts DEF OutBuf
      <3>2. CASE drive # "wait"
        <4>1. Added = 0 /\ b = out_fb.buf
          BY <3>2 DEF Added, OutBuf
        <4>2. WaitingLen(out_fb) + Added = WaitingLen(out_fb)
          BY <2>0, <4>1
        <4>3. out_fb.buf \in Seq(Nat) /\ Len(b) = WaitingLen(out_fb)
          BY <4>1 DEF DriveInv, DriveTypeOK, WaitingLen
        <4> QED
          BY <4>1, <4>2, <4>3 DEF DriveInv, OutputGiven
      <3> QED
        BY <3>1, <3>2
    <2>2. AvailOut + Added = buf.avail_out
      BY <2>0 DEF AvailOut, Added
    <2>3. /\ buf.next_out_set => WaitingLen(out_fb) + buf.avail_out = out_fb.buf_len
          /\ ~buf.next_out_set => WaitingLen(out_fb) = 0 /\ buf.avail_out = 0
          /\ ~out_fb.ferror =>
               /\ OutLen(job) = ContentLen(out_fb) + WaitingLen(out_fb) + Added
               /\ \A i \in 1 .. ContentLen(out_fb) : o[i] = c[i]
      BY DEF DriveInv, OutputGiven
    <2>4. AvailOut \in Nat
      BY <2>0 DEF AvailOut
    <2>5. Len(b) + AvailOut = WaitingLen(out_fb) + buf.avail_out
      <3>1. Len(b) = WaitingLen(out_fb) + Added /\ Added \in Nat
        BY <2>1
      <3> QED
        BY <2>0, <2>2, <2>4, <3>1
    <2>6. ~out_fb.ferror => c \o b = o
      <3> SUFFICES ASSUME ~out_fb.ferror
                   PROVE  c \o b = o
        OBVIOUS
      <3>1. c \in Seq(Nat) /\ o \in Seq(Nat) /\ b \in Seq(Nat)
        BY <2>1 DEF DriveInv, DriveTypeOK, PatchInv, PatchTypeOK, JobOK
      <3>2. Len(c) = ContentLen(out_fb) /\ Len(o) = OutLen(job)
        BY DEF ContentLen, OutLen
      <3>3. OutLen(job) = ContentLen(out_fb) + WaitingLen(out_fb) + Added
        BY <2>3
      <3>4. \A i \in 1 .. ContentLen(out_fb) : o[i] = c[i]
        BY <2>3
      <3>5. \A i \in 1 .. WaitingLen(out_fb) + Added : o[ContentLen(out_fb) + i] = b[i]
        BY <2>1
      <3>6. Len(b) = WaitingLen(out_fb) + Added /\ Added \in Nat
        BY <2>1
      <3> HIDE DEF c, o, b
      <3>7. /\ c \o b \in Seq(Nat) /\ Len(c \o b) = Len(c) + Len(b)
            /\ \A i \in 1 .. Len(c) + Len(b) :
                  (c \o b)[i] = IF i <= Len(c) THEN c[i] ELSE b[i - Len(c)]
        BY <3>1, ConcatProperties
      <3>8. Len(c \o b) = Len(o)
        BY <2>0, <3>2, <3>3, <3>6, <3>7
      <3>9. ASSUME NEW i \in 1 .. Len(c \o b)
            PROVE  (c \o b)[i] = o[i]
        <4>1. i \in 1 .. Len(c) + Len(b)
          BY <3>7
        <4>2. CASE i <= Len(c)
          <5>1. i \in 1 .. ContentLen(out_fb)
            BY <2>0, <3>2, <4>1, <4>2
          <5> QED
            BY <3>4, <3>7, <4>1, <4>2, <5>1
        <4>3. CASE ~(i <= Len(c))
          <5>1. /\ i - Len(c) \in 1 .. WaitingLen(out_fb) + Added
                /\ i = ContentLen(out_fb) + (i - Len(c))
            BY <2>0, <3>2, <3>6, <4>1, <4>3
          <5>2. o[i] = b[i - Len(c)]
            BY <3>5, <5>1
          <5> QED
            BY <3>7, <4>1, <4>3, <5>2
        <4> QED
          BY <4>2, <4>3
      <3> QED
        BY <3>1, <3>7, <3>8, <3>9, SeqEqual
    <2> HIDE DEF b
    <2>7. /\ buf.next_out_set => Len(b) + AvailOut = out_fb.buf_len
          /\ ~buf.next_out_set => Len(b) + AvailOut = 0
      BY <2>0, <2>3, <2>5
    <2> QED
      BY <2>6, <2>7 DEF OutputBufferIntact, b
  <1> QED
    BY <1>1, DriveAlways, PTL DEF FileSpec

-----------------------------------------------------------------------------
(* The new file of rs_patch_file.                                          *)

\* rs_job_drive returns when a file has failed, with what the input callback said,
\* or with the job's own result, and then with nothing left in the output buffer if
\* that is RS_DONE.
Returns ==
    /\ drive # "returned" => drive_result = "RS_RUNNING"
    /\ drive = "wait" /\ pc = "caller" => result # "RS_RUNNING"
    /\ drive = "returned" =>
         \/ drive_result # "RS_DONE" /\ (in_fb.ferror \/ out_fb.ferror)
         \/ drive_result = in_fb.at_eof /\ drive_result # "RS_DONE"
         \/ /\ drive_result = result /\ ~out_fb.ferror
            /\ result \notin {"RS_RUNNING", "RS_BLOCKED"}
            /\ result = "RS_DONE" => WaitingLen(out_fb) = 0

\* The file begins as the job's output does, even after a write that failed.
ContentIn ==
    /\ ContentLen(out_fb) <= OutLen(job)
    /\ \A i \in 1 .. ContentLen(out_fb) : job.out[i] = out_fb.content[i]

FileSays == Returns /\ ContentIn

\* A state function that returns does so with a result.
LEMMA FinishAnswers ==
    ASSUME NEW j, NEW fn, NEW r, Finish(j, fn, r)
    PROVE  pc' = "caller" => result' # "RS_RUNNING"
  BY DEF Finish, Return

LEMMA StepAnswers ==
    ASSUME PatchInv, Step
    PROVE  pc' = "caller" => result' # "RS_RUNNING"
  <1>1. CASE Caller(Catchup)
    <2>1. JobOK(job)
      BY DEF PatchInv, PatchTypeOK
    <2>2. rs_tube_catchup(job).result \in {"RS_DONE", "RS_INPUT_ENDED", "RS_BLOCKED"}
      BY <2>1, CatchupFacts
    <2> DEFINE c == rs_tube_catchup(job)
    <2>3. \/ pc' = "statefn"
          \/ Return(c.job, c.result)
      BY <1>1 DEF Caller, Catchup
    <2> HIDE DEF c
    <2>4. c.result # "RS_RUNNING"
      BY <2>2 DEF c
    <2> QED
      BY <2>3, <2>4 DEF Return
  <1>2. CASE rs_patch_s_header
    <2> DEFINE r == Read(job, 4)
    <2>1. \E fn, q : Finish(r.job, fn, q)
      BY <1>2 DEF rs_patch_s_header
    <2> QED
      BY <2>1, FinishAnswers
  <1>3. CASE rs_patch_s_cmdbyte
    <2>1. \E j, fn, q : Finish(j, fn, q)
      BY <1>3 DEF rs_patch_s_cmdbyte
    <2> QED
      BY <2>1, FinishAnswers
  <1>4. CASE rs_patch_s_params
    <2>1. \E j, fn, q : Finish(j, fn, q)
      BY <1>4 DEF rs_patch_s_params
    <2> QED
      BY <2>1, FinishAnswers
  <1>5. CASE rs_patch_s_run
    <2>1. \E j, fn, q : Finish(j, fn, q)
      BY <1>5 DEF rs_patch_s_run
    <2> QED
      BY <2>1, FinishAnswers
  <1>6. CASE rs_patch_s_literal
    <2>1. \E j, fn, q : Finish(j, fn, q)
      BY <1>6 DEF rs_patch_s_literal
    <2> QED
      BY <2>1, FinishAnswers
  <1>7. CASE rs_patch_s_copy
    <2>1. \E j, fn, q : Finish(j, fn, q)
      BY <1>7 DEF rs_patch_s_copy
    <2> QED
      BY <2>1, FinishAnswers
  <1>8. CASE rs_patch_s_copying
    <2>1. \E j, fn, q : Finish(j, fn, q)
      BY <1>8 DEF rs_patch_s_copying
    <2> QED
      BY <2>1, FinishAnswers
  <1> QED
    BY <1>1, <1>2, <1>3, <1>4, <1>5, <1>6, <1>7, <1>8 DEF Step, StateFn

\* rs_outfilebuf_drain: what it adds to the file is what follows in the output.
LEMMA DrainSays ==
    ASSUME PatchInv, DriveInv, FileSays, rs_outfilebuf_drain, UNCHANGED engineVars
    PROVE  FileSays'
  <1>1. /\ drive = "drain" /\ in_fb' = in_fb
        /\ UNCHANGED <<input, job, statefn, pc, result, orig>>
    BY DEF rs_outfilebuf_drain, engineVars
  <1>2. /\ OutLen(job) \in Nat /\ ContentLen(out_fb) \in Nat /\ WaitingLen(out_fb) \in Nat
    BY DriveNumbers
  <1>3. /\ DOMAIN out_fb = {"buf_len", "buf", "content", "ferror"}
        /\ out_fb.buf \in Seq(Nat) /\ out_fb.content \in Seq(Nat)
        /\ out_fb.ferror = FALSE /\ result \in {"RS_DONE", "RS_BLOCKED"}
    BY <1>1 DEF DriveInv, DriveTypeOK, InTurn
  <1>4. /\ OutLen(job) = ContentLen(out_fb) + WaitingLen(out_fb) + 0
        /\ \A i \in 1 .. ContentLen(out_fb) : job.out[i] = out_fb.content[i]
        /\ \A i \in 1 .. WaitingLen(out_fb) : job.out[ContentLen(out_fb) + i] = out_fb.buf[i]
    BY <1>1, <1>3 DEF DriveInv, OutputGiven, Added
  <1>5. PICK n \in fwrite(Len(out_fb.buf)) :
          LET failed == n < Len(out_fb.buf)
          IN  /\ out_fb' = [out_fb EXCEPT !.content = @ \o SubSeq(out_fb.buf, 1, n),
                                          !.buf = IF failed THEN @ ELSE <<>>,
                                          !.ferror = @ \/ failed]
              /\ IF failed THEN drive' = "returned" /\ drive_result' = "RS_IO_ERROR"
                 ELSE IF result = "RS_DONE" THEN drive' = "returned" /\ drive_result' = "RS_DONE"
                 ELSE drive' = "fill" /\ drive_result' = drive_result
    BY DEF rs_outfilebuf_drain, DriveReturns, DriveGoes
  <1>6. n \in Nat /\ n <= WaitingLen(out_fb)
    <2>1. n \in fwrite(WaitingLen(out_fb))
      BY DEF WaitingLen
    <2> QED
      BY <1>2, <2>1 DEF fwrite
  <1> DEFINE s == SubSeq(out_fb.buf, 1, n)
  <1>7. s \in Seq(Nat) /\ Len(s) = n /\ \A i \in 1 .. n : s[i] = out_fb.buf[0 + i]
    <2>1. 0 \in Nat /\ 0 + n = n /\ 0 + 1 = 1 /\ 0 + n <= Len(out_fb.buf)
      BY <1>6 DEF WaitingLen
    <2> QED
      BY <1>3, <1>6, <2>1, PieceFacts
  <1> HIDE DEF s
  <1>8. /\ out_fb'.content = out_fb.content \o s
        /\ out_fb'.ferror <=> n < WaitingLen(out_fb)
        /\ n >= WaitingLen(out_fb) => out_fb'.buf = <<>>
    <2> DEFINE text == out_fb.content \o s
               rest == IF n < Len(out_fb.buf) THEN out_fb.buf ELSE <<>>
               err == out_fb.ferror \/ n < Len(out_fb.buf)
    <2>1. out_fb' = [out_fb EXCEPT !.content = text, !.buf = rest, !.ferror = err]
      BY <1>5 DEF s
    <2>2. err <=> n < WaitingLen(out_fb)
      BY <1>3 DEF WaitingLen
    <2>3. n >= WaitingLen(out_fb) => rest = <<>>
      BY <1>2, <1>6 DEF WaitingLen
    <2> HIDE DEF text, rest, err
    <2>4. out_fb'.content = text /\ out_fb'.buf = rest /\ out_fb'.ferror = err
      BY <1>3, <2>1
    <2> QED
      BY <2>2, <2>3, <2>4 DEF text
  <1>9. ContentIn'
    <2> DEFINE c == out_fb.content
    <2>1. /\ Len(c \o s) = Len(c) + n
          /\ \A i \in 1 .. Len(c) : (c \o s)[i] = c[i]
          /\ \A i \in 1 .. Len(c) + n : i > Len(c) => (c \o s)[i] = s[i - Len(c)]
      <3>1. c \in Seq(Nat)
        BY <1>3
      <3> HIDE DEF c
      <3> QED
        <4>1. /\ Len(c \o s) = Len(c) + Len(s)
              /\ \A i \in 1 .. Len(c) + Len(s) :
                    (c \o s)[i] = IF i <= Len(c) THEN c[i] ELSE s[i - Len(c)]
          BY <1>7, <3>1, ConcatProperties
        <4>2. Len(c) \in Nat
          BY <3>1, LenProperties
        <4> QED
          BY <1>6, <1>7, <4>1, <4>2
    <2>2. Len(c) = ContentLen(out_fb) /\ Len(c) \in Nat
      BY <1>2 DEF ContentLen
    <2>3. ContentLen(out_fb') = Len(c) + n
      BY <1>8, <2>1 DEF ContentLen
    <2>4. ContentLen(out_fb') <= OutLen(job)
      BY <1>2, <1>4, <1>6, <2>2, <2>3
    <2>5. ASSUME NEW i \in 1 .. ContentLen(out_fb')
          PROVE  job.out[i] = out_fb'.content[i]
      <3>1. i \in Nat /\ i >= 1 /\ i <= Len(c) + n
        BY <1>6, <2>2, <2>3
      <3>2. CASE i <= Len(c)
        BY <1>4, <1>8, <2>1, <2>2, <3>1, <3>2
      <3>3. CASE i > Len(c)
        <4>1. PICK k : k = i - Len(c)
          OBVIOUS
        <4>2. k \in 1 .. n /\ k \in 1 .. WaitingLen(out_fb) /\ i = Len(c) + k /\ 0 + k = k
          BY <1>2, <1>6, <2>2, <3>1, <3>3, <4>1
        <4>3. (c \o s)[i] = s[k]
          BY <1>6, <2>1, <2>2, <3>1, <3>3, <4>1
        <4>4. s[k] = out_fb.buf[k]
          BY <1>7, <4>2
        <4>5. job.out[Len(c) + k] = out_fb.buf[k]
          BY <1>4, <2>2, <4>2
        <4> QED
          BY <1>8, <4>2, <4>3, <4>4, <4>5
      <3> QED
        BY <2>2, <3>1, <3>2, <3>3
    <2> QED
      BY <1>1, <2>4, <2>5 DEF ContentIn
  <1>10. Returns'
    <2>1. /\ n < WaitingLen(out_fb) => drive' = "returned" /\ drive_result' = "RS_IO_ERROR"
          /\ n >= WaitingLen(out_fb) /\ result = "RS_DONE" =>
               drive' = "returned" /\ drive_result' = "RS_DONE"
          /\ n >= WaitingLen(out_fb) /\ result # "RS_DONE" =>
               drive' = "fill" /\ drive_result' = drive_result
      BY <1>2, <1>5, <1>6 DEF WaitingLen
    <2>2. drive_result = "RS_RUNNING"
      BY <1>1 DEF FileSays, Returns
    <2>3. CASE n < WaitingLen(out_fb)
      BY <1>8, <2>1, <2>3 DEF Returns
    <2>4. CASE n >= WaitingLen(out_fb)
      <3>1. WaitingLen(out_fb') = 0 /\ ~out_fb'.ferror
        <4>1. Len(<<>>) = 0
          BY EmptySeq
        <4> QED
          BY <1>2, <1>6, <1>8, <2>4, <4>1 DEF WaitingLen
      <3> QED
        BY <1>1, <2>1, <2>2, <2>4, <3>1 DEF Returns
    <2> QED
      BY <1>2, <1>6, <2>3, <2>4
  <1> QED
    BY <1>9, <1>10 DEF FileSays

\* Each step of rs_patch_file.
LEMMA FileSaysNext ==
    ASSUME PatchInv, DriveInv, FileSays, [FileNext]_fileVars
    PROVE  FileSays'
  <1>1. CASE Caller(DriveIO)
    <2>1. UNCHANGED engineVars /\ UNCHANGED <<input, job, statefn, pc, result, orig>>
      BY <1>1 DEF Caller, DriveIO, engineVars
    <2>2. CASE rs_outfilebuf_drain
      BY <2>1, <2>2, DrainSays
    <2>3. CASE rs_infilebuf_fill
      <3>1. drive = "fill" /\ out_fb' = out_fb /\ drive_result = "RS_RUNNING"
        BY <2>3 DEF rs_infilebuf_fill, FileSays, Returns
      <3>2. ContentIn'
        BY <2>1, <3>1 DEF FileSays, ContentIn
      <3>3. DOMAIN in_fb = {"buf_len", "buf", "pos", "ferror", "at_eof"}
        BY DEF DriveInv, DriveTypeOK
      <3>4. \/ drive' = "iter" /\ drive_result' = drive_result
            \/ drive' = "returned" /\ drive_result' = "RS_IO_ERROR" /\ in_fb'.ferror
            \/ drive' = "returned" /\ drive_result' = in_fb'.at_eof /\ drive_result' # "RS_DONE"
        BY <2>3, <3>3 DEF rs_infilebuf_fill, DriveGoes, DriveReturns
      <3> QED
        BY <3>1, <3>2, <3>4 DEF FileSays, Returns
    <2>4. CASE DriveCheck
      <3>1. /\ drive = "wait" /\ pc = "caller" /\ in_fb' = in_fb
            /\ out_fb' = [out_fb EXCEPT !.buf = @ \o Written]
            /\ IF result \in {"RS_DONE", "RS_BLOCKED"} THEN drive' = "drain" /\ drive_result' = drive_result
               ELSE drive' = "returned" /\ drive_result' = result
        BY <2>4 DEF DriveCheck, DriveGoes, DriveReturns
      <3>2. DOMAIN out_fb = {"buf_len", "buf", "content", "ferror"} /\ ~out_fb.ferror
        BY <3>1 DEF DriveInv, DriveTypeOK, InTurn
      <3>3. out_fb'.content = out_fb.content /\ ~out_fb'.ferror
        BY <3>1, <3>2
      <3>4. ContentIn'
        BY <2>1, <3>3 DEF FileSays, ContentIn, ContentLen
      <3>5. drive_result = "RS_RUNNING" /\ result # "RS_RUNNING"
        BY <3>1 DEF FileSays, Returns
      <3> QED
        BY <2>1, <3>1, <3>3, <3>4, <3>5 DEF FileSays, Returns
    <2> QED
      BY <1>1, <2>2, <2>3, <2>4 DEF Caller, DriveIO
  <1>2. CASE Caller(DriveIter)
    <2>1. /\ drive = "iter" /\ drive' = "wait" /\ UNCHANGED <<buf, in_fb, out_fb, drive_result>>
          /\ pc' = "work"
      BY <1>2 DEF Caller, DriveIter, DriveGoes, Call
    <2>2. job'.out = job.out
      BY <1>2 DEF Caller, DriveIter, Call, PatchInv, PatchTypeOK, JobOK, JobFields
    <2>3. ContentIn'
      BY <2>1, <2>2 DEF FileSays, ContentIn, OutLen
    <2> QED
      BY <2>1, <2>3 DEF FileSays, Returns
  <1>3. CASE Inside(Step)
    <2>1. drive = "wait" /\ UNCHANGED <<drive, drive_result, buf, in_fb, out_fb>> /\ Step
      BY <1>3 DEF Inside, driveVars
    <2>2. Work(job, job')
      BY <2>1, PatchStep
    <2>3. ContentIn'
      <3>1. PICK k : k = job'
        OBVIOUS
      <3>2. JobOK(job) /\ Work(job, k)
        BY <2>2, <3>1 DEF PatchInv, PatchTypeOK
      <3>3. OutLen(job) \in Nat /\ OutLen(k) \in Nat
        BY <3>2, LengthFacts DEF Work
      <3>4. OutLen(job) <= OutLen(k) /\ \A i \in 1 .. OutLen(job) : k.out[i] = job.out[i]
        BY <3>2, <3>3 DEF Work, JobOK
      <3>5. ContentLen(out_fb) \in Nat /\ ContentLen(out_fb) <= OutLen(job)
        BY DriveNumbers DEF FileSays, ContentIn
      <3>6. /\ ContentLen(out_fb) <= OutLen(k)
            /\ \A i \in 1 .. ContentLen(out_fb) : k.out[i] = out_fb.content[i]
        BY <3>3, <3>4, <3>5 DEF FileSays, ContentIn
      <3> QED
        BY <2>1, <3>1, <3>6 DEF ContentIn
    <2>4. Returns'
      BY <2>1, StepAnswers DEF FileSays, Returns
    <2> QED
      BY <2>3, <2>4 DEF FileSays
  <1>4. CASE UNCHANGED fileVars
    BY <1>4 DEF fileVars, driveVars, vars, engineVars, FileSays, Returns, ContentIn
  <1> QED
    BY <1>1, <1>2, <1>3, <1>4 DEF FileNext, FileStep, FileStopped

\* What the file holds and what rs_patch_file returns, from the invariants of the
\* job and of the loop around it.
LEMMA NewFileSays ==
    ASSUME PatchInv, MeantInv, DriveInv, FileSays
    PROVE  NewFileCorrect
  <1> DEFINE c == out_fb.content
             o == job.out
             B == NewFile(input)
             M == Apply(input, Basis)
  <1>1. c \in Seq(Nat) /\ ContentLen(out_fb) \in Nat /\ WaitingLen(out_fb) \in Nat
    BY DriveNumbers DEF DriveInv, DriveTypeOK
  <1>2. Whole!IsPrefixOf(o, B) /\ B \in Seq(Nat) /\ o \in Seq(Nat)
    BY PatchPrefix
  <1>3. Meaning[input] = M /\ Meaning[input].out = B
    BY RestFacts DEF NewFile
  <1>4. M.out = B
    BY <1>3
  <1>5. Len(c) <= Len(o) /\ \A i \in 1 .. Len(c) : o[i] = c[i]
    BY DEF FileSays, ContentIn, ContentLen, OutLen
  <1>6. Says /\ drive \in {"fill", "iter", "wait", "drain", "returned"} /\ (drive # "wait" => pc = "caller")
    BY DEF MeantInv, DriveInv, DriveTypeOK, InTurn
  <1>7. drive = "returned" =>
          \/ drive_result # "RS_DONE" /\ (in_fb.ferror \/ out_fb.ferror)
          \/ drive_result = in_fb.at_eof /\ drive_result # "RS_DONE"
          \/ /\ drive_result = result /\ ~out_fb.ferror /\ pc = "caller"
             /\ result \notin {"RS_RUNNING", "RS_BLOCKED"}
             /\ result = "RS_DONE" => Len(c) = Len(o)
    <2>1. ~out_fb.ferror /\ drive = "returned" /\ WaitingLen(out_fb) = 0 => Len(o) = Len(c)
      <3>1. ~out_fb.ferror /\ drive = "returned" =>
              OutLen(job) = ContentLen(out_fb) + WaitingLen(out_fb) + 0
        BY DEF DriveInv, OutputGiven, Added
      <3> QED
        BY <1>1, <3>1 DEF OutLen, ContentLen
    <2> QED
      BY <1>6, <2>1 DEF FileSays, Returns
  <1>8. drive_result = "RS_DONE" => drive = "returned"
    BY DEF FileSays, Returns
  <1>9. pc = "caller" /\ result \notin {"RS_RUNNING", "RS_BLOCKED"} /\ result \notin CallbackFaults =>
          M.verdict = result /\ o = B
    BY <1>4, <1>6 DEF Says, Ends, MeansEnd
  <1>10. "RS_DONE" \notin CallbackFaults
    BY PatchAssumption
  <1> HIDE DEF c, o, B, M
  <1>11. Whole!IsPrefixOf(c, B)
    <2>1. BeginsWith(B, o)
      BY <1>2 DEF BeginsWith, Whole!IsPrefixOf
    <2>2. Len(o) <= Len(B) /\ \A i \in 1 .. Len(o) : B[i] = o[i]
      BY <1>2, <2>1, BeginsFacts
    <2>3. Len(c) \in Nat /\ Len(o) \in Nat /\ Len(B) \in Nat
      BY <1>1, <1>2, LenProperties
    <2>4. Len(c) <= Len(B) /\ \A i \in 1 .. Len(c) : B[i] = c[i]
      BY <1>5, <2>2, <2>3
    <2>5. BeginsWith(B, c)
      BY <1>1, <1>2, <2>4, BeginsFacts
    <2> QED
      BY <2>5 DEF BeginsWith, Whole!IsPrefixOf
  <1>12. drive_result = "RS_DONE" => c = B /\ M.verdict = "RS_DONE"
    <2> SUFFICES ASSUME drive_result = "RS_DONE"
                 PROVE  c = B /\ M.verdict = "RS_DONE"
      OBVIOUS
    <2>1. result = "RS_DONE" /\ pc = "caller" /\ Len(c) = Len(o)
      BY <1>7, <1>8
    <2>2. c = o
      BY <1>1, <1>2, <1>5, <2>1, SeqEqual
    <2> QED
      BY <1>9, <1>10, <2>1, <2>2
  <1>13. drive = "returned" /\ ~in_fb.ferror /\ ~out_fb.ferror =>
           drive_result \in {M.verdict} \cup CallbackFaults \cup ({in_fb.at_eof} \ {"RS_DONE"})
    BY <1>7, <1>9
  <1> QED
    BY <1>3, <1>11, <1>12, <1>13 DEF NewFileCorrect, c

\* The new file that rs_patch_file writes is the beginning of what the delta means,
\* whatever fails, and all of it if RS_DONE is returned; and what is returned is the
\* delta's verdict unless a file, the basis or the input callback failed.  For all
\* deltas, bases and sizes of the buffers, and callbacks that do not answer
\* RS_BLOCKED, which rs_job_iter does not allow for.
THEOREM FileCorrect ==
    ASSUME "RS_BLOCKED" \notin CallbackFaults
    PROVE  FileSpec => []NewFileCorrect
  <1>1. FileInit => FileSays
    <2> SUFFICES ASSUME Init, DriveInit
                 PROVE  FileSays
      BY DEF FileInit
    <2>1. drive = "fill" /\ drive_result = "RS_RUNNING" /\ out_fb.content = <<>>
      BY DEF DriveInit
    <2>2. ContentLen(out_fb) = 0 /\ OutLen(job) = 0
      <3>1. Len(<<>>) = 0 /\ job.out = <<>>
        BY EmptySeq DEF Init, EngineInit
      <3> QED
        BY <2>1, <3>1 DEF ContentLen, OutLen
    <2> QED
      BY <2>1, <2>2 DEF FileSays, Returns, ContentIn
  <1>2. PatchInv /\ DriveInv /\ FileSays /\ [FileNext]_fileVars => FileSays'
    BY FileSaysNext
  <1>3. PatchInv /\ MeantInv /\ DriveInv /\ FileSays => NewFileCorrect
    BY NewFileSays
  <1>4. Init /\ [][Next]_vars => [](PatchInv /\ MeantInv)
    BY MeantAlways
  <1>5. FileInit => Init
    BY DEF FileInit
  <1>6. PatchInv /\ DriveInv /\ [FileNext]_fileVars => [Next]_vars
    BY DriveNext
  <1> QED
    BY <1>1, <1>2, <1>3, <1>4, <1>5, <1>6, DriveAlways, PTL DEF FileSpec
=============================================================================

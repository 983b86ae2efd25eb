----------------------------- MODULE JobProofs ------------------------------
(***************************************************************************)
(* What the proofs about the jobs have in common: the effect of each       *)
(* operation of module Job on the job's buffers, the value of network      *)
(* integers, what a delta means command by command (CommandMeans), and     *)
(* what a signature file consists of, block by block (PartsFacts).         *)
(*                                                                         *)
(* Everything that happens inside rs_job_iter does its Work: it takes      *)
(* input from the caller's buffer in order, adds to the output as much as  *)
(* it uses up of the room, and changes nothing of what was put out before. *)
(* Each operation is shown to, and work adds up (WorkAddsUp), so that a    *)
(* job that is made of these operations does as well.                      *)
(***************************************************************************)
EXTENDS Job, Reference, SigFormat, SequenceTheorems, NaturalsInduction, WellFoundedInduction, TLAPS

JobFields == {"cursor", "scoop_avail", "avail_in", "eof_in", "avail_out", "write_buf",
              "copy_len", "out", "asserts"}

\* The buffers are of their types, and the job has no more input than was sent.
JobOK(j) ==
    /\ DOMAIN j = JobFields
    /\ j.cursor \in Nat /\ j.scoop_avail \in Nat /\ j.avail_in \in Nat /\ j.avail_out \in Nat
    /\ j.eof_in \in BOOLEAN
    /\ j.write_buf \in Seq(Nat) /\ j.copy_len \in Nat /\ j.out \in Seq(Nat)
    /\ input \in Seq(Nat) /\ j.cursor + j.scoop_avail + j.avail_in <= Len(input)

\* How much was put out, and how much waits in the tube.
OutLen(j) == Len(j.out)
TubeLen(j) == Len(j.write_buf)

\* From j to k only work was done.
Work(j, k) ==
    /\ JobOK(k) /\ k.eof_in = j.eof_in
    /\ k.avail_in <= j.avail_in
    /\ k.cursor + k.scoop_avail + k.avail_in = j.cursor + j.scoop_avail + j.avail_in
    /\ k.avail_out <= j.avail_out
    /\ OutLen(k) + k.avail_out = OutLen(j) + j.avail_out
    /\ \A i \in 1 .. OutLen(j) : k.out[i] = j.out[i]

\* The output side of j and k is the same.
SameOutput(j, k) ==
    /\ k.avail_out = j.avail_out /\ k.write_buf = j.write_buf /\ k.copy_len = j.copy_len
    /\ k.out = j.out

\* The input side of j and k is the same.
SameInput(j, k) ==
    k.cursor = j.cursor /\ k.scoop_avail = j.scoop_avail /\ k.avail_in = j.avail_in

\* The next n bytes lie in one piece, in the scoop or in the caller's buffer.
Contiguous(j, n) ==
    (j.scoop_avail = 0 /\ j.avail_in >= n) \/ j.scoop_avail >= n

-----------------------------------------------------------------------------
(* Work.                                                                   *)

\* The lengths that a job's record gives rise to are numbers.
LEMMA LengthFacts ==
    ASSUME NEW j, JobOK(j)
    PROVE  OutLen(j) \in Nat /\ TubeLen(j) \in Nat /\ Len(input) \in Nat
  <1>1. j.out \in Seq(Nat) /\ j.write_buf \in Seq(Nat) /\ input \in Seq(Nat)
    BY DEF JobOK
  <1> QED
    BY <1>1, LenProperties DEF OutLen, TubeLen

\* Doing nothing is no work, and two pieces of work are one.
LEMMA WorkAddsUp ==
    ASSUME NEW j, JobOK(j)
    PROVE  /\ Work(j, j)
           /\ \A k, l : Work(j, k) /\ Work(k, l) => Work(j, l)
  <1>1. Work(j, j)
    BY DEF JobOK, Work
  <1>2. ASSUME NEW k, NEW l, Work(j, k), Work(k, l)
        PROVE  Work(j, l)
    <2>1. JobOK(k) /\ JobOK(l)
      BY <1>2 DEF Work
    <2>2. OutLen(j) \in Nat /\ OutLen(k) \in Nat /\ OutLen(l) \in Nat
      BY <2>1, LengthFacts
    <2>3. OutLen(j) <= OutLen(k)
      BY <1>2, <2>1, <2>2 DEF Work, JobOK
    <2>4. \A i \in 1 .. OutLen(j) : l.out[i] = j.out[i]
      BY <1>2, <2>2, <2>3 DEF Work
    <2>5. /\ l.eof_in = j.eof_in /\ l.avail_in <= j.avail_in /\ l.avail_out <= j.avail_out
          /\ l.cursor + l.scoop_avail + l.avail_in = j.cursor + j.scoop_avail + j.avail_in
          /\ OutLen(l) + l.avail_out = OutLen(j) + j.avail_out
      <3>1. /\ k.eof_in = j.eof_in /\ k.avail_in <= j.avail_in /\ k.avail_out <= j.avail_out
            /\ k.cursor + k.scoop_avail + k.avail_in = j.cursor + j.scoop_avail + j.avail_in
            /\ OutLen(k) + k.avail_out = OutLen(j) + j.avail_out
        BY <1>2 DEF Work
      <3>2. /\ l.eof_in = k.eof_in /\ l.avail_in <= k.avail_in /\ l.avail_out <= k.avail_out
            /\ l.cursor + l.scoop_avail + l.avail_in = k.cursor + k.scoop_avail + k.avail_in
            /\ OutLen(l) + l.avail_out = OutLen(k) + k.avail_out
        BY <1>2 DEF Work
      <3>3. /\ j.avail_in \in Nat /\ k.avail_in \in Nat /\ l.avail_in \in Nat
            /\ j.avail_out \in Nat /\ k.avail_out \in Nat /\ l.avail_out \in Nat
        BY <2>1 DEF JobOK
      <3> QED
        BY <3>1, <3>2, <3>3
    <2> QED
      BY <2>1, <2>4, <2>5 DEF Work
  <1> QED
    BY <1>1, <1>2

\* An assertion touches no buffer.
LEMMA AssertFacts ==
    ASSUME NEW j, JobOK(j), NEW cond
    PROVE  LET k == Assert_(j, cond)
           IN  /\ Work(j, k) /\ SameOutput(j, k) /\ SameInput(j, k)
               /\ k.asserts = (j.asserts /\ cond)
  <1> DEFINE k == Assert_(j, cond)
  <1>1. /\ DOMAIN k = JobFields
        /\ \A f \in JobFields \ {"asserts"} : k[f] = j[f]
        /\ k.asserts = (j.asserts /\ cond)
    BY DEF JobOK, JobFields, Assert_
  <1> HIDE DEF k
  <1>2. SameOutput(j, k) /\ SameInput(j, k) /\ k.eof_in = j.eof_in
    BY <1>1 DEF SameOutput, SameInput, JobFields
  <1>3. Work(j, k)
    BY <1>1, <1>2 DEF OutLen, JobOK, Work, SameOutput, SameInput
  <1> QED
    BY <1>1, <1>2, <1>3 DEF k

-----------------------------------------------------------------------------
(* scoop.c                                                                 *)

\* rs_scoop_readahead moves input into the scoop; it succeeds if the bytes lie
\* in one piece then, and it leaves alone what does so already.
LEMMA ReadaheadFacts ==
    ASSUME NEW j, JobOK(j), NEW len \in Nat
    PROVE  LET r == Readahead(j, len)
               k == r.job
           IN  /\ Work(j, k) /\ SameOutput(j, k) /\ k.cursor = j.cursor /\ k.asserts = j.asserts
               /\ r.result \in {"RS_DONE", "RS_INPUT_ENDED", "RS_BLOCKED"}
               /\ r.result = "RS_DONE" <=> Contiguous(k, len)
               /\ Contiguous(j, len) => SameInput(j, k) /\ r.result = "RS_DONE"
               /\ r.result = "RS_INPUT_ENDED" => j.eof_in
               /\ r.result = "RS_BLOCKED" => ~j.eof_in /\ k.avail_in = 0
  <1> DEFINE direct == j.scoop_avail = 0 /\ j.avail_in >= len
             n == IF ~direct /\ j.scoop_avail < len
                    THEN Lesser(len - j.scoop_avail, j.avail_in) ELSE 0
             k == [j EXCEPT !.scoop_avail = @ + n, !.avail_in = @ - n]
             res == IF direct \/ k.scoop_avail >= len THEN "RS_DONE"
                    ELSE IF j.eof_in THEN "RS_INPUT_ENDED" ELSE "RS_BLOCKED"
  <1>0. j.scoop_avail \in Nat /\ j.avail_in \in Nat /\ j.cursor \in Nat
    BY DEF JobOK
  <1>1. Readahead(j, len) = [job |-> k, result |-> res]
    BY DEF Readahead
  <1>2. /\ n \in Nat /\ n <= j.avail_in /\ (direct => n = 0)
        /\ ~direct /\ j.scoop_avail < len => n = j.avail_in \/ n = len - j.scoop_avail
        /\ j.scoop_avail >= len => n = 0
    BY <1>0 DEF Lesser
  <1> HIDE DEF n
  <1>3. /\ DOMAIN k = JobFields /\ k.scoop_avail = j.scoop_avail + n /\ k.avail_in = j.avail_in - n
        /\ \A f \in JobFields \ {"scoop_avail", "avail_in"} : k[f] = j[f]
    BY DEF JobOK, JobFields
  <1> HIDE DEF k
  <1>4. SameOutput(j, k) /\ k.cursor = j.cursor /\ k.asserts = j.asserts /\ k.eof_in = j.eof_in
    BY <1>3 DEF SameOutput, JobFields
  <1>5. k.scoop_avail \in Nat /\ k.avail_in \in Nat /\ k.avail_in <= j.avail_in
    BY <1>0, <1>2, <1>3
  <1>6. k.cursor + k.scoop_avail + k.avail_in = j.cursor + j.scoop_avail + j.avail_in
    BY <1>0, <1>2, <1>3, <1>4
  <1>7. JobOK(k)
    BY <1>3, <1>4, <1>5, <1>6 DEF JobOK, SameOutput
  <1>8. Work(j, k)
    BY <1>4, <1>5, <1>6, <1>7 DEF OutLen, Work, JobOK, SameOutput
  <1>9. /\ res \in {"RS_DONE", "RS_INPUT_ENDED", "RS_BLOCKED"}
        /\ res = "RS_DONE" <=> Contiguous(k, len)
        /\ Contiguous(j, len) => SameInput(j, k) /\ res = "RS_DONE"
        /\ res = "RS_INPUT_ENDED" => j.eof_in
        /\ res = "RS_BLOCKED" => ~j.eof_in /\ k.avail_in = 0
    <2>1. /\ j.scoop_avail \in Nat /\ j.avail_in \in Nat /\ j.eof_in \in BOOLEAN
      BY DEF JobOK
    <2>2. res = "RS_DONE" <=> Contiguous(k, len)
      BY <2>1, <1>2, <1>3, <1>5 DEF Contiguous
    <2>3. Contiguous(j, len) => SameInput(j, k) /\ res = "RS_DONE"
      BY <2>1, <1>2, <1>3, <1>4, <1>5 DEF Contiguous, SameInput
    <2>4. res # "RS_DONE" => k.avail_in = 0
      BY <2>1, <1>2, <1>3, <1>5
    <2> QED
      BY <2>1, <2>2, <2>3, <2>4
  <1> HIDE DEF res
  <1> QED
    BY <1>1, <1>4, <1>8, <1>9

\* rs_scoop_advance consumes bytes that lie in one piece, and what lies behind
\* them in that piece still does.
LEMMA AdvanceFacts ==
    ASSUME NEW j, JobOK(j), NEW n \in Nat, Contiguous(j, n)
    PROVE  LET k == rs_scoop_advance(j, n)
           IN  /\ Work(j, k) /\ SameOutput(j, k) /\ k.cursor = j.cursor + n
               /\ (j.asserts => k.asserts)
               /\ \A m \in Nat : Contiguous(j, n + m) => Contiguous(k, m)
  <1> DEFINE k == rs_scoop_advance(j, n)
             a == Assert_(j, n <= j.scoop_avail)
             b == Assert_(j, n <= j.avail_in)
  <1>0. j.scoop_avail \in Nat /\ j.avail_in \in Nat /\ j.cursor \in Nat
    BY DEF JobOK
  <1>1. CASE j.scoop_avail > 0
    <2>1. k = [a EXCEPT !.scoop_avail = @ - n, !.cursor = @ + n]
      BY <1>1 DEF rs_scoop_advance
    <2>2. JobOK(a) /\ SameOutput(j, a) /\ SameInput(j, a) /\ a.eof_in = j.eof_in
          /\ a.asserts = (j.asserts /\ n <= j.scoop_avail)
      BY AssertFacts DEF Work
    <2>3. n <= j.scoop_avail
      BY <1>0, <1>1 DEF Contiguous
    <2> HIDE DEF a, b, k
    <2>4. /\ DOMAIN k = JobFields /\ k.scoop_avail = j.scoop_avail - n /\ k.cursor = j.cursor + n
          /\ \A f \in JobFields \ {"scoop_avail", "cursor"} : k[f] = a[f]
      BY <2>1, <2>2 DEF JobOK, JobFields, SameInput
    <2>5. SameOutput(j, k) /\ k.avail_in = j.avail_in /\ k.eof_in = j.eof_in /\ k.asserts = a.asserts
      BY <2>2, <2>4 DEF SameOutput, SameInput, JobFields
    <2>6. (j.asserts => k.asserts)
      BY <2>2, <2>3, <2>5
    <2>7. k.scoop_avail \in Nat /\ k.cursor \in Nat /\ k.avail_in <= j.avail_in
          /\ k.cursor + k.scoop_avail + k.avail_in = j.cursor + j.scoop_avail + j.avail_in
      BY <1>0, <2>3, <2>4, <2>5
    <2>8. JobOK(k)
      BY <2>4, <2>5, <2>7 DEF JobOK, SameOutput
    <2>9. Work(j, k)
      BY <2>5, <2>7, <2>8 DEF OutLen, Work, JobOK, SameOutput
    <2>10. \A m \in Nat : Contiguous(j, n + m) => Contiguous(k, m)
      BY <1>0, <1>1, <2>4, <2>5 DEF Contiguous
    <2> QED
      BY <2>4, <2>5, <2>6, <2>9, <2>10 DEF k
  <1>2. CASE ~(j.scoop_avail > 0)
    <2>1. k = [b EXCEPT !.avail_in = @ - n, !.cursor = @ + n]
      BY <1>2 DEF rs_scoop_advance
    <2>2. JobOK(b) /\ SameOutput(j, b) /\ SameInput(j, b) /\ b.eof_in = j.eof_in
          /\ b.asserts = (j.asserts /\ n <= j.avail_in)
      BY AssertFacts DEF Work
    <2>3. n <= j.avail_in
      BY <1>0, <1>2 DEF Contiguous
    <2> HIDE DEF a, b, k
    <2>4. /\ DOMAIN k = JobFields /\ k.avail_in = j.avail_in - n /\ k.cursor = j.cursor + n
          /\ \A f \in JobFields \ {"avail_in", "cursor"} : k[f] = b[f]
      BY <2>1, <2>2 DEF JobOK, JobFields, SameInput
    <2>5. SameOutput(j, k) /\ k.scoop_avail = j.scoop_avail /\ k.eof_in = j.eof_in
          /\ k.asserts = b.asserts
      BY <2>2, <2>4 DEF SameOutput, SameInput, JobFields
    <2>6. (j.asserts => k.asserts)
      BY <2>2, <2>3, <2>5
    <2>7. k.avail_in \in Nat /\ k.cursor \in Nat /\ k.avail_in <= j.avail_in
          /\ k.cursor + k.scoop_avail + k.avail_in = j.cursor + j.scoop_avail + j.avail_in
      BY <1>0, <2>3, <2>4, <2>5
    <2>8. JobOK(k)
      BY <2>4, <2>5, <2>7 DEF JobOK, SameOutput
    <2>9. Work(j, k)
      BY <2>5, <2>7, <2>8 DEF OutLen, Work, JobOK, SameOutput
    <2>10. \A m \in Nat : Contiguous(j, n + m) => Contiguous(k, m)
      BY <1>0, <1>2, <2>4, <2>5 DEF Contiguous
    <2> QED
      BY <2>4, <2>5, <2>6, <2>9, <2>10 DEF k
  <1> QED
    BY <1>1, <1>2

\* rs_scoop_read: all of the bytes, or none and the reason.
LEMMA ReadFacts ==
    ASSUME NEW j, JobOK(j), NEW len \in Nat
    PROVE  LET r == Read(j, len)
               k == r.job
           IN  /\ Work(j, k) /\ SameOutput(j, k) /\ (j.asserts => k.asserts)
               /\ r.result \in {"RS_DONE", "RS_INPUT_ENDED", "RS_BLOCKED"}
               /\ k.cursor = IF r.result = "RS_DONE" THEN j.cursor + len ELSE j.cursor
               /\ Contiguous(j, len) => r.result = "RS_DONE"
               /\ \A m \in Nat : Contiguous(j, len + m) => Contiguous(k, m)
               /\ r.result = "RS_INPUT_ENDED" => j.eof_in
               /\ r.result = "RS_BLOCKED" => ~j.eof_in /\ k.avail_in = 0
               /\ r.result = "RS_DONE" => j.cursor + len <= Len(input)
  <1> DEFINE a == Readahead(j, len)
             r == Read(j, len)
             k == r.job
             b == rs_scoop_advance(a.job, len)
  <1>1. /\ Work(j, a.job) /\ SameOutput(j, a.job) /\ a.job.cursor = j.cursor
        /\ a.job.asserts = j.asserts
        /\ a.result \in {"RS_DONE", "RS_INPUT_ENDED", "RS_BLOCKED"}
        /\ a.result = "RS_DONE" <=> Contiguous(a.job, len)
        /\ Contiguous(j, len) => SameInput(j, a.job) /\ a.result = "RS_DONE"
        /\ a.result = "RS_INPUT_ENDED" => j.eof_in
        /\ a.result = "RS_BLOCKED" => ~j.eof_in /\ a.job.avail_in = 0
    BY ReadaheadFacts
  <1>2. DOMAIN a = {"job", "result"}
    BY DEF Readahead
  <1>3. r.result = a.result /\ k = IF a.result = "RS_DONE" THEN b ELSE a.job
    <2>1. r = [a EXCEPT !.job = IF a.result = "RS_DONE" THEN b ELSE a.job]
      BY DEF Read
    <2> HIDE DEF a, b, r
    <2> QED
      BY <1>2, <2>1
  <1>4. JobOK(a.job)
    BY <1>1 DEF Work
  <1> HIDE DEF a, r
  <1>5. CASE a.result = "RS_DONE"
    <2>1. /\ Work(a.job, b) /\ SameOutput(a.job, b) /\ b.cursor = a.job.cursor + len
          /\ (a.job.asserts => b.asserts)
          /\ \A m \in Nat : Contiguous(a.job, len + m) => Contiguous(b, m)
      BY <1>1, <1>4, <1>5, AdvanceFacts
    <2>2. k = b
      BY <1>3, <1>5
    <2> HIDE DEF b, k
    <2>3. Work(j, k)
      BY <1>1, <2>1, <2>2, WorkAddsUp
    <2>4. SameOutput(j, k) /\ k.cursor = j.cursor + len /\ (j.asserts => k.asserts)
      BY <1>1, <2>1, <2>2 DEF SameOutput
    <2>5. \A m \in Nat : Contiguous(j, len + m) => Contiguous(k, m)
      <3> SUFFICES ASSUME NEW m \in Nat, Contiguous(j, len + m)
                   PROVE  Contiguous(k, m)
        OBVIOUS
      <3>1. Contiguous(j, len) 
        BY DEF Contiguous, JobOK
      <3>2. Contiguous(a.job, len + m)
        BY <1>1, <3>1 DEF SameInput, Contiguous
      <3> QED
        BY <2>1, <2>2, <3>2
    <2>6. j.cursor + len <= Len(input)
      <3>1. k.scoop_avail \in Nat /\ k.avail_in \in Nat /\ k.cursor \in Nat
            /\ k.cursor + k.scoop_avail + k.avail_in <= Len(input) /\ Len(input) \in Nat
        BY <2>3, LengthFacts DEF Work, JobOK
      <3> QED
        BY <2>4, <3>1
    <2> QED
      BY <1>3, <1>5, <2>3, <2>4, <2>5, <2>6 DEF k, r
  <1>6. CASE a.result # "RS_DONE"
    <2>1. k = a.job
      BY <1>3, <1>6
    <2>2. ~Contiguous(j, len) /\ \A m \in Nat : ~Contiguous(j, len + m)
      BY <1>1, <1>6 DEF Contiguous, JobOK
    <2> QED
      BY <1>1, <1>3, <1>6, <2>1, <2>2 DEF k, r
  <1> QED
    BY <1>5, <1>6

\* When there is not enough, all there is lies in the scoop.
LEMMA ReadShort ==
    ASSUME NEW j, JobOK(j), NEW len \in Nat, Read(j, len).result # "RS_DONE"
    PROVE  LET k == Read(j, len).job
           IN  k.avail_in = 0 /\ rs_scoop_avail(k) = rs_scoop_avail(j) /\ rs_scoop_avail(j) < len
  <1> DEFINE direct == j.scoop_avail = 0 /\ j.avail_in >= len
             n == IF ~direct /\ j.scoop_avail < len
                    THEN Lesser(len - j.scoop_avail, j.avail_in) ELSE 0
             k == [j EXCEPT !.scoop_avail = @ + n, !.avail_in = @ - n]
             res == IF direct \/ k.scoop_avail >= len THEN "RS_DONE"
                    ELSE IF j.eof_in THEN "RS_INPUT_ENDED" ELSE "RS_BLOCKED"
             a == Readahead(j, len)
  <1>1. a = [job |-> k, result |-> res]
    BY DEF Readahead
  <1>2. res # "RS_DONE" /\ Read(j, len).job = k
    <2> HIDE DEF k, res, a
    <2>1. /\ Read(j, len) = [a EXCEPT !.job = IF a.result = "RS_DONE"
                                                THEN rs_scoop_advance(@, len) ELSE @]
      BY DEF Read, a
    <2>2. Read(j, len).result = a.result
      BY <1>1, <2>1
    <2>3. a.result # "RS_DONE"
      BY <2>2
    <2>4. Read(j, len).job = a.job
      BY <1>1, <2>1, <2>3
    <2> QED
      BY <1>1, <2>3, <2>4
  <1>3. /\ j.scoop_avail \in Nat /\ j.avail_in \in Nat
        /\ k.scoop_avail = j.scoop_avail + n /\ k.avail_in = j.avail_in - n
    BY DEF JobOK, JobFields
  <1> DEFINE m == n
  <1>4. m \in Nat /\ m = n
    BY <1>3 DEF Lesser
  <1>5. ~direct /\ ~(j.scoop_avail + n >= len)
    <2> HIDE DEF direct, k, n
    <2> QED
      BY <1>2, <1>3
  <1>6. n = j.avail_in /\ j.scoop_avail + j.avail_in < len
    BY <1>3, <1>5 DEF Lesser
  <1> HIDE DEF direct, n, k, res, a
  <1> QED
    BY <1>2, <1>3, <1>6 DEF rs_scoop_avail

\* rs_scoop_read_rest takes all there is.
LEMMA ReadRestFacts ==
    ASSUME NEW j, JobOK(j)
    PROVE  LET r == ReadRest(j)
               k == r.job
           IN  /\ Work(j, k) /\ SameOutput(j, k) /\ (j.asserts => k.asserts)
               /\ rs_scoop_avail(j) > 0 =>
                    r.result = "RS_DONE" /\ k.cursor = j.cursor + rs_scoop_avail(j)
               /\ rs_scoop_avail(j) = 0 =>
                    k = j /\ r.result = IF j.eof_in THEN "RS_INPUT_ENDED" ELSE "RS_BLOCKED"
  <1>0. rs_scoop_avail(j) \in Nat
    BY DEF JobOK, rs_scoop_avail
  <1>1. CASE rs_scoop_avail(j) > 0
    <2>1. ReadRest(j) = Read(j, rs_scoop_avail(j))
      BY <1>1 DEF ReadRest
    <2>2. Read(j, rs_scoop_avail(j)).result = "RS_DONE"
      BY <1>0, ReadShort
    <2> QED
      BY <1>0, <1>1, <2>1, <2>2, ReadFacts
  <1>2. CASE rs_scoop_avail(j) = 0
    <2> DEFINE r == ReadRest(j)
    <2>1. r = [job |-> j, result |-> IF j.eof_in THEN "RS_INPUT_ENDED" ELSE "RS_BLOCKED"]
      BY <1>2 DEF ReadRest
    <2>2. r.job = j /\ r.result = IF j.eof_in THEN "RS_INPUT_ENDED" ELSE "RS_BLOCKED"
      BY <2>1
    <2> HIDE DEF r
    <2>3. Work(j, r.job) /\ SameOutput(j, r.job)
      BY <2>2, WorkAddsUp DEF SameOutput
    <2> QED
      BY <1>2, <2>2, <2>3 DEF r
  <1> QED
    BY <1>0, <1>1, <1>2

-----------------------------------------------------------------------------
(* tube.c                                                                  *)

\* rs_tube_write and rs_tube_copy queue output and put out nothing yet.
LEMMA TubeFacts ==
    ASSUME NEW j, JobOK(j)
    PROVE  /\ \A bytes \in Seq(Nat) :
                LET k == rs_tube_write(j, bytes)
                IN  /\ Work(j, k) /\ SameInput(j, k)
                    /\ k.out = j.out /\ k.avail_out = j.avail_out /\ k.copy_len = j.copy_len
                    /\ k.write_buf = j.write_buf \o bytes
                    /\ k.asserts = (j.asserts /\ (j.copy_len = 0 /\ TubeLen(j) + Len(bytes) <= TubeSize))
           /\ \A len \in Nat :
                LET k == rs_tube_copy(j, len)
                IN  /\ Work(j, k) /\ SameInput(j, k)
                    /\ k.out = j.out /\ k.avail_out = j.avail_out /\ k.write_buf = j.write_buf
                    /\ k.copy_len = len
                    /\ k.asserts = (j.asserts /\ j.copy_len = 0)
  <1>1. ASSUME NEW bytes \in Seq(Nat)
        PROVE  LET k == rs_tube_write(j, bytes)
               IN  /\ Work(j, k) /\ SameInput(j, k)
                   /\ k.out = j.out /\ k.avail_out = j.avail_out /\ k.copy_len = j.copy_len
                   /\ k.write_buf = j.write_buf \o bytes
                   /\ k.asserts = (j.asserts /\ (j.copy_len = 0 /\ TubeLen(j) + Len(bytes) <= TubeSize))
    <2> DEFINE cond == j.copy_len = 0 /\ TubeLen(j) + Len(bytes) <= TubeSize
               a == Assert_(j, cond)
               k == rs_tube_write(j, bytes)
    <2>1. k = [a EXCEPT !.write_buf = @ \o bytes]
      BY DEF rs_tube_write, TubeLen
    <2> HIDE DEF k, cond
    <2>2. /\ Work(j, a) /\ SameOutput(j, a) /\ SameInput(j, a) /\ a.asserts = (j.asserts /\ cond)
      BY AssertFacts
    <2> HIDE DEF a
    <2>3. JobOK(a)
      BY <2>2 DEF Work
    <2>4. /\ DOMAIN k = JobFields /\ k.write_buf = a.write_buf \o bytes
          /\ \A f \in JobFields \ {"write_buf"} : k[f] = a[f]
      BY <2>1, <2>3 DEF JobOK, JobFields
    <2>5. /\ SameInput(j, k) /\ k.out = j.out /\ k.avail_out = j.avail_out /\ k.eof_in = j.eof_in
          /\ k.copy_len = j.copy_len /\ k.asserts = a.asserts
          /\ k.write_buf = j.write_buf \o bytes
      BY <2>2, <2>4 DEF JobFields, SameInput, SameOutput, Work
    <2>6. k.write_buf \in Seq(Nat)
      BY <2>5, ConcatProperties DEF JobOK
    <2>7. JobOK(k)
      BY <2>4, <2>5, <2>6 DEF JobOK, SameInput
    <2>8. Work(j, k)
      BY <2>5, <2>7 DEF OutLen, Work, JobOK, SameInput
    <2> QED
      BY <2>2, <2>5, <2>8 DEF k, cond
  <1>2. ASSUME NEW len \in Nat
        PROVE  LET k == rs_tube_copy(j, len)
               IN  /\ Work(j, k) /\ SameInput(j, k)
                   /\ k.out = j.out /\ k.avail_out = j.avail_out /\ k.write_buf = j.write_buf
                   /\ k.copy_len = len
                   /\ k.asserts = (j.asserts /\ j.copy_len = 0)
    <2> DEFINE a == Assert_(j, j.copy_len = 0)
               k == rs_tube_copy(j, len)
    <2>1. k = [a EXCEPT !.copy_len = len]
      BY DEF rs_tube_copy
    <2> HIDE DEF k
    <2>2. /\ Work(j, a) /\ SameOutput(j, a) /\ SameInput(j, a)
          /\ a.asserts = (j.asserts /\ j.copy_len = 0)
      BY AssertFacts
    <2> HIDE DEF a
    <2>3. JobOK(a)
      BY <2>2 DEF Work
    <2>4. /\ DOMAIN k = JobFields /\ k.copy_len = len
          /\ \A f \in JobFields \ {"copy_len"} : k[f] = a[f]
      BY <2>1, <2>3 DEF JobOK, JobFields
    <2>5. /\ SameInput(j, k) /\ k.out = j.out /\ k.avail_out = j.avail_out /\ k.eof_in = j.eof_in
          /\ k.write_buf = j.write_buf /\ k.asserts = a.asserts
      BY <2>2, <2>4 DEF JobFields, SameInput, SameOutput, Work
    <2>6. JobOK(k)
      BY <2>4, <2>5 DEF JobOK, SameInput
    <2>7. Work(j, k)
      BY <2>5, <2>6 DEF OutLen, Work, JobOK, SameInput
    <2> QED
      BY <2>2, <2>4, <2>5, <2>7 DEF k
  <1> QED
    BY <1>1, <1>2

\* A piece of a sequence.
LEMMA PieceFacts ==
    ASSUME NEW s \in Seq(Nat), NEW m \in Nat, NEW n \in Nat, m + n <= Len(s)
    PROVE  /\ SubSeq(s, m + 1, m + n) \in Seq(Nat) /\ Len(SubSeq(s, m + 1, m + n)) = n
           /\ \A i \in 1 .. n : SubSeq(s, m + 1, m + n)[i] = s[m + i]
  <1>1. Len(s) \in Nat /\ \A i \in 1 .. Len(s) : s[i] \in Nat
    BY LenProperties
  <1>2. \A i \in m + 1 .. m + n : s[i] \in Nat
    BY <1>1
  <1>3. /\ SubSeq(s, m + 1, m + n) \in Seq(Nat)
        /\ Len(SubSeq(s, m + 1, m + n)) = IF m + 1 <= m + n THEN m + n - (m + 1) + 1 ELSE 0
        /\ \A i \in 1 .. m + n - (m + 1) + 1 : SubSeq(s, m + 1, m + n)[i] = s[m + 1 + i - 1]
    BY <1>2, SubSeqProperties
  <1>4. /\ (IF m + 1 <= m + n THEN m + n - (m + 1) + 1 ELSE 0) = n
        /\ m + n - (m + 1) + 1 = n /\ \A i \in 1 .. n : m + 1 + i - 1 = m + i
    OBVIOUS
  <1>5. Len(SubSeq(s, m + 1, m + n)) = n
    BY <1>3, <1>4
  <1>6. \A i \in 1 .. n : SubSeq(s, m + 1, m + n)[i] = s[m + i]
    BY <1>3, <1>4
  <1> QED
    BY <1>3, <1>5, <1>6

\* Putting out some bytes for as much of the room.
LEMMA PutOut ==
    ASSUME NEW j, JobOK(j), NEW k, NEW bytes \in Seq(Nat), Len(bytes) <= j.avail_out,
           DOMAIN k = JobFields, k.out = j.out \o bytes, k.avail_out = j.avail_out - Len(bytes),
           k.eof_in = j.eof_in, k.write_buf \in Seq(Nat), k.copy_len \in Nat,
           k.cursor \in Nat, k.scoop_avail \in Nat, k.avail_in \in Nat, k.avail_in <= j.avail_in,
           k.cursor + k.scoop_avail + k.avail_in = j.cursor + j.scoop_avail + j.avail_in
    PROVE  Work(j, k) /\ OutLen(k) = OutLen(j) + Len(bytes)
  <1>1. j.out \in Seq(Nat) /\ j.avail_out \in Nat
    BY DEF JobOK
  <1>2. Len(bytes) \in Nat /\ OutLen(j) \in Nat
    BY <1>1, LenProperties DEF OutLen
  <1>3. /\ k.out \in Seq(Nat) /\ OutLen(k) = OutLen(j) + Len(bytes)
        /\ \A i \in 1 .. OutLen(j) : k.out[i] = j.out[i]
    <2>1. /\ j.out \o bytes \in Seq(Nat) /\ Len(j.out \o bytes) = OutLen(j) + Len(bytes)
          /\ \A i \in 1 .. OutLen(j) + Len(bytes) :
                (j.out \o bytes)[i] = IF i <= OutLen(j) THEN j.out[i] ELSE bytes[i - OutLen(j)]
      BY <1>1, ConcatProperties DEF OutLen
    <2>2. OutLen(k) = Len(j.out \o bytes)
      BY DEF OutLen
    <2>3. \A i \in 1 .. OutLen(j) : i \in 1 .. OutLen(j) + Len(bytes) /\ i <= OutLen(j)
      BY <1>2
    <2> QED
      BY <2>1, <2>2, <2>3
  <1>4. k.avail_out \in Nat /\ k.avail_out <= j.avail_out
        /\ OutLen(k) + k.avail_out = OutLen(j) + j.avail_out
    <2>1. OutLen(k) = OutLen(j) + Len(bytes) /\ j.avail_out \in Nat
      BY <1>1, <1>3
    <2> QED
      BY <1>2, <2>1, SMTT(40)
  <1>5. JobOK(k)
    BY <1>3, <1>4 DEF JobOK
  <1> QED
    BY <1>3, <1>4, <1>5 DEF Work

\* rs_tube_catchup_write moves what there is room for from the tube to the output.
LEMMA CatchupWriteFacts ==
    ASSUME NEW j, JobOK(j)
    PROVE  LET k == rs_tube_catchup_write(j)
           IN  /\ Work(j, k) /\ SameInput(j, k) /\ k.copy_len = j.copy_len
               /\ k.asserts = j.asserts
               /\ OutLen(k) + TubeLen(k) = OutLen(j) + TubeLen(j)
               /\ k.write_buf # <<>> => k.avail_out = 0
  <1> DEFINE k == rs_tube_catchup_write(j)
             n == Lesser(TubeLen(j), j.avail_out)
             bytes == SubSeq(j.write_buf, 1, n)
             rest == SubSeq(j.write_buf, n + 1, TubeLen(j))
  <1>0. /\ j.avail_out \in Nat /\ j.write_buf \in Seq(Nat) /\ TubeLen(j) \in Nat
        /\ OutLen(j) \in Nat
    BY LengthFacts DEF JobOK
  <1>1. /\ n \in Nat /\ n <= TubeLen(j) /\ n <= j.avail_out
        /\ n = TubeLen(j) \/ n = j.avail_out
    BY <1>0 DEF Lesser
  <1>2. k = [j EXCEPT !.out = @ \o bytes, !.avail_out = @ - n, !.write_buf = rest]
    BY DEF rs_tube_catchup_write, TubeLen
  <1> HIDE DEF n, k
  <1>3. bytes \in Seq(Nat) /\ Len(bytes) = n
    <2>1. 0 \in Nat /\ 0 + 1 = 1 /\ 0 + n = n
      BY <1>1
    <2> QED
      BY <1>0, <1>1, <2>1, PieceFacts DEF TubeLen
  <1>4. rest \in Seq(Nat) /\ Len(rest) = TubeLen(j) - n
    <2>1. TubeLen(j) - n \in Nat /\ n + (TubeLen(j) - n) = TubeLen(j)
      BY <1>0, <1>1
    <2> QED
      BY <1>0, <1>1, <2>1, PieceFacts DEF TubeLen
  <1> HIDE DEF bytes, rest
  <1>5. /\ DOMAIN k = JobFields /\ k.out = j.out \o bytes /\ k.avail_out = j.avail_out - n
        /\ k.write_buf = rest
        /\ \A f \in JobFields \ {"out", "avail_out", "write_buf"} : k[f] = j[f]
    BY <1>2 DEF JobOK, JobFields
  <1>6. /\ SameInput(j, k) /\ k.eof_in = j.eof_in /\ k.copy_len = j.copy_len
        /\ k.asserts = j.asserts
    BY <1>5 DEF SameInput, JobFields
  <1>7. Work(j, k) /\ OutLen(k) = OutLen(j) + n
    <2>1. /\ k.cursor \in Nat /\ k.scoop_avail \in Nat /\ k.avail_in \in Nat /\ k.copy_len \in Nat
          /\ k.avail_in <= j.avail_in
          /\ k.cursor + k.scoop_avail + k.avail_in = j.cursor + j.scoop_avail + j.avail_in
      BY <1>6 DEF SameInput, JobOK
    <2> QED
      BY <1>1, <1>3, <1>4, <1>5, <1>6, <2>1, PutOut
  <1>8. k.write_buf # <<>> => k.avail_out = 0
    <2>1. Len(rest) = 0 => rest = <<>>
      BY <1>4, EmptySeq
    <2> QED
      BY <1>0, <1>1, <1>4, <1>5, <2>1
  <1>9. OutLen(k) + TubeLen(k) = OutLen(j) + TubeLen(j)
    <2>1. TubeLen(k) = TubeLen(j) - n /\ OutLen(k) = OutLen(j) + n
      BY <1>4, <1>5, <1>7 DEF TubeLen
    <2>2. TubeLen(j) \in Nat /\ OutLen(j) \in Nat /\ n \in Nat
      BY <1>0, <1>1
    <2> QED
      BY <2>1, <2>2
  <1> QED
    BY <1>6, <1>7, <1>8, <1>9 DEF k

\* rs_tube_catchup_copy moves what there is input and room for, straight from the
\* input to the output.
LEMMA CatchupCopyFacts ==
    ASSUME NEW j, JobOK(j)
    PROVE  LET k == rs_tube_catchup_copy(j)
           IN  /\ Work(j, k) /\ k.write_buf = j.write_buf /\ k.asserts = j.asserts
               /\ k.cursor + k.copy_len = j.cursor + j.copy_len
               /\ OutLen(k) + k.copy_len = OutLen(j) + j.copy_len
               /\ k.copy_len # 0 => rs_scoop_avail(k) = 0 \/ k.avail_out = 0
               /\ k.scoop_avail <= j.scoop_avail
  <1> DEFINE k == rs_tube_catchup_copy(j)
             n == Lesser(Lesser(j.copy_len, rs_scoop_avail(j)), j.avail_out)
             first == Lesser(n, j.scoop_avail)
             bytes == NextBytes(j, n)
  <1>0. /\ j.avail_out \in Nat /\ j.copy_len \in Nat /\ j.scoop_avail \in Nat /\ j.avail_in \in Nat
        /\ j.cursor \in Nat
    BY DEF JobOK
  <1>00. /\ input \in Seq(Nat) /\ Len(input) \in Nat /\ OutLen(j) \in Nat
         /\ j.cursor + j.scoop_avail + j.avail_in <= Len(input)
    BY LengthFacts DEF JobOK
  <1>1. /\ n \in Nat /\ n <= j.copy_len /\ n <= j.scoop_avail + j.avail_in /\ n <= j.avail_out
    BY <1>0 DEF Lesser, rs_scoop_avail
  <1>10. n = j.copy_len \/ n = j.scoop_avail + j.avail_in \/ n = j.avail_out
    BY <1>0 DEF Lesser, rs_scoop_avail
  <1>2. k = [j EXCEPT !.out = @ \o bytes, !.avail_out = @ - n, !.copy_len = @ - n,
                      !.cursor = @ + n, !.scoop_avail = @ - first, !.avail_in = @ - (n - first)]
    BY DEF rs_tube_catchup_copy
  <1> HIDE DEF n, k
  <1>3. first \in Nat /\ first <= n /\ first <= j.scoop_avail /\ n - first <= j.avail_in
    BY <1>0, <1>1 DEF Lesser
  <1> HIDE DEF first
  <1>4. bytes \in Seq(Nat) /\ Len(bytes) = n
    <2>1. j.cursor + n <= Len(input)
      BY <1>0, <1>00, <1>1
    <2> QED
      BY <1>0, <1>00, <1>1, <2>1, PieceFacts, ZenonT(60) DEF NextBytes
  <1> HIDE DEF bytes
  <1>5. /\ DOMAIN k = JobFields /\ k.out = j.out \o bytes /\ k.avail_out = j.avail_out - n
        /\ k.copy_len = j.copy_len - n /\ k.cursor = j.cursor + n
        /\ k.scoop_avail = j.scoop_avail - first /\ k.avail_in = j.avail_in - (n - first)
        /\ k.write_buf = j.write_buf /\ k.eof_in = j.eof_in /\ k.asserts = j.asserts
    BY <1>2 DEF JobOK, JobFields
  <1>6. /\ k.cursor \in Nat /\ k.scoop_avail \in Nat /\ k.avail_in \in Nat /\ k.copy_len \in Nat
        /\ k.avail_in <= j.avail_in /\ k.scoop_avail <= j.scoop_avail
        /\ k.cursor + k.scoop_avail + k.avail_in = j.cursor + j.scoop_avail + j.avail_in
    <2>1. /\ k.copy_len = j.copy_len - n /\ k.cursor = j.cursor + n
          /\ k.scoop_avail = j.scoop_avail - first /\ k.avail_in = j.avail_in - (n - first)
      BY <1>5
    <2> QED
      BY <1>0, <1>1, <1>3, <2>1
  <1>7. Work(j, k) /\ OutLen(k) = OutLen(j) + n
    <2>1. k.write_buf \in Seq(Nat)
      BY <1>5 DEF JobOK
    <2> QED
      BY <1>1, <1>4, <1>5, <1>6, <2>1, PutOut
  <1>8. k.copy_len # 0 => rs_scoop_avail(k) = 0 \/ k.avail_out = 0
    <2>1. /\ k.copy_len = j.copy_len - n /\ k.avail_out = j.avail_out - n
          /\ k.scoop_avail = j.scoop_avail - first /\ k.avail_in = j.avail_in - (n - first)
      BY <1>5
    <2> QED
      <3>1. CASE n = j.copy_len
        BY <1>0, <2>1, <3>1
      <3>2. CASE n = j.avail_out
        BY <1>0, <2>1, <3>2
      <3>3. CASE n = j.scoop_avail + j.avail_in
        <4>1. first = j.scoop_avail /\ n - first = j.avail_in
          BY <1>0, <1>3, <3>3
        <4> QED
          BY <1>0, <2>1, <4>1 DEF rs_scoop_avail
      <3> QED
        BY <1>10, <3>1, <3>2, <3>3
  <1>9. /\ k.cursor + k.copy_len = j.cursor + j.copy_len
        /\ OutLen(k) + k.copy_len = OutLen(j) + j.copy_len
    <2>1. k.cursor = j.cursor + n /\ k.copy_len = j.copy_len - n /\ OutLen(k) = OutLen(j) + n
      BY <1>5, <1>7
    <2> QED
      BY <1>0, <1>00, <1>1, <2>1, SMTT(40)
  <1> QED
    BY <1>5, <1>6, <1>7, <1>8, <1>9 DEF k

\* rs_tube_catchup succeeds when the tube is empty.
LEMMA CatchupFacts ==
    ASSUME NEW j, JobOK(j)
    PROVE  LET c == rs_tube_catchup(j)
               k == c.job
           IN  /\ Work(j, k) /\ k.asserts = j.asserts
               /\ c.result \in {"RS_DONE", "RS_INPUT_ENDED", "RS_BLOCKED"}
               /\ c.result = "RS_DONE" => rs_tube_is_idle(k)
               /\ k.cursor + k.copy_len = j.cursor + j.copy_len
               /\ OutLen(k) + TubeLen(k) + k.copy_len
                    = OutLen(j) + TubeLen(j) + j.copy_len
               /\ j.write_buf = <<>> => k.write_buf = <<>>
               /\ c.result = "RS_BLOCKED" => k.avail_out = 0 \/ (rs_scoop_avail(k) = 0 /\ ~k.eof_in)
               /\ k.scoop_avail <= j.scoop_avail
  <1> DEFINE w == rs_tube_catchup_write(j)
             k == rs_tube_catchup_copy(w)
             c == rs_tube_catchup(j)
  <1>1. /\ Work(j, w) /\ SameInput(j, w) /\ w.copy_len = j.copy_len /\ w.asserts = j.asserts
        /\ OutLen(w) + TubeLen(w) = OutLen(j) + TubeLen(j)
        /\ w.write_buf # <<>> => w.avail_out = 0
    BY CatchupWriteFacts
  <1>2. JobOK(w)
    BY <1>1 DEF Work
  <1>3. /\ Work(w, k) /\ k.write_buf = w.write_buf /\ k.asserts = w.asserts
        /\ k.cursor + k.copy_len = w.cursor + w.copy_len
        /\ OutLen(k) + k.copy_len = OutLen(w) + w.copy_len
        /\ k.copy_len # 0 => rs_scoop_avail(k) = 0 \/ k.avail_out = 0
        /\ k.scoop_avail <= w.scoop_avail
    BY <1>2, CatchupCopyFacts
  <1>4. /\ w.write_buf # <<>> => c.job = w /\ c.result = "RS_BLOCKED"
        /\ w.write_buf = <<>> =>
             /\ c.job = k
             /\ c.result = IF k.copy_len = 0 THEN "RS_DONE"
                           ELSE IF rs_scoop_eof(k) THEN "RS_INPUT_ENDED" ELSE "RS_BLOCKED"
    BY DEF rs_tube_catchup
  <1> HIDE DEF w, k, c
  <1>5. /\ OutLen(j) \in Nat /\ TubeLen(j) \in Nat /\ OutLen(w) \in Nat
        /\ TubeLen(w) \in Nat /\ j.copy_len \in Nat
    BY <1>2, LengthFacts DEF JobOK
  <1>6. j.write_buf = <<>> => w.write_buf = <<>>
    <2> SUFFICES ASSUME j.write_buf = <<>>
                 PROVE  w.write_buf = <<>>
      OBVIOUS
    <2>1. OutLen(j) <= OutLen(w) /\ TubeLen(j) = 0
      <3>1. /\ OutLen(w) + w.avail_out = OutLen(j) + j.avail_out /\ w.avail_out <= j.avail_out
            /\ w.avail_out \in Nat /\ j.avail_out \in Nat
        BY <1>1, <1>2 DEF Work, JobOK
      <3> QED
        <4>1. TubeLen(j) = 0
          BY DEF TubeLen
        <4>2. OutLen(j) \in Nat /\ OutLen(w) \in Nat
          BY <1>5
        <4> QED
          BY <3>1, <4>1, <4>2
    <2>2. TubeLen(w) = 0 /\ w.write_buf \in Seq(Nat)
      <3>1. OutLen(w) + TubeLen(w) = OutLen(j) + TubeLen(j)
        BY <1>1
      <3>2. w.write_buf \in Seq(Nat)
        BY <1>2 DEF JobOK
      <3> QED
        BY <1>5, <2>1, <3>1, <3>2
    <2> QED
      BY <2>2, EmptySeq DEF TubeLen
  <1>7. CASE w.write_buf # <<>>
    <2>1. c.job = w /\ c.result = "RS_BLOCKED"
      BY <1>4, <1>7
    <2>2. w.cursor + w.copy_len = j.cursor + j.copy_len /\ w.scoop_avail <= j.scoop_avail
      BY <1>1 DEF SameInput, JobOK
    <2>3. OutLen(w) + TubeLen(w) + w.copy_len = OutLen(j) + TubeLen(j) + j.copy_len
      BY <1>1, <1>5
    <2> QED
      BY <1>1, <1>6, <1>7, <2>1, <2>2, <2>3 DEF c
  <1>8. CASE w.write_buf = <<>>
    <2>1. /\ c.job = k
          /\ c.result = IF k.copy_len = 0 THEN "RS_DONE"
                        ELSE IF rs_scoop_eof(k) THEN "RS_INPUT_ENDED" ELSE "RS_BLOCKED"
      BY <1>4, <1>8
    <2>2. Work(j, k)
      BY <1>1, <1>3, WorkAddsUp
    <2>3. /\ k.cursor + k.copy_len = j.cursor + j.copy_len /\ k.asserts = j.asserts
          /\ k.scoop_avail <= j.scoop_avail
      BY <1>1, <1>3 DEF SameInput
    <2>4. OutLen(k) \in Nat /\ k.copy_len \in Nat /\ TubeLen(k) \in Nat
      BY <2>2, LengthFacts DEF Work, JobOK
    <2>5. OutLen(k) + TubeLen(k) + k.copy_len = OutLen(j) + TubeLen(j) + j.copy_len
      <3>1. /\ TubeLen(k) = TubeLen(w) /\ w.copy_len = j.copy_len
            /\ OutLen(k) + k.copy_len = OutLen(w) + w.copy_len
            /\ OutLen(w) + TubeLen(w) = OutLen(j) + TubeLen(j)
        BY <1>1, <1>3 DEF TubeLen
      <3> QED
        BY <1>5, <2>4, <3>1
    <2>6. c.result = "RS_DONE" => rs_tube_is_idle(k)
      BY <1>3, <1>8, <2>1 DEF rs_tube_is_idle
    <2>7. c.result = "RS_BLOCKED" => k.avail_out = 0 \/ (rs_scoop_avail(k) = 0 /\ ~k.eof_in)
      BY <1>3, <2>1 DEF rs_scoop_eof
    <2> QED
      BY <1>3, <1>8, <2>1, <2>2, <2>3, <2>5, <2>6, <2>7 DEF c
  <1> QED
    BY <1>7, <1>8

\* Strings of bytes may be put together in any order.
LEMMA ConcatBytes == \A s, t, u \in Seq(Nat) : (s \o t) \o u = s \o (t \o u)
  BY ConcatAssociative, SMTT(40)

\* Bytes that wait are moved to the output, in order.
LEMMA CatchupWriteKeeps ==
    ASSUME NEW j, JobOK(j)
    PROVE  LET w == rs_tube_catchup_write(j) IN w.out \o w.write_buf = j.out \o j.write_buf
  <1> DEFINE w == rs_tube_catchup_write(j)
             n == Lesser(Len(j.write_buf), j.avail_out)
             bytes == SubSeq(j.write_buf, 1, n)
             rest == SubSeq(j.write_buf, n + 1, Len(j.write_buf))
  <1>1. j.out \in Seq(Nat) /\ j.write_buf \in Seq(Nat) /\ DOMAIN j = JobFields /\ j.avail_out \in Nat
    BY DEF JobOK
  <1>2. w = [j EXCEPT !.out = @ \o bytes, !.avail_out = @ - n, !.write_buf = rest]
    BY DEF rs_tube_catchup_write
  <1>3. Len(j.write_buf) \in Nat
    BY <1>1
  <1>4. n \in Nat /\ n <= Len(j.write_buf)
    BY <1>1, <1>3 DEF Lesser
  <1> HIDE DEF w, n
  <1>5. w.out = j.out \o bytes /\ w.write_buf = rest
    BY <1>1, <1>2 DEF JobFields
  <1>6. bytes \in Seq(Nat) /\ rest \in Seq(Nat)
    <2>1. 0 \in Nat /\ 0 + 1 = 1 /\ 0 + n = n /\ Len(j.write_buf) - n \in Nat
          /\ n + (Len(j.write_buf) - n) = Len(j.write_buf)
      BY <1>3, <1>4
    <2> DEFINE m == Len(j.write_buf) - n
    <2>2. SubSeq(j.write_buf, 0 + 1, 0 + n) \in Seq(Nat)
      BY <1>1, <1>4, <2>1, PieceFacts
    <2>3. SubSeq(j.write_buf, n + 1, n + m) \in Seq(Nat)
      <3>1. m \in Nat /\ n + m <= Len(j.write_buf)
        BY <1>3, <2>1
      <3> HIDE DEF m
      <3> QED
        BY <1>1, <1>4, <3>1, PieceFacts, Zenon
    <2> QED
      BY <2>1, <2>2, <2>3
  <1>7. bytes \o rest = j.write_buf
    <2>1. /\ 1 \in 1 .. Len(j.write_buf) + 1 /\ n \in 1 - 1 .. Len(j.write_buf)
          /\ Len(j.write_buf) \in n .. Len(j.write_buf)
      BY <1>3, <1>4
    <2>2. bytes \o rest = SubSeq(j.write_buf, 1, Len(j.write_buf))
      BY <1>1, <2>1, ConcatAdjacentSubSeq
    <2> QED
      BY <1>1, <2>2, SubSeqFull
  <1> HIDE DEF bytes, rest
  <1>8. (j.out \o bytes) \o rest = j.out \o (bytes \o rest)
    <2>1. j.out \in Seq(Nat)
      BY <1>1
    <2> QED
      BY <1>6, <2>1, ConcatBytes
  <1> QED
    BY <1>5, <1>7, <1>8, Zenon DEF w

\* Without a copy under way rs_tube_catchup only moves bytes from the tube to the
\* output, and is blocked only on room for them.
LEMMA CatchupPlain ==
    ASSUME NEW j, JobOK(j), j.copy_len = 0
    PROVE  LET c == rs_tube_catchup(j)
               k == c.job
           IN  /\ Work(j, k) /\ k.asserts = j.asserts
               /\ SameInput(j, k) /\ k.eof_in = j.eof_in /\ k.copy_len = 0
               /\ k.out \o k.write_buf = j.out \o j.write_buf
               /\ c.result = "RS_DONE" => k.write_buf = <<>>
               /\ c.result # "RS_DONE" =>
                    c.result = "RS_BLOCKED" /\ k.write_buf # <<>> /\ k.avail_out = 0
  <1> DEFINE w == rs_tube_catchup_write(j)
             k == rs_tube_catchup_copy(w)
             c == rs_tube_catchup(j)
  <1>1. /\ Work(j, w) /\ SameInput(j, w) /\ w.copy_len = j.copy_len /\ w.asserts = j.asserts
        /\ w.write_buf # <<>> => w.avail_out = 0
    BY CatchupWriteFacts
  <1>2. JobOK(w) /\ w.eof_in = j.eof_in
    BY <1>1 DEF Work
  <1>3. w.out \o w.write_buf = j.out \o j.write_buf
    BY CatchupWriteKeeps
  <1> HIDE DEF w
  <1>4. CASE w.write_buf # <<>>
    <2>1. c.job = w /\ c.result = "RS_BLOCKED"
      BY <1>4 DEF rs_tube_catchup, w
    <2> HIDE DEF c
    <2> QED
      BY <1>1, <1>2, <1>3, <1>4, <2>1 DEF c
  <1>5. CASE w.write_buf = <<>>
    <2> DEFINE m == Lesser(Lesser(w.copy_len, rs_scoop_avail(w)), w.avail_out)
               first == Lesser(m, w.scoop_avail)
    <2>1. w.avail_out \in Nat /\ w.scoop_avail \in Nat /\ w.avail_in \in Nat /\ w.cursor \in Nat
          /\ w.out \in Seq(Nat) /\ w.copy_len = 0 /\ DOMAIN w = JobFields
      BY <1>1, <1>2 DEF JobOK
    <2>2. m = 0 /\ first = 0
      BY <2>1 DEF Lesser, rs_scoop_avail
    <2>3. k = [w EXCEPT !.out = @ \o NextBytes(w, m), !.avail_out = @ - m, !.copy_len = @ - m,
                        !.cursor = @ + m, !.scoop_avail = @ - first, !.avail_in = @ - (m - first)]
      BY DEF rs_tube_catchup_copy
    <2> HIDE DEF m, first
    <2>4. NextBytes(w, m) = <<>>
      <3>1. w.cursor + m < w.cursor + 1 /\ w.cursor + m \in Int /\ w.cursor + 1 \in Int
        BY <2>1, <2>2
      <3> QED
        BY <3>1, SubSeqEmpty DEF NextBytes
    <2>5. w.out \o NextBytes(w, m) = w.out
      BY <2>1, <2>4, ConcatEmptySeq
    <2>6. /\ k.out = w.out /\ k.copy_len = 0 /\ k.cursor = w.cursor
          /\ k.scoop_avail = w.scoop_avail /\ k.avail_in = w.avail_in /\ k.eof_in = w.eof_in
          /\ k.write_buf = w.write_buf /\ k.asserts = w.asserts
      BY <2>1, <2>2, <2>3, <2>5 DEF JobFields
    <2>7. Work(w, k)
      BY <1>2, CatchupCopyFacts
    <2>8. c.job = k /\ c.result = "RS_DONE"
      BY <1>5, <2>6 DEF rs_tube_catchup, w
    <2> HIDE DEF k, c
    <2>9. Work(j, k)
      BY <1>1, <2>7, WorkAddsUp
    <2>10. SameInput(j, k)
      BY <1>1, <2>6 DEF SameInput
    <2> QED
      BY <1>1, <1>2, <1>3, <1>5, <2>6, <2>8, <2>9, <2>10 DEF c
  <1> QED
    BY <1>4, <1>5

-----------------------------------------------------------------------------
(* job.c                                                                   *)

\* rs_job_new: nothing read, nothing written.
LEMMA EngineInitFacts ==
    ASSUME NEW first, EngineInit(first), input \in Seq(Nat)
    PROVE  /\ JobOK(job) /\ job.cursor = 0 /\ job.scoop_avail = 0 /\ job.avail_in = 0
           /\ job.eof_in = FALSE /\ job.avail_out = 0 /\ job.write_buf = <<>> /\ job.copy_len = 0
           /\ job.out = <<>> /\ OutLen(job) = 0 /\ TubeLen(job) = 0 /\ job.asserts
           /\ statefn = first /\ pc = "caller" /\ result = "RS_RUNNING"
  <1>1. /\ DOMAIN job = JobFields /\ job.cursor = 0 /\ job.scoop_avail = 0 /\ job.avail_in = 0
        /\ job.eof_in = FALSE /\ job.avail_out = 0 /\ job.write_buf = <<>> /\ job.copy_len = 0
        /\ job.out = <<>> /\ job.asserts
    BY DEF EngineInit, JobFields
  <1>2. <<>> \in Seq(Nat) /\ Len(<<>>) = 0
    OBVIOUS
  <1>3. job.cursor + job.scoop_avail + job.avail_in <= Len(input)
    <2>1. Len(input) \in Nat
      BY LenProperties
    <2> QED
      BY <1>1, <2>1
  <1>4. job.out \in Seq(Nat) /\ job.write_buf \in Seq(Nat) /\ job.eof_in \in BOOLEAN
    BY <1>1, <1>2
  <1>5. /\ job.cursor \in Nat /\ job.scoop_avail \in Nat /\ job.avail_in \in Nat
        /\ job.avail_out \in Nat /\ job.copy_len \in Nat /\ DOMAIN job = JobFields
    BY <1>1
  <1>6. OutLen(job) = 0 /\ TubeLen(job) = 0
    BY <1>1, <1>2 DEF OutLen, TubeLen
  <1>7. JobOK(job)
    BY <1>3, <1>4, <1>5 DEF JobOK
  <1> QED
    BY <1>1, <1>6, <1>7 DEF EngineInit

\* rs_job_iter is called: only the caller's buffers are others.
LEMMA CallFacts ==
    ASSUME JobOK(job), NEW n \in Int, NEW e \in BOOLEAN, NEW m \in Nat, Call(n, e, m),
           job.avail_in + n \in Nat,
           job.cursor + job.scoop_avail + job.avail_in + n <= Len(input)
    PROVE  /\ JobOK(job') /\ job'.cursor = job.cursor /\ job'.scoop_avail = job.scoop_avail
           /\ job'.avail_in = job.avail_in + n /\ job'.eof_in = e /\ job'.avail_out = m
           /\ job'.out = job.out /\ job'.write_buf = job.write_buf
           /\ job'.copy_len = job.copy_len /\ job'.asserts = job.asserts
           /\ pc = "caller" /\ pc' = "work" /\ UNCHANGED <<input, statefn, result>>
  <1>1. /\ job' = [job EXCEPT !.avail_in = @ + n, !.eof_in = e, !.avail_out = m]
        /\ pc = "caller" /\ pc' = "work" /\ UNCHANGED <<input, statefn, result>>
    BY DEF Call
  <1>2. /\ DOMAIN job' = JobFields
        /\ job'.avail_in = job.avail_in + n /\ job'.eof_in = e /\ job'.avail_out = m
        /\ job'.cursor = job.cursor /\ job'.scoop_avail = job.scoop_avail
        /\ job'.out = job.out /\ job'.write_buf = job.write_buf
        /\ job'.copy_len = job.copy_len /\ job'.asserts = job.asserts
    BY <1>1 DEF JobOK, JobFields
  <1>3. /\ job'.cursor \in Nat /\ job'.scoop_avail \in Nat /\ job'.avail_in \in Nat
        /\ job'.avail_out \in Nat
        /\ job'.cursor + job'.scoop_avail + job'.avail_in <= Len(input)
    <2>1. job.cursor \in Nat /\ job.scoop_avail \in Nat /\ job.avail_in \in Nat
      BY DEF JobOK
    <2> QED
      BY <1>2, <2>1
  <1>4. JobOK(job')
    BY <1>2, <1>3 DEF JobOK
  <1> QED
    BY <1>1, <1>2, <1>4

\* rs_job_work returns: nothing is done to the buffers, and the assertions of
\* rs_job_complete hold when the job was not running on and, if it is done, has
\* emptied the tube.
LEMMA ReturnFacts ==
    ASSUME NEW j, JobOK(j), NEW r, Return(j, r), r # "RS_RUNNING",
           r = "RS_DONE" => rs_tube_is_idle(j)
    PROVE  /\ pc' = "caller" /\ result' \in {r, "RS_INTERNAL_ERROR"}
           /\ input' = input /\ orig' = orig
           /\ Work(j, job') /\ SameOutput(j, job') /\ SameInput(j, job')
           /\ j.asserts => job'.asserts
  <1> DEFINE cond == r # "RS_RUNNING" /\ (rs_tube_is_idle(j) \/ r # "RS_DONE")
             k == Assert_(j, cond)
  <1>1. cond
    OBVIOUS
  <1>2. job' = j \/ job' = k
    BY DEF Return
  <1> HIDE DEF cond
  <1>3. Work(j, k) /\ SameOutput(j, k) /\ SameInput(j, k) /\ k.asserts = (j.asserts /\ cond)
    BY AssertFacts
  <1> HIDE DEF k
  <1>4. Work(j, j) /\ SameOutput(j, j) /\ SameInput(j, j)
    BY WorkAddsUp DEF SameOutput, SameInput
  <1>5. Work(j, job') /\ SameOutput(j, job') /\ SameInput(j, job') /\ (j.asserts => job'.asserts)
    BY <1>1, <1>2, <1>3, <1>4
  <1>6. /\ pc' = "caller" /\ result' \in {r, "RS_INTERNAL_ERROR"}
        /\ input' = input /\ orig' = orig
    BY DEF Return
  <1> QED
    BY <1>5, <1>6

\* A state function ends: the job goes on, is at its end, or returns.
LEMMA FinishFacts ==
    ASSUME NEW j, JobOK(j), NEW fn, NEW r, Finish(j, fn, r)
    PROVE  /\ input' = input /\ orig' = orig
           /\ Work(j, job') /\ SameOutput(j, job') /\ SameInput(j, job')
           /\ j.asserts => job'.asserts
           /\ r = "RS_RUNNING" => pc' = "work" /\ statefn' = fn /\ result' = result
           /\ r = "RS_DONE" => pc' = "work" /\ statefn' = "NULL" /\ result' = result
           /\ r \notin {"RS_RUNNING", "RS_DONE"} =>
                pc' = "caller" /\ statefn' = fn /\ result' \in {r, "RS_INTERNAL_ERROR"}
  <1>1. CASE r \in {"RS_RUNNING", "RS_DONE"}
    <2>1. /\ job' = j /\ pc' = "work" /\ statefn' = IF r = "RS_DONE" THEN "NULL" ELSE fn
          /\ input' = input /\ result' = result /\ orig' = orig
      BY <1>1 DEF Finish
    <2>2. Work(j, j) /\ SameOutput(j, j) /\ SameInput(j, j)
      BY WorkAddsUp DEF SameOutput, SameInput
    <2> QED
      BY <1>1, <2>1, <2>2
  <1>2. CASE r \notin {"RS_RUNNING", "RS_DONE"}
    <2>1. Return(j, r) /\ statefn' = fn
      BY <1>2 DEF Finish
    <2> QED
      BY <1>2, <2>1, ReturnFacts
  <1> QED
    BY <1>1, <1>2

\* A job that has used up the input or the room made progress: its result stands.
LEMMA ReturnStands ==
    ASSUME NEW j, NEW r, Return(j, r), j.avail_in = 0 \/ j.avail_out = 0
    PROVE  result' = r
  <1>1. ~NoProgress(j)
    BY DEF NoProgress
  <1> QED
    BY <1>1 DEF Return

-----------------------------------------------------------------------------
(* netint.c                                                                *)

\* The least number principle, which makes up for induction.
LEMMA LeastNumber ==
    ASSUME NEW T, T \subseteq Nat, T # {}
    PROVE  \E x \in T : \A y \in T : x <= y
  <1>1. PICK x \in T : \A y \in T : ~(<<y, x>> \in OpToRel(<, Nat))
    BY NatLessThanWellFounded, WFMin
  <1>2. \A y \in T : ~(y < x)
    BY <1>1 DEF OpToRel
  <1> QED
    BY <1>2

\* Shifting in one byte after the other, which are numbers all the time.
LEMMA ShiftedSteps ==
    ASSUME NEW bytes \in Seq(Nat)
    PROVE  \E g : /\ g[0] = 0 /\ Shifted(bytes) = g[Len(bytes)]
                  /\ \A i \in 0 .. Len(bytes) : g[i] \in Nat
                  /\ \A i \in 1 .. Len(bytes) : g[i] = g[i - 1] * Radix + bytes[i]
  <1> DEFINE Step(g, i) == IF i = 0 THEN 0 ELSE g[i - 1] * Radix + bytes[i]
             Is(g, n) == g = [i \in 0 .. n |-> Step(g, i)]
             Bad == {n \in 0 .. Len(bytes) : ~\E g : Is(g, n)}
  <1>0. Len(bytes) \in Nat /\ Radix \in Nat /\ \A i \in 1 .. Len(bytes) : bytes[i] \in Nat
    BY NetintAssumption, LenProperties
  <1>1. Bad = {}
    <2> SUFFICES ASSUME Bad # {}
                 PROVE  FALSE
      OBVIOUS
    <2>0. Bad \subseteq Nat
      BY <1>0
    <2>1. PICK n \in Bad : \A m \in Bad : n <= m
      <3> HIDE DEF Bad
      <3> QED
        BY <2>0, LeastNumber
    <2>2. n \in 0 .. Len(bytes) /\ ~\E g : Is(g, n)
      BY <2>1
    <2>3. CASE n = 0
      <3>1. Is([i \in 0 .. 0 |-> 0], 0)
        OBVIOUS
      <3> QED
        BY <2>2, <2>3, <3>1
    <2>4. CASE n # 0
      <3>1. n - 1 \notin Bad /\ n - 1 \in 0 .. Len(bytes)
        <4>1. n \in Nat /\ n - 1 \in 0 .. Len(bytes) /\ ~(n <= n - 1)
          BY <1>0, <2>2, <2>4
        <4> HIDE DEF Bad
        <4> QED
          BY <2>1, <4>1
      <3>2. PICK g : Is(g, n - 1)
        BY <3>1
      <3> DEFINE h == [i \in 0 .. n |-> IF i = n THEN g[n - 1] * Radix + bytes[n] ELSE g[i]]
      <3>3. \A i \in 0 .. n : h[i] = Step(h, i)
        <4> SUFFICES ASSUME NEW i \in 0 .. n
                     PROVE  h[i] = Step(h, i)
          OBVIOUS
        <4>1. CASE i = n
          BY <1>0, <2>2, <2>4, <4>1
        <4>2. CASE i # n /\ i = 0
          <5>1. g[0] = 0
            BY <1>0, <2>2, <2>4, <3>2
          <5> QED
            BY <1>0, <2>2, <4>2, <5>1
        <4>3. CASE i # n /\ i # 0
          <5>1. i \in 0 .. n - 1 /\ i - 1 \in 0 .. n - 1 /\ i - 1 # n /\ i - 1 \in 0 .. n
            BY <1>0, <2>2, <4>3
          <5>2. g[i] = g[i - 1] * Radix + bytes[i]
            BY <3>2, <4>3, <5>1
          <5> QED
            BY <4>3, <5>1, <5>2
        <4> QED
          BY <4>1, <4>2, <4>3
      <3>4. Is(h, n)
        BY <3>3
      <3> QED
        BY <2>2, <3>4
    <2> QED
      BY <2>3, <2>4
  <1>2. PICK g : Is(g, Len(bytes)) /\ Shifted(bytes) = g[Len(bytes)]
    <2> DEFINE f == CHOOSE g : Is(g, Len(bytes))
    <2>1. \E g : Is(g, Len(bytes))
      BY <1>0, <1>1
    <2>2. Is(f, Len(bytes))
      BY <2>1
    <2>3. Shifted(bytes) = f[Len(bytes)]
      BY DEF Shifted
    <2> HIDE DEF f
    <2> QED
      BY <2>2, <2>3
  <1>3. /\ \A i \in 0 .. Len(bytes) : g[i] = Step(g, i)
    BY <1>2
  <1> DEFINE Odd == {i \in 0 .. Len(bytes) : g[i] \notin Nat}
  <1>4. Odd = {}
    <2> SUFFICES ASSUME Odd # {}
                 PROVE  FALSE
      OBVIOUS
    <2>0. Odd \subseteq Nat
      BY <1>0
    <2>1. PICK n \in Odd : \A m \in Odd : n <= m
      <3> HIDE DEF Odd
      <3> QED
        BY <2>0, LeastNumber
    <2>2. CASE n = 0
      BY <1>0, <1>3, <2>1, <2>2
    <2>3. CASE n # 0
      <3>1. n - 1 \in 0 .. Len(bytes) /\ n - 1 \notin Odd /\ n \in 1 .. Len(bytes)
        BY <1>0, <2>1, <2>3
      <3>2. g[n - 1] \in Nat /\ bytes[n] \in Nat
        BY <1>0, <3>1
      <3>3. g[n] = g[n - 1] * Radix + bytes[n]
        BY <1>3, <2>3, <3>1
      <3>4. g[n] \in Nat
        <4>1. \A a, b, c \in Nat : a * b + c \in Nat
          OBVIOUS
        <4> QED
          BY <1>0, <3>2, <3>3, <4>1, ZenonT(60)
      <3> QED
        BY <2>1, <3>4
    <2> QED
      BY <2>2, <2>3
  <1>5. g[0] = 0
    BY <1>0, <1>3
  <1>6. \A i \in 0 .. Len(bytes) : g[i] \in Nat
    BY <1>4
  <1>7. \A i \in 1 .. Len(bytes) : g[i] = g[i - 1] * Radix + bytes[i]
    BY <1>0, <1>3
  <1> QED
    BY <1>2, <1>5, <1>6, <1>7

LEMMA ShiftedFacts ==
    ASSUME NEW bytes \in Seq(Nat)
    PROVE  Shifted(bytes) \in Nat
  <1>1. Len(bytes) \in Nat
    BY LenProperties
  <1>2. Len(bytes) \in 0 .. Len(bytes)
    BY <1>1
  <1> QED
    BY <1>2, ShiftedSteps

\* So a parameter of a command is an integer.
LEMMA NetintValueType ==
    ASSUME NEW bytes \in Seq(Nat), Radix ^ RS_MAX_INT_BYTES \in Nat
    PROVE  NetintValue(bytes) \in Int
  <1>1. Shifted(bytes) \in Int
    BY ShiftedFacts
  <1> QED
    BY <1>1 DEF NetintValue, Signed

-----------------------------------------------------------------------------
(* Recursive functions over 0 .. n, from the least number principle.       *)

\* Induction up to n, for a set.
LEMMA CountUp ==
    ASSUME NEW n \in Nat, NEW T, 0 \in T, \A i \in 1 .. n : i - 1 \in T => i \in T
    PROVE  \A i \in 0 .. n : i \in T
  <1> DEFINE Bad == {i \in 0 .. n : i \notin T}
  <1> SUFFICES ASSUME Bad # {}
               PROVE  FALSE
    OBVIOUS
  <1>1. Bad \subseteq Nat
    OBVIOUS
  <1>2. PICK x \in Bad : \A y \in Bad : x <= y
    <2> HIDE DEF Bad
    <2> QED
      BY <1>1, LeastNumber
  <1>3. x # 0 /\ x \in 0 .. n
    BY <1>2
  <1>4. x - 1 \in 0 .. n /\ ~(x <= x - 1) /\ x \in 1 .. n
    BY <1>3
  <1>5. x - 1 \in T
    BY <1>2, <1>4
  <1> QED
    BY <1>2, <1>4, <1>5

\* The function g has the first value a, and each of the others follows from
\* the one before by its step.
Steps(n, S) == [1 .. n -> [S -> S]]
Recurs(g, n, S, a, step) ==
    /\ g \in [0 .. n -> S]
    /\ g[0] = a /\ \A i \in 1 .. n : g[i] = step[i][g[i - 1]]

\* There is such a function.
LEMMA RecursionExists ==
    ASSUME NEW n \in Nat, NEW S, NEW a \in S, NEW step \in Steps(n, S)
    PROVE  \E g : Recurs(g, n, S, a, step)
  <1> DEFINE Is(g, m) == Recurs(g, m, S, a, step)
             T == {m \in 0 .. n : \E g : Is(g, m)}
  <1> USE DEF Steps, Recurs
  <1>1. 0 \in T
    <2>1. Is([i \in 0 .. 0 |-> a], 0)
      OBVIOUS
    <2>2. \E g : Is(g, 0)
      BY <2>1
    <2> HIDE DEF Is
    <2> QED
      BY <2>2
  <1>2. ASSUME NEW m \in 1 .. n, m - 1 \in T
        PROVE  m \in T
    <2>1. PICK g : Is(g, m - 1)
      BY <1>2
    <2> DEFINE h == [i \in 0 .. m |-> IF i = m THEN step[m][g[m - 1]] ELSE g[i]]
    <2>2. m - 1 \in 0 .. m - 1 /\ m \in 0 .. n
      BY <1>2
    <2>3. g[m - 1] \in S
      BY <2>1, <2>2
    <2>4. step[m][g[m - 1]] \in S
      BY <1>2, <2>3
    <2>5. \A i \in 0 .. m : i # m => i \in 0 .. m - 1
      BY <1>2
    <2>6. h \in [0 .. m -> S]
      BY <2>1, <2>4, <2>5
    <2>7. h[0] = a
      BY <1>2, <2>1
    <2>8. ASSUME NEW i \in 1 .. m
          PROVE  h[i] = step[i][h[i - 1]]
      <3>1. i - 1 \in 0 .. m /\ i - 1 # m /\ i \in 0 .. m
        BY <1>2
      <3>2. CASE i = m
        BY <3>1, <3>2
      <3>3. CASE i # m
        <4>1. i \in 1 .. m - 1
          BY <1>2, <3>3
        <4>2. g[i] = step[i][g[i - 1]]
          BY <2>1, <4>1
        <4> QED
          BY <3>1, <3>3, <4>2
      <3> QED
        BY <3>2, <3>3
    <2> HIDE DEF h
    <2>9. Is(h, m)
      BY <2>6, <2>7, <2>8
    <2> QED
      BY <2>2, <2>9
  <1>3. \A i \in 0 .. n : i \in T
    <2> HIDE DEF T
    <2> QED
      BY <1>1, <1>2, CountUp
  <1>4. n \in T
    BY <1>3
  <1> QED
    BY <1>4

-----------------------------------------------------------------------------
(* sumset.c                                                                *)

\* Parameters that are accepted, when the size of the basis is not known, are
\* ones that rs_sig_args_check is content with.
LEMMA SigArgsFacts ==
    ASSUME NEW x, x.magic \in Int, x.block_len \in Nat, x.strong_len \in Int, x.strong_len >= -1
    PROVE  LET a == rs_sig_args(-1, x)
           IN  /\ a.magic \in Int /\ a.block_len \in Nat \ {0} /\ a.strong_len \in Nat \ {0}
               /\ a.result \in {"RS_BAD_MAGIC", "RS_PARAM_ERROR", "RS_DONE"}
               /\ a.result = "RS_DONE" =>
                    /\ rs_sig_args_check(a.magic, a.block_len, a.strong_len)
                    /\ a.strong_len <= RS_MAX_STRONG_SUM_LENGTH
  <1> DEFINE magic == IF x.magic # 0 THEN x.magic ELSE RS_RK_BLAKE2_SIG_MAGIC
             max == IF magic \in MD4Magics THEN RS_MD4_SUM_LENGTH ELSE RS_BLAKE2_SUM_LENGTH
             block == IF x.block_len = 0 THEN RS_DEFAULT_BLOCK_LEN ELSE x.block_len
             strong == IF x.strong_len = 0 THEN max
                       ELSE IF x.strong_len = -1 THEN RS_DEFAULT_MIN_STRONG_LEN ELSE x.strong_len
             res == IF magic \notin MD4Magics \cup Blake2Magics THEN "RS_BAD_MAGIC"
                    ELSE IF x.strong_len \notin {0, -1} /\ x.strong_len > max
                      THEN "RS_PARAM_ERROR" ELSE "RS_DONE"
             a == rs_sig_args(-1, x)
  <1>1. RecommendedBlockLen(-1) = RS_DEFAULT_BLOCK_LEN
    BY DEF RecommendedBlockLen
  <1>2. \A b : MinStrongLen(-1, b) = RS_DEFAULT_MIN_STRONG_LEN
    BY DEF MinStrongLen
  <1>3. /\ a.magic = magic /\ a.block_len = block /\ a.strong_len = strong /\ a.result = res
    BY <1>1, <1>2 DEF rs_sig_args
  <1>4. max \in Nat /\ RS_DEFAULT_MIN_STRONG_LEN <= max /\ max <= RS_MAX_STRONG_SUM_LENGTH
    BY SigArgsAssumption
  <1>5. magic \in Int /\ block \in Nat \ {0}
    BY SigArgsAssumption
  <1>6. strong \in Nat \ {0} /\ (res = "RS_DONE" => strong <= max)
    <2> HIDE DEF max, magic
    <2> QED
      BY <1>4, SigArgsAssumption
  <1>7. res = "RS_DONE" => rs_sig_args_check(magic, block, strong)
    <2> SUFFICES ASSUME res = "RS_DONE"
                 PROVE  rs_sig_args_check(magic, block, strong)
      OBVIOUS
    <2>1. magic \in MD4Magics \cup Blake2Magics
      OBVIOUS
    <2>2. \/ magic \in MD4Magics /\ max = RS_MD4_SUM_LENGTH
          \/ magic \in Blake2Magics /\ max = RS_BLAKE2_SUM_LENGTH
      BY <2>1
    <2> HIDE DEF max, magic, block, strong, res
    <2> QED
      BY <1>4, <1>5, <1>6, <2>2, SigArgsAssumption DEF rs_sig_args_check
  <1> HIDE DEF max, magic, block, strong, a
  <1>8. res \in {"RS_BAD_MAGIC", "RS_PARAM_ERROR", "RS_DONE"}
    OBVIOUS
  <1> HIDE DEF res
  <1>9. res = "RS_DONE" => strong <= RS_MAX_STRONG_SUM_LENGTH
    BY <1>4, <1>6, SigArgsAssumption
  <1> QED
    BY <1>3, <1>5, <1>6, <1>7, <1>8, <1>9 DEF a

\* Integers are sent as that many bytes.
LEMMA NetintFacts ==
    ASSUME NEW val \in Int
    PROVE  Netint(val, 4) \in Seq(Nat) /\ Len(Netint(val, 4)) = 4
  <1>1. ASSUME NEW i \in 1 .. 4
        PROVE  (val \div Radix ^ (4 - i)) % Radix \in Nat
    <2>1. 4 - i \in 0 .. 4
      OBVIOUS
    <2>2. Radix ^ (4 - i) \in Nat \ {0}
      BY <2>1, NetintAssumption
    <2>3. \A p \in Nat \ {0} : val \div p \in Int
      OBVIOUS
    <2>4. \A v \in Int, r \in Nat \ {0} : v % r \in Nat
      OBVIOUS
    <2> QED
      BY <2>2, <2>3, <2>4, NetintAssumption
  <1>2. Netint(val, 4) \in [1 .. 4 -> Nat]
    BY <1>1 DEF Netint
  <1>3. ASSUME NEW s \in [1 .. 4 -> Nat]
        PROVE  s \in Seq(Nat) /\ Len(s) = 4
    <2>1. s \in Seq(Nat)
      BY SeqDef
    <2>2. DOMAIN s = 1 .. 4 /\ DOMAIN s = 1 .. Len(s) /\ Len(s) \in Nat
      BY <2>1, LenProperties
    <2> QED
      BY <2>1, <2>2
  <1> QED
    BY <1>2, <1>3

-----------------------------------------------------------------------------
(* Quotients.                                                              *)

\* Quotients, and products of ordered factors.
LEMMA DivFacts ==
    ASSUME NEW x \in Nat, NEW b \in Nat \ {0}
    PROVE  /\ x \div b \in Nat
           /\ (x \div b) * b <= x /\ x < (x \div b) * b + b
  OBVIOUS

\* More of them are not less.
LEMMA TimesMonotonic ==
    ASSUME NEW k \in Nat, NEW m \in Nat, NEW b \in Nat, k <= m
    PROVE  k * b <= m * b
  OBVIOUS

\* Whole pieces of length b in x: k of them fit as long as k is not more than the
\* quotient, and the remainder is what is left then.
LEMMA PieceCount ==
    ASSUME NEW x \in Nat, NEW b \in Nat \ {0}
    PROVE  /\ x \div b \in Nat /\ x % b = x - (x \div b) * b /\ x % b \in Nat /\ x % b < b
           /\ \A k \in Nat : k * b \in Nat /\ (k + 1) * b = k * b + b
           /\ \A k \in Nat : k * b <= x <=> k <= x \div b
  <1>1. /\ x \div b \in Nat /\ x % b = x - (x \div b) * b /\ x % b \in Nat /\ x % b < b
    OBVIOUS
  <1>2. \A k \in Nat : k * b \in Nat /\ (k + 1) * b = k * b + b
    OBVIOUS
  <1> DEFINE q == x \div b
  <1>3. q \in Nat /\ q * b <= x /\ x < q * b + b
    BY DivFacts
  <1> HIDE DEF q
  <1>4. ASSUME NEW k \in Nat
        PROVE  k * b <= x <=> k <= q
    <2>1. k * b \in Nat /\ q * b \in Nat /\ (q + 1) * b = q * b + b /\ q + 1 \in Nat
      BY <1>2, <1>3
    <2>2. CASE k <= q
      <3>1. k * b <= q * b
        BY <1>3, <2>2, TimesMonotonic
      <3> QED
        BY <1>3, <2>1, <2>2, <3>1
    <2>3. CASE ~(k <= q)
      <3>1. (q + 1) * b <= k * b
        <4>1. q + 1 <= k
          BY <1>3, <2>3
        <4> QED
          BY <2>1, <4>1, TimesMonotonic
      <3> QED
        BY <1>3, <2>1, <2>3, <3>1
    <2> QED
      BY <2>2, <2>3
  <1> QED
    BY <1>1, <1>2, <1>4 DEF q

\* What was sent is received.
LEMMA NetintBack ==
    ASSUME NEW v \in Nat, NEW w \in Nat, v < Radix ^ w,
           \A n \in 0 .. w : Radix ^ n \in Nat \ {0},
           \A n \in 0 .. w - 1 : Radix ^ (n + 1) = Radix * Radix ^ n,
           Netint(v, w) \in Seq(Nat), Len(Netint(v, w)) = w
    PROVE  Shifted(Netint(v, w)) = v
  <1> DEFINE s == Netint(v, w)
             P(n) == Radix ^ n
  <1>1. \A i \in 1 .. w : s[i] = (v \div P(w - i)) % Radix
    BY DEF Netint
  <1>2. PICK g : /\ g[0] = 0 /\ Shifted(s) = g[w]
                 /\ \A i \in 0 .. w : g[i] \in Nat
                 /\ \A i \in 1 .. w : g[i] = g[i - 1] * Radix + s[i]
    BY ShiftedSteps
  <1>3. Radix \in Nat \ {0} /\ \A n \in 0 .. w : P(n) \in Nat \ {0}
    BY NetintAssumption
  <1>4. P(0) = 1
    BY NetintPowers
  <1>5. \A n \in 0 .. w - 1 : P(n + 1) = Radix * P(n)
    OBVIOUS
  <1>6. v < P(w)
    OBVIOUS
  <1> HIDE DEF s, P
  <1> DEFINE T == {i \in 0 .. w : g[i] = v \div P(w - i)}
  <1>7. 0 \in T
    <2>1. w - 0 = w /\ w \in 0 .. w /\ 0 \in 0 .. w
      OBVIOUS
    <2>2. PICK q : q = P(w)
      OBVIOUS
    <2>3. q \in Nat \ {0} /\ v < q
      BY <1>3, <1>6, <2>1, <2>2
    <2>4. v \div q = 0
      BY <2>3
    <2> QED
      BY <1>2, <2>1, <2>2, <2>4
  <1>8. ASSUME NEW i \in 1 .. w, i - 1 \in T
        PROVE  i \in T
    <2>1. /\ i \in 0 .. w /\ w - i \in 0 .. w /\ w - i \in 0 .. w - 1 /\ (w - i) + 1 = w - (i - 1)
          /\ w - (i - 1) \in 0 .. w
      OBVIOUS
    <2>2. PICK p : p = P(w - i)
      OBVIOUS
    <2>3. PICK rp : rp = P(w - (i - 1))
      OBVIOUS
    <2>4. p \in Nat \ {0} /\ rp \in Nat \ {0} /\ rp = Radix * p
      BY <1>3, <1>5, <2>1, <2>2, <2>3
    <2>5. PICK x, y, z : x = v \div rp /\ z = v \div p /\ y = z % Radix
      OBVIOUS
    <2>6. x * Radix + y = z
      <3>0. Radix \in Nat \ {0} /\ p \in Nat \ {0} /\ rp \in Nat \ {0} /\ rp = Radix * p
        BY <1>3, <2>4
      <3>1. z \in Nat /\ \A k \in Nat : k * p <= v <=> k <= z
        BY <2>5, <3>0, PieceCount
      <3>2. x \in Nat /\ \A k \in Nat : k * rp <= v <=> k <= x
        BY <2>5, <3>0, PieceCount
      <3>3. PICK b : b = z \div Radix
        OBVIOUS
      <3>4. b \in Nat /\ y = z - b * Radix /\ y \in Nat /\ \A k \in Nat : k * Radix <= z <=> k <= b
        BY <2>5, <3>0, <3>1, <3>3, PieceCount
      <3>5. \A k \in Nat : k <= x <=> k <= b
        <4> SUFFICES ASSUME NEW k \in Nat
                     PROVE  k <= x <=> k <= b
          OBVIOUS
        <4>1. PICK n : n = k * Radix
          OBVIOUS
        <4>2. n \in Nat /\ k * rp = n * p
          BY <3>0, <4>1
        <4>3. k <= x <=> n * p <= v
          BY <3>2, <4>2
        <4>4. n * p <= v <=> n <= z
          BY <3>1, <4>2
        <4>5. n <= z <=> k <= b
          BY <3>4, <4>1
        <4> QED
          BY <4>3, <4>4, <4>5
      <3>6. x = b
        <4>0. x \in Nat /\ b \in Nat /\ x <= x /\ b <= b
          BY <3>2, <3>4
        <4>1. x <= b /\ b <= x
          BY <3>5, <4>0, Zenon
        <4> QED
          BY <3>2, <3>4, <4>1
      <3>7. PICK u : u = b * Radix
        OBVIOUS
      <3>8. u \in Nat
        BY <3>0, <3>4, <3>7
      <3>9. y = z - u /\ x * Radix = u
        BY <3>4, <3>6, <3>7
      <3>10. x * Radix + y = z
        BY <3>1, <3>8, <3>9
      <3> QED
        BY <3>10
    <2>61. s[i] = (v \div P(w - i)) % Radix
      BY <1>1
    <2>62. s[i] = y
      BY <2>2, <2>5, <2>61, Zenon
    <2>63. g[i - 1] = x
      BY <1>8, <2>3, <2>5
    <2>7. g[i - 1] = x /\ s[i] = y
      BY <2>62, <2>63
    <2>71. g[i] = g[i - 1] * Radix + s[i]
      BY <1>2
    <2>8. g[i] = v \div p
      BY <2>5, <2>6, <2>7, <2>71
    <2> QED
      BY <2>1, <2>2, <2>8
  <1>9. \A i \in 0 .. w : i \in T
    <2> HIDE DEF T
    <2> QED
      BY <1>7, <1>8, CountUp
  <1>10. w \in 0 .. w /\ w - w = 0
    OBVIOUS
  <1>11. g[w] = v \div 1
    BY <1>4, <1>9, <1>10
  <1>12. v \div 1 = v
    OBVIOUS
  <1> QED
    BY <1>2, <1>11, <1>12 DEF s

-----------------------------------------------------------------------------
(* Recursive functions that look ahead.                                    *)

\* A recursive function over 0 .. n in which each value depends on later ones.
Looks(n, S) == [0 .. n -> [[0 .. n -> S] -> S]]
LooksAhead(F, n, S) ==
    \A p \in 0 .. n, g, h \in [0 .. n -> S] :
        (\A q \in 0 .. n : q > p => g[q] = h[q]) => F[p][g] = F[p][h]

\* g obeys its equation.
Unfolds(g, F, n, S) == g \in [0 .. n -> S] /\ \A p \in 0 .. n : g[p] = F[p][g]

LEMMA LookaheadExists ==
    ASSUME NEW n \in Nat, NEW S, NEW a \in S, NEW F \in Looks(n, S), LooksAhead(F, n, S)
    PROVE  \E g : Unfolds(g, F, n, S)
  <1> DEFINE Good(g, k) == \A p \in 0 .. n : p > n - k => g[p] = F[p][g]
             T == {k \in 0 .. n + 1 : \E g \in [0 .. n -> S] : Good(g, k)}
  <1>1. 0 \in T
    <2>1. [p \in 0 .. n |-> a] \in [0 .. n -> S]
      OBVIOUS
    <2>2. \A p \in 0 .. n : ~(p > n - 0)
      OBVIOUS
    <2>3. \E g \in [0 .. n -> S] : Good(g, 0)
      BY <2>1, <2>2
    <2> HIDE DEF Good
    <2> QED
      BY <2>3
  <1>2. ASSUME NEW k \in 1 .. n + 1, k - 1 \in T
        PROVE  k \in T
    <2>1. PICK g \in [0 .. n -> S] : Good(g, k - 1)
      BY <1>2
    <2> DEFINE r == n + 1 - k
               h == [g EXCEPT ![r] = F[r][g]]
    <2>2. r \in 0 .. n /\ k \in 0 .. n + 1 /\ \A p \in 0 .. n : p > n - (k - 1) <=> p > r
      BY <1>2
    <2>3. \A p \in 0 .. n : p > n - k <=> (p = r \/ p > r)
      BY <1>2
    <2> HIDE DEF r
    <2>4. F[r][g] \in S
      BY <2>1, <2>2 DEF Looks
    <2>5. h \in [0 .. n -> S] /\ h[r] = F[r][g] /\ \A q \in 0 .. n : q # r => h[q] = g[q]
      BY <2>1, <2>2, <2>4
    <2> HIDE DEF h
    <2>6. ASSUME NEW p \in 0 .. n, p > n - k
          PROVE  h[p] = F[p][h]
      <3>1. \A q \in 0 .. n : q > p => g[q] = h[q]
        BY <2>2, <2>3, <2>5, <2>6
      <3>2. F[p][g] = F[p][h]
        BY <2>1, <2>5, <3>1 DEF LooksAhead
      <3>3. CASE p = r
        BY <2>5, <3>2, <3>3
      <3>4. CASE p # r
        <4>1. p > n - (k - 1) /\ h[p] = g[p]
          BY <2>2, <2>3, <2>5, <2>6, <3>4
        <4>2. g[p] = F[p][g]
          BY <2>1, <4>1
        <4> QED
          BY <3>2, <4>1, <4>2
      <3> QED
        BY <3>3, <3>4
    <2>7. Good(h, k)
      BY <2>6
    <2> HIDE DEF Good
    <2> QED
      BY <2>2, <2>5, <2>7
  <1>3. \A i \in 0 .. n + 1 : i \in T
    <2>1. n + 1 \in Nat
      OBVIOUS
    <2> HIDE DEF T
    <2> QED
      BY <1>1, <1>2, <2>1, CountUp
  <1>4. n + 1 \in T
    <2>1. n + 1 \in 0 .. n + 1
      OBVIOUS
    <2> HIDE DEF T
    <2> QED
      BY <1>3, <2>1
  <1>5. PICK g \in [0 .. n -> S] : Good(g, n + 1)
    BY <1>4
  <1>6. \A p \in 0 .. n : p > n - (n + 1)
    OBVIOUS
  <1> QED
    BY <1>5, <1>6 DEF Unfolds

-----------------------------------------------------------------------------
(* What a delta means.                                                     *)

\* The command at position p of d, where it ends, and its parameters.
CommandAt(d, p) == rs_prototab(d[p + 1])
CommandEnd(d, p) == p + 1 + CommandAt(d, p).len_1 + CommandAt(d, p).len_2
FirstParam(d, p) ==
    LET c == CommandAt(d, p)
    IN  IF c.len_1 = 0 THEN c.immediate ELSE NetintValue(SubSeq(d, p + 2, p + 1 + c.len_1))
SecondParam(d, p) ==
    LET c == CommandAt(d, p)
    IN  NetintValue(SubSeq(d, p + 2 + c.len_1, CommandEnd(d, p)))

\* The equation of Commands.
Halt(p, bytes, v) == [out |-> bytes, verdict |-> v, used |-> p + 1]
Preceded(bytes, m) == [m EXCEPT !.out = bytes \o @]
MeaningFrom(d, basis, rest, p) ==
    LET c == CommandAt(d, p)
        q == CommandEnd(d, p)
        v1 == FirstParam(d, p)
        v2 == SecondParam(d, p)
    IN  IF p = Len(d) \/ q > Len(d) THEN Halt(p, <<>>, "RS_INPUT_ENDED")
        ELSE IF c.kind = "END" THEN Halt(p, <<>>, "RS_DONE")
        ELSE IF c.kind = "LITERAL" THEN
            IF v1 <= 0 \/ v1 > SIZE_MAX THEN Halt(p, <<>>, "RS_CORRUPT")
            ELSE IF q + v1 > Len(d) THEN Halt(p, SubSeq(d, q + 1, Len(d)), "RS_INPUT_ENDED")
            ELSE Preceded(SubSeq(d, q + 1, q + v1), rest[q + v1])
        ELSE IF c.kind = "COPY" /\ v1 >= 0 /\ v2 > 0 THEN
            IF v1 + v2 > Len(basis)
              THEN Halt(p, SubSeq(basis, v1 + 1, Len(basis)), "RS_INPUT_ENDED")
              ELSE Preceded(SubSeq(basis, v1 + 1, v1 + v2), rest[q])
        ELSE Halt(p, <<>>, "RS_CORRUPT")

LEMMA CommandsChoice ==
    ASSUME NEW d, NEW basis
    PROVE  Commands(d, basis) = CHOOSE f : f = [p \in 0 .. Len(d) |-> MeaningFrom(d, basis, f, p)]
  BY Zenon DEF Commands, MeaningFrom, CommandAt, CommandEnd, FirstParam, SecondParam, Halt, Preceded

\* An entry of the command table.
CommandOK(c) ==
    /\ c.len_1 \in Nat /\ c.len_2 \in Nat /\ c.immediate \in Int
    /\ c.kind = "LITERAL" => c.len_2 = 0
    /\ c.kind = "END" => c.len_1 = 0 /\ c.len_2 = 0
    /\ c.kind = "COPY" => c.len_1 > 0 /\ c.len_2 > 0
    /\ c.len_1 = 0 => c.len_2 = 0

\* Every byte has an entry in the table, whose parameters have a width each.
LEMMA PrototabFacts ==
    ASSUME NEW op \in Nat
    PROVE  CommandOK(rs_prototab(op))
  <1> USE CommandAssumption DEF CommandOK, rs_prototab, RS_OP_END, RS_OP_LITERAL_N1,
                                RS_OP_COPY_N1_N1, LastCommand
  <1>0. \A i \in 1 .. 4 : Widths[i] \in Nat \ {0}
    BY DEF Widths
  <1>1. CASE op <= MaxImmediate
    BY <1>1
  <1>2. CASE op > MaxImmediate /\ op < RS_OP_COPY_N1_N1
    <2>1. (op - RS_OP_LITERAL_N1) + 1 \in 1 .. 4
      BY <1>2
    <2> QED
      BY <1>0, <1>2, <2>1
  <1>3. CASE op >= RS_OP_COPY_N1_N1 /\ op <= LastCommand
    <2>1. /\ ((op - RS_OP_COPY_N1_N1) \div 4) + 1 \in 1 .. 4
          /\ ((op - RS_OP_COPY_N1_N1) % 4) + 1 \in 1 .. 4
      BY <1>3
    <2> QED
      BY <1>0, <1>3, <2>1
  <1>4. CASE op > LastCommand
    BY <1>4
  <1> QED
    BY <1>1, <1>2, <1>3, <1>4

\* Any part of a sequence of bytes is one.
LEMMA PartFacts ==
    ASSUME NEW s \in Seq(Nat), NEW m \in Nat, NEW n \in Nat, n <= Len(s)
    PROVE  SubSeq(s, m + 1, n) \in Seq(Nat) /\ (m >= n => SubSeq(s, m + 1, n) = <<>>)
  <1>1. CASE m <= n
    <2>1. n - m \in Nat /\ m + (n - m) = n
      BY <1>1
    <2>2. SubSeq(s, m + 1, m + (n - m)) \in Seq(Nat) /\ Len(SubSeq(s, m + 1, m + (n - m))) = n - m
      BY <2>1, PieceFacts, LenProperties
    <2>3. SubSeq(s, m + 1, n) \in Seq(Nat) /\ Len(SubSeq(s, m + 1, n)) = n - m
      BY <2>1, <2>2
    <2> QED
      BY <1>1, <2>3, EmptySeq
  <1>2. CASE m > n
    <2>1. SubSeq(s, m + 1, n) = <<>>
      BY <1>2
    <2> QED
      BY <2>1
  <1> QED
    BY <1>1, <1>2

LEMMA CommandFacts ==
    ASSUME NEW d \in Seq(Nat), NEW p \in 0 .. Len(d) - 1
    PROVE  /\ CommandOK(CommandAt(d, p))
           /\ CommandEnd(d, p) \in Nat /\ CommandEnd(d, p) > p
           /\ CommandEnd(d, p) <= Len(d) => FirstParam(d, p) \in Int /\ SecondParam(d, p) \in Int
  <1> DEFINE c == CommandAt(d, p)
  <1>1. Len(d) \in Nat /\ p \in Nat /\ d[p + 1] \in Nat
    BY LenProperties
  <1>2. CommandOK(c)
    BY <1>1, PrototabFacts DEF CommandAt
  <1>3. c.len_1 \in Nat /\ c.len_2 \in Nat /\ c.immediate \in Int
    BY <1>2 DEF CommandOK
  <1> HIDE DEF c
  <1>4. CommandEnd(d, p) = p + 1 + c.len_1 + c.len_2
    BY DEF CommandEnd, c
  <1>5. ASSUME CommandEnd(d, p) <= Len(d)
        PROVE  FirstParam(d, p) \in Int /\ SecondParam(d, p) \in Int
    <2>1. Radix ^ RS_MAX_INT_BYTES \in Nat
      BY CommandAssumption DEF RS_MAX_INT_BYTES
    <2>2. PICK l1 \in Nat, l2 \in Nat, e \in Nat :
            l1 = c.len_1 /\ l2 = c.len_2 /\ e = CommandEnd(d, p)
      BY <1>1, <1>3, <1>4
    <2>3. /\ p + 1 \in Nat /\ p + 1 + l1 \in Nat /\ p + 1 + l1 <= Len(d) /\ e <= Len(d)
          /\ (p + 1) + 1 = p + 2 /\ (p + 1 + l1) + 1 = p + 2 + l1
      <3>1. e = p + 1 + l1 + l2 /\ e <= Len(d)
        BY <1>4, <1>5, <2>2
      <3> QED
        BY <1>1, <3>1
    <2>4. SubSeq(d, p + 2, p + 1 + l1) \in Seq(Nat) /\ SubSeq(d, p + 2 + l1, e) \in Seq(Nat)
      <3>1. SubSeq(d, (p + 1) + 1, p + 1 + l1) \in Seq(Nat)
        BY <2>3, PartFacts
      <3>2. SubSeq(d, (p + 1 + l1) + 1, e) \in Seq(Nat)
        BY <2>3, PartFacts
      <3> QED
        BY <2>3, <3>1, <3>2
    <2>5. /\ NetintValue(SubSeq(d, p + 2, p + 1 + l1)) \in Int
          /\ NetintValue(SubSeq(d, p + 2 + l1, e)) \in Int
      BY <2>1, <2>4, NetintValueType
    <2>6. FirstParam(d, p) \in Int
      <3>1. FirstParam(d, p) = IF l1 = 0 THEN c.immediate ELSE NetintValue(SubSeq(d, p + 2, p + 1 + l1))
        BY <2>2, Zenon DEF FirstParam, c
      <3> QED
        BY <1>3, <2>5, <3>1, Zenon
    <2>7. SecondParam(d, p) \in Int
      BY <2>2, <2>5 DEF SecondParam, c
    <2> QED
      BY <2>6, <2>7
  <1>6. CommandEnd(d, p) \in Nat /\ CommandEnd(d, p) > p
    <2>1. \A a, b, e \in Nat : a + 1 + b + e \in Nat /\ a + 1 + b + e > a
      OBVIOUS
    <2>2. p \in Nat /\ c.len_1 \in Nat /\ c.len_2 \in Nat
      BY <1>1, <1>3, Zenon
    <2>3. p + 1 + c.len_1 + c.len_2 \in Nat /\ p + 1 + c.len_1 + c.len_2 > p
      BY <2>1, <2>2, Zenon
    <2> QED
      BY <1>4, <2>3, Zenon
  <1>7. CommandOK(CommandAt(d, p))
    BY <1>2, Zenon DEF c
  <1> QED
    BY <1>5, <1>6, <1>7, Zenon

Verdicts == {"RS_INPUT_ENDED", "RS_DONE", "RS_CORRUPT"}
Meanings == [out : Seq(Nat), verdict : Verdicts, used : Nat]

LEMMA MeaningFromFacts ==
    ASSUME NEW d \in Seq(Nat), NEW basis \in Seq(Nat), NEW p \in 0 .. Len(d), SIZE_MAX \in Nat
    PROVE  /\ \A g \in [0 .. Len(d) -> Meanings] : MeaningFrom(d, basis, g, p) \in Meanings
           /\ \A g, h :
                (\A q \in 0 .. Len(d) : q > p => g[q] = h[q])
                  => MeaningFrom(d, basis, g, p) = MeaningFrom(d, basis, h, p)
  <1> DEFINE c == CommandAt(d, p)
             q == CommandEnd(d, p)
             v1 == FirstParam(d, p)
             v2 == SecondParam(d, p)
  <1>0. Len(d) \in Nat /\ p \in Nat /\ Len(basis) \in Nat /\ <<>> \in Seq(Nat)
    BY LenProperties, EmptySeq
  <1>h. \A bytes \in Seq(Nat), v \in Verdicts : Halt(p, bytes, v) \in Meanings
    BY <1>0 DEF Halt, Meanings
  <1>v. "RS_INPUT_ENDED" \in Verdicts /\ "RS_DONE" \in Verdicts /\ "RS_CORRUPT" \in Verdicts
    BY DEF Verdicts
  <1>e. \A bytes \in Seq(Nat), m \in Meanings : Preceded(bytes, m) \in Meanings
    <2> SUFFICES ASSUME NEW bytes \in Seq(Nat), NEW m \in Meanings
                 PROVE  Preceded(bytes, m) \in Meanings
      OBVIOUS
    <2>1. bytes \o m.out \in Seq(Nat)
      BY ConcatProperties DEF Meanings
    <2> QED
      BY <2>1 DEF Preceded, Meanings
  <1>1. CASE p = Len(d) \/ q > Len(d)
    <2>1. \A g : MeaningFrom(d, basis, g, p) = Halt(p, <<>>, "RS_INPUT_ENDED")
      BY <1>1 DEF MeaningFrom
    <2> QED
      BY <1>0, <1>h, <1>v, <2>1
  <1>2. CASE ~(p = Len(d) \/ q > Len(d)) /\ c.kind = "END"
    <2>1. \A g : MeaningFrom(d, basis, g, p) = Halt(p, <<>>, "RS_DONE")
      BY <1>2 DEF MeaningFrom
    <2> QED
      BY <1>0, <1>h, <1>v, <2>1
  <1>3. ASSUME ~(p = Len(d) \/ q > Len(d))
        PROVE  /\ v1 \in Int /\ v2 \in Int /\ q \in Nat /\ q > p /\ q <= Len(d)
               /\ c.kind = "COPY" => c.len_2 > 0
    <2>1. p \in 0 .. Len(d) - 1
      BY <1>0, <1>3
    <2>2. q \in Nat /\ q > p
      BY <2>1, CommandFacts
    <2>3. q <= Len(d)
      BY <1>0, <1>3, <2>2
    <2> QED
      BY <2>1, <2>2, <2>3, CommandFacts DEF CommandOK
  <1>4. CASE ~(p = Len(d) \/ q > Len(d)) /\ c.kind = "LITERAL"
    <2>0. v1 \in Int /\ q \in Nat /\ q > p /\ q <= Len(d)
      BY <1>3, <1>4
    <2>1. CASE v1 <= 0 \/ v1 > SIZE_MAX
      <3>1. \A g : MeaningFrom(d, basis, g, p) = Halt(p, <<>>, "RS_CORRUPT")
        BY <1>4, <2>1 DEF MeaningFrom
      <3> QED
        BY <1>0, <1>h, <1>v, <3>1
    <2>2. CASE ~(v1 <= 0 \/ v1 > SIZE_MAX) /\ q + v1 > Len(d)
      <3>1. \A g : MeaningFrom(d, basis, g, p) = Halt(p, SubSeq(d, q + 1, Len(d)), "RS_INPUT_ENDED")
        BY <1>4, <2>2 DEF MeaningFrom
      <3>2. SubSeq(d, q + 1, Len(d)) \in Seq(Nat)
        BY <1>0, <2>0, PartFacts
      <3> QED
        BY <1>h, <1>v, <3>1, <3>2
    <2>3. CASE ~(v1 <= 0 \/ v1 > SIZE_MAX) /\ ~(q + v1 > Len(d))
      <3>1. \A g : MeaningFrom(d, basis, g, p) = Preceded(SubSeq(d, q + 1, q + v1), g[q + v1])
        BY <1>4, <2>3 DEF MeaningFrom
      <3>2. q + v1 \in 0 .. Len(d) /\ q + v1 > p /\ q + v1 \in Nat
        BY <1>0, <2>0, <2>3
      <3>3. SubSeq(d, q + 1, q + v1) \in Seq(Nat)
        BY <1>0, <2>0, <3>2, PartFacts
      <3> HIDE DEF q, v1
      <3> QED
        BY <1>e, <3>1, <3>2, <3>3
    <2> QED
      BY <2>1, <2>2, <2>3
  <1>5. CASE ~(p = Len(d) \/ q > Len(d)) /\ c.kind = "COPY" /\ v1 >= 0 /\ v2 > 0
    <2>0. v1 \in Nat /\ v2 \in Nat /\ q \in Nat /\ q > p /\ q <= Len(d)
      BY <1>3, <1>5
    <2>1. CASE v1 + v2 > Len(basis)
      <3>1. \A g : MeaningFrom(d, basis, g, p)
                     = Halt(p, SubSeq(basis, v1 + 1, Len(basis)), "RS_INPUT_ENDED")
        BY <1>5, <2>1 DEF MeaningFrom
      <3>2. SubSeq(basis, v1 + 1, Len(basis)) \in Seq(Nat)
        BY <1>0, <2>0, PartFacts
      <3> QED
        BY <1>h, <1>v, <3>1, <3>2
    <2>2. CASE ~(v1 + v2 > Len(basis))
      <3>1. \A g : MeaningFrom(d, basis, g, p) = Preceded(SubSeq(basis, v1 + 1, v1 + v2), g[q])
        BY <1>5, <2>2 DEF MeaningFrom
      <3>2. q \in 0 .. Len(d) /\ v1 + v2 \in Nat /\ v1 + v2 <= Len(basis)
        BY <1>0, <2>0, <2>2
      <3>3. SubSeq(basis, v1 + 1, v1 + v2) \in Seq(Nat)
        BY <1>0, <2>0, <3>2, PartFacts
      <3> HIDE DEF q, v1, v2
      <3> QED
        BY <1>e, <2>0, <3>1, <3>2, <3>3
    <2> QED
      BY <2>1, <2>2
  <1>6. CASE ~(p = Len(d) \/ q > Len(d)) /\ c.kind \notin {"END", "LITERAL"}
             /\ ~(c.kind = "COPY" /\ v1 >= 0 /\ v2 > 0)
    <2>1. \A g : MeaningFrom(d, basis, g, p) = Halt(p, <<>>, "RS_CORRUPT")
      BY <1>6 DEF MeaningFrom
    <2> QED
      BY <1>0, <1>h, <1>v, <2>1
  <1> HIDE DEF c, q, v1, v2
  <1> QED
    BY <1>1, <1>2, <1>4, <1>5, <1>6

\* Commands obeys its equation.
LEMMA CommandsFacts ==
    ASSUME NEW d \in Seq(Nat), NEW basis \in Seq(Nat), SIZE_MAX \in Nat
    PROVE  \A p \in 0 .. Len(d) :
              /\ Commands(d, basis)[p] \in Meanings
              /\ Commands(d, basis)[p] = MeaningFrom(d, basis, Commands(d, basis), p)
  <1> DEFINE n == Len(d)
             F == [p \in 0 .. n |-> [g \in [0 .. n -> Meanings] |-> MeaningFrom(d, basis, g, p)]]
             Is(f) == f = [p \in 0 .. n |-> MeaningFrom(d, basis, f, p)]
             R == Commands(d, basis)
  <1>1. n \in Nat /\ Halt(0, <<>>, "RS_DONE") \in Meanings
    BY LenProperties, EmptySeq DEF Halt, Meanings, Verdicts
  <1>2. F \in Looks(n, Meanings)
    BY MeaningFromFacts DEF Looks
  <1>3. \A p \in 0 .. n, g \in [0 .. n -> Meanings] : F[p][g] = MeaningFrom(d, basis, g, p)
    OBVIOUS
  <1>4. LooksAhead(F, n, Meanings)
    <2> SUFFICES ASSUME NEW p \in 0 .. n, NEW g \in [0 .. n -> Meanings],
                        NEW h \in [0 .. n -> Meanings],
                        \A q \in 0 .. n : q > p => g[q] = h[q]
                 PROVE  F[p][g] = F[p][h]
      BY DEF LooksAhead
    <2>1. MeaningFrom(d, basis, g, p) = MeaningFrom(d, basis, h, p)
      BY MeaningFromFacts
    <2> HIDE DEF F
    <2> QED
      BY <1>3, <2>1
  <1> HIDE DEF F
  <1>5. PICK g : Unfolds(g, F, n, Meanings)
    <2>1. PICK a : a \in Meanings
      BY <1>1
    <2> HIDE DEF n
    <2> QED
      BY <1>1, <1>2, <1>4, <2>1, LookaheadExists
  <1>6. \A p \in 0 .. n : g[p] = MeaningFrom(d, basis, g, p)
    BY <1>3, <1>5 DEF Unfolds
  <1>7. Is(g)
    BY <1>5, <1>6 DEF Unfolds
  <1>8. Is(R)
    <2>1. R = CHOOSE f : Is(f)
      BY CommandsChoice
    <2>2. \E f : Is(f)
      BY <1>7
    <2> HIDE DEF R, Is
    <2> QED
      BY <2>1, <2>2
  <1>9. \A p \in 0 .. n : R[p] = MeaningFrom(d, basis, R, p)
    <2> HIDE DEF R
    <2> QED
      BY <1>8
  \* The function that was found is the only one.
  <1>10. \A p \in 0 .. n : R[p] = g[p]
    <2> DEFINE Odd == {k \in 0 .. n : R[n - k] # g[n - k]}
    <2> SUFFICES ASSUME Odd # {}
                 PROVE  FALSE
      <3>1. \A p \in 0 .. n : n - p \in 0 .. n /\ n - (n - p) = p
        BY <1>1
      <3> HIDE DEF R, n
      <3> QED
        BY <3>1
    <2>1. Odd \subseteq Nat
      OBVIOUS
    <2>2. PICK k \in Odd : \A m \in Odd : k <= m
      <3> HIDE DEF Odd
      <3> QED
        BY <2>1, LeastNumber
    <2>3. \A q \in 0 .. n : q > n - k => R[q] = g[q]
      <3> SUFFICES ASSUME NEW q \in 0 .. n, q > n - k
                   PROVE  R[q] = g[q]
        OBVIOUS
      <3>1. n - q \in 0 .. n /\ ~(k <= n - q) /\ n - (n - q) = q
        BY <1>1
      <3> HIDE DEF R, n
      <3> QED
        BY <2>2, <3>1
    <2>4. n - k \in 0 .. n /\ R[n - k] # g[n - k]
      BY <1>1, <2>2
    <2>5. MeaningFrom(d, basis, R, n - k) = MeaningFrom(d, basis, g, n - k)
      <3> HIDE DEF R
      <3>1. PICK p \in 0 .. Len(d) : p = n - k
        BY <2>4
      <3>2. \A q \in 0 .. Len(d) : q > p => R[q] = g[q]
        BY <2>3, <3>1, Zenon
      <3>3. MeaningFrom(d, basis, R, p) = MeaningFrom(d, basis, g, p)
        BY <3>2, MeaningFromFacts, ZenonT(30)
      <3> QED
        BY <3>1, <3>3, Zenon
    <2> HIDE DEF R
    <2> QED
      BY <1>6, <1>9, <2>4, <2>5
  <1> HIDE DEF R
  <1>11. \A p \in 0 .. n : R[p] \in Meanings
    BY <1>5, <1>10 DEF Unfolds
  <1> QED
    BY <1>9, <1>11 DEF R

\* rs_tube_catchup_copy moves the bytes that it passes over.
LEMMA CatchupCopyMoves ==
    ASSUME NEW j, JobOK(j)
    PROVE  LET k == rs_tube_catchup_copy(j)
           IN  /\ k.out = j.out \o SubSeq(input, j.cursor + 1, k.cursor)
               /\ j.cursor <= k.cursor
  <1> DEFINE k == rs_tube_catchup_copy(j)
             n == Lesser(Lesser(j.copy_len, rs_scoop_avail(j)), j.avail_out)
             first == Lesser(n, j.scoop_avail)
  <1>1. /\ j.avail_out \in Nat /\ j.copy_len \in Nat /\ j.scoop_avail \in Nat /\ j.avail_in \in Nat
        /\ j.cursor \in Nat
    BY DEF JobOK
  <1>2. n \in Nat
    BY <1>1 DEF Lesser, rs_scoop_avail
  <1>3. k = [j EXCEPT !.out = @ \o SubSeq(input, j.cursor + 1, j.cursor + n),
                      !.avail_out = @ - n, !.copy_len = @ - n,
                      !.cursor = @ + n, !.scoop_avail = @ - first, !.avail_in = @ - (n - first)]
    BY DEF rs_tube_catchup_copy, NextBytes
  <1> HIDE DEF n, k, first
  <1>4. k.out = j.out \o SubSeq(input, j.cursor + 1, j.cursor + n) /\ k.cursor = j.cursor + n
    BY <1>3 DEF JobOK, JobFields
  <1>5. j.cursor <= k.cursor
    BY <1>1, <1>2, <1>4
  <1> QED
    BY <1>4, <1>5 DEF k

\* Without anything else in the tube rs_tube_catchup moves bytes from the input to
\* the output, and it gives up at the end of the input only.
LEMMA CatchupMoves ==
    ASSUME NEW j, JobOK(j), j.write_buf = <<>>
    PROVE  LET c == rs_tube_catchup(j)
               k == c.job
           IN  /\ k.out = j.out \o SubSeq(input, j.cursor + 1, k.cursor)
               /\ j.cursor <= k.cursor
               /\ c.result # "RS_DONE" => k.copy_len # 0
               /\ c.result = "RS_INPUT_ENDED" => rs_scoop_avail(k) = 0 /\ k.eof_in
               /\ j.copy_len = 0 => c.result = "RS_DONE"
  <1> DEFINE w == rs_tube_catchup_write(j)
             k == rs_tube_catchup_copy(w)
             c == rs_tube_catchup(j)
             n == Lesser(Len(j.write_buf), j.avail_out)
  <1>1. /\ Work(j, w) /\ SameInput(j, w) /\ w.copy_len = j.copy_len /\ JobOK(w)
    BY CatchupWriteFacts DEF Work
  <1>2. w.out = j.out /\ w.write_buf = <<>>
    <2>1. n = 0
      <3>1. Len(j.write_buf) = 0 /\ j.avail_out \in Nat
        BY DEF JobOK
      <3> QED
        BY <3>1 DEF Lesser
    <2>2. w = [j EXCEPT !.out = @ \o SubSeq(j.write_buf, 1, n), !.avail_out = @ - n,
                        !.write_buf = SubSeq(@, n + 1, Len(@))]
      BY DEF rs_tube_catchup_write
    <2> HIDE DEF n, w
    <2>3. /\ w.out = j.out \o SubSeq(j.write_buf, 1, n)
          /\ w.write_buf = SubSeq(j.write_buf, n + 1, Len(j.write_buf))
      BY <2>2 DEF JobOK, JobFields
    <2>4. SubSeq(<<>>, 1, 0) = <<>> /\ Len(<<>>) = 0
      OBVIOUS
    <2>5. j.out \o <<>> = j.out
      BY ConcatEmptySeq DEF JobOK
    <2>6. w.out = j.out \o SubSeq(<<>>, 1, 0) /\ w.write_buf = SubSeq(<<>>, 1, 0)
      <3>1. 0 + 1 = 1 /\ Len(j.write_buf) = 0 /\ j.write_buf = <<>>
        BY <2>4
      <3> QED
        BY <2>1, <2>3, <3>1
    <2> QED
      BY <2>4, <2>5, <2>6
  <1>3. /\ c.job = k
        /\ c.result = IF k.copy_len = 0 THEN "RS_DONE"
                      ELSE IF rs_scoop_eof(k) THEN "RS_INPUT_ENDED" ELSE "RS_BLOCKED"
    BY <1>2 DEF rs_tube_catchup
  <1>4. /\ k.out = w.out \o SubSeq(input, w.cursor + 1, k.cursor) /\ w.cursor <= k.cursor
        /\ k.cursor + k.copy_len = w.cursor + w.copy_len /\ Work(w, k)
    BY <1>1, CatchupCopyMoves, CatchupCopyFacts
  <1> HIDE DEF w, k, c
  <1>5. w.cursor = j.cursor
    BY <1>1 DEF SameInput
  <1>6. j.copy_len = 0 => k.copy_len = 0
    <2>1. k.copy_len \in Nat /\ k.cursor \in Nat /\ w.cursor \in Nat
      BY <1>1, <1>4 DEF Work, JobOK
    <2> QED
      BY <1>1, <1>4, <2>1
  <1> QED
    BY <1>2, <1>3, <1>4, <1>5, <1>6 DEF rs_scoop_eof, c

\* After a read that found no more than it wanted in the scoop, the scoop is empty.
LEMMA ReadaheadExact ==
    ASSUME NEW j, JobOK(j), NEW len \in Nat, j.scoop_avail <= len
    PROVE  LET r == Readahead(j, len)
           IN  /\ r.result = "RS_DONE" => r.job.scoop_avail \in {0, len}
               /\ r.result # "RS_DONE" =>
                    /\ r.job.avail_in = 0 /\ r.job.scoop_avail < len
                    /\ rs_scoop_avail(j) < len
  <1> DEFINE direct == j.scoop_avail = 0 /\ j.avail_in >= len
             n == IF ~direct /\ j.scoop_avail < len
                    THEN Lesser(len - j.scoop_avail, j.avail_in) ELSE 0
             k == [j EXCEPT !.scoop_avail = @ + n, !.avail_in = @ - n]
             res == IF direct \/ k.scoop_avail >= len THEN "RS_DONE"
                    ELSE IF j.eof_in THEN "RS_INPUT_ENDED" ELSE "RS_BLOCKED"
             a == Readahead(j, len)
  <1>1. a = [job |-> k, result |-> res]
    BY DEF Readahead
  <1>2. /\ j.scoop_avail \in Nat /\ j.avail_in \in Nat
        /\ k.scoop_avail = j.scoop_avail + n /\ k.avail_in = j.avail_in - n
    BY DEF JobOK, JobFields
  <1>3. /\ n \in Nat /\ n <= j.avail_in
        /\ direct => n = 0
        /\ ~direct => n <= len - j.scoop_avail
        /\ ~direct /\ j.scoop_avail + n < len => n = j.avail_in
    BY <1>2 DEF Lesser
  <1> HIDE DEF n, k
  <1>4. direct \/ k.scoop_avail >= len => k.scoop_avail \in {0, len}
    BY <1>2, <1>3
  <1>5. ~(direct \/ k.scoop_avail >= len) =>
          k.avail_in = 0 /\ k.scoop_avail < len /\ j.scoop_avail + j.avail_in < len
    BY <1>2, <1>3
  <1>6. res = "RS_DONE" <=> direct \/ k.scoop_avail >= len
    OBVIOUS
  <1> HIDE DEF a, res, direct
  <1> QED
    BY <1>1, <1>4, <1>5, <1>6 DEF rs_scoop_avail, a

LEMMA ReadExact ==
    ASSUME NEW j, JobOK(j), NEW len \in Nat, j.scoop_avail <= len
    PROVE  LET r == Read(j, len)
           IN  /\ r.result = "RS_DONE" => r.job.scoop_avail = 0
               /\ r.result # "RS_DONE" =>
                    /\ r.job.avail_in = 0 /\ r.job.scoop_avail < len
                    /\ rs_scoop_avail(j) < len
  <1> DEFINE a == Readahead(j, len)
             b == rs_scoop_advance(a.job, len)
             r == Read(j, len)
  <1>1. /\ a.result = "RS_DONE" => a.job.scoop_avail \in {0, len}
        /\ a.result # "RS_DONE" =>
             a.job.avail_in = 0 /\ a.job.scoop_avail < len /\ rs_scoop_avail(j) < len
        /\ JobOK(a.job) /\ DOMAIN a = {"job", "result"}
    BY ReadaheadExact, ReadaheadFacts DEF Work, Readahead
  <1>2. r.result = a.result /\ r.job = IF a.result = "RS_DONE" THEN b ELSE a.job
    <2>1. r = [a EXCEPT !.job = IF a.result = "RS_DONE" THEN b ELSE a.job]
      BY DEF Read
    <2> HIDE DEF a, b, r
    <2> QED
      BY <1>1, <2>1
  <1>3. a.result = "RS_DONE" => b.scoop_avail = 0
    <2> HIDE DEF a
    <2> SUFFICES ASSUME a.result = "RS_DONE"
                 PROVE  b.scoop_avail = 0
      OBVIOUS
    <2>1. DOMAIN a.job = JobFields /\ a.job.scoop_avail \in Nat
      BY <1>1 DEF JobOK
    <2>2. CASE a.job.scoop_avail > 0
      <3>1. a.job.scoop_avail = len
        BY <1>1, <2>2
      <3>2. b.scoop_avail = a.job.scoop_avail - len
        BY <2>1, <2>2 DEF rs_scoop_advance, Assert_, JobFields
      <3> QED
        BY <2>1, <3>1, <3>2
    <2>3. CASE ~(a.job.scoop_avail > 0)
      <3>1. b.scoop_avail = a.job.scoop_avail
        BY <2>1, <2>3 DEF rs_scoop_advance, Assert_, JobFields
      <3> QED
        BY <2>1, <2>3, <3>1
    <2> QED
      BY <2>2, <2>3
  <1> HIDE DEF a, b, r
  <1> QED
    BY <1>1, <1>2, <1>3 DEF r

\* Read from one piece, and the rest of it is what is left in the scoop.
LEMMA ReadContiguous ==
    ASSUME NEW j, JobOK(j), NEW len \in Nat, Contiguous(j, len)
    PROVE  Read(j, len).job.scoop_avail = IF j.scoop_avail > 0 THEN j.scoop_avail - len ELSE 0
  <1> DEFINE a == Readahead(j, len)
             b == rs_scoop_advance(a.job, len)
             r == Read(j, len)
  <1>1. a.result = "RS_DONE" /\ SameInput(j, a.job) /\ JobOK(a.job) /\ DOMAIN a = {"job", "result"}
    BY ReadaheadFacts DEF Work, Readahead
  <1>2. r.job = b
    <2>1. r = [a EXCEPT !.job = IF a.result = "RS_DONE" THEN b ELSE a.job]
      BY DEF Read
    <2> HIDE DEF a, b, r
    <2> QED
      BY <1>1, <2>1
  <1> HIDE DEF a
  <1>3. DOMAIN a.job = JobFields /\ a.job.scoop_avail \in Nat /\ a.job.scoop_avail = j.scoop_avail
    BY <1>1 DEF JobOK, SameInput
  <1>4. b.scoop_avail = IF a.job.scoop_avail > 0 THEN a.job.scoop_avail - len ELSE a.job.scoop_avail
    BY <1>3 DEF rs_scoop_advance, Assert_, JobFields
  <1> HIDE DEF b, r
  <1> QED
    BY <1>2, <1>3, <1>4 DEF r

\* Two adjacent pieces.
LEMMA PiecesJoin ==
    ASSUME NEW s \in Seq(Nat), NEW a \in Nat, NEW b \in Nat, NEW c \in Nat,
           a <= b, b <= c, c <= Len(s)
    PROVE  SubSeq(s, a + 1, b) \o SubSeq(s, b + 1, c) = SubSeq(s, a + 1, c)
  <1> DEFINE x == SubSeq(s, a + 1, b)
             y == SubSeq(s, b + 1, c)
             z == SubSeq(s, a + 1, c)
  <1>1. ASSUME NEW m \in Nat, NEW n \in Nat, m <= n, n <= Len(s)
        PROVE  /\ SubSeq(s, m + 1, n) \in Seq(Nat) /\ Len(SubSeq(s, m + 1, n)) = n - m
               /\ \A i \in 1 .. n - m : SubSeq(s, m + 1, n)[i] = s[m + i]
    <2>1. PICK k \in Nat : k = n - m
      BY <1>1
    <2>2. m + k = n
      BY <2>1
    <2>3. /\ SubSeq(s, m + 1, m + k) \in Seq(Nat) /\ Len(SubSeq(s, m + 1, m + k)) = k
          /\ \A i \in 1 .. k : SubSeq(s, m + 1, m + k)[i] = s[m + i]
      BY <1>1, <2>2, PieceFacts
    <2> QED
      BY <2>1, <2>2, <2>3
  <1>2. Len(s) \in Nat /\ a <= c /\ b <= Len(s)
    BY LenProperties
  <1>3. /\ x \in Seq(Nat) /\ Len(x) = b - a /\ \A i \in 1 .. b - a : x[i] = s[a + i]
        /\ y \in Seq(Nat) /\ Len(y) = c - b /\ \A i \in 1 .. c - b : y[i] = s[b + i]
        /\ z \in Seq(Nat) /\ Len(z) = c - a /\ \A i \in 1 .. c - a : z[i] = s[a + i]
    BY <1>1, <1>2
  <1> HIDE DEF x, y, z
  <1>4. /\ x \o y \in Seq(Nat) /\ Len(x \o y) = Len(x) + Len(y)
        /\ \A i \in 1 .. Len(x) + Len(y) :
              (x \o y)[i] = IF i <= Len(x) THEN x[i] ELSE y[i - Len(x)]
    BY <1>3, ConcatProperties
  <1>5. Len(x) + Len(y) = Len(z) /\ Len(z) = c - a
    BY <1>3
  <1>6. ASSUME NEW i \in 1 .. c - a
        PROVE  (x \o y)[i] = z[i]
    <2>1. CASE i <= b - a
      <3>1. i \in 1 .. b - a /\ i \in 1 .. Len(x) + Len(y) /\ i <= Len(x)
        BY <1>3, <1>5, <2>1
      <3> QED
        BY <1>3, <1>4, <3>1
    <2>2. CASE ~(i <= b - a)
      <3>1. /\ i - (b - a) \in 1 .. c - b /\ i \in 1 .. Len(x) + Len(y) /\ ~(i <= Len(x))
            /\ i - Len(x) = i - (b - a) /\ b + (i - (b - a)) = a + i
        BY <1>3, <1>5, <2>2
      <3>2. (x \o y)[i] = y[i - (b - a)]
        BY <1>4, <3>1
      <3>3. y[i - (b - a)] = s[b + (i - (b - a))]
        BY <1>3, <3>1
      <3> QED
        BY <1>3, <3>1, <3>2, <3>3
    <2> QED
      BY <2>1, <2>2
  <1>7. Len(x \o y) = c - a /\ Len(z) = c - a
    BY <1>4, <1>5
  <1>8. x \o y = z
    BY <1>3, <1>4, <1>6, <1>7, SeqEqual
  <1> QED
    BY <1>8 DEF x, y, z

\* What precedes a meaning adds to its output alone.
LEMMA PrecededFacts ==
    ASSUME NEW s \in Seq(Nat), NEW m \in Meanings
    PROVE  /\ Preceded(s, m) \in Meanings
           /\ Preceded(s, m).out = s \o m.out
           /\ Preceded(s, m).verdict = m.verdict /\ Preceded(s, m).used = m.used
           /\ Preceded(<<>>, m) = m
           /\ \A t \in Seq(Nat) : Preceded(s, Preceded(t, m)) = Preceded(s \o t, m)
  <1>0. ASSUME NEW t, NEW k \in Meanings
        PROVE  Preceded(t, k) = [out |-> t \o k.out, verdict |-> k.verdict, used |-> k.used]
    <2> DEFINE o == t \o k.out
    <2>1. Preceded(t, k) = [k EXCEPT !.out = o]
      BY DEF Preceded
    <2> HIDE DEF o
    <2>2. [k EXCEPT !.out = o] = [out |-> o, verdict |-> k.verdict, used |-> k.used]
      <3>1. PICK L : L = [k EXCEPT !.out = o]
        OBVIOUS
      <3>2. L \in [out : {o}, verdict : {k.verdict}, used : {k.used}]
        BY <3>1 DEF Meanings
      <3>3. L = [out |-> L.out, verdict |-> L.verdict, used |-> L.used]
        BY <3>2
      <3>4. L.out = o /\ L.verdict = k.verdict /\ L.used = k.used
        BY <3>2
      <3> QED
        BY <3>1, <3>3, <3>4
    <2> QED
      BY <2>1, <2>2 DEF o
  <1>1. /\ \A t \in Seq(Nat) : Preceded(t, m) = [out |-> t \o m.out, verdict |-> m.verdict, used |-> m.used]
        /\ m.out \in Seq(Nat) /\ m.verdict \in Verdicts /\ m.used \in Nat
        /\ m = [out |-> m.out, verdict |-> m.verdict, used |-> m.used]
    <2>1. /\ m.out \in Seq(Nat) /\ m.verdict \in Verdicts /\ m.used \in Nat
          /\ m = [out |-> m.out, verdict |-> m.verdict, used |-> m.used]
      BY DEF Meanings
    <2> QED
      BY <1>0, <2>1
  <1>2. ASSUME NEW t \in Seq(Nat)
        PROVE  t \o m.out \in Seq(Nat) /\ Preceded(t, m) \in Meanings
    <2>1. t \o m.out \in Seq(Nat)
      BY <1>1, ConcatProperties
    <2>2. PICK o \in Seq(Nat), v \in Verdicts, u \in Nat :
            o = t \o m.out /\ v = m.verdict /\ u = m.used
      BY <1>1, <2>1
    <2>3. Preceded(t, m) = [out |-> o, verdict |-> v, used |-> u]
      BY <1>1, <2>2
    <2>4. [out |-> o, verdict |-> v, used |-> u] \in Meanings
      BY DEF Meanings
    <2> QED
      BY <2>1, <2>3, <2>4
  <1>3. Preceded(<<>>, m) = m
    <2>1. <<>> \in Seq(Nat) /\ <<>> \o m.out = m.out
      BY <1>1, ConcatEmptySeq
    <2> QED
      BY <1>1, <2>1
  <1>4. ASSUME NEW t \in Seq(Nat)
        PROVE  Preceded(s, Preceded(t, m)) = Preceded(s \o t, m)
    <2>1. /\ Preceded(t, m).out = t \o m.out /\ Preceded(t, m).verdict = m.verdict
          /\ Preceded(t, m).used = m.used /\ Preceded(t, m) \in Meanings
      BY <1>1, <1>2
    <2>2. Preceded(s, Preceded(t, m))
            = [out |-> s \o (t \o m.out), verdict |-> m.verdict, used |-> m.used]
      BY <1>0, <2>1
    <2>3. (s \o t) \o m.out = s \o (t \o m.out) /\ s \o t \in Seq(Nat)
      BY <1>1, ConcatBytes, ConcatProperties
    <2>4. Preceded(s \o t, m) = [out |-> (s \o t) \o m.out, verdict |-> m.verdict, used |-> m.used]
      BY <1>1, <2>3
    <2> QED
      BY <2>2, <2>3, <2>4
  <1> QED
    BY <1>1, <1>2, <1>3, <1>4

\* Stopping after some output.
MeansEnd(m, done, v) == m.out = done /\ m.verdict = v
Looked(m, p) == m.used = p + 1
LEMMA HaltFacts ==
    ASSUME NEW s \in Seq(Nat), NEW t \in Seq(Nat), NEW p \in Nat, NEW v \in Verdicts
    PROVE  /\ MeansEnd(Preceded(s, Halt(p, t, v)), s \o t, v)
           /\ Preceded(s, Halt(p, t, v)).used = p + 1
  <1>1. Halt(p, t, v) \in Meanings
    BY DEF Halt, Meanings
  <1>2. Halt(p, t, v).out = t /\ Halt(p, t, v).verdict = v /\ Halt(p, t, v).used = p + 1
    BY DEF Halt
  <1> HIDE DEF Halt
  <1> QED
    BY <1>1, <1>2, PrecededFacts DEF MeansEnd

\* What a delta means, m, whose commands up to p have put out done, is what the
\* command at p makes of it.
LEMMA CommandMeans ==
    ASSUME NEW d \in Seq(Nat), NEW basis \in Seq(Nat), SIZE_MAX \in Nat,
           NEW p \in 0 .. Len(d), NEW done \in Seq(Nat), NEW m,
           m = Preceded(done, Commands(d, basis)[p])
    PROVE  LET R == Commands(d, basis)
               c == CommandAt(d, p)
               q == CommandEnd(d, p)
               v1 == FirstParam(d, p)
               v2 == SecondParam(d, p)
           IN  /\ p = Len(d) \/ q > Len(d) => MeansEnd(m, done, "RS_INPUT_ENDED")
               /\ p < Len(d) /\ q <= Len(d) =>
                  /\ c.kind = "END" => MeansEnd(m, done, "RS_DONE") /\ Looked(m, p)
                  /\ c.kind = "LITERAL" =>
                       /\ v1 <= 0 \/ v1 > SIZE_MAX => MeansEnd(m, done, "RS_CORRUPT")
                       /\ ~(v1 <= 0 \/ v1 > SIZE_MAX) =>
                            /\ q + v1 > Len(d) =>
                                 MeansEnd(m, done \o SubSeq(d, q + 1, Len(d)), "RS_INPUT_ENDED")
                            /\ q + v1 <= Len(d) =>
                                 m = Preceded(done \o SubSeq(d, q + 1, q + v1), R[q + v1])
                  /\ c.kind = "COPY" =>
                       /\ v2 <= 0 \/ v1 < 0 => MeansEnd(m, done, "RS_CORRUPT")
                       /\ ~(v2 <= 0 \/ v1 < 0) =>
                            /\ v1 + v2 > Len(basis) =>
                                 MeansEnd(m, done \o SubSeq(basis, v1 + 1, Len(basis)), "RS_INPUT_ENDED")
                            /\ v1 + v2 <= Len(basis) =>
                                 m = Preceded(done \o SubSeq(basis, v1 + 1, v1 + v2), R[q])
                  /\ c.kind \notin {"END", "LITERAL", "COPY"} => MeansEnd(m, done, "RS_CORRUPT")
  <1> DEFINE R == Commands(d, basis)
             c == CommandAt(d, p)
             q == CommandEnd(d, p)
             v1 == FirstParam(d, p)
             v2 == SecondParam(d, p)
             e == Len(d)
             b == Len(basis)
  <1>0. e \in Nat /\ p \in Nat /\ b \in Nat /\ <<>> \in Seq(Nat) /\ p <= e
    BY LenProperties, EmptySeq
  <1>1. /\ \A i \in 0 .. e : R[i] \in Meanings
        /\ R[p] = MeaningFrom(d, basis, R, p)
    BY CommandsFacts
  <1> HIDE DEF R
  <1>2. ASSUME NEW t \in Seq(Nat), NEW v \in Verdicts, R[p] = Halt(p, t, v)
        PROVE  MeansEnd(m, done \o t, v) /\ Looked(m, p) /\ done \o <<>> = done
    <2>1. m = Preceded(done, Halt(p, t, v))
      BY <1>2 DEF R
    <2>2. done \o <<>> = done
      BY ConcatEmptySeq
    <2>3. p \in Nat
      BY <1>0
    <2>4. /\ MeansEnd(Preceded(done, Halt(p, t, v)), done \o t, v)
          /\ Preceded(done, Halt(p, t, v)).used = p + 1
      BY <2>3, HaltFacts
    <2> QED
      BY <2>1, <2>2, <2>4 DEF Looked
  <1>3. "RS_INPUT_ENDED" \in Verdicts /\ "RS_DONE" \in Verdicts /\ "RS_CORRUPT" \in Verdicts
    BY DEF Verdicts
  <1>4. ASSUME NEW t \in Seq(Nat), NEW i \in 0 .. e, R[p] = Preceded(t, R[i])
        PROVE  m = Preceded(done \o t, R[i])
    <2>1. R[i] \in Meanings
      BY <1>1
    <2> QED
      BY <1>4, <2>1, PrecededFacts DEF R
  <1>5. ASSUME p = e \/ q > e
        PROVE  MeansEnd(m, done, "RS_INPUT_ENDED")
    <2>1. R[p] = Halt(p, <<>>, "RS_INPUT_ENDED")
      BY <1>1, <1>5 DEF MeaningFrom
    <2> QED
      BY <1>0, <1>2, <1>3, <2>1
  <1>6. ASSUME p < e, q <= e
        PROVE  /\ v1 \in Int /\ v2 \in Int /\ q \in Nat /\ ~(p = e \/ q > e)
    <2>1. p \in 0 .. Len(d) - 1
      BY <1>0, <1>6
    <2>2. q \in Nat
      BY <2>1, CommandFacts
    <2>3. v1 \in Int /\ v2 \in Int
      BY <1>6, <2>1, CommandFacts
    <2> HIDE DEF q
    <2> QED
      BY <1>0, <1>6, <2>2, <2>3
  <1>7. ASSUME p < e, q <= e, c.kind = "END"
        PROVE  MeansEnd(m, done, "RS_DONE") /\ Looked(m, p)
    <2>1. R[p] = Halt(p, <<>>, "RS_DONE")
      BY <1>1, <1>6, <1>7 DEF MeaningFrom
    <2> QED
      BY <1>0, <1>2, <1>3, <2>1
  <1>8. ASSUME p < e, q <= e, c.kind = "LITERAL"
        PROVE  /\ v1 <= 0 \/ v1 > SIZE_MAX => MeansEnd(m, done, "RS_CORRUPT")
               /\ ~(v1 <= 0 \/ v1 > SIZE_MAX) =>
                    /\ q + v1 > e => MeansEnd(m, done \o SubSeq(d, q + 1, e), "RS_INPUT_ENDED")
                    /\ q + v1 <= e => m = Preceded(done \o SubSeq(d, q + 1, q + v1), R[q + v1])
    <2>0. v1 \in Int /\ q \in Nat /\ ~(p = e \/ q > e)
      BY <1>6, <1>8
    <2>1. CASE v1 <= 0 \/ v1 > SIZE_MAX
      <3>1. R[p] = Halt(p, <<>>, "RS_CORRUPT")
        BY <1>1, <1>8, <2>0, <2>1 DEF MeaningFrom
      <3> QED
        BY <1>0, <1>2, <1>3, <2>1, <3>1
    <2>2. CASE ~(v1 <= 0 \/ v1 > SIZE_MAX) /\ q + v1 > e
      <3>1. R[p] = Halt(p, SubSeq(d, q + 1, e), "RS_INPUT_ENDED")
        BY <1>1, <1>8, <2>0, <2>2 DEF MeaningFrom
      <3>2. SubSeq(d, q + 1, e) \in Seq(Nat)
        BY <1>0, <2>0, PartFacts
      <3>3. ~(q + v1 <= e)
        BY <1>0, <2>0, <2>2
      <3> HIDE DEF q, v1, e
      <3> QED
        BY <1>2, <1>3, <2>2, <3>1, <3>2, <3>3
    <2>3. CASE ~(v1 <= 0 \/ v1 > SIZE_MAX) /\ ~(q + v1 > e)
      <3>1. R[p] = Preceded(SubSeq(d, q + 1, q + v1), R[q + v1])
        BY <1>1, <1>8, <2>0, <2>3 DEF MeaningFrom
      <3>2. q + v1 \in Nat /\ q + v1 <= e /\ q + v1 \in 0 .. e
        BY <1>0, <2>0, <2>3
      <3>3. SubSeq(d, q + 1, q + v1) \in Seq(Nat)
        BY <1>0, <2>0, <3>2, PartFacts
      <3> HIDE DEF q, v1, e
      <3> QED
        BY <1>4, <2>3, <3>1, <3>2, <3>3
    <2> QED
      BY <2>1, <2>2, <2>3
  <1>9. ASSUME p < e, q <= e, c.kind = "COPY"
        PROVE  /\ v2 <= 0 \/ v1 < 0 => MeansEnd(m, done, "RS_CORRUPT")
               /\ ~(v2 <= 0 \/ v1 < 0) =>
                    /\ v1 + v2 > b => MeansEnd(m, done \o SubSeq(basis, v1 + 1, b), "RS_INPUT_ENDED")
                    /\ v1 + v2 <= b => m = Preceded(done \o SubSeq(basis, v1 + 1, v1 + v2), R[q])
    <2>0. v1 \in Int /\ v2 \in Int /\ q \in Nat /\ ~(p = e \/ q > e)
      BY <1>6, <1>9
    <2>1. CASE v2 <= 0 \/ v1 < 0
      <3>0. ~(v1 >= 0 /\ v2 > 0)
        BY <2>0, <2>1
      <3>1. R[p] = Halt(p, <<>>, "RS_CORRUPT")
        BY <1>1, <1>9, <2>0, <3>0 DEF MeaningFrom
      <3> QED
        BY <1>0, <1>2, <1>3, <2>1, <3>1
    <2>2. CASE ~(v2 <= 0 \/ v1 < 0) /\ v1 + v2 > b
      <3>0. v1 >= 0 /\ v2 > 0 /\ v1 \in Nat /\ ~(v1 + v2 <= b)
        BY <1>0, <2>0, <2>2
      <3>1. R[p] = Halt(p, SubSeq(basis, v1 + 1, b), "RS_INPUT_ENDED")
        BY <1>1, <1>9, <2>0, <2>2, <3>0 DEF MeaningFrom
      <3>2. SubSeq(basis, v1 + 1, b) \in Seq(Nat)
        BY <1>0, <3>0, PartFacts
      <3> HIDE DEF q, v1, v2, b
      <3> QED
        BY <1>2, <1>3, <2>2, <3>0, <3>1, <3>2
    <2>3. CASE ~(v2 <= 0 \/ v1 < 0) /\ ~(v1 + v2 > b)
      <3>0. v1 >= 0 /\ v2 > 0 /\ v1 \in Nat /\ v1 + v2 \in Nat /\ v1 + v2 <= b /\ q \in 0 .. e
        BY <1>0, <1>9, <2>0, <2>3
      <3>1. R[p] = Preceded(SubSeq(basis, v1 + 1, v1 + v2), R[q])
        BY <1>1, <1>9, <2>0, <2>3, <3>0 DEF MeaningFrom
      <3>3. SubSeq(basis, v1 + 1, v1 + v2) \in Seq(Nat)
        BY <1>0, <3>0, PartFacts
      <3> HIDE DEF q, v1, v2, e, b
      <3> QED
        BY <1>4, <2>3, <3>0, <3>1, <3>3
    <2> QED
      BY <2>1, <2>2, <2>3
  <1>10. ASSUME p < e, q <= e, c.kind \notin {"END", "LITERAL", "COPY"}
         PROVE  MeansEnd(m, done, "RS_CORRUPT")
    <2>1. R[p] = Halt(p, <<>>, "RS_CORRUPT")
      BY <1>1, <1>6, <1>10 DEF MeaningFrom
    <2> QED
      BY <1>0, <1>2, <1>3, <2>1
  <1> HIDE DEF c, q, v1, v2, e, b
  <1> QED
    BY <1>5, <1>7, <1>8, <1>9, <1>10 DEF R, c, q, v1, v2, e, b

-----------------------------------------------------------------------------
(* The output grows.                                                       *)

BeginsWith(t, s) == Len(s) <= Len(t) /\ s = SubSeq(t, 1, Len(s))

\* Byte by byte.
LEMMA BeginsFacts ==
    ASSUME NEW s \in Seq(Nat), NEW t \in Seq(Nat)
    PROVE  BeginsWith(t, s) <=> Len(s) <= Len(t) /\ \A i \in 1 .. Len(s) : t[i] = s[i]
  <1> SUFFICES ASSUME Len(s) <= Len(t)
               PROVE  s = SubSeq(t, 1, Len(s)) <=> \A i \in 1 .. Len(s) : t[i] = s[i]
    BY DEF BeginsWith
  <1> DEFINE r == SubSeq(t, 1, Len(s))
  <1>1. Len(s) \in Nat /\ Len(t) \in Nat
    BY LenProperties
  <1>2. r \in Seq(Nat) /\ Len(r) = Len(s) /\ \A i \in 1 .. Len(s) : r[i] = t[0 + i]
    <2>1. 0 \in Nat /\ 0 + Len(s) = Len(s) /\ 0 + 1 = 1 /\ 0 + Len(s) <= Len(t)
      BY <1>1
    <2> QED
      BY <1>1, <2>1, PieceFacts
  <1> HIDE DEF r
  <1>3. \A i \in 1 .. Len(s) : r[i] = t[i]
    <2>1. \A i \in 1 .. Len(s) : 0 + i = i
      BY <1>1
    <2> QED
      BY <1>2, <2>1
  <1>4. (\A i \in 1 .. Len(r) : r[i] = s[i]) => r = s
    BY <1>2, SeqEqual
  <1> QED
    BY <1>2, <1>3, <1>4 DEF r

\* Work only adds to the output.
LEMMA WorkAppends ==
    ASSUME NEW j, NEW k, JobOK(j), Work(j, k)
    PROVE  BeginsWith(k.out, j.out)
  <1>1. j.out \in Seq(Nat) /\ k.out \in Seq(Nat)
    BY DEF JobOK, Work
  <1>2. /\ OutLen(k) + k.avail_out = OutLen(j) + j.avail_out /\ k.avail_out <= j.avail_out
        /\ k.avail_out \in Nat /\ j.avail_out \in Nat
        /\ \A i \in 1 .. OutLen(j) : k.out[i] = j.out[i]
    BY DEF Work, JobOK
  <1>3. OutLen(j) \in Nat /\ OutLen(k) \in Nat
    BY LengthFacts DEF Work
  <1>4. OutLen(j) <= OutLen(k)
    BY <1>2, <1>3
  <1> QED
    BY <1>1, <1>2, <1>4, BeginsFacts DEF OutLen

-----------------------------------------------------------------------------
(* The sums.                                                               *)

\* The signature file of a basis up to each of its blocks: SignatureOf is the
\* last of these.
PartsOf(basis, x) ==
    LET a == rs_sig_args(-1, x)
        blocks == BlocksOf(basis, a.block_len)
        sums(block) == Netint(rs_calc_weak_sum(rs_signature_weaksum_kind(a.magic), block), 4)
                         \o StrongPart(a.magic, a.strong_len, block)
        file[k \in 0 .. Len(blocks)] ==
            IF k = 0 THEN HeaderOf(a) ELSE file[k - 1] \o sums(blocks[k])
    IN  file

BlockCount(basis, block_len) == (Len(basis) + block_len - 1) \div block_len

\* The rollsum of a block consists of two words.
LEMMA RollsumNumbers ==
    ASSUME NEW buf \in Seq(Nat), NEW sum, DOMAIN sum = {"kind", "count", "s1", "s2"},
           sum.s1 \in Nat, sum.s2 \in Nat
    PROVE  /\ RollsumUpdate(sum, buf).s1 \in Nat /\ RollsumUpdate(sum, buf).s2 \in Nat
           /\ RollsumUpdate(sum, buf).s1 < RollMod /\ RollsumUpdate(sum, buf).s2 < RollMod
  <1> DEFINE len == Len(buf)
             F1(f) == f = [k \in 0 .. len |-> IF k = 0 THEN sum.s1 ELSE (f[k - 1] + buf[k]) % RollMod]
             s1 == CHOOSE f : F1(f)
             F2(f) == f = [k \in 0 .. len |-> IF k = 0 THEN sum.s2 ELSE (f[k - 1] + s1[k]) % RollMod]
             s2 == CHOOSE f : F2(f)
  <1>1. len \in Nat /\ \A k \in 1 .. len : buf[k] \in Nat
    BY LenProperties
  <1>2. \A v, w \in Nat : (v + w) % RollMod \in Nat /\ (v + w) % RollMod < RollMod
    BY WeaksumAssumption
  <1>3. ASSUME NEW a \in Nat, NEW add, \A k \in 1 .. len : add[k] \in Nat
        PROVE  \E g : g = [k \in 0 .. len |-> IF k = 0 THEN a ELSE (g[k - 1] + add[k]) % RollMod]
    <2> DEFINE step == [k \in 1 .. len |-> [v \in Nat |-> (v + add[k]) % RollMod]]
    <2> HIDE DEF len
    <2>1. step \in Steps(len, Nat)
      BY <1>2, <1>3 DEF Steps
    <2>2. PICK g : Recurs(g, len, Nat, a, step)
      <3> HIDE DEF step
      <3> QED
        BY <1>1, <1>3, <2>1, RecursionExists
    <2>3. \A k \in 0 .. len : g[k] = IF k = 0 THEN a ELSE (g[k - 1] + add[k]) % RollMod
      <3> SUFFICES ASSUME NEW k \in 0 .. len
                   PROVE  g[k] = IF k = 0 THEN a ELSE (g[k - 1] + add[k]) % RollMod
        OBVIOUS
      <3>1. CASE k = 0
        BY <2>2, <3>1 DEF Recurs
      <3>2. CASE k # 0
        <4>1. k \in 1 .. len /\ k - 1 \in 0 .. len
          BY <1>1, <3>2
        <4>2. g[k] = step[k][g[k - 1]] /\ g[k - 1] \in Nat
          BY <2>2, <4>1 DEF Recurs
        <4> QED
          BY <3>2, <4>1, <4>2
      <3> QED
        BY <3>1, <3>2
    <2>4. g = [k \in 0 .. len |-> g[k]]
      BY <2>2 DEF Recurs
    <2> QED
      BY <2>3, <2>4
  <1>4. ASSUME NEW a \in Nat, NEW add, \A k \in 1 .. len : add[k] \in Nat, NEW g,
               g = [k \in 0 .. len |-> IF k = 0 THEN a ELSE (g[k - 1] + add[k]) % RollMod]
        PROVE  \A k \in 0 .. len : g[k] \in Nat
    <2> DEFINE T == {k \in 0 .. len : g[k] \in Nat}
    <2> HIDE DEF len
    <2>1. g[0] = a /\ \A k \in 1 .. len : g[k] = (g[k - 1] + add[k]) % RollMod
      BY <1>1, <1>4
    <2>2. 0 \in T
      BY <1>1, <1>4, <2>1
    <2>3. ASSUME NEW i \in 1 .. len, i - 1 \in T
          PROVE  i \in T
      <3>1. g[i] = (g[i - 1] + add[i]) % RollMod /\ i \in 0 .. len
        BY <1>1, <2>1, <2>3
      <3>2. g[i - 1] \in Nat /\ add[i] \in Nat
        BY <1>4, <2>3
      <3> QED
        BY <1>2, <3>1, <3>2
    <2>4. \A i \in 0 .. len : i \in T
      <3> HIDE DEF T
      <3> QED
        BY <1>1, <2>2, <2>3, CountUp
    <2> QED
      BY <2>4
  <1>5. F1(s1)
    <2>1. \E f : F1(f)
      BY <1>1, <1>3
    <2> QED
      BY <2>1
  <1> HIDE DEF s1
  <1>6. \A k \in 0 .. len : s1[k] \in Nat
    BY <1>1, <1>4, <1>5
  <1>7. F2(s2)
    <2>1. \A k \in 1 .. len : s1[k] \in Nat
      BY <1>1, <1>6
    <2>2. \E f : F2(f)
      BY <1>3, <2>1
    <2> QED
      BY <2>2
  <1> HIDE DEF s2
  <1>8. \A k \in 0 .. len : s2[k] \in Nat
    <2>1. \A k \in 1 .. len : s1[k] \in Nat
      BY <1>1, <1>6
    <2> QED
      BY <1>4, <1>7, <2>1
  <1>9. RollsumUpdate(sum, buf)
          = [sum EXCEPT !.s1 = (s1[len] + len * ROLLSUM_CHAR_OFFSET) % RollMod,
                        !.s2 = (s2[len] + ((len * (len + 1)) \div 2) * ROLLSUM_CHAR_OFFSET) % RollMod,
                        !.count = @ + len]
    BY DEF RollsumUpdate, s1, s2
  <1> DEFINE v1 == (s1[len] + len * ROLLSUM_CHAR_OFFSET) % RollMod
             v2 == (s2[len] + ((len * (len + 1)) \div 2) * ROLLSUM_CHAR_OFFSET) % RollMod
  <1>10. v1 \in Nat /\ v2 \in Nat /\ v1 < RollMod /\ v2 < RollMod
    <2>1. s1[len] \in Nat /\ s2[len] \in Nat
      BY <1>1, <1>6, <1>8
    <2> HIDE DEF len
    <2>2. len * 31 \in Nat /\ ((len * (len + 1)) \div 2) * 31 \in Nat
      BY <1>1
    <2> QED
      BY <1>2, <2>1, <2>2 DEF ROLLSUM_CHAR_OFFSET
  <1> HIDE DEF v1, v2
  <1> QED
    BY <1>9, <1>10 DEF v1, v2

\* So is the RabinKarp hash of a block.
LEMMA RabinKarpNumber ==
    ASSUME NEW buf \in Seq(Nat), NEW sum, DOMAIN sum = {"kind", "count", "hash", "mult"},
           sum.hash \in Nat, sum.hash < RkMod
    PROVE  rabinkarp_update(sum, buf).hash \in Nat /\ rabinkarp_update(sum, buf).hash < RkMod
  <1> DEFINE len == Len(buf)
             Round(v, w) == (RABINKARP_MULT * v + w) % RkMod
             F(f) == f = [k \in 0 .. len |->
                            IF k = 0 THEN sum.hash ELSE (RABINKARP_MULT * f[k - 1] + buf[k]) % RkMod]
             hash == CHOOSE f : F(f)
             step == [k \in 1 .. len |-> [v \in Nat |-> Round(v, buf[k])]]
  <1>1. len \in Nat /\ \A k \in 1 .. len : buf[k] \in Nat
    BY LenProperties
  <1>2. \A v, w \in Nat : Round(v, w) \in Nat /\ Round(v, w) < RkMod
    BY WeaksumAssumption
  <1>3. step \in Steps(len, Nat)
    <2> HIDE DEF Round, len
    <2> QED
      BY <1>1, <1>2 DEF Steps
  <1>4. PICK g : Recurs(g, len, Nat, sum.hash, step)
    <2> HIDE DEF step, len
    <2> QED
      BY <1>1, <1>3, RecursionExists
  <1>5. F(g)
    <2>1. \A k \in 0 .. len : g[k] = IF k = 0 THEN sum.hash ELSE Round(g[k - 1], buf[k])
      <3> SUFFICES ASSUME NEW k \in 0 .. len
                   PROVE  g[k] = IF k = 0 THEN sum.hash ELSE Round(g[k - 1], buf[k])
        OBVIOUS
      <3> HIDE DEF Round, len
      <3>1. CASE k = 0
        BY <1>4, <3>1 DEF Recurs
      <3>2. CASE k # 0
        <4>1. k \in 1 .. len /\ k - 1 \in 0 .. len
          BY <1>1, <3>2
        <4>2. g[k] = step[k][g[k - 1]] /\ g[k - 1] \in Nat
          BY <1>4, <4>1 DEF Recurs
        <4> QED
          BY <3>2, <4>1, <4>2
      <3> QED
        BY <3>1, <3>2
    <2>2. g = [k \in 0 .. len |-> g[k]]
      BY <1>4 DEF Recurs
    <2> QED
      BY <2>1, <2>2
  <1>6. F(hash)
    BY <1>5
  <1>7. rabinkarp_update(sum, buf).hash = hash[len]
    BY DEF rabinkarp_update
  <1> HIDE DEF hash
  <1> DEFINE T == {k \in 0 .. len : hash[k] \in Nat /\ hash[k] < RkMod}
  <1> HIDE DEF len
  <1>8. hash[0] = sum.hash /\ \A k \in 1 .. len : hash[k] = Round(hash[k - 1], buf[k])
    <2>1. hash = [k \in 0 .. len |-> IF k = 0 THEN sum.hash ELSE Round(hash[k - 1], buf[k])]
      BY <1>6
    <2> HIDE DEF Round
    <2>2. 0 \in 0 .. len /\ \A k \in 1 .. len : k \in 0 .. len /\ k # 0
      BY <1>1
    <2> QED
      BY <2>1, <2>2
  <1> HIDE DEF Round
  <1>9. 0 \in T
    BY <1>1, <1>8
  <1>10. ASSUME NEW i \in 1 .. len, i - 1 \in T
         PROVE  i \in T
    <2>1. hash[i] = Round(hash[i - 1], buf[i]) /\ i \in 0 .. len
      BY <1>1, <1>8, <1>10
    <2> QED
      BY <1>1, <1>2, <1>10, <2>1
  <1>11. \A i \in 0 .. len : i \in T
    <2> HIDE DEF T
    <2> QED
      BY <1>1, <1>9, <1>10, CountUp
  <1>12. len \in 0 .. len
    BY <1>1
  <1> QED
    BY <1>7, <1>11, <1>12

\* The weak sum that is written to a signature is a number of bounded size.
LEMMA WeakSumNumber ==
    ASSUME NEW kind, NEW buf \in Seq(Nat)
    PROVE  /\ rs_calc_weak_sum(kind, buf) \in Nat
           /\ rs_calc_weak_sum(kind, buf) < RollMod * RollMod \/ rs_calc_weak_sum(kind, buf) < RkMod
  <1>1. CASE kind = "RS_ROLLSUM"
    <2> DEFINE u == RollsumUpdate(RollsumInit, buf)
    <2>1. u.s1 \in Nat /\ u.s2 \in Nat /\ u.s1 < RollMod /\ u.s2 < RollMod
      <3>1. /\ DOMAIN RollsumInit = {"kind", "count", "s1", "s2"}
            /\ RollsumInit.s1 \in Nat /\ RollsumInit.s2 \in Nat
        BY DEF RollsumInit
      <3> QED
        BY <3>1, RollsumNumbers
    <2> HIDE DEF u
    <2>2. u.s2 * RollMod + u.s1 \in Nat /\ u.s2 * RollMod + u.s1 < RollMod * RollMod
      <3>1. RollMod \in Nat \ {0}
        BY WeaksumAssumption
      <3>2. \A b \in Nat \ {0} : \A m, n \in Nat :
              m < b /\ n < b => m * b + n \in Nat /\ m * b + n < b * b
        <4> SUFFICES ASSUME NEW b \in Nat \ {0}, NEW m \in Nat, NEW n \in Nat, m < b, n < b
                     PROVE  m * b + n \in Nat /\ m * b + n < b * b
          OBVIOUS
        <4>1. (m + 1) * b <= b * b
          BY TimesMonotonic
        <4>2. (m + 1) * b = m * b + b /\ m * b \in Nat /\ b * b \in Nat
          OBVIOUS
        <4> QED
          BY <4>1, <4>2
      <3> QED
        BY <2>1, <3>1, <3>2
    <2> QED
      BY <1>1, <2>2 DEF rs_calc_weak_sum, RollsumDigest, u
  <1>2. CASE kind # "RS_ROLLSUM"
    <2>1. /\ DOMAIN rabinkarp_init = {"kind", "count", "hash", "mult"}
          /\ rabinkarp_init.hash \in Nat /\ rabinkarp_init.hash < RkMod
      <3>1. \A v \in Int, m \in Nat \ {0} : v % m < m
        OBVIOUS
      <3>2. RABINKARP_MULT * RABINKARP_INVM \in Int
        BY WeaksumAssumption
      <3>3. 1 < RkMod
        BY <3>1, <3>2, WeaksumAssumption
      <3> QED
        BY <3>3 DEF rabinkarp_init, RABINKARP_SEED
    <2> QED
      BY <1>2, <2>1, RabinKarpNumber DEF rs_calc_weak_sum, rabinkarp_digest
  <1> QED
    BY <1>1, <1>2

-----------------------------------------------------------------------------
(* The blocks of a basis.                                                  *)

\* There are blocks as long as there are bytes.
LEMMA BlockCountFacts ==
    ASSUME NEW basis \in Seq(Nat), NEW b \in Nat \ {0}
    PROVE  LET q == BlockCount(basis, b)
           IN  /\ q \in Nat /\ Len(basis) <= q * b
               /\ \A k \in Nat : k * b < Len(basis) <=> k < q
  <1> DEFINE L == Len(basis)
             q == BlockCount(basis, b)
  <1>1. L \in Nat
    BY LenProperties
  <1> HIDE DEF L
  <1>2. L + b - 1 \in Nat
    BY <1>1
  <1>3. q = (L + b - 1) \div b
    BY DEF BlockCount, L
  <1>4. q \in Nat /\ q * b <= L + b - 1 /\ L + b - 1 < q * b + b
    BY <1>2, <1>3, DivFacts
  <1> HIDE DEF q
  <1>5. q * b \in Nat
    BY <1>4
  <1>6. L <= q * b
    BY <1>1, <1>4, <1>5
  <1>7. ASSUME NEW k \in Nat
        PROVE  k * b < L <=> k < q
    <2>1. k * b \in Nat
      OBVIOUS
    <2>2. CASE k < q
      <3>1. (k + 1) * b <= q * b
        BY <1>4, <2>2, TimesMonotonic
      <3>2. (k + 1) * b = k * b + b
        OBVIOUS
      <3> QED
        BY <1>1, <1>4, <1>5, <2>1, <2>2, <3>1, <3>2
    <2>3. CASE ~(k < q)
      <3>1. q * b <= k * b
        BY <1>4, <2>3, TimesMonotonic
      <3> QED
        BY <1>1, <1>5, <1>6, <2>1, <2>3, <3>1
    <2> QED
      BY <2>2, <2>3
  <1> QED
    BY <1>4, <1>6, <1>7 DEF q, L

\* The sums of one block, as they are written.
SumsOf(a, block) ==
    Netint(rs_calc_weak_sum(rs_signature_weaksum_kind(a.magic), block), 4)
        \o StrongPart(a.magic, a.strong_len, block)

\* The next block of a basis after k of them.
NextBlock(basis, b, k) == SubSeq(basis, k * b + 1, Lesser((k + 1) * b, Len(basis)))

\* BlocksOf gives them.
LEMMA BlocksFacts ==
    ASSUME NEW basis \in Seq(Nat), NEW b \in Nat \ {0}
    PROVE  LET blocks == BlocksOf(basis, b)
           IN  /\ Len(blocks) = BlockCount(basis, b)
               /\ \A k \in 1 .. BlockCount(basis, b) : blocks[k] = NextBlock(basis, b, k - 1)
  <1> DEFINE q == BlockCount(basis, b)
             Part(k) == SubSeq(basis, (k - 1) * b + 1,
                               IF k * b <= Len(basis) THEN k * b ELSE Len(basis))
  <1>1. BlocksOf(basis, b) = [k \in 1 .. q |-> Part(k)]
    BY DEF BlocksOf, BlockCount
  <1>2. q \in Nat
    BY BlockCountFacts
  <1> HIDE DEF q
  <1>3. ASSUME NEW k \in 1 .. q
        PROVE  Part(k) = NextBlock(basis, b, k - 1)
    <2>1. (k - 1) + 1 = k
      BY <1>2
    <2> QED
      BY <2>1 DEF NextBlock, Lesser
  <1> HIDE DEF Part
  <1>4. Len([k \in 1 .. q |-> Part(k)]) = q
    BY <1>2
  <1> QED
    BY <1>1, <1>3, <1>4 DEF q

\* A block has a weak sum of four bytes and a strong sum of the length asked for.
LEMMA SumsFacts ==
    ASSUME NEW basis, Summable(basis), NEW a, a.magic \in Int, a.strong_len \in Nat \ {0},
           a.strong_len <= RS_MAX_STRONG_SUM_LENGTH, NEW m \in 1 .. Len(basis),
           NEW n \in 1 .. Len(basis), m <= n
    PROVE  LET block == SubSeq(basis, m, n)
               weak == Netint(rs_calc_weak_sum(rs_signature_weaksum_kind(a.magic), block), 4)
               strong == StrongPart(a.magic, a.strong_len, block)
           IN  /\ weak \in Seq(Nat) /\ Len(weak) = 4
               /\ strong \in Seq(Nat) /\ Len(strong) = a.strong_len
               /\ SumsOf(a, block) \in Seq(Nat) /\ SumsOf(a, block) = weak \o strong
  <1> DEFINE block == SubSeq(basis, m, n)
             weak == Netint(rs_calc_weak_sum(rs_signature_weaksum_kind(a.magic), block), 4)
             strong == StrongPart(a.magic, a.strong_len, block)
             kind == rs_signature_strongsum_kind(a.magic)
             sum == StrongSum[<<kind, block>>]
  <1>1. basis \in Seq(Nat)
    BY DEF Summable
  <1>2. block \in Seq(Nat)
    <2>1. \A i \in m .. n : basis[i] \in Nat
      BY <1>1, LenProperties
    <2> QED
      BY <2>1, SubSeqProperties
  <1>3. weak \in Seq(Nat) /\ Len(weak) = 4
    <2> DEFINE wk == rs_calc_weak_sum(rs_signature_weaksum_kind(a.magic), block)
    <2>1. wk \in Int
      <3> HIDE DEF block
      <3>1. wk \in Nat
        BY <1>2, WeakSumNumber
      <3> HIDE DEF wk
      <3> QED
        BY <3>1
    <2> HIDE DEF wk
    <2> QED
      BY <2>1, NetintFacts DEF wk
  <1>4. kind \in {"RS_MD4", "RS_BLAKE2"}
    BY DEF rs_signature_strongsum_kind
  <1>5. sum \in [1 .. RS_MAX_STRONG_SUM_LENGTH -> Nat]
    <2> HIDE DEF kind
    <2> QED
      BY <1>4 DEF Summable
  <1>6. strong = SubSeq(sum, 1, a.strong_len)
    BY DEF StrongPart
  <1> HIDE DEF sum, strong, weak, block
  <1>7. strong \in Seq(Nat) /\ Len(strong) = a.strong_len
    <2>1. \A i \in 1 .. a.strong_len : sum[i] \in Nat
      BY <1>5, SigArgsAssumption, SMTT(40)
    <2>2. /\ SubSeq(sum, 1, a.strong_len) \in Seq(Nat)
          /\ Len(SubSeq(sum, 1, a.strong_len)) = IF 1 <= a.strong_len THEN a.strong_len - 1 + 1 ELSE 0
      BY <2>1, SubSeqProperties
    <2> QED
      BY <1>6, <2>2
  <1>8. SumsOf(a, block) = weak \o strong
    BY DEF SumsOf, weak, strong
  <1>9. SumsOf(a, block) \in Seq(Nat)
    BY <1>3, <1>7, <1>8, ConcatProperties
  <1> QED
    BY <1>3, <1>7, <1>8, <1>9 DEF block, weak, strong

-----------------------------------------------------------------------------
(* The signature file.                                                     *)

\* The header is made of three integers.
LEMMA HeaderFacts ==
    ASSUME NEW a, a.magic \in Int, a.block_len \in Int, a.strong_len \in Int
    PROVE  HeaderOf(a) \in Seq(Nat)
  <1> DEFINE n1 == Netint(a.magic, 4)
             n2 == Netint(a.block_len, 4)
             n3 == Netint(a.strong_len, 4)
  <1>1. n1 \in Seq(Nat) /\ n2 \in Seq(Nat) /\ n3 \in Seq(Nat)
    BY NetintFacts
  <1>2. HeaderOf(a) = (n1 \o n2) \o n3
    BY DEF HeaderOf
  <1> HIDE DEF n1, n2, n3
  <1>3. n1 \o n2 \in Seq(Nat)
    BY <1>1, ConcatProperties
  <1>4. (n1 \o n2) \o n3 \in Seq(Nat)
    BY <1>1, <1>3, ConcatProperties
  <1> QED
    BY <1>2, <1>4

\* The k-th block is made of bytes of the basis, at least one.
LEMMA NextBlockFacts ==
    ASSUME NEW basis, Summable(basis), NEW b \in Nat \ {0}, NEW k \in Nat, k < BlockCount(basis, b)
    PROVE  /\ k * b + 1 \in 1 .. Len(basis) /\ Lesser((k + 1) * b, Len(basis)) \in 1 .. Len(basis)
           /\ k * b + 1 <= Lesser((k + 1) * b, Len(basis))
  <1>1. basis \in Seq(Nat)
    BY DEF Summable
  <1>2. Len(basis) \in Nat
    BY <1>1, LenProperties
  <1>3. k * b < Len(basis)
    BY <1>1, BlockCountFacts
  <1>4. (k + 1) * b = k * b + b /\ k * b \in Nat
    OBVIOUS
  <1> DEFINE kb == k * b
  <1> HIDE DEF kb
  <1>5. kb < Len(basis) /\ (k + 1) * b = kb + b /\ kb \in Nat
    BY <1>3, <1>4 DEF kb
  <1>6. kb + 1 \in 1 .. Len(basis) /\ Lesser(kb + b, Len(basis)) \in 1 .. Len(basis)
        /\ kb + 1 <= Lesser(kb + b, Len(basis))
    BY <1>2, <1>5 DEF Lesser
  <1> QED
    BY <1>5, <1>6 DEF kb

\* PartsOf is what it says, and its last part is the whole file.
LEMMA PartsFacts ==
    ASSUME NEW basis, Summable(basis), NEW x, ArgsOK(x), rs_sig_args(-1, x).result = "RS_DONE"
    PROVE  LET a == rs_sig_args(-1, x)
               q == BlockCount(basis, a.block_len)
               p == PartsOf(basis, x)
           IN  /\ p[0] = HeaderOf(a)
               /\ \A k \in 1 .. q :
                    p[k] = p[k - 1] \o SumsOf(a, NextBlock(basis, a.block_len, k - 1))
               /\ \A k \in 0 .. q : p[k] \in Seq(Nat)
               /\ q \in Nat /\ SignatureOf(basis, x) = p[q]
  <1> DEFINE a == rs_sig_args(-1, x)
             q == BlockCount(basis, a.block_len)
             p == PartsOf(basis, x)
             blocks == BlocksOf(basis, a.block_len)
             sums(k) == SumsOf(a, blocks[k])
             F(f) == f = [k \in 0 .. Len(blocks) |->
                            IF k = 0 THEN HeaderOf(a) ELSE f[k - 1] \o SumsOf(a, blocks[k])]
             step == [k \in 1 .. q |-> [v \in Seq(Nat) |-> v \o sums(k)]]
  <1>1. p = CHOOSE f : F(f)
    BY DEF PartsOf, SumsOf
  <1>2. SignatureOf(basis, x) = p[Len(blocks)]
    BY <1>1 DEF SignatureOf, SumsOf
  <1>3. /\ a.magic \in Int /\ a.block_len \in Nat \ {0} /\ a.strong_len \in Nat \ {0}
        /\ a.strong_len <= RS_MAX_STRONG_SUM_LENGTH
    BY SigArgsFacts DEF ArgsOK
  <1> HIDE DEF a
  <1>4. basis \in Seq(Nat)
    BY DEF Summable
  <1>5. q \in Nat /\ Len(blocks) = q
        /\ \A k \in 1 .. q : blocks[k] = NextBlock(basis, a.block_len, k - 1)
    BY <1>3, <1>4, BlockCountFacts, BlocksFacts
  <1> HIDE DEF q, blocks
  <1>6. \A k \in 1 .. q : sums(k) \in Seq(Nat)
    <2> SUFFICES ASSUME NEW k \in 1 .. q
                 PROVE  sums(k) \in Seq(Nat)
      OBVIOUS
    <2> DEFINE kk == k - 1
               m == kk * a.block_len + 1
               n == Lesser((kk + 1) * a.block_len, Len(basis))
    <2>1. kk \in Nat /\ kk < BlockCount(basis, a.block_len)
      BY <1>5 DEF q
    <2> HIDE DEF kk
    <2>2. m \in 1 .. Len(basis) /\ n \in 1 .. Len(basis) /\ m <= n
      BY <1>3, <2>1, NextBlockFacts
    <2>3. blocks[k] = SubSeq(basis, m, n)
      BY <1>5 DEF NextBlock, kk
    <2> HIDE DEF m, n
    <2>4. SumsOf(a, SubSeq(basis, m, n)) \in Seq(Nat)
      BY <1>3, <2>2, SumsFacts
    <2> QED
      BY <2>3, <2>4
  <1>7. HeaderOf(a) \in Seq(Nat)
    BY <1>3, HeaderFacts
  <1> HIDE DEF sums
  <1>8. step \in Steps(q, Seq(Nat))
    <2>1. \A v, w \in Seq(Nat) : v \o w \in Seq(Nat)
      BY ConcatProperties
    <2> QED
      BY <1>6, <2>1 DEF Steps
  <1>9. PICK g : Recurs(g, q, Seq(Nat), HeaderOf(a), step)
    <2> HIDE DEF step
    <2> QED
      BY <1>5, <1>7, <1>8, RecursionExists
  <1>10. g = [k \in 0 .. q |-> IF k = 0 THEN HeaderOf(a) ELSE g[k - 1] \o sums(k)]
    <2>1. \A k \in 0 .. q : g[k] = IF k = 0 THEN HeaderOf(a) ELSE g[k - 1] \o sums(k)
      <3> SUFFICES ASSUME NEW k \in 0 .. q
                   PROVE  g[k] = IF k = 0 THEN HeaderOf(a) ELSE g[k - 1] \o sums(k)
        OBVIOUS
      <3>1. CASE k = 0
        BY <1>9, <3>1 DEF Recurs
      <3>2. CASE k # 0
        <4>1. k \in 1 .. q /\ k - 1 \in 0 .. q
          BY <1>5, <3>2
        <4>2. g[k] = step[k][g[k - 1]] /\ g[k - 1] \in Seq(Nat)
          BY <1>9, <4>1 DEF Recurs
        <4> QED
          BY <3>2, <4>1, <4>2
      <3> QED
        BY <3>1, <3>2
    <2>2. g = [k \in 0 .. q |-> g[k]]
      BY <1>9 DEF Recurs
    <2> QED
      BY <2>1, <2>2
  <1>11. F(p)
    <2>1. F(g)
      BY <1>5, <1>10 DEF sums
    <2> HIDE DEF p
    <2> QED
      BY <1>1, <2>1
  <1> HIDE DEF p, F
  <1>12. p = [k \in 0 .. q |-> IF k = 0 THEN HeaderOf(a) ELSE p[k - 1] \o sums(k)]
    BY <1>5, <1>11 DEF F, sums
  <1>13. p[0] = HeaderOf(a) /\ \A k \in 1 .. q : p[k] = p[k - 1] \o sums(k)
    <2>1. 0 \in 0 .. q /\ \A k \in 1 .. q : k \in 0 .. q /\ k # 0
      BY <1>5
    <2> QED
      BY <1>12, <2>1
  <1>14. \A k \in 0 .. q : p[k] \in Seq(Nat)
    <2> DEFINE T == {k \in 0 .. q : p[k] \in Seq(Nat)}
    <2>1. 0 \in T
      BY <1>5, <1>7, <1>13
    <2>2. ASSUME NEW i \in 1 .. q, i - 1 \in T
          PROVE  i \in T
      <3>1. p[i] = p[i - 1] \o sums(i) /\ i \in 0 .. q
        BY <1>5, <1>13, <2>2
      <3>2. p[i - 1] \in Seq(Nat) /\ sums(i) \in Seq(Nat)
        BY <1>6, <2>2
      <3>3. p[i - 1] \o sums(i) \in Seq(Nat)
        BY <3>2, ConcatProperties
      <3> QED
        BY <3>1, <3>3
    <2>3. \A i \in 0 .. q : i \in T
      <3> HIDE DEF T
      <3> QED
        BY <1>5, <2>1, <2>2, CountUp
    <2> QED
      BY <2>3
  <1>15. \A k \in 1 .. q : p[k] = p[k - 1] \o SumsOf(a, NextBlock(basis, a.block_len, k - 1))
    BY <1>5, <1>13 DEF sums
  <1>16. SignatureOf(basis, x) = p[q]
    BY <1>2, <1>5
  <1> QED
    BY <1>5, <1>13, <1>14, <1>15, <1>16 DEF a, p, q

\* A sequence starts another one.
Starts(s, t) == \E u \in Seq(Nat) : t = s \o u
\* What starts the start of a sequence starts the sequence.
LEMMA StartsTransitive ==
    ASSUME NEW s \in Seq(Nat), NEW t, NEW w, Starts(s, t), Starts(t, w)
    PROVE  Starts(s, w)
  <1>1. PICK u \in Seq(Nat) : t = s \o u
    BY DEF Starts
  <1>2. PICK v \in Seq(Nat) : w = t \o v
    BY DEF Starts
  <1>3. u \o v \in Seq(Nat)
    BY ConcatProperties
  <1>4. \A a, b, c \in Seq(Nat) : (a \o b) \o c = a \o (b \o c)
    BY ConcatBytes
  <1>5. w = s \o (u \o v)
    BY <1>1, <1>2, <1>4
  <1> QED
    BY <1>3, <1>5 DEF Starts

\* Every part of the signature file starts it.
LEMMA PartsGrow ==
    ASSUME NEW basis, Summable(basis), NEW x, ArgsOK(x), rs_sig_args(-1, x).result = "RS_DONE",
           NEW k \in 0 .. BlockCount(basis, rs_sig_args(-1, x).block_len)
    PROVE  /\ PartsOf(basis, x)[k] \in Seq(Nat) /\ SignatureOf(basis, x) \in Seq(Nat)
           /\ Starts(PartsOf(basis, x)[k], SignatureOf(basis, x))
  <1> DEFINE a == rs_sig_args(-1, x)
             q == BlockCount(basis, a.block_len)
             p == PartsOf(basis, x)
             sums(i) == SumsOf(a, NextBlock(basis, a.block_len, i))
             T == {i \in 0 .. q : Starts(p[q - i], p[q])}
  <1>1. /\ \A i \in 1 .. q : p[i] = p[i - 1] \o sums(i - 1)
        /\ \A i \in 0 .. q : p[i] \in Seq(Nat)
        /\ q \in Nat /\ SignatureOf(basis, x) = p[q]
    BY PartsFacts
  <1>2. /\ a.magic \in Int /\ a.block_len \in Nat \ {0} /\ a.strong_len \in Nat \ {0}
        /\ a.strong_len <= RS_MAX_STRONG_SUM_LENGTH
    BY SigArgsFacts DEF ArgsOK
  <1>3. \A i \in Nat : i < q => sums(i) \in Seq(Nat)
    <2> SUFFICES ASSUME NEW i \in Nat, i < q
                 PROVE  sums(i) \in Seq(Nat)
      OBVIOUS
    <2> HIDE DEF a
    <2> DEFINE m == i * a.block_len + 1
               n == Lesser((i + 1) * a.block_len, Len(basis))
    <2>1. m \in 1 .. Len(basis) /\ n \in 1 .. Len(basis) /\ m <= n
      BY <1>2, NextBlockFacts
    <2> HIDE DEF m, n
    <2>2. SumsOf(a, SubSeq(basis, m, n)) \in Seq(Nat)
      BY <1>2, <2>1, SumsFacts
    <2> QED
      BY <2>2 DEF NextBlock, m, n
  <1> HIDE DEF a, q, p, sums
  <1>4. 0 \in T
    <2>1. q - 0 = q /\ p[q] \in Seq(Nat)
      BY <1>1
    <2>2. p[q] = p[q] \o <<>> /\ <<>> \in Seq(Nat)
      BY <2>1, ConcatEmptySeq
    <2>3. Starts(p[q - 0], p[q])
      BY <2>1, <2>2 DEF Starts
    <2> QED
      BY <1>1, <2>3
  <1>5. ASSUME NEW i \in 1 .. q, i - 1 \in T
        PROVE  i \in T
    <2> DEFINE m == q - i
    <2>1. m \in Nat /\ m < q /\ q - (i - 1) = m + 1 /\ m + 1 \in 1 .. q /\ (m + 1) - 1 = m
          /\ m \in 0 .. q /\ i \in 0 .. q
      BY <1>1
    <2>2. Starts(p[m + 1], p[q])
      BY <1>5, <2>1
    <2> HIDE DEF m
    <2>3. p[m + 1] = p[m] \o sums(m) /\ p[m] \in Seq(Nat) /\ sums(m) \in Seq(Nat)
      <3>1. p[m + 1] = p[(m + 1) - 1] \o sums((m + 1) - 1)
        BY <1>1, <2>1
      <3> QED
        BY <1>1, <1>3, <2>1, <3>1
    <2>4. Starts(p[m], p[m + 1])
      BY <2>3 DEF Starts
    <2>5. Starts(p[m], p[q])
      BY <2>2, <2>3, <2>4, StartsTransitive
    <2> QED
      BY <2>1, <2>5 DEF m
  <1>6. \A i \in 0 .. q : i \in T
    <2> HIDE DEF T
    <2> QED
      BY <1>1, <1>4, <1>5, CountUp
  <1>7. k \in 0 .. q /\ q - k \in 0 .. q /\ q - (q - k) = k /\ q \in 0 .. q
    <2>1. k \in 0 .. q
      BY DEF q, a
    <2> QED
      BY <1>1, <2>1
  <1>8. Starts(p[k], p[q])
    <2>1. q - k \in T
      BY <1>6, <1>7
    <2> QED
      BY <1>7, <2>1
  <1>9. p[k] \in Seq(Nat) /\ p[q] \in Seq(Nat)
    BY <1>1, <1>7
  <1> QED
    BY <1>1, <1>8, <1>9 DEF p

=============================================================================

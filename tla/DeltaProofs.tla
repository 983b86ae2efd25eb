---------------------------- MODULE DeltaProofs -----------------------------
(***************************************************************************)
(* The delta job, for every new file, every basis and every way in which   *)
(* the new file arrives and the delta is taken away: no assertion fails,   *)
(* scan_buf always points to the data that is scanned, the statistics of a *)
(* finished job account for every byte of the new file and of the delta,   *)
(* the delta means the new file, and the rolling sum is always that of the *)
(* bytes that come next.                                                   *)
(*                                                                         *)
(* The argument is a balance that each helper of delta.c keeps, also when  *)
(* it is blocked half-way: what the scan has collected, with the block     *)
(* that the weak sum stands for, lies in front of the cursor; and what has *)
(* been counted is what has been scanned.  For the meaning, what has been  *)
(* written up to the end of a command decodes to a part of the new file,   *)
(* whatever follows it; each command that is queued adds the bytes that    *)
(* were scanned for it.  The sums are compared by the residues of what     *)
(* they add up over a window and over the one that begins a byte later.    *)
(*                                                                         *)
(* The last part is about the rolling sums alone: after any sequence of    *)
(* operations they are what their definitions give for the window.         *)
(***************************************************************************)
EXTENDS Delta, Rolling, JobProofs

ScanFields == {"buf", "len", "pos", "basis_pos", "basis_len", "weak_sum", "stats"}

\* A weak sum of one of the two kinds.
SumOK(sum) ==
    /\ sum.count \in Nat
    /\ \/ sum.kind = "RS_ROLLSUM" /\ DOMAIN sum = {"kind", "count", "s1", "s2"}
       \/ sum.kind = "RS_RABINKARP" /\ DOMAIN sum = {"kind", "count", "hash", "mult"}

ScanOK(s) ==
    /\ DOMAIN s = ScanFields
    /\ s.buf \in Nat /\ s.len \in Nat /\ s.pos \in Nat /\ s.basis_len \in Nat
    /\ s.basis_pos \in Int /\ SumOK(s.weak_sum)
    /\ DOMAIN s.stats = {"lit_bytes", "copy_bytes", "cmdbytes"}
    /\ s.stats.lit_bytes \in Nat /\ s.stats.copy_bytes \in Nat /\ s.stats.cmdbytes \in Nat

\* Bytes that are collected, but not counted yet.
Uncounted(s) == IF s.basis_len > 0 THEN s.basis_len ELSE s.pos

\* All the input lies in one piece.
InOnePlace(j) == j.scoop_avail = 0 \/ j.avail_in = 0

-----------------------------------------------------------------------------
(* The inductive invariant.                                                *)

DeltaTypeOK ==
    /\ input \in Seq(Nat) /\ basis \in Seq(Nat) /\ JobOK(job) /\ ScanOK(scan)
    /\ statefn \in {"rs_delta_s_header", "rs_delta_s_scan", "rs_delta_s_flush", "rs_delta_s_end",
                    "rs_delta_s_slack", "NULL"}
    /\ pc \in {"caller", "work", "statefn", "loop"}

\* The caller says that there is no more only when it has sent everything.
EofIsTrue == job.eof_in => job.cursor + job.scoop_avail + job.avail_in = Len(input)

\* A state function runs only when the tube is empty.
TubeFree == pc \in {"statefn", "loop"} => rs_tube_is_idle(job) /\ statefn # "NULL"

\* What the tube is going to copy, what is collected and the block that the weak
\* sum stands for are all there.
Fits ==
    /\ job.copy_len + scan.pos + scan.weak_sum.count <= job.scoop_avail + job.avail_in
    /\ scan.weak_sum.count <= BlockLen

\* In the loops scan_buf and scan_len are the unscanned data, all in one piece.
Pointed ==
    pc = "loop" =>
        /\ statefn \in {"rs_delta_s_scan", "rs_delta_s_flush"} /\ InOnePlace(job)
        /\ scan.buf = job.cursor /\ scan.len = job.scoop_avail + job.avail_in

\* Without a signature nothing is collected, nor before the header is written.
NotScanning ==
    statefn \in {"rs_delta_s_header", "rs_delta_s_slack"} =>
        scan.pos = 0 /\ scan.basis_len = 0 /\ scan.weak_sum.count = 0

\* When the end is written, everything has been.
AtEnd ==
    /\ statefn = "rs_delta_s_flush" => job.eof_in
    /\ statefn \in {"rs_delta_s_end", "NULL"} =>
         /\ job.eof_in /\ scan.pos = 0 /\ scan.basis_len = 0
         /\ job.scoop_avail + job.avail_in = job.copy_len

\* The bytes of the new file and of the delta, as they are counted.
Counted ==
    /\ scan.stats.lit_bytes + scan.stats.copy_bytes + Uncounted(scan)
         = job.cursor + job.copy_len + scan.pos
    /\ OutLen(job) + TubeLen(job) + job.copy_len
         = scan.stats.cmdbytes + scan.stats.lit_bytes
             + (IF statefn = "rs_delta_s_header" THEN 0 ELSE 4) + (IF statefn = "NULL" THEN 1 ELSE 0)

\* While the job works the caller has no answer yet, and a job that has succeeded
\* has written everything.
InTurn ==
    /\ Over => pc = "caller"
    /\ result = "RS_DONE" => statefn = "NULL" /\ rs_tube_is_idle(job)

DeltaInv ==
    /\ DeltaTypeOK /\ EofIsTrue /\ TubeFree /\ Fits /\ Pointed /\ NotScanning /\ AtEnd /\ Counted
    /\ InTurn /\ AssertionsHold

-----------------------------------------------------------------------------
(* The operators that the job is made of.                                  *)

\* An integer of a width in which parameters are sent is so many bytes.
LEMMA NetintBytes ==
    ASSUME NEW val \in Int, NEW w \in {1, 2, 4, 8}
    PROVE  Netint(val, w) \in Seq(Nat) /\ Len(Netint(val, w)) = w
  <1>1. ASSUME NEW i \in 1 .. w
        PROVE  (val \div Radix ^ (w - i)) % Radix \in Nat
    <2>1. w - i \in 0 .. RS_MAX_INT_BYTES
      BY DEF RS_MAX_INT_BYTES
    <2>2. Radix ^ (w - i) \in Nat \ {0}
      BY <2>1, CommandAssumption
    <2>3. \A p \in Nat \ {0} : val \div p \in Int
      OBVIOUS
    <2>4. \A v \in Int, r \in Nat \ {0} : v % r \in Nat
      OBVIOUS
    <2> QED
      BY <2>2, <2>3, <2>4, NetintAssumption
  <1>2. Netint(val, w) \in [1 .. w -> Nat]
    BY <1>1 DEF Netint
  <1>3. ASSUME NEW s \in [1 .. w -> Nat]
        PROVE  s \in Seq(Nat) /\ Len(s) = w
    <2>1. s \in Seq(Nat) /\ w \in Nat
      BY SeqDef
    <2>2. DOMAIN s = 1 .. w /\ DOMAIN s = 1 .. Len(s) /\ Len(s) \in Nat
      BY <2>1, LenProperties
    <2> DEFINE l == Len(s)
    <2>3. l \in Nat /\ 1 .. l = 1 .. w
      BY <2>2
    <2> HIDE DEF l
    <2>4. ~(l < w) /\ ~(w < l)
      <3>1. (w \in 1 .. w => w \in 1 .. l) /\ (l \in 1 .. l => l \in 1 .. w)
        BY <2>3
      <3> QED
        BY <2>1, <2>3, <3>1
    <2>5. l = w
      BY <2>1, <2>3, <2>4
    <2> QED
      BY <2>1, <2>5 DEF l
  <1> QED
    BY <1>2, <1>3

\* The commands are strings of bytes, none longer than 17.
LEMMA CommandBytes ==
    /\ rs_emit_delta_header \in Seq(Nat) /\ Len(rs_emit_delta_header) = 4
    /\ rs_emit_end_cmd \in Seq(Nat) /\ Len(rs_emit_end_cmd) = 1
    /\ \A len \in Nat :
         /\ rs_emit_literal_cmd(len) \in Seq(Nat) /\ rs_emit_literal_cmd(len) # <<>>
         /\ Len(rs_emit_literal_cmd(len)) \in 0 .. 17
    /\ \A where, len \in Int :
         /\ rs_emit_copy_cmd(where, len) \in Seq(Nat)
         /\ Len(rs_emit_copy_cmd(where, len)) \in 0 .. 17
  <1>1. \A v \in Int : rs_int_len(v) \in {1, 2, 4, 8}
    BY DEF rs_int_len
  <1>2. \A w \in {1, 2, 4, 8} : WidthIndex(w) \in 1 .. 4
    <2> SUFFICES ASSUME NEW w \in {1, 2, 4, 8}
                 PROVE  WidthIndex(w) \in 1 .. 4
      OBVIOUS
    <2>1. \E i \in 1 .. 4 : Widths[i] = w
      <3>1. Widths[1] = 1 /\ Widths[2] = 2 /\ Widths[3] = 4 /\ Widths[4] = 8
        BY DEF Widths
      <3> QED
        BY <3>1
    <2> QED
      BY <2>1 DEF WidthIndex
  <1>3. ASSUME NEW n \in Nat
        PROVE  <<n>> \in Seq(Nat) /\ Len(<<n>>) = 1
    OBVIOUS
  <1>4. ASSUME NEW s \in Seq(Nat), NEW t \in Seq(Nat)
        PROVE  s \o t \in Seq(Nat) /\ Len(s \o t) = Len(s) + Len(t) /\ Len(s) \in Nat /\ Len(t) \in Nat
    BY ConcatProperties, LenProperties
  <1>5. rs_emit_delta_header \in Seq(Nat) /\ Len(rs_emit_delta_header) = 4
    BY CommandAssumption, NetintBytes DEF rs_emit_delta_header
  <1>6. rs_emit_end_cmd \in Seq(Nat) /\ Len(rs_emit_end_cmd) = 1
    BY DEF rs_emit_end_cmd, RS_OP_END
  <1>7. ASSUME NEW len \in Nat
        PROVE  /\ rs_emit_literal_cmd(len) \in Seq(Nat) /\ rs_emit_literal_cmd(len) # <<>>
               /\ Len(rs_emit_literal_cmd(len)) \in 0 .. 17
    <2> DEFINE w == rs_int_len(len)
               b == RS_OP_LITERAL_N1 + WidthIndex(w) - 1
               s == <<b>>
               t == Netint(len, w)
    <2>1. w \in {1, 2, 4, 8}
      BY <1>1
    <2> HIDE DEF w
    <2>2. b \in Nat
      BY <1>2, <2>1, CommandAssumption DEF RS_OP_LITERAL_N1
    <2>3. s \in Seq(Nat) /\ Len(s) = 1
      BY <2>2
    <2>4. t \in Seq(Nat) /\ Len(t) = w
      <3>1. len \in Int
        OBVIOUS
      <3> QED
        BY <2>1, <3>1, NetintBytes
    <2> HIDE DEF s, t
    <2>5. s \o t \in Seq(Nat) /\ Len(s \o t) = 1 + w
      BY <1>4, <2>3, <2>4
    <2>6. rs_emit_literal_cmd(len) = IF len <= MaxImmediate THEN <<len>> ELSE s \o t
      BY DEF rs_emit_literal_cmd, w, s, t
    <2> DEFINE c == rs_emit_literal_cmd(len)
    <2>7. c \in Seq(Nat) /\ Len(c) \in {1, 1 + w}
      BY <1>3, <2>5, <2>6
    <2> HIDE DEF c
    <2> DEFINE l == Len(c)
    <2>8. l \in 1 .. 17
      <3>1. l \in {1, 1 + w}
        BY <2>7
      <3> HIDE DEF l
      <3> QED
        BY <2>1, <3>1
    <2>9. c # <<>>
      <3>1. c = <<>> => l = 0
        BY DEF l
      <3> HIDE DEF l
      <3> QED
        BY <2>8, <3>1
    <2> QED
      BY <2>7, <2>8, <2>9 DEF c
  <1>8. ASSUME NEW where \in Int, NEW len \in Int
        PROVE  /\ rs_emit_copy_cmd(where, len) \in Seq(Nat)
               /\ Len(rs_emit_copy_cmd(where, len)) \in 0 .. 17
    <2> DEFINE w == rs_int_len(where)
               v == rs_int_len(len)
               b == RS_OP_COPY_N1_N1 + 4 * (WidthIndex(w) - 1) + WidthIndex(v) - 1
               s == <<b>>
               t == Netint(where, w)
               u == Netint(len, v)
    <2>1. w \in {1, 2, 4, 8} /\ v \in {1, 2, 4, 8}
      BY <1>1
    <2> HIDE DEF w, v
    <2>2. b \in Nat
      <3>1. WidthIndex(w) \in 1 .. 4 /\ WidthIndex(v) \in 1 .. 4
        BY <1>2, <2>1
      <3> QED
        BY <3>1, CommandAssumption DEF RS_OP_COPY_N1_N1
    <2>3. s \in Seq(Nat) /\ Len(s) = 1
      BY <2>2
    <2>4. t \in Seq(Nat) /\ Len(t) = w /\ u \in Seq(Nat) /\ Len(u) = v
      BY <2>1, NetintBytes
    <2> HIDE DEF s, t, u
    <2>5. s \o t \in Seq(Nat) /\ Len(s \o t) = 1 + w
      BY <1>4, <2>3, <2>4
    <2>6. (s \o t) \o u \in Seq(Nat) /\ Len((s \o t) \o u) = 1 + w + v
      BY <1>4, <2>4, <2>5
    <2>7. rs_emit_copy_cmd(where, len) = (s \o t) \o u
      BY DEF rs_emit_copy_cmd, w, v, s, t, u
    <2>8. 1 + w + v \in 0 .. 17
      BY <2>1
    <2> QED
      BY <2>6, <2>7, <2>8
  <1> QED
    BY <1>5, <1>6, <1>7, <1>8

\* How the functions of a weak sum change its count.
LEMMA SumFacts ==
    /\ \A kind \in Kinds : SumOK(weaksum_init(kind)) /\ weaksum_init(kind).count = 0
    /\ \A sum : SumOK(sum) =>
         /\ SumOK(weaksum_reset(sum)) /\ weaksum_reset(sum).count = 0
         /\ \A buf \in Seq(Nat) :
              /\ SumOK(weaksum_update(sum, buf))
              /\ weaksum_update(sum, buf).count = sum.count + Len(buf)
         /\ \A o, i : SumOK(weaksum_rotate(sum, o, i)) /\ weaksum_rotate(sum, o, i).count = sum.count
         /\ sum.count > 0 =>
              \A o : SumOK(weaksum_rollout(sum, o)) /\ weaksum_rollout(sum, o).count = sum.count - 1
  <1>1. \A kind \in Kinds : SumOK(weaksum_init(kind)) /\ weaksum_init(kind).count = 0
    BY DEF Kinds, weaksum_init, RollsumInit, rabinkarp_init, SumOK
  <1>2. ASSUME NEW sum, SumOK(sum)
        PROVE  SumOK(weaksum_reset(sum)) /\ weaksum_reset(sum).count = 0
    BY <1>1, <1>2 DEF SumOK, weaksum_reset, Kinds
  <1>3. ASSUME NEW sum, SumOK(sum), NEW buf \in Seq(Nat)
        PROVE  /\ SumOK(weaksum_update(sum, buf))
               /\ weaksum_update(sum, buf).count = sum.count + Len(buf)
    <2> DEFINE n == Len(buf)
    <2>0. n \in Nat /\ sum.count \in Nat
      BY <1>3, LenProperties DEF SumOK
    <2>1. CASE sum.kind = "RS_ROLLSUM"
      <3>1. PICK a, b : weaksum_update(sum, buf) = [sum EXCEPT !.s1 = a, !.s2 = b, !.count = @ + n]
        BY <2>1 DEF weaksum_update, RollsumUpdate
      <3>2. DOMAIN sum = {"kind", "count", "s1", "s2"}
        BY <1>3, <2>1 DEF SumOK
      <3> HIDE DEF n
      <3>3. sum.count + n \in Nat
        BY <2>0
      <3> QED
        BY <2>1, <3>1, <3>2, <3>3 DEF SumOK, n
    <2>2. CASE sum.kind = "RS_RABINKARP"
      <3>1. PICK a, b : weaksum_update(sum, buf)
                          = [sum EXCEPT !.hash = a, !.count = @ + n, !.mult = b]
        BY <2>2 DEF weaksum_update, rabinkarp_update
      <3>2. DOMAIN sum = {"kind", "count", "hash", "mult"}
        BY <1>3, <2>2 DEF SumOK
      <3> HIDE DEF n
      <3>3. sum.count + n \in Nat
        BY <2>0
      <3> QED
        BY <2>2, <3>1, <3>2, <3>3 DEF SumOK, n
    <2> QED
      BY <1>3, <2>1, <2>2 DEF SumOK
  <1>4. ASSUME NEW sum, SumOK(sum), NEW o, NEW i
        PROVE  SumOK(weaksum_rotate(sum, o, i)) /\ weaksum_rotate(sum, o, i).count = sum.count
    <2>1. CASE sum.kind = "RS_ROLLSUM"
      <3>1. PICK a, b : weaksum_rotate(sum, o, i) = [sum EXCEPT !.s1 = a, !.s2 = b]
        BY <2>1 DEF weaksum_rotate, RollsumRotate
      <3> QED
        BY <1>4, <2>1, <3>1 DEF SumOK
    <2>2. CASE sum.kind = "RS_RABINKARP"
      <3>1. PICK a : weaksum_rotate(sum, o, i) = [sum EXCEPT !.hash = a]
        BY <2>2 DEF weaksum_rotate, rabinkarp_rotate
      <3> QED
        BY <1>4, <2>2, <3>1 DEF SumOK
    <2> QED
      BY <1>4, <2>1, <2>2 DEF SumOK
  <1>5. ASSUME NEW sum, SumOK(sum), NEW o, sum.count > 0
        PROVE  SumOK(weaksum_rollout(sum, o)) /\ weaksum_rollout(sum, o).count = sum.count - 1
    <2>0. sum.count - 1 \in Nat
      BY <1>5 DEF SumOK
    <2>1. CASE sum.kind = "RS_ROLLSUM"
      <3>1. PICK a, b : weaksum_rollout(sum, o) = [sum EXCEPT !.s1 = a, !.s2 = b, !.count = @ - 1]
        BY <2>1 DEF weaksum_rollout, RollsumRollout
      <3> QED
        BY <1>5, <2>0, <2>1, <3>1 DEF SumOK
    <2>2. CASE sum.kind = "RS_RABINKARP"
      <3>1. PICK a, b : weaksum_rollout(sum, o) = [sum EXCEPT !.hash = a, !.count = @ - 1, !.mult = b]
        BY <2>2 DEF weaksum_rollout, rabinkarp_rollout
      <3> QED
        BY <1>5, <2>0, <2>2, <3>1 DEF SumOK
    <2> QED
      BY <1>5, <2>1, <2>2 DEF SumOK
  <1> QED
    BY <1>1, <1>2, <1>3, <1>4, <1>5

-----------------------------------------------------------------------------
(* The helpers of delta.c.                                                 *)

Results == {"RS_DONE", "RS_INPUT_ENDED", "RS_BLOCKED"}

\* A state in which a helper may be called or to which it leads: scan_buf and
\* scan_len are what the tube leaves of the input, and that lies in one piece.
Solid(st) ==
    /\ DOMAIN st = {"job", "scan", "result"}
    /\ JobOK(st.job) /\ ScanOK(st.scan) /\ InOnePlace(st.job) /\ st.job.asserts
    /\ st.scan.buf = st.job.cursor + st.job.copy_len
    /\ st.scan.len + st.job.copy_len = st.job.scoop_avail + st.job.avail_in
    /\ st.scan.pos <= st.scan.len

\* What has been collected was taken off the input, and much has been put out,
\* or waits in the tube.
Pushed(st, t, much) ==
    /\ Solid(t) /\ Work(st.job, t.job) /\ t.scan = Rebase(st.scan)
    /\ t.job.cursor + t.job.copy_len = st.job.cursor + st.scan.pos
    /\ OutLen(t.job) + TubeLen(t.job) + t.job.copy_len = OutLen(st.job) + TubeLen(st.job) + much
    /\ t.result \in Results /\ (t.result = "RS_DONE" => rs_tube_is_idle(t.job))

\* The data lies in one piece exactly if all of it can be had at once.
LEMMA OnePlace ==
    ASSUME NEW j, JobOK(j)
    PROVE  InOnePlace(j) <=> Contiguous(j, j.scoop_avail + j.avail_in)
  <1>1. j.scoop_avail \in Nat /\ j.avail_in \in Nat
    BY DEF JobOK
  <1> QED
    BY <1>1 DEF InOnePlace, Contiguous

\* scan_buf, scan_len and scan_pos after the data has been taken.
LEMMA RebaseFacts ==
    ASSUME NEW s, ScanOK(s), s.pos <= s.len
    PROVE  /\ ScanOK(Rebase(s)) /\ Rebase(s).buf = s.buf + s.pos /\ Rebase(s).len = s.len - s.pos
           /\ Rebase(s).pos = 0 /\ Rebase(s).basis_pos = s.basis_pos
           /\ Rebase(s).basis_len = s.basis_len /\ Rebase(s).weak_sum = s.weak_sum
           /\ Rebase(s).stats = s.stats
  <1> DEFINE r == Rebase(s)
  <1>1. DOMAIN s = ScanFields
    BY DEF ScanOK
  <1>2. /\ DOMAIN r = ScanFields /\ r.buf = s.buf + s.pos /\ r.len = s.len - s.pos
        /\ r.pos = 0 /\ r.basis_pos = s.basis_pos
        /\ r.basis_len = s.basis_len /\ r.weak_sum = s.weak_sum /\ r.stats = s.stats
    BY <1>1 DEF Rebase, ScanFields
  <1> HIDE DEF r
  <1>3. s.buf + s.pos \in Nat /\ s.len - s.pos \in Nat
    BY DEF ScanOK
  <1>4. ScanOK(r)
    BY <1>2, <1>3 DEF ScanOK
  <1> QED
    BY <1>2, <1>4 DEF r

\* rs_processmatch skips the data.
LEMMA ProcessmatchFacts ==
    ASSUME NEW st, Solid(st), st.job.copy_len = 0
    PROVE  Pushed(st, rs_processmatch(st), 0)
  <1> DEFINE j == st.job
             s == st.scan
             n == s.pos
             a == Assert_(j, j.copy_len = 0)
             k == rs_scoop_advance(a, n)
             c == rs_tube_catchup(k)
             t == rs_processmatch(st)
  <1>1. JobOK(j) /\ ScanOK(s) /\ InOnePlace(j) /\ j.asserts /\ j.copy_len = 0
    BY DEF Solid
  <1>2. /\ n \in Nat /\ n <= j.scoop_avail + j.avail_in /\ s.pos <= s.len
        /\ s.buf = j.cursor /\ s.len = j.scoop_avail + j.avail_in
        /\ s.buf \in Nat /\ s.len \in Nat
    BY DEF Solid, JobOK, ScanOK
  <1>3. DOMAIN t = {"job", "scan", "result"} /\ t.job = c.job /\ t.scan = Rebase(s) /\ t.result = c.result
    BY DEF Solid, rs_processmatch, CatchUp
  <1>4. Work(j, a) /\ SameOutput(j, a) /\ SameInput(j, a) /\ a.asserts
    BY <1>1, AssertFacts
  <1>5. JobOK(a) /\ InOnePlace(a) /\ a.scoop_avail + a.avail_in = j.scoop_avail + j.avail_in
        /\ a.cursor = j.cursor /\ a.copy_len = 0
    BY <1>1, <1>4 DEF Work, SameInput, InOnePlace, SameOutput
  <1> HIDE DEF a, t
  <1>6. Contiguous(a, n)
    BY <1>2, <1>5 DEF InOnePlace, Contiguous, JobOK
  <1>7. /\ Work(a, k) /\ SameOutput(a, k) /\ k.cursor = a.cursor + n /\ k.asserts
        /\ \A m \in Nat : Contiguous(a, n + m) => Contiguous(k, m)
    BY <1>2, <1>4, <1>5, <1>6, AdvanceFacts
  <1>8. JobOK(k) /\ k.copy_len = 0
    BY <1>5, <1>7 DEF Work, SameOutput
  <1> HIDE DEF k
  <1>9. InOnePlace(k)
    <2> DEFINE m == k.scoop_avail + k.avail_in
    <2>1. m \in Nat /\ n + m = a.scoop_avail + a.avail_in
      <3>1. /\ k.scoop_avail \in Nat /\ k.avail_in \in Nat /\ k.cursor \in Nat
            /\ a.scoop_avail \in Nat /\ a.avail_in \in Nat /\ a.cursor \in Nat
        BY <1>5, <1>8 DEF JobOK
      <3>2. k.cursor + k.scoop_avail + k.avail_in = a.cursor + a.scoop_avail + a.avail_in
        BY <1>7 DEF Work
      <3> HIDE DEF n
      <3> QED
        BY <1>2, <1>7, <3>1, <3>2
    <2>2. Contiguous(a, n + m)
      BY <1>5, <2>1, OnePlace
    <2> HIDE DEF m
    <2>3. Contiguous(k, m)
      BY <1>7, <2>1, <2>2
    <2> QED
      BY <1>8, <2>3, OnePlace DEF m
  <1>10. /\ Work(k, c.job) /\ c.job.asserts /\ SameInput(k, c.job) /\ c.job.copy_len = 0
         /\ OutLen(c.job) + TubeLen(c.job) + c.job.copy_len = OutLen(k) + TubeLen(k) + k.copy_len
         /\ c.result \in Results /\ (c.result = "RS_DONE" => rs_tube_is_idle(c.job))
    <2>1. /\ Work(k, c.job) /\ c.job.asserts = k.asserts
          /\ OutLen(c.job) + TubeLen(c.job) + c.job.copy_len = OutLen(k) + TubeLen(k) + k.copy_len
          /\ c.result \in Results /\ (c.result = "RS_DONE" => rs_tube_is_idle(c.job))
      BY <1>8, CatchupFacts DEF Results
    <2>2. SameInput(k, c.job) /\ c.job.copy_len = 0
      BY <1>8, CatchupPlain
    <2> QED
      BY <1>7, <2>1, <2>2
  <1> HIDE DEF c
  <1>11. Work(j, t.job)
    BY <1>1, <1>3, <1>4, <1>5, <1>7, <1>10, WorkAddsUp
  <1>12. OutLen(k) = OutLen(j) /\ TubeLen(k) = TubeLen(j)
    BY <1>4, <1>7 DEF SameOutput, OutLen, TubeLen
  <1>13. JobOK(t.job) /\ t.job.cursor = j.cursor + n /\ t.job.copy_len = 0 /\ InOnePlace(t.job)
    BY <1>3, <1>5, <1>7, <1>9, <1>10, <1>11 DEF Work, SameInput, InOnePlace
  <1>14. OutLen(t.job) + TubeLen(t.job) + t.job.copy_len = OutLen(j) + TubeLen(j) + 0
    <2>1. OutLen(j) \in Nat /\ TubeLen(j) \in Nat /\ k.copy_len = 0
      BY <1>1, <1>8, LengthFacts
    <2> QED
      BY <1>3, <1>10, <1>12, <2>1
  <1>15. n + (t.job.scoop_avail + t.job.avail_in) = j.scoop_avail + j.avail_in
    <2>1. /\ j.scoop_avail \in Nat /\ j.avail_in \in Nat /\ j.cursor \in Nat
          /\ t.job.scoop_avail \in Nat /\ t.job.avail_in \in Nat
      BY <1>1, <1>13 DEF JobOK
    <2>2. t.job.cursor + t.job.scoop_avail + t.job.avail_in = j.cursor + j.scoop_avail + j.avail_in
      BY <1>11 DEF Work
    <2>3. t.job.cursor = j.cursor + n /\ n \in Nat
      BY <1>2, <1>13
    <2> DEFINE tc == t.job.cursor
               ts == t.job.scoop_avail
               ta == t.job.avail_in
               jc == j.cursor
               js == j.scoop_avail
               ja == j.avail_in
    <2>4. /\ tc + ts + ta = jc + js + ja /\ tc = jc + n /\ n \in Nat
          /\ ts \in Nat /\ ta \in Nat /\ jc \in Nat /\ js \in Nat /\ ja \in Nat
      BY <2>1, <2>2, <2>3
    <2> HIDE DEF tc, ts, ta, jc, js, ja, n
    <2>5. n + (ts + ta) = js + ja
      BY <2>4
    <2> QED
      BY <2>5 DEF ts, ta, js, ja
  <1>16. /\ ScanOK(t.scan) /\ t.scan.buf = s.buf + n /\ t.scan.len = s.len - n /\ t.scan.pos = 0
    BY <1>1, <1>2, <1>3, RebaseFacts
  <1>17. /\ t.scan.buf = t.job.cursor + t.job.copy_len
         /\ t.scan.len + t.job.copy_len = t.job.scoop_avail + t.job.avail_in
         /\ t.scan.pos <= t.scan.len /\ t.job.cursor + t.job.copy_len = j.cursor + n
    <2>1. /\ j.scoop_avail \in Nat /\ j.avail_in \in Nat /\ j.cursor \in Nat
          /\ t.job.scoop_avail \in Nat /\ t.job.avail_in \in Nat
      BY <1>1, <1>13 DEF JobOK
    <2> HIDE DEF j, n, s
    <2> QED
      BY <1>2, <1>13, <1>15, <1>16, <2>1
  <1>18. t.job.asserts
    BY <1>3, <1>10
  <1>19. Solid(t)
    BY <1>3, <1>13, <1>16, <1>17, <1>18 DEF Solid
  <1> QED
    BY <1>3, <1>10, <1>11, <1>14, <1>17, <1>19 DEF Pushed, t

\* rs_processmiss has it copied after the command that is in the tube.
LEMMA ProcessmissFacts ==
    ASSUME NEW st, Solid(st), st.job.copy_len = 0, st.job.write_buf # <<>>
    PROVE  Pushed(st, rs_processmiss(st), st.scan.pos)
  <1> DEFINE j == st.job
             s == st.scan
             n == s.pos
             a == Assert_(j, j.write_buf # <<>>)
             k == rs_tube_copy(a, n)
             c == rs_tube_catchup(k)
             t == rs_processmiss(st)
  <1>1. JobOK(j) /\ ScanOK(s) /\ InOnePlace(j) /\ j.asserts /\ j.copy_len = 0
    BY DEF Solid
  <1>2. /\ n \in Nat /\ s.pos <= s.len
        /\ s.buf = j.cursor /\ s.len = j.scoop_avail + j.avail_in
        /\ s.buf \in Nat /\ s.len \in Nat
    BY DEF Solid, JobOK, ScanOK
  <1>3. DOMAIN t = {"job", "scan", "result"} /\ t.job = c.job /\ t.scan = Rebase(s) /\ t.result = c.result
    BY DEF Solid, rs_processmiss, CatchUp
  <1>4. Work(j, a) /\ SameOutput(j, a) /\ SameInput(j, a) /\ a.asserts
    BY <1>1, AssertFacts
  <1>5. JobOK(a) /\ a.copy_len = 0 /\ a.out = j.out /\ a.write_buf = j.write_buf
    BY <1>1, <1>4 DEF Work, SameOutput
  <1> HIDE DEF a, t
  <1>6. /\ Work(a, k) /\ SameInput(a, k) /\ k.out = a.out /\ k.write_buf = a.write_buf
        /\ k.copy_len = n /\ k.asserts
    BY <1>2, <1>4, <1>5, TubeFacts, ZenonT(60)
  <1>7. JobOK(k)
    BY <1>6 DEF Work
  <1> HIDE DEF k
  <1>8. /\ Work(k, c.job) /\ c.job.asserts = k.asserts
        /\ c.job.cursor + c.job.copy_len = k.cursor + k.copy_len
        /\ OutLen(c.job) + TubeLen(c.job) + c.job.copy_len = OutLen(k) + TubeLen(k) + k.copy_len
        /\ c.result \in Results /\ (c.result = "RS_DONE" => rs_tube_is_idle(c.job))
        /\ c.job.scoop_avail <= k.scoop_avail
    BY <1>7, CatchupFacts DEF Results
  <1> HIDE DEF c
  <1>9. Work(j, t.job)
    BY <1>1, <1>3, <1>4, <1>6, <1>8, WorkAddsUp
  <1>10. OutLen(k) = OutLen(j) /\ TubeLen(k) = TubeLen(j) /\ k.cursor = j.cursor
         /\ k.scoop_avail = j.scoop_avail
    BY <1>4, <1>5, <1>6 DEF SameInput, OutLen, TubeLen
  <1> DEFINE tc == t.job.cursor
             tl == t.job.copy_len
             ts == t.job.scoop_avail
             ta == t.job.avail_in
             jc == j.cursor
             js == j.scoop_avail
             ja == j.avail_in
  <1>11. /\ tc + tl = jc + n /\ ts <= js /\ ta <= ja
         /\ tc + ts + ta = jc + js + ja
    BY <1>3, <1>6, <1>8, <1>9, <1>10 DEF Work
  <1>12. /\ tc \in Nat /\ tl \in Nat /\ ts \in Nat /\ ta \in Nat
         /\ jc \in Nat /\ js \in Nat /\ ja \in Nat /\ JobOK(t.job)
    BY <1>1, <1>9 DEF Work, JobOK
  <1>13. InOnePlace(t.job)
    BY <1>1, <1>11, <1>12 DEF InOnePlace
  <1>14. /\ ScanOK(t.scan) /\ t.scan.buf = s.buf + n /\ t.scan.len = s.len - n /\ t.scan.pos = 0
    BY <1>1, <1>2, <1>3, RebaseFacts
  <1>15. /\ t.scan.buf = tc + tl /\ t.scan.len + tl = ts + ta /\ 0 <= t.scan.len
    <2> DEFINE sl == js + ja
               tb == t.scan.buf
               tn == t.scan.len
    <2>1. tb = jc + n /\ tn = sl - n /\ n <= sl /\ n \in Nat
      BY <1>2, <1>14
    <2> HIDE DEF tc, tl, ts, ta, jc, js, ja, n, tb, tn
    <2>2. tb = tc + tl
      BY <1>11, <2>1
    <2>3. 0 <= tn /\ tn + n = js + ja
      BY <1>12, <2>1
    <2>4. tn + tl = ts + ta
      <3>1. (jc + js + ja) - (jc + n) = tn /\ (tc + ts + ta) - (tc + tl) = (ts + ta) - tl
        BY <1>12, <2>1
      <3> QED
        BY <1>11, <1>12, <2>1, <3>1
    <2> QED
      BY <2>2, <2>3, <2>4 DEF tb, tn
  <1>16. Solid(t)
    BY <1>3, <1>6, <1>8, <1>12, <1>13, <1>14, <1>15 DEF Solid
  <1>17. OutLen(t.job) + TubeLen(t.job) + tl = OutLen(j) + TubeLen(j) + n
    BY <1>3, <1>6, <1>8, <1>10
  <1> QED
    BY <1>3, <1>8, <1>9, <1>11, <1>16, <1>17 DEF Pushed, t

\* What was counted is what has been scanned, and what was put out.
Balanced(st) ==
    /\ Solid(st)
    /\ st.scan.stats.lit_bytes + st.scan.stats.copy_bytes + Uncounted(st.scan)
         = st.job.cursor + st.job.copy_len + st.scan.pos
    /\ OutLen(st.job) + TubeLen(st.job) + st.job.copy_len
         = st.scan.stats.cmdbytes + st.scan.stats.lit_bytes + 4

\* From st to t n more bytes were scanned.
Scanning(st, t, n) ==
    /\ Balanced(t) /\ Work(st.job, t.job) /\ t.scan.weak_sum = st.scan.weak_sum
    /\ t.job.cursor + t.job.copy_len + t.scan.pos
         = st.job.cursor + st.job.copy_len + st.scan.pos + n
    /\ t.result \in Results /\ (t.result = "RS_DONE" => rs_tube_is_idle(t.job))

\* A command is written to the idle tube.
LEMMA Written ==
    ASSUME NEW j, JobOK(j), j.asserts, rs_tube_is_idle(j), NEW cmd \in Seq(Nat), Len(cmd) \in 0 .. 17
    PROVE  LET k == rs_tube_write(j, cmd)
           IN  /\ Work(j, k) /\ SameInput(j, k) /\ k.copy_len = 0 /\ k.asserts
               /\ k.write_buf = cmd /\ k.out = j.out
               /\ OutLen(k) + TubeLen(k) = OutLen(j) + TubeLen(j) + Len(cmd)
  <1> DEFINE k == rs_tube_write(j, cmd)
  <1>1. j.write_buf = <<>> /\ j.copy_len = 0
    BY DEF rs_tube_is_idle
  <1>2. TubeLen(j) = 0
    BY <1>1 DEF TubeLen
  <1>3. /\ Work(j, k) /\ SameInput(j, k) /\ k.out = j.out /\ k.copy_len = 0
        /\ k.write_buf = j.write_buf \o cmd
        /\ k.asserts = (j.asserts /\ (j.copy_len = 0 /\ TubeLen(j) + Len(cmd) <= TubeSize))
    BY <1>1, TubeFacts, ZenonT(60)
  <1>4. k.write_buf = cmd
    BY <1>1, <1>3
  <1>5. k.asserts
    <2> DEFINE l == Len(cmd)
    <2>1. l \in 0 .. 17
      OBVIOUS
    <2> HIDE DEF l
    <2>2. 0 + l <= TubeSize
      BY <2>1, DeltaAssumption, JobAssumption
    <2> QED
      BY <1>1, <1>2, <1>3, <2>2 DEF l
  <1> HIDE DEF k
  <1>6. OutLen(k) = OutLen(j) /\ TubeLen(k) = Len(cmd)
    BY <1>3, <1>4 DEF OutLen, TubeLen
  <1>7. OutLen(k) + TubeLen(k) = OutLen(j) + TubeLen(j) + Len(cmd)
    <2>1. OutLen(j) \in Nat /\ Len(cmd) \in Nat
      BY LengthFacts, LenProperties
    <2> QED
      BY <1>2, <1>6, <2>1
  <1> QED
    BY <1>3, <1>4, <1>5, <1>7 DEF k

\* So is one of the scan.
LEMMA Queued ==
    ASSUME NEW st, Solid(st), rs_tube_is_idle(st.job),
           NEW cmd \in Seq(Nat), Len(cmd) \in 0 .. 17,
           NEW t, DOMAIN t = {"job", "scan", "result"}, t.job = rs_tube_write(st.job, cmd),
           ScanOK(t.scan), t.scan.buf = st.scan.buf, t.scan.len = st.scan.len,
           t.scan.pos = st.scan.pos
    PROVE  /\ Solid(t) /\ Work(st.job, t.job) /\ SameInput(st.job, t.job) /\ t.job.copy_len = 0
           /\ t.job.write_buf = cmd
           /\ OutLen(t.job) + TubeLen(t.job) = OutLen(st.job) + TubeLen(st.job) + Len(cmd)
  <1> DEFINE j == st.job
             k == t.job
             s == t.scan
  <1>1. JobOK(j) /\ j.asserts /\ j.copy_len = 0
    BY DEF Solid, rs_tube_is_idle
  <1>2. /\ Work(j, k) /\ SameInput(j, k) /\ k.copy_len = 0 /\ k.asserts /\ k.write_buf = cmd
        /\ OutLen(k) + TubeLen(k) = OutLen(j) + TubeLen(j) + Len(cmd)
    BY <1>1, Written
  <1>3. JobOK(k) /\ InOnePlace(k)
    BY <1>2 DEF Work, SameInput, InOnePlace, Solid
  <1>4. k.cursor = j.cursor /\ k.scoop_avail = j.scoop_avail /\ k.avail_in = j.avail_in /\ k.copy_len = j.copy_len
    BY <1>1, <1>2 DEF SameInput
  <1>5. /\ s.buf = k.cursor + k.copy_len /\ s.len + k.copy_len = k.scoop_avail + k.avail_in
        /\ s.pos <= s.len
    BY <1>4 DEF Solid
  <1> QED
    BY <1>2, <1>3, <1>5 DEF Solid

\* What rs_appendflush leaves: everything that was collected is on its way.
Flushed(st, t) == Scanning(st, t, 0) /\ t.scan.pos = 0 /\ t.scan.basis_len = 0

\* rs_appendflush sends the match or the miss that was collected.
LEMMA AppendflushFacts ==
    ASSUME NEW st, Balanced(st), rs_tube_is_idle(st.job)
    PROVE  Flushed(st, rs_appendflush(st))
  <1> DEFINE j == st.job
             s == st.scan
             t == rs_appendflush(st)
             jc == j.cursor
             n == s.pos
             o == OutLen(j) + TubeLen(j)
             bl == s.basis_len
             lit == s.stats.lit_bytes
             cop == s.stats.copy_bytes
             cmd == s.stats.cmdbytes
             copy == rs_emit_copy_cmd(s.basis_pos, bl)
             literal == rs_emit_literal_cmd(n)
  <1>1. Solid(st) /\ JobOK(j) /\ ScanOK(s) /\ j.copy_len = 0 /\ DOMAIN st = {"job", "scan", "result"}
    BY DEF Balanced, Solid, rs_tube_is_idle
  <1>2. /\ DOMAIN s = ScanFields /\ DOMAIN s.stats = {"lit_bytes", "copy_bytes", "cmdbytes"}
        /\ n \in Nat /\ bl \in Nat /\ s.basis_pos \in Int /\ bl \in Int
        /\ lit \in Nat /\ cop \in Nat /\ cmd \in Nat
    BY <1>1 DEF ScanOK
  <1>3. /\ copy \in Seq(Nat) /\ Len(copy) \in 0 .. 17
        /\ literal \in Seq(Nat) /\ Len(literal) \in 0 .. 17 /\ literal # <<>>
    BY <1>2, CommandBytes
  <1>4. o \in Nat /\ jc \in Nat
    <2>1. OutLen(j) \in Nat /\ TubeLen(j) \in Nat
      BY <1>1, LengthFacts
    <2>2. jc \in Nat
      BY <1>1 DEF JobOK
    <2> QED
      BY <2>1, <2>2
  <1>5. /\ lit + cop + (IF bl > 0 THEN bl ELSE n) = jc + n
        /\ o = cmd + lit + 4
    <2>1. lit + cop + Uncounted(s) = jc + j.copy_len + n /\ o + j.copy_len = cmd + lit + 4
      BY DEF Balanced
    <2>2. jc + 0 + n = jc + n /\ o + 0 = o
      BY <1>2, <1>4
    <2> QED
      BY <1>1, <2>1, <2>2 DEF Uncounted
  <1>6. ASSUME NEW u, NEW much, Pushed(u, t, much), Work(j, u.job), u.job.cursor = jc,
               ScanOK(u.scan), u.scan.pos = n, u.scan.pos <= u.scan.len, u.scan.basis_len = 0,
               u.scan.weak_sum = s.weak_sum,
               u.scan.stats.lit_bytes + u.scan.stats.copy_bytes = jc + n,
               OutLen(u.job) + TubeLen(u.job) + much
                 = u.scan.stats.cmdbytes + u.scan.stats.lit_bytes + 4
        PROVE  Flushed(st, t)
    <2>1. /\ Solid(t) /\ Work(u.job, t.job) /\ t.scan = Rebase(u.scan)
          /\ t.job.cursor + t.job.copy_len = jc + n
          /\ OutLen(t.job) + TubeLen(t.job) + t.job.copy_len
               = u.scan.stats.cmdbytes + u.scan.stats.lit_bytes + 4
          /\ t.result \in Results /\ (t.result = "RS_DONE" => rs_tube_is_idle(t.job))
      BY <1>6 DEF Pushed
    <2>2. Work(j, t.job)
      BY <1>1, <1>6, <2>1, WorkAddsUp
    <2>3. /\ t.scan.pos = 0 /\ t.scan.basis_len = 0 /\ t.scan.weak_sum = s.weak_sum
          /\ t.scan.stats = u.scan.stats
      BY <1>6, <2>1, RebaseFacts
    <2>4. Uncounted(t.scan) = 0
      BY <2>3 DEF Uncounted
    <2>5. /\ t.scan.stats.lit_bytes + t.scan.stats.copy_bytes + Uncounted(t.scan)
               = t.job.cursor + t.job.copy_len + t.scan.pos
          /\ t.job.cursor + t.job.copy_len + t.scan.pos = jc + j.copy_len + n + 0
      <3>1. jc + n + 0 = jc + n /\ jc + 0 + n + 0 = jc + n
        BY <1>2, <1>4
      <3>2. u.scan.stats.lit_bytes + u.scan.stats.copy_bytes + 0 = jc + n + 0
        BY <1>6
      <3> QED
        BY <1>1, <1>6, <2>1, <2>3, <2>4, <3>1, <3>2
    <2>6. OutLen(t.job) + TubeLen(t.job) + t.job.copy_len
               = t.scan.stats.cmdbytes + t.scan.stats.lit_bytes + 4
      BY <1>6, <2>1, <2>3
    <2> QED
      BY <2>1, <2>2, <2>3, <2>5, <2>6 DEF Flushed, Scanning, Balanced
  <1>7. CASE bl > 0
    <2> DEFINE u == [st EXCEPT
                       !.job = rs_tube_write(@, copy),
                       !.scan.basis_len = 0,
                       !.scan.stats.copy_bytes = @ + s.basis_len,
                       !.scan.stats.cmdbytes = @ + Len(copy)]
               l == Len(copy)
    <2>1. t = rs_processmatch(u)
      BY <1>7 DEF rs_appendflush
    <2>2. DOMAIN u = {"job", "scan", "result"} /\ u.job = rs_tube_write(j, copy)
      BY <1>1
    <2>3. /\ DOMAIN u.scan = ScanFields /\ u.scan.buf = s.buf /\ u.scan.len = s.len
          /\ u.scan.pos = n /\ u.scan.basis_pos = s.basis_pos /\ u.scan.basis_len = 0
          /\ u.scan.weak_sum = s.weak_sum /\ DOMAIN u.scan.stats = {"lit_bytes", "copy_bytes", "cmdbytes"}
          /\ u.scan.stats.lit_bytes = lit /\ u.scan.stats.copy_bytes = cop + bl
          /\ u.scan.stats.cmdbytes = cmd + l
      BY <1>1, <1>2 DEF ScanFields
    <2> HIDE DEF u
    <2>4. l \in Nat /\ cop + bl \in Nat /\ cmd + l \in Nat
      <3>1. l \in 0 .. 17
        BY <1>3
      <3> HIDE DEF l, cop, bl, cmd
      <3> QED
        BY <1>2, <3>1
    <2>5. ScanOK(u.scan)
      BY <1>1, <2>3, <2>4 DEF ScanOK
    <2>6. /\ Solid(u) /\ Work(j, u.job) /\ SameInput(j, u.job) /\ u.job.copy_len = 0
          /\ OutLen(u.job) + TubeLen(u.job) = o + l
      BY <1>1, <1>3, <2>2, <2>3, <2>5, Queued
    <2>7. Pushed(u, t, 0)
      BY <2>1, <2>6, ProcessmatchFacts
    <2>8. u.job.cursor = jc /\ u.scan.pos <= u.scan.len
      BY <2>6 DEF SameInput, Solid
    <2>9. lit + (cop + bl) = jc + n /\ o + l + 0 = (cmd + l) + lit + 4
      <3> HIDE DEF lit, cop, bl, cmd, n, jc, o, l
      <3> QED
        BY <1>2, <1>4, <1>5, <1>7, <2>4
    <2> HIDE DEF l, lit, cop, bl, cmd, n, jc, o
    <2>10. /\ u.scan.stats.lit_bytes + u.scan.stats.copy_bytes = jc + n
           /\ OutLen(u.job) + TubeLen(u.job) + 0 = u.scan.stats.cmdbytes + u.scan.stats.lit_bytes + 4
      BY <2>3, <2>6, <2>9
    <2> QED
      BY <1>6, <2>3, <2>5, <2>6, <2>7, <2>8, <2>10
  <1>8. CASE ~(bl > 0) /\ n > 0
    <2> DEFINE u == [st EXCEPT
                       !.job = rs_tube_write(@, literal),
                       !.scan.stats.lit_bytes = @ + s.pos,
                       !.scan.stats.cmdbytes = @ + Len(literal)]
               l == Len(literal)
    <2>1. t = rs_processmiss(u)
      BY <1>8 DEF rs_appendflush
    <2>2. DOMAIN u = {"job", "scan", "result"} /\ u.job = rs_tube_write(j, literal)
      BY <1>1
    <2>3. /\ DOMAIN u.scan = ScanFields /\ u.scan.buf = s.buf /\ u.scan.len = s.len
          /\ u.scan.pos = n /\ u.scan.basis_pos = s.basis_pos /\ u.scan.basis_len = bl
          /\ u.scan.weak_sum = s.weak_sum /\ DOMAIN u.scan.stats = {"lit_bytes", "copy_bytes", "cmdbytes"}
          /\ u.scan.stats.lit_bytes = lit + n /\ u.scan.stats.copy_bytes = cop
          /\ u.scan.stats.cmdbytes = cmd + l
      BY <1>1, <1>2 DEF ScanFields
    <2> HIDE DEF u
    <2>4. l \in Nat /\ lit + n \in Nat /\ cmd + l \in Nat /\ bl = 0
      <3>1. l \in 0 .. 17
        BY <1>3
      <3> HIDE DEF l, lit, bl, cmd, n
      <3> QED
        BY <1>2, <1>8, <3>1
    <2>5. ScanOK(u.scan)
      BY <1>1, <2>3, <2>4 DEF ScanOK
    <2>6. /\ Solid(u) /\ Work(j, u.job) /\ SameInput(j, u.job) /\ u.job.copy_len = 0
          /\ OutLen(u.job) + TubeLen(u.job) = o + l /\ u.job.write_buf # <<>>
      BY <1>1, <1>3, <2>2, <2>3, <2>5, Queued, SMTT(40)
    <2>7. Pushed(u, t, n)
      BY <2>1, <2>3, <2>6, ProcessmissFacts
    <2>8. u.job.cursor = jc /\ u.scan.pos <= u.scan.len
      BY <2>6 DEF SameInput, Solid
    <2>9. (lit + n) + cop = jc + n /\ o + l + n = (cmd + l) + (lit + n) + 4
      <3> HIDE DEF lit, cop, bl, cmd, n, jc, o, l
      <3> QED
        BY <1>2, <1>4, <1>5, <1>8, <2>4
    <2> HIDE DEF l, lit, cop, bl, cmd, n, jc, o
    <2>10. /\ u.scan.stats.lit_bytes + u.scan.stats.copy_bytes = jc + n
           /\ OutLen(u.job) + TubeLen(u.job) + n = u.scan.stats.cmdbytes + u.scan.stats.lit_bytes + 4
      BY <2>3, <2>6, <2>9
    <2> QED
      BY <1>6, <2>3, <2>4, <2>5, <2>6, <2>7, <2>8, <2>10
  <1>9. CASE ~(bl > 0) /\ ~(n > 0)
    <2>1. t = [st EXCEPT !.result = "RS_DONE"]
      BY <1>9 DEF rs_appendflush
    <2>2. DOMAIN t = {"job", "scan", "result"} /\ t.job = j /\ t.scan = s /\ t.result = "RS_DONE"
      BY <1>1, <2>1
    <2>3. Balanced(t)
      BY <2>2 DEF Balanced, Solid
    <2>4. Work(j, t.job)
      BY <1>1, <2>2, WorkAddsUp
    <2>5. t.scan.pos = 0 /\ t.scan.basis_len = 0
      BY <1>2, <1>9, <2>2
    <2>6. t.job.cursor + t.job.copy_len + t.scan.pos = jc + j.copy_len + n + 0
      BY <1>1, <1>2, <1>4, <2>2
    <2> QED
      BY <2>2, <2>3, <2>4, <2>5, <2>6 DEF Flushed, Scanning, Results
  <1> QED
    BY <1>7, <1>8, <1>9

\* What is scanned is no longer to be scanned.
LEMMA LessToScan ==
    ASSUME NEW st, Balanced(st), NEW t, NEW n \in Nat, Scanning(st, t, n)
    PROVE  t.scan.len - t.scan.pos + n = st.scan.len - st.scan.pos
  <1> DEFINE tc == t.job.cursor
             tl == t.job.copy_len
             ts == t.job.scoop_avail
             ta == t.job.avail_in
             jc == st.job.cursor
             jl == st.job.copy_len
             js == st.job.scoop_avail
             ja == st.job.avail_in
             p == st.scan.pos
             q == t.scan.pos
             v == st.scan.len
             w == t.scan.len
  <1>1. Solid(st) /\ Solid(t) /\ Work(st.job, t.job) /\ tc + tl + q = jc + jl + p + n
    BY DEF Balanced, Scanning
  <1>2. /\ tc \in Nat /\ tl \in Nat /\ ts \in Nat /\ ta \in Nat
        /\ jc \in Nat /\ jl \in Nat /\ js \in Nat /\ ja \in Nat
        /\ p \in Nat /\ q \in Nat /\ v \in Nat /\ w \in Nat
    BY <1>1 DEF Solid, JobOK, ScanOK
  <1>3. /\ tc + ts + ta = jc + js + ja /\ v + jl = js + ja /\ w + tl = ts + ta
    BY <1>1 DEF Solid, Work
  <1> HIDE DEF tc, tl, ts, ta, jc, jl, js, ja, p, q, v, w
  <1>4. w - q + n = v - p
    BY <1>1, <1>2, <1>3
  <1> QED
    BY <1>4 DEF w, q, v, p

\* Bytes are collected, as part of a match or of a miss.
LEMMA Collected ==
    ASSUME NEW g, Balanced(g), NEW t, NEW n \in Nat,
           DOMAIN t = {"job", "scan", "result"}, t.job = g.job, ScanOK(t.scan),
           t.scan.buf = g.scan.buf, t.scan.len = g.scan.len, t.scan.stats = g.scan.stats,
           t.scan.pos = g.scan.pos + n, t.scan.pos <= t.scan.len,
           Uncounted(t.scan) = Uncounted(g.scan) + n
    PROVE  /\ Balanced(t)
           /\ t.job.cursor + t.job.copy_len + t.scan.pos = g.job.cursor + g.job.copy_len + g.scan.pos + n
  <1> DEFINE x == g.job.cursor + g.job.copy_len
             p == g.scan.pos
             u == Uncounted(g.scan)
             c == g.scan.stats.lit_bytes + g.scan.stats.copy_bytes
  <1>1. Solid(g)
    BY DEF Balanced
  <1>2. g.job.cursor \in Nat /\ g.job.copy_len \in Nat /\ p \in Nat /\ g.scan.basis_len \in Nat
        /\ g.scan.stats.lit_bytes \in Nat /\ g.scan.stats.copy_bytes \in Nat
    BY <1>1 DEF Solid, JobOK, ScanOK
  <1>3. x \in Nat /\ u \in Nat /\ c \in Nat
    BY <1>2 DEF Uncounted
  <1>4. Solid(t)
    BY <1>1 DEF Solid
  <1>5. c + u = x + p /\ Uncounted(t.scan) = u + n /\ t.scan.pos = p + n
    BY DEF Balanced
  <1>6. c + (u + n) = x + (p + n) /\ x + (p + n) = x + p + n
    <2> HIDE DEF x, p, u, c
    <2> QED
      BY <1>2, <1>3, <1>5
  <1>7. /\ OutLen(t.job) + TubeLen(t.job) + t.job.copy_len
             = t.scan.stats.cmdbytes + t.scan.stats.lit_bytes + 4
    BY DEF Balanced
  <1>8. /\ t.scan.stats.lit_bytes + t.scan.stats.copy_bytes + Uncounted(t.scan)
             = t.job.cursor + t.job.copy_len + t.scan.pos
        /\ t.job.cursor + t.job.copy_len + t.scan.pos = g.job.cursor + g.job.copy_len + g.scan.pos + n
    BY <1>5, <1>6
  <1> QED
    BY <1>4, <1>7, <1>8 DEF Balanced

\* rs_appendmiss adds a byte to the miss, after what cannot be part of it.
LEMMA AppendmissFacts ==
    ASSUME NEW st, Balanced(st), rs_tube_is_idle(st.job), NEW n \in Nat,
           st.scan.pos + n <= st.scan.len
    PROVE  Scanning(st, rs_appendmiss(st, n), n)
  <1> DEFINE t == rs_appendmiss(st, n)
             f == IF st.scan.basis_len > 0 \/ st.scan.pos >= MAX_MISS_LEN
                    THEN rs_appendflush(st) ELSE [st EXCEPT !.result = "RS_DONE"]
  <1>1. t = [f EXCEPT !.scan.pos = @ + n]
    BY DEF rs_appendmiss
  <1>2. Scanning(st, f, 0) /\ f.scan.basis_len = 0
    <2>1. CASE st.scan.basis_len > 0 \/ st.scan.pos >= MAX_MISS_LEN
      BY <2>1, AppendflushFacts DEF Flushed
    <2>2. CASE ~(st.scan.basis_len > 0 \/ st.scan.pos >= MAX_MISS_LEN)
      <3>1. DOMAIN f = {"job", "scan", "result"} /\ f.job = st.job /\ f.scan = st.scan /\ f.result = "RS_DONE"
        BY <2>2 DEF Balanced, Solid
      <3>2. Solid(st) /\ JobOK(st.job) /\ ScanOK(st.scan)
        BY DEF Balanced, Solid
      <3>3. /\ st.job.cursor \in Nat /\ st.job.copy_len \in Nat /\ st.scan.pos \in Nat
            /\ st.scan.basis_len \in Nat
        BY <3>2 DEF JobOK, ScanOK
      <3>4. Work(st.job, f.job) /\ Balanced(f)
        BY <3>1, <3>2, WorkAddsUp DEF Balanced, Solid
      <3>5. f.scan.basis_len = 0
        BY <2>2, <3>1, <3>3
      <3>6. f.job.cursor + f.job.copy_len + f.scan.pos = st.job.cursor + st.job.copy_len + st.scan.pos + 0
        BY <3>1, <3>3
      <3> QED
        BY <3>1, <3>4, <3>5, <3>6 DEF Scanning, Results
    <2> QED
      BY <2>1, <2>2
  <1> HIDE DEF f
  <1>3. Balanced(f) /\ ScanOK(f.scan) /\ DOMAIN f = {"job", "scan", "result"}
    BY <1>2 DEF Scanning, Balanced, Solid
  <1>4. /\ DOMAIN f.scan = ScanFields /\ f.scan.pos \in Nat /\ f.scan.len \in Nat
        /\ st.scan.pos \in Nat /\ st.scan.len \in Nat
    BY <1>3 DEF ScanOK, Balanced, Solid
  <1>5. /\ DOMAIN t = {"job", "scan", "result"} /\ t.job = f.job /\ t.result = f.result
        /\ DOMAIN t.scan = ScanFields /\ t.scan.buf = f.scan.buf /\ t.scan.len = f.scan.len
        /\ t.scan.pos = f.scan.pos + n /\ t.scan.basis_pos = f.scan.basis_pos
        /\ t.scan.basis_len = 0 /\ t.scan.weak_sum = f.scan.weak_sum /\ t.scan.stats = f.scan.stats
    BY <1>1, <1>2, <1>3, <1>4 DEF ScanFields
  <1> HIDE DEF t
  <1>6. f.scan.len - f.scan.pos + 0 = st.scan.len - st.scan.pos
    <2>1. 0 \in Nat
      OBVIOUS
    <2> QED
      BY <1>2, <2>1, LessToScan
  <1>7. t.scan.pos \in Nat /\ t.scan.pos <= t.scan.len
    BY <1>4, <1>5, <1>6
  <1>8. ScanOK(t.scan)
    BY <1>3, <1>5, <1>7 DEF ScanOK
  <1>9. Uncounted(t.scan) = Uncounted(f.scan) + n
    BY <1>2, <1>4, <1>5 DEF Uncounted
  <1>10. /\ Balanced(t)
         /\ t.job.cursor + t.job.copy_len + t.scan.pos = f.job.cursor + f.job.copy_len + f.scan.pos + n
    BY <1>3, <1>5, <1>7, <1>8, <1>9, Collected
  <1>11. f.job.cursor + f.job.copy_len + f.scan.pos + n = st.job.cursor + st.job.copy_len + st.scan.pos + n
    <2>1. st.job.cursor \in Nat /\ st.job.copy_len \in Nat
      BY DEF Balanced, Solid, JobOK
    <2>2. f.job.cursor + f.job.copy_len + f.scan.pos = st.job.cursor + st.job.copy_len + st.scan.pos + 0
      BY <1>2 DEF Scanning
    <2> QED
      BY <1>4, <2>1, <2>2
  <1> QED
    BY <1>2, <1>5, <1>10, <1>11 DEF Scanning, t

\* rs_appendmatch makes the match longer, or begins one after what was collected.
LEMMA AppendmatchFacts ==
    ASSUME NEW st, Balanced(st), rs_tube_is_idle(st.job), NEW where \in Int, NEW n \in Nat \ {0},
           st.scan.pos + n <= st.scan.len
    PROVE  Scanning(st, rs_appendmatch(st, where, n), n)
  <1> DEFINE longer == st.scan.basis_len > 0 /\ st.scan.basis_pos + st.scan.basis_len = where
             f == rs_appendflush(st)
             g == IF longer THEN st ELSE f
             taken == IF longer THEN [st EXCEPT !.scan.basis_len = @ + n, !.result = "RS_DONE"]
                      ELSE [f EXCEPT !.scan.basis_pos = where, !.scan.basis_len = n]
             next == [taken EXCEPT !.scan.pos = @ + n]
             t == rs_appendmatch(st, where, n)
  <1>1. t = IF next.result = "RS_DONE" THEN rs_processmatch(next) ELSE next
    BY DEF rs_appendmatch
  <1>2. Scanning(st, f, 0) /\ f.scan.pos = 0 /\ f.scan.basis_len = 0
    BY AppendflushFacts DEF Flushed
  <1> HIDE DEF f
  <1>3. /\ DOMAIN st = {"job", "scan", "result"} /\ DOMAIN st.scan = ScanFields
        /\ st.scan.pos \in Nat /\ st.scan.len \in Nat /\ st.scan.basis_len \in Nat
        /\ JobOK(st.job) /\ st.job.cursor \in Nat /\ st.job.copy_len \in Nat
    BY DEF Balanced, Solid, ScanOK, JobOK
  <1>4. /\ Balanced(f) /\ DOMAIN f = {"job", "scan", "result"} /\ DOMAIN f.scan = ScanFields
        /\ f.scan.len \in Nat
    BY <1>2 DEF Scanning, Balanced, Solid, ScanOK
  <1>5. /\ Balanced(g) /\ Work(st.job, g.job) /\ g.scan.weak_sum = st.scan.weak_sum
        /\ g.job.cursor + g.job.copy_len + g.scan.pos
             = st.job.cursor + st.job.copy_len + st.scan.pos
        /\ g.scan.pos + n <= g.scan.len
    <2>1. CASE longer
      BY <1>3, <2>1, WorkAddsUp
    <2>2. CASE ~longer
      <3>1. f.scan.len - f.scan.pos + 0 = st.scan.len - st.scan.pos
        <4>1. 0 \in Nat
          OBVIOUS
        <4> QED
          BY <1>2, <4>1, LessToScan
      <3>2. f.scan.pos + n <= f.scan.len
        BY <1>2, <1>3, <1>4, <3>1
      <3>3. /\ Work(st.job, f.job) /\ f.scan.weak_sum = st.scan.weak_sum
            /\ f.job.cursor + f.job.copy_len + f.scan.pos = st.job.cursor + st.job.copy_len + st.scan.pos + 0
        BY <1>2 DEF Scanning
      <3>4. st.job.cursor + st.job.copy_len + st.scan.pos + 0 = st.job.cursor + st.job.copy_len + st.scan.pos
        BY <1>3
      <3> QED
        BY <1>4, <2>2, <3>2, <3>3, <3>4
    <2> QED
      BY <2>1, <2>2
  <1>6. /\ DOMAIN next = {"job", "scan", "result"} /\ next.job = g.job
        /\ DOMAIN next.scan = ScanFields /\ next.scan.buf = g.scan.buf /\ next.scan.len = g.scan.len
        /\ next.scan.pos = g.scan.pos + n /\ next.scan.weak_sum = g.scan.weak_sum
        /\ next.scan.stats = g.scan.stats
        /\ next.scan.basis_len = (IF longer THEN st.scan.basis_len + n ELSE n)
        /\ next.scan.basis_pos = (IF longer THEN st.scan.basis_pos ELSE where)
        /\ next.result = (IF longer THEN "RS_DONE" ELSE f.result)
    <2>1. CASE longer
      BY <1>3, <2>1 DEF ScanFields
    <2>2. CASE ~longer
      BY <1>4, <2>2 DEF ScanFields
    <2> QED
      BY <2>1, <2>2
  <1>7. /\ g.scan.pos \in Nat /\ g.scan.len \in Nat /\ ScanOK(g.scan)
        /\ st.scan.basis_pos \in Int /\ next.scan.basis_pos \in Int
        /\ next.scan.pos \in Nat /\ next.scan.pos <= next.scan.len
        /\ next.scan.basis_len \in Nat /\ next.scan.basis_len > 0
        /\ Uncounted(next.scan) = Uncounted(g.scan) + n
    <2>1. ScanOK(g.scan) /\ ScanOK(st.scan)
      BY <1>5 DEF Balanced, Solid
    <2>2. g.scan.pos \in Nat /\ g.scan.len \in Nat /\ st.scan.basis_pos \in Int
      BY <2>1 DEF ScanOK
    <2>3. next.scan.basis_pos \in Int /\ next.scan.basis_len \in Nat /\ next.scan.basis_len > 0
      <3> HIDE DEF next
      <3> QED
        BY <1>3, <1>6, <2>2
    <2>4. next.scan.pos \in Nat /\ next.scan.pos <= next.scan.len
      <3> HIDE DEF next, g
      <3> QED
        BY <1>5, <1>6, <2>2
    <2>5. Uncounted(next.scan) = Uncounted(g.scan) + n
      <3>1. Uncounted(next.scan) = next.scan.basis_len
        <4> HIDE DEF next
        <4> QED
          BY <2>3 DEF Uncounted
      <3>2. CASE longer
        <4>1. Uncounted(g.scan) = st.scan.basis_len
          BY <3>2 DEF Uncounted
        <4> HIDE DEF next, g
        <4> QED
          BY <1>6, <3>1, <3>2, <4>1
      <3>3. CASE ~longer
        <4>1. Uncounted(g.scan) = 0
          BY <1>2, <3>3 DEF Uncounted
        <4> HIDE DEF next, g
        <4> QED
          BY <1>6, <3>1, <3>3, <4>1
      <3> QED
        BY <3>2, <3>3
    <2> HIDE DEF next, g
    <2> QED
      BY <2>1, <2>2, <2>3, <2>4, <2>5
  <1>8. next.result \in Results /\ (next.result = "RS_DONE" => rs_tube_is_idle(next.job))
    <2>1. CASE longer
      BY <1>6, <2>1 DEF Results
    <2>2. CASE ~longer
      <3>1. f.result \in Results /\ (f.result = "RS_DONE" => rs_tube_is_idle(f.job))
        BY <1>2 DEF Scanning
      <3> HIDE DEF next
      <3> QED
        BY <1>6, <2>2, <3>1
    <2> QED
      BY <2>1, <2>2
  <1> HIDE DEF next, g, longer, taken
  <1>9. ScanOK(next.scan)
    BY <1>6, <1>7 DEF ScanOK
  <1>10. /\ Balanced(next)
         /\ next.job.cursor + next.job.copy_len + next.scan.pos
              = g.job.cursor + g.job.copy_len + g.scan.pos + n
    BY <1>5, <1>6, <1>7, <1>9, Collected, SMTT(40)
  <1>11. Scanning(st, next, n)
    BY <1>5, <1>6, <1>8, <1>10 DEF Scanning
  <1>12. CASE next.result # "RS_DONE"
    BY <1>1, <1>11, <1>12
  <1>13. CASE next.result = "RS_DONE"
    <2>1. t = rs_processmatch(next)
      BY <1>1, <1>13
    <2>2. Solid(next) /\ next.job.copy_len = 0
      BY <1>8, <1>10, <1>13 DEF Balanced, rs_tube_is_idle
    <2>3. Pushed(next, t, 0)
      BY <2>1, <2>2, ProcessmatchFacts
    <2> HIDE DEF t
    <2>4. /\ Solid(t) /\ Work(next.job, t.job) /\ t.scan = Rebase(next.scan)
          /\ t.job.cursor + t.job.copy_len = next.job.cursor + next.scan.pos
          /\ OutLen(t.job) + TubeLen(t.job) + t.job.copy_len
               = OutLen(next.job) + TubeLen(next.job) + 0
          /\ t.result \in Results /\ (t.result = "RS_DONE" => rs_tube_is_idle(t.job))
      BY <2>3 DEF Pushed
    <2>5. /\ t.scan.pos = 0 /\ t.scan.basis_len = next.scan.basis_len
          /\ t.scan.weak_sum = next.scan.weak_sum /\ t.scan.stats = next.scan.stats
      BY <1>7, <1>9, <2>4, RebaseFacts
    <2>6. Uncounted(t.scan) = Uncounted(next.scan)
      BY <1>7, <2>5 DEF Uncounted
    <2>7. t.job.cursor + t.job.copy_len + t.scan.pos = next.job.cursor + next.job.copy_len + next.scan.pos
      <3>1. next.job.cursor \in Nat /\ next.scan.pos \in Nat
        BY <2>2 DEF Solid, JobOK, ScanOK
      <3>2. next.job.cursor + next.scan.pos + 0 = next.job.cursor + 0 + next.scan.pos
        BY <3>1
      <3> QED
        BY <2>2, <2>4, <2>5, <3>2
    <2>8. Balanced(t)
      <3>1. /\ next.scan.stats.lit_bytes + next.scan.stats.copy_bytes + Uncounted(next.scan)
                 = next.job.cursor + next.job.copy_len + next.scan.pos
            /\ OutLen(next.job) + TubeLen(next.job) + next.job.copy_len
                 = next.scan.stats.cmdbytes + next.scan.stats.lit_bytes + 4
        BY <1>10 DEF Balanced
      <3> QED
        BY <2>2, <2>4, <2>5, <2>6, <2>7, <3>1 DEF Balanced
    <2>9. Work(st.job, t.job) /\ t.scan.weak_sum = st.scan.weak_sum
      BY <1>3, <1>5, <1>6, <2>4, <2>5, WorkAddsUp
    <2>10. next.job.cursor + next.job.copy_len + next.scan.pos
             = st.job.cursor + st.job.copy_len + st.scan.pos + n
      BY <1>11 DEF Scanning
    <2> QED
      BY <2>4, <2>7, <2>8, <2>9, <2>10 DEF Scanning, t
  <1> QED
    BY <1>12, <1>13

\* rs_getinput has all the input in one piece when it succeeds.
LEMMA GetinputFacts ==
    ASSUME NEW st, DOMAIN st = {"job", "scan", "result"}, JobOK(st.job), ScanOK(st.scan)
    PROVE  LET g == rs_getinput(st)
               k == g.job
           IN  /\ Work(st.job, k) /\ SameOutput(st.job, k) /\ k.cursor = st.job.cursor
               /\ k.asserts = st.job.asserts /\ ScanOK(g.scan)
               /\ g.scan.pos = st.scan.pos /\ g.scan.basis_len = st.scan.basis_len
               /\ g.scan.basis_pos = st.scan.basis_pos
               /\ g.scan.weak_sum = st.scan.weak_sum /\ g.scan.stats = st.scan.stats
               /\ g.result \in Results
               /\ g.result = "RS_DONE" =>
                    /\ InOnePlace(k) /\ g.scan.buf = k.cursor
                    /\ g.scan.len = k.scoop_avail + k.avail_in
  <1> DEFINE j == st.job
             min_len == BlockLen + MAX_DELTA_CMD
             avail == rs_scoop_avail(j)
             len == IF avail < min_len /\ ~j.eof_in THEN min_len ELSE avail
             r == Readahead(j, len)
             buf == IF r.result = "RS_DONE" THEN j.cursor ELSE st.scan.buf
             g == rs_getinput(st)
             k == g.job
  <1>1. /\ k = r.job /\ g.result = r.result
        /\ DOMAIN g.scan = ScanFields /\ g.scan.len = len /\ g.scan.buf = buf
        /\ g.scan.pos = st.scan.pos /\ g.scan.basis_len = st.scan.basis_len
        /\ g.scan.basis_pos = st.scan.basis_pos
        /\ g.scan.weak_sum = st.scan.weak_sum /\ g.scan.stats = st.scan.stats
    BY DEF rs_getinput, ScanOK, ScanFields
  <1>2. min_len \in Nat /\ avail \in Nat /\ avail = j.scoop_avail + j.avail_in
    BY DeltaAssumption, SMTT(40) DEF JobOK, rs_scoop_avail
  <1>3. len \in Nat /\ len >= avail
    <2> HIDE DEF min_len, avail
    <2> QED
      BY <1>2
  <1> HIDE DEF len, g
  <1>4. /\ Work(j, r.job) /\ SameOutput(j, r.job) /\ r.job.cursor = j.cursor /\ r.job.asserts = j.asserts
        /\ r.result \in {"RS_DONE", "RS_INPUT_ENDED", "RS_BLOCKED"}
        /\ r.result = "RS_DONE" <=> Contiguous(r.job, len)
    BY <1>3, ReadaheadFacts
  <1> HIDE DEF r
  <1>5. buf \in Nat
    BY DEF JobOK, ScanOK
  <1> HIDE DEF buf
  <1>6. ScanOK(g.scan)
    BY <1>1, <1>3, <1>5 DEF ScanOK
  <1>7. ASSUME g.result = "RS_DONE"
        PROVE  InOnePlace(k) /\ g.scan.buf = k.cursor /\ g.scan.len = k.scoop_avail + k.avail_in
    <2>1. Contiguous(k, len) /\ k.cursor = j.cursor
      BY <1>1, <1>4, <1>7
    <2>2. /\ k.scoop_avail \in Nat /\ k.avail_in \in Nat /\ k.cursor \in Nat
          /\ j.scoop_avail \in Nat /\ j.avail_in \in Nat
      BY <1>1, <1>4 DEF Work, JobOK
    <2>3. k.cursor + k.scoop_avail + k.avail_in = j.cursor + j.scoop_avail + j.avail_in
      BY <1>1, <1>4 DEF Work
    <2>4. k.scoop_avail + k.avail_in = avail
      <3> HIDE DEF k, avail
      <3> QED
        BY <1>2, <2>1, <2>2, <2>3
    <2>5. len <= k.scoop_avail + k.avail_in
      BY <1>3, <2>1, <2>2 DEF Contiguous
    <2>6. len = avail
      BY <1>2, <1>3, <2>4, <2>5
    <2>7. InOnePlace(k)
      <3>1. JobOK(k)
        BY <1>1, <1>4 DEF Work
      <3> QED
        BY <2>1, <2>4, <2>6, <3>1, OnePlace
    <2> QED
      BY <1>1, <1>7, <2>1, <2>4, <2>6, <2>7 DEF buf
  <1> QED
    BY <1>1, <1>4, <1>6, <1>7 DEF Results, g

\* The bytes are those of the basis at where.
AreAt(b, where, bytes) ==
    /\ where \in Nat /\ where + Len(bytes) <= Len(b)
    /\ SubSeq(b, where + 1, where + Len(bytes)) = bytes

\* A block of the basis is where it says.
LEMMA BlockPlace ==
    ASSUME NEW b \in Seq(Nat), NEW i \in Blocks(b)
    PROVE  i \in Nat /\ AreAt(b, BlockLen * i, Block(b, i))
  <1> DEFINE end == Lesser((i + 1) * BlockLen, Len(b))
  <1>1. Len(b) \in Nat /\ BlockLen \in Nat \ {0}
    BY LenProperties, DeltaAssumption
  <1>2. PICK x \in Nat : x = Len(b) + BlockLen - 1
    <2>1. \A n \in Nat, l \in Nat \ {0} : n + l - 1 \in Nat
      OBVIOUS
    <2>2. Len(b) + BlockLen - 1 \in Nat
      BY <1>1, <2>1
    <2> QED
      BY <2>2
  <1>3. /\ x \div BlockLen \in Nat
        /\ \A k \in Nat : k * BlockLen \in Nat /\ (k + 1) * BlockLen = k * BlockLen + BlockLen
        /\ \A k \in Nat : k * BlockLen <= x <=> k <= x \div BlockLen
    BY <1>1, PieceCount
  <1>4. i \in Nat /\ i + 1 <= x \div BlockLen
    <2>1. PICK y \in Nat : y = x \div BlockLen
      BY <1>3
    <2>2. i \in 0 .. y - 1
      BY <1>2, <2>1 DEF Blocks
    <2> QED
      BY <2>1, <2>2
  <1>5. PICK at \in Nat : at = i * BlockLen
    BY <1>3, <1>4
  <1>6. (i + 1) * BlockLen = at + BlockLen /\ BlockLen * i = at
    BY <1>1, <1>3, <1>4, <1>5
  <1>7. at + BlockLen <= x
    <2>1. i + 1 \in Nat
      BY <1>4
    <2>2. (i + 1) * BlockLen <= x
      BY <1>3, <1>4, <2>1
    <2> QED
      BY <1>6, <2>2
  <1>8. end = Lesser(at + BlockLen, Len(b))
    BY <1>6
  <1> HIDE DEF end
  <1>9. end \in Nat /\ at <= end /\ end <= Len(b)
    BY <1>1, <1>2, <1>7, <1>8 DEF Lesser
  <1>10. PICK n \in Nat : end = at + n
    BY <1>9
  <1>11. Block(b, i) = SubSeq(b, at + 1, at + n)
    BY <1>5, <1>10 DEF Block, end
  <1>12. Len(SubSeq(b, at + 1, at + n)) = n
    BY <1>9, <1>10, PieceFacts
  <1> QED
    BY <1>4, <1>6, <1>9, <1>10, <1>11, <1>12 DEF AreAt

\* A match lies somewhere in the basis, and is one.
LEMMA MatchPlace ==
    ASSUME NEW b \in Seq(Nat), NEW kind, NEW weak_sum, NEW bytes
    PROVE  LET where == rs_signature_find_match(b, kind, weak_sum, bytes)
           IN  where \in Int /\ (where # -1 => AreAt(b, where, bytes))
  <1> DEFINE same == {i \in Blocks(b) : /\ SignatureWeakSum(kind, Block(b, i)) = weak_sum
                                        /\ Block(b, i) = bytes}
             least == CHOOSE i \in same : \A k \in same : i <= k
  <1>1. CASE same = {}
    BY <1>1 DEF rs_signature_find_match
  <1>2. CASE same # {}
    <2>1. \A i \in same : i \in Nat /\ AreAt(b, BlockLen * i, bytes)
      <3> SUFFICES ASSUME NEW i \in same
                   PROVE  i \in Nat /\ AreAt(b, BlockLen * i, bytes)
        OBVIOUS
      <3>1. i \in Blocks(b) /\ Block(b, i) = bytes
        OBVIOUS
      <3> QED
        BY <3>1, BlockPlace
    <2> HIDE DEF same
    <2>2. \E i \in same : \A k \in same : i <= k
      <3>1. same \subseteq Nat
        BY <2>1
      <3> QED
        BY <1>2, <3>1, LeastNumber
    <2>3. least \in same
      BY <2>2
    <2> HIDE DEF least
    <2>4. AreAt(b, BlockLen * least, bytes)
      BY <2>1, <2>3
    <2>5. BlockLen * least \in Int
      BY <2>4 DEF AreAt
    <2> QED
      BY <1>2, <2>4, <2>5, Zenon DEF rs_signature_find_match, same, least
  <1> QED
    BY <1>1, <1>2

\* rs_findmatch looks for a block that is not empty and not longer than what is
\* left to be scanned.
LEMMA FindmatchFacts ==
    ASSUME input \in Seq(Nat), basis \in Seq(Nat), NEW s, ScanOK(s), s.pos < s.len,
           s.buf + s.len <= Len(input), s.pos + s.weak_sum.count <= s.len,
           s.weak_sum.count <= BlockLen
    PROVE  LET f == rs_findmatch(s)
           IN  /\ ScanOK(f.scan) /\ f.scan.buf = s.buf /\ f.scan.len = s.len /\ f.scan.pos = s.pos
               /\ f.scan.basis_len = s.basis_len /\ f.scan.basis_pos = s.basis_pos
               /\ f.scan.stats = s.stats
               /\ f.match_len = f.scan.weak_sum.count /\ f.match_len \in Nat \ {0}
               /\ f.match_len <= BlockLen /\ s.pos + f.match_len <= s.len
               /\ f.match_pos \in Int
               /\ f.match_pos # -1 => AreAt(basis, f.match_pos, ScanBytes(s, s.pos, f.match_len))
  <1> DEFINE old == s.weak_sum
             n == Lesser(s.len - s.pos, BlockLen)
             bytes == ScanBytes(s, s.pos, n)
             new == weaksum_update(old, bytes)
             sum == IF old.count = 0 THEN new ELSE old
             f == rs_findmatch(s)
  <1>1. /\ s.buf \in Nat /\ s.len \in Nat /\ s.pos \in Nat /\ SumOK(old) /\ old.count \in Nat
        /\ DOMAIN s = ScanFields /\ BlockLen \in Nat \ {0} /\ Len(input) \in Nat
    <2>1. s.buf \in Nat /\ s.len \in Nat /\ s.pos \in Nat /\ SumOK(old) /\ DOMAIN s = ScanFields
      BY DEF ScanOK
    <2>2. old.count \in Nat
      BY <2>1 DEF SumOK
    <2>3. BlockLen \in Nat \ {0}
      BY DeltaAssumption
    <2>4. Len(input) \in Nat
      BY LenProperties
    <2> QED
      BY <2>1, <2>2, <2>3, <2>4
  <1>2. n \in Nat \ {0} /\ n <= BlockLen /\ s.pos + n <= s.len
    BY <1>1, SMTT(40) DEF Lesser
  <1> HIDE DEF n
  <1>3. bytes \in Seq(Nat) /\ Len(bytes) = n
    <2> DEFINE m == s.buf + s.pos
    <2>1. m \in Nat /\ n \in Nat /\ m + n <= Len(input)
      <3> DEFINE l == Len(input)
                 b == s.buf
                 p == s.pos
                 w == s.len
      <3>1. b + w <= l /\ p + n <= w /\ b \in Nat /\ p \in Nat /\ w \in Nat /\ l \in Nat /\ n \in Nat
        BY <1>1, <1>2
      <3> HIDE DEF l, b, p, w
      <3>2. b + p \in Nat /\ b + p + n <= l
        BY <3>1
      <3> QED
        BY <3>1, <3>2 DEF l, b, p
    <2>2. bytes = SubSeq(input, m + 1, m + n)
      BY DEF ScanBytes
    <2> HIDE DEF m, bytes
    <2>3. input \in Seq(Nat)
      OBVIOUS
    <2>4. SubSeq(input, m + 1, m + n) \in Seq(Nat) /\ Len(SubSeq(input, m + 1, m + n)) = n
      BY <2>1, <2>3, PieceFacts, Zenon
    <2> QED
      BY <2>2, <2>4, Zenon
  <1> HIDE DEF bytes
  <1>4. SumOK(new) /\ new.count = old.count + n
    BY <1>1, <1>3, SumFacts
  <1> HIDE DEF new
  <1>5. SumOK(sum) /\ sum.count \in Nat \ {0} /\ sum.count <= BlockLen /\ s.pos + sum.count <= s.len
    <2>1. CASE old.count = 0
      <3>1. sum = new /\ new.count = n
        BY <1>2, <1>4, <2>1
      <3> QED
        BY <1>2, <1>4, <3>1
    <2>2. CASE old.count # 0
      BY <1>1, <2>2
    <2> QED
      BY <2>1, <2>2
  <1>6. /\ f.scan = [s EXCEPT !.weak_sum = sum] /\ f.match_len = sum.count
        /\ f.match_pos = rs_signature_find_match(basis, sum.kind, weaksum_digest(sum),
                                                 ScanBytes(s, s.pos, sum.count))
    BY DEF rs_findmatch, bytes, n, new
  <1> HIDE DEF sum, f
  <1>7. /\ DOMAIN f.scan = ScanFields /\ f.scan.buf = s.buf /\ f.scan.len = s.len
        /\ f.scan.pos = s.pos /\ f.scan.basis_len = s.basis_len /\ f.scan.basis_pos = s.basis_pos
        /\ f.scan.stats = s.stats /\ f.scan.weak_sum = sum
    BY <1>1, <1>6 DEF ScanFields
  <1>8. ScanOK(f.scan)
    BY <1>5, <1>7 DEF ScanOK
  <1>9. /\ f.match_pos \in Int
        /\ f.match_pos # -1 => AreAt(basis, f.match_pos, ScanBytes(s, s.pos, f.match_len))
    BY <1>6, MatchPlace
  <1> QED
    BY <1>5, <1>6, <1>7, <1>8, <1>9 DEF f

-----------------------------------------------------------------------------
(* The actions.                                                            *)

StateFns == {"rs_delta_s_header", "rs_delta_s_scan", "rs_delta_s_flush", "rs_delta_s_end",
             "rs_delta_s_slack", "NULL"}

\* What the code does adds no input, so what was said of its end stays true.
LEMMA CodeStep ==
    ASSUME DeltaInv, input' = input, basis' = basis, Work(job, job'), ScanOK(scan'),
           statefn' \in StateFns, pc' \in {"caller", "work", "statefn", "loop"}
    PROVE  /\ DeltaTypeOK' /\ EofIsTrue' /\ job'.eof_in = job.eof_in
           /\ job'.cursor + job'.scoop_avail + job'.avail_in = job.cursor + job.scoop_avail + job.avail_in
  <1>1. input \in Seq(Nat) /\ basis \in Seq(Nat) /\ EofIsTrue
    BY DEF DeltaInv, DeltaTypeOK
  <1>2. /\ JobOK(job') /\ job'.eof_in = job.eof_in
        /\ job'.cursor + job'.scoop_avail + job'.avail_in = job.cursor + job.scoop_avail + job.avail_in
    BY DEF Work
  <1>3. JobOK(job)'
    BY <1>2 DEF JobOK
  <1>4. ScanOK(scan)'
    BY DEF ScanOK, SumOK
  <1>5. DeltaTypeOK'
    BY <1>1, <1>3, <1>4 DEF DeltaTypeOK, StateFns
  <1>6. EofIsTrue'
    BY <1>1, <1>2 DEF EofIsTrue
  <1> QED
    BY <1>2, <1>5, <1>6

\* The values that the invariant is about.
LEMMA Amounts ==
    ASSUME DeltaInv
    PROVE  /\ JobOK(job) /\ ScanOK(scan) /\ input \in Seq(Nat) /\ basis \in Seq(Nat)
           /\ job.asserts /\ Len(input) \in Nat /\ OutLen(job) \in Nat /\ TubeLen(job) \in Nat
           /\ job.cursor \in Nat /\ job.scoop_avail \in Nat /\ job.avail_in \in Nat
           /\ job.copy_len \in Nat /\ scan.pos \in Nat /\ scan.basis_len \in Nat
           /\ scan.weak_sum.count \in Nat /\ SumOK(scan.weak_sum) /\ BlockLen \in Nat \ {0}
           /\ scan.stats.lit_bytes \in Nat /\ scan.stats.copy_bytes \in Nat
           /\ scan.stats.cmdbytes \in Nat /\ Uncounted(scan) \in Nat
  <1>1. JobOK(job) /\ ScanOK(scan) /\ input \in Seq(Nat) /\ basis \in Seq(Nat) /\ job.asserts
    BY DEF DeltaInv, DeltaTypeOK, AssertionsHold
  <1>2. Len(input) \in Nat /\ OutLen(job) \in Nat /\ TubeLen(job) \in Nat
    BY <1>1, LengthFacts
  <1>3. /\ job.cursor \in Nat /\ job.scoop_avail \in Nat /\ job.avail_in \in Nat /\ job.copy_len \in Nat
    BY <1>1 DEF JobOK
  <1>4. /\ scan.pos \in Nat /\ scan.basis_len \in Nat
        /\ scan.weak_sum.count \in Nat /\ SumOK(scan.weak_sum)
        /\ scan.stats.lit_bytes \in Nat /\ scan.stats.copy_bytes \in Nat /\ scan.stats.cmdbytes \in Nat
    BY <1>1 DEF ScanOK, SumOK
  <1>5. Uncounted(scan) \in Nat
    BY <1>4 DEF Uncounted
  <1> QED
    BY <1>1, <1>2, <1>3, <1>4, <1>5, DeltaAssumption

\* The first state.
LEMMA DeltaInit == Init => DeltaInv
  <1> SUFFICES ASSUME Init
               PROVE  DeltaInv
    OBVIOUS
  <1>1. input \in Seq(Nat) /\ basis \in Seq(Nat) /\ EngineInit("rs_delta_s_header")
    BY DeltaAssumption DEF Init
  <1>2. PICK kind \in WeakKinds :
          scan = [buf |-> 0, len |-> 0, pos |-> 0, basis_pos |-> 0, basis_len |-> 0,
                  weak_sum |-> weaksum_init(kind),
                  stats |-> [lit_bytes |-> 0, copy_bytes |-> 0, cmdbytes |-> 0]]
    BY DEF Init
  <1>3. SumOK(scan.weak_sum) /\ scan.weak_sum.count = 0
    BY <1>2, SumFacts, DeltaAssumption
  <1>4. /\ DOMAIN scan = ScanFields /\ scan.buf = 0 /\ scan.len = 0 /\ scan.pos = 0
        /\ scan.basis_pos = 0 /\ scan.basis_len = 0
        /\ DOMAIN scan.stats = {"lit_bytes", "copy_bytes", "cmdbytes"}
        /\ scan.stats.lit_bytes = 0 /\ scan.stats.copy_bytes = 0 /\ scan.stats.cmdbytes = 0
    BY <1>2 DEF ScanFields
  <1>5. ScanOK(scan)
    BY <1>3, <1>4 DEF ScanOK
  <1>6. /\ JobOK(job) /\ job.cursor = 0 /\ job.scoop_avail = 0 /\ job.avail_in = 0
        /\ job.eof_in = FALSE /\ job.copy_len = 0 /\ OutLen(job) = 0 /\ TubeLen(job) = 0
        /\ job.asserts /\ statefn = "rs_delta_s_header" /\ pc = "caller" /\ result = "RS_RUNNING"
    BY <1>1, EngineInitFacts
  <1>7. DeltaTypeOK
    BY <1>1, <1>5, <1>6 DEF DeltaTypeOK
  <1>8. EofIsTrue /\ TubeFree /\ Pointed /\ NotScanning /\ AtEnd /\ InTurn /\ AssertionsHold
    BY <1>3, <1>4, <1>6
    DEF EofIsTrue, TubeFree, Pointed, NotScanning, AtEnd, InTurn, AssertionsHold, Over
  <1>9. Fits
    BY <1>3, <1>4, <1>6, DeltaAssumption DEF Fits
  <1>10. Uncounted(scan) = 0
    BY <1>4 DEF Uncounted
  <1>11. Counted
    BY <1>4, <1>6, <1>10 DEF Counted
  <1> QED
    BY <1>7, <1>8, <1>9, <1>11 DEF DeltaInv

\* The caller comes back.
LEMMA DeltaCalled == DeltaInv /\ Caller(CallIter) => DeltaInv'
  <1> SUFFICES ASSUME DeltaInv, Caller(CallIter)
               PROVE  DeltaInv'
    OBVIOUS
  <1>1. PICK n \in 0 .. Len(input), e \in BOOLEAN, m \in 0 .. MaxOut : Iter(n, e, m)
    BY DEF Caller, CallIter
  <1>2. basis' = basis /\ scan' = scan
    BY DEF Caller
  <1>3. /\ JobOK(job) /\ ScanOK(scan) /\ input \in Seq(Nat) /\ basis \in Seq(Nat)
        /\ job.asserts /\ Len(input) \in Nat /\ OutLen(job) \in Nat /\ TubeLen(job) \in Nat
        /\ job.cursor \in Nat /\ job.scoop_avail \in Nat /\ job.avail_in \in Nat
        /\ job.copy_len \in Nat /\ scan.pos \in Nat /\ scan.basis_len \in Nat
        /\ scan.weak_sum.count \in Nat /\ BlockLen \in Nat \ {0}
    BY Amounts
  <1> DEFINE l == Len(input)
             jc == job.cursor
             js == job.scoop_avail
             ja == job.avail_in
  <1>3a. l \in Nat /\ jc \in Nat /\ js \in Nat /\ ja \in Nat
    BY <1>3
  <1>4. /\ Call(n, e, m) /\ result \in {"RS_RUNNING", "RS_BLOCKED"}
        /\ jc + (js + ja) + n <= l
        /\ n > 0 => ~job.eof_in
        /\ job.eof_in => e
        /\ ~job.eof_in => (e => jc + (js + ja) + n = l)
    BY <1>1 DEF Iter, rs_scoop_avail
  <1>5. n \in Nat /\ m \in Nat /\ n \in Int
    BY <1>1, <1>3, JobAssumption
  <1>6. ja + n \in Nat /\ jc + js + ja + n <= l
    <2> HIDE DEF l, jc, js, ja
    <2> QED
      BY <1>3a, <1>4, <1>5
  <1>7. /\ JobOK(job') /\ job'.cursor = job.cursor /\ job'.scoop_avail = job.scoop_avail
        /\ job'.avail_in = job.avail_in + n /\ job'.eof_in = e
        /\ job'.out = job.out /\ job'.write_buf = job.write_buf
        /\ job'.copy_len = job.copy_len /\ job'.asserts = job.asserts
        /\ pc = "caller" /\ pc' = "work" /\ UNCHANGED <<input, statefn, result>>
    BY <1>1, <1>3, <1>4, <1>5, <1>6, CallFacts
  <1>8. DeltaTypeOK'
    <2>1. JobOK(job)'
      BY <1>7 DEF JobOK
    <2> QED
      BY <1>2, <1>3, <1>7, <2>1 DEF DeltaInv, DeltaTypeOK
  <1>9. EofIsTrue'
    <2>1. job.eof_in => jc + js + ja = l
      BY DEF DeltaInv, EofIsTrue
    <2>2. e => jc + js + (ja + n) = l
      <3> HIDE DEF l, jc, js, ja
      <3> QED
        BY <1>3a, <1>4, <1>5, <2>1
    <2> QED
      BY <1>7, <2>2 DEF EofIsTrue
  <1>10. TubeFree' /\ Pointed' /\ NotScanning' /\ AssertionsHold' /\ InTurn'
    BY <1>2, <1>3, <1>4, <1>7
    DEF DeltaInv, TubeFree, Pointed, NotScanning, AssertionsHold, InTurn, Over
  <1>11. Fits'
    <2>1. job.copy_len + scan.pos + scan.weak_sum.count <= js + ja /\ scan.weak_sum.count <= BlockLen
      BY DEF DeltaInv, Fits
    <2>2. job.copy_len + scan.pos + scan.weak_sum.count <= js + (ja + n)
      <3> DEFINE x == job.copy_len + scan.pos + scan.weak_sum.count
      <3>0. job.copy_len \in Nat /\ scan.pos \in Nat /\ scan.weak_sum.count \in Nat
        BY <1>3
      <3>1. x \in Nat /\ x <= js + ja
        BY <2>1, <3>0
      <3> HIDE DEF x, js, ja
      <3>2. x <= js + (ja + n)
        BY <1>3a, <1>5, <3>1
      <3> QED
        BY <3>2 DEF x
    <2> QED
      BY <1>2, <1>7, <2>1, <2>2 DEF Fits
  <1>12. AtEnd'
    <2>1. AtEnd /\ (job.eof_in => e /\ n = 0)
      BY <1>4, <1>5 DEF DeltaInv
    <2>2. job.eof_in => job'.avail_in = job.avail_in
      BY <1>3, <1>7, <2>1
    <2> QED
      BY <1>2, <1>7, <2>1, <2>2 DEF AtEnd
  <1>13. Counted'
    <2>1. OutLen(job') = OutLen(job) /\ TubeLen(job') = TubeLen(job)
      BY <1>7 DEF OutLen, TubeLen
    <2>2. OutLen(job)' = OutLen(job') /\ TubeLen(job)' = TubeLen(job')
      BY DEF OutLen, TubeLen
    <2>3. Uncounted(scan)' = Uncounted(scan)
      BY <1>2 DEF Uncounted
    <2>4. Counted
      BY DEF DeltaInv
    <2> QED
      BY <1>2, <1>7, <2>1, <2>2, <2>3, <2>4 DEF Counted
  <1> QED
    BY <1>8, <1>9, <1>10, <1>11, <1>12, <1>13 DEF DeltaInv

\* The tube is emptied.
LEMMA DeltaCatchup == DeltaInv /\ Caller(Catchup) => DeltaInv'
  <1> SUFFICES ASSUME DeltaInv, Caller(Catchup)
               PROVE  DeltaInv'
    OBVIOUS
  <1> DEFINE c == rs_tube_catchup(job)
             k == c.job
  <1>1. /\ basis' = basis /\ scan' = scan /\ pc = "work"
        /\ \/ /\ c.result = "RS_DONE" /\ statefn # "NULL"
              /\ job' = c.job /\ pc' = "statefn"
              /\ UNCHANGED <<input, statefn, result, orig>>
           \/ /\ ~(c.result = "RS_DONE" /\ statefn # "NULL")
              /\ Return(c.job, c.result)
              /\ UNCHANGED statefn
    BY DEF Caller, Catchup
  <1>2. /\ JobOK(job) /\ ScanOK(scan) /\ job.asserts
    BY Amounts
  <1>3. /\ Work(job, k) /\ k.asserts = job.asserts /\ c.result \in Results
        /\ c.result = "RS_DONE" => rs_tube_is_idle(k)
        /\ k.cursor + k.copy_len = job.cursor + job.copy_len
        /\ OutLen(k) + TubeLen(k) + k.copy_len = OutLen(job) + TubeLen(job) + job.copy_len
    BY <1>2, CatchupFacts DEF Results
  <1> HIDE DEF c
  <1>4. /\ input' = input /\ statefn' = statefn /\ Work(job, job') /\ job'.asserts
        /\ job'.cursor + job'.copy_len = job.cursor + job.copy_len
        /\ OutLen(job') + TubeLen(job') + job'.copy_len = OutLen(job) + TubeLen(job) + job.copy_len
        /\ rs_tube_is_idle(k) => rs_tube_is_idle(job')
        /\ \/ pc' = "statefn" /\ result' = result /\ c.result = "RS_DONE" /\ statefn # "NULL"
           \/ pc' = "caller" /\ result' \in {c.result, "RS_INTERNAL_ERROR"}
                /\ ~(c.result = "RS_DONE" /\ statefn # "NULL")
    <2>1. CASE job' = k /\ pc' = "statefn" /\ UNCHANGED <<input, statefn, result, orig>>
               /\ c.result = "RS_DONE" /\ statefn # "NULL"
      BY <1>2, <1>3, <2>1
    <2>2. CASE Return(k, c.result) /\ UNCHANGED statefn /\ ~(c.result = "RS_DONE" /\ statefn # "NULL")
      <3>1. JobOK(k) /\ c.result # "RS_RUNNING"
        BY <1>3 DEF Work, Results
      <3>2. /\ pc' = "caller" /\ result' \in {c.result, "RS_INTERNAL_ERROR"} /\ input' = input
            /\ Work(k, job') /\ SameOutput(k, job') /\ SameInput(k, job') /\ (k.asserts => job'.asserts)
        BY <1>3, <2>2, <3>1, ReturnFacts
      <3>3. Work(job, job')
        BY <1>2, <1>3, <3>2, WorkAddsUp
      <3>4. /\ job'.copy_len = k.copy_len /\ job'.cursor = k.cursor
            /\ OutLen(job') = OutLen(k) /\ TubeLen(job') = TubeLen(k)
            /\ rs_tube_is_idle(k) => rs_tube_is_idle(job')
        BY <3>2 DEF SameOutput, SameInput, OutLen, TubeLen, rs_tube_is_idle
      <3> QED
        BY <1>2, <1>3, <2>2, <3>2, <3>3, <3>4
    <2> QED
      BY <1>1, <2>1, <2>2
  <1>5. statefn \in StateFns
    BY DEF DeltaInv, DeltaTypeOK, StateFns
  <1>6. /\ DeltaTypeOK' /\ EofIsTrue' /\ job'.eof_in = job.eof_in
        /\ job'.cursor + job'.scoop_avail + job'.avail_in = job.cursor + job.scoop_avail + job.avail_in
    BY <1>1, <1>2, <1>4, <1>5, CodeStep
  <1> HIDE DEF k
  <1>7. TubeFree' /\ Pointed' /\ NotScanning' /\ AssertionsHold'
    <2>1. NotScanning
      BY DEF DeltaInv
    <2>2. rs_tube_is_idle(job)' = rs_tube_is_idle(job')
      BY DEF rs_tube_is_idle
    <2> QED
      BY <1>1, <1>3, <1>4, <2>1, <2>2 DEF TubeFree, Pointed, NotScanning, AssertionsHold, k
  <1> DEFINE tc == job'.cursor
             tl == job'.copy_len
             ts == job'.scoop_avail
             ta == job'.avail_in
             jc == job.cursor
             jl == job.copy_len
             js == job.scoop_avail
             ja == job.avail_in
             n == scan.pos
             w == scan.weak_sum.count
  <1>8. /\ tc \in Nat /\ tl \in Nat /\ ts \in Nat /\ ta \in Nat
        /\ jc \in Nat /\ jl \in Nat /\ js \in Nat /\ ja \in Nat /\ n \in Nat /\ w \in Nat
    BY <1>2, <1>4 DEF Work, JobOK, ScanOK, SumOK
  <1>9. tc + tl = jc + jl /\ tc + ts + ta = jc + js + ja
    BY <1>4, <1>6
  <1>10. Fits'
    <2>1. jl + n + w <= js + ja /\ w <= BlockLen
      BY DEF DeltaInv, Fits
    <2>2. tl + n + w <= ts + ta
      <3> HIDE DEF tc, tl, ts, ta, jc, jl, js, ja, n, w
      <3> QED
        BY <1>8, <1>9, <2>1
    <2> QED
      BY <1>1, <2>1, <2>2 DEF Fits
  <1>11. AtEnd'
    <2>1. js + ja = jl => ts + ta = tl
      <3> HIDE DEF tc, tl, ts, ta, jc, jl, js, ja
      <3> QED
        BY <1>8, <1>9
    <2>2. AtEnd
      BY DEF DeltaInv
    <2> QED
      BY <1>1, <1>4, <1>6, <2>1, <2>2 DEF AtEnd
  <1>12. Counted'
    <2>1. Counted
      BY DEF DeltaInv
    <2>2. OutLen(job)' = OutLen(job') /\ TubeLen(job)' = TubeLen(job')
      BY DEF OutLen, TubeLen
    <2>3. Uncounted(scan)' = Uncounted(scan)
      BY <1>1 DEF Uncounted
    <2> QED
      BY <1>1, <1>4, <2>1, <2>2, <2>3 DEF Counted
  <1>13. InTurn'
    <2>1. result \in {"RS_RUNNING", "RS_BLOCKED"}
      BY <1>1 DEF DeltaInv, InTurn, Over
    <2>2. rs_tube_is_idle(job)' = rs_tube_is_idle(job')
      BY DEF rs_tube_is_idle
    <2> QED
      BY <1>3, <1>4, <2>1, <2>2 DEF InTurn, Over
  <1> QED
    BY <1>6, <1>7, <1>10, <1>11, <1>12, <1>13 DEF DeltaInv

\* What the invariant says of a job, its scan and the state function that is next.
Due(fn, j, s) ==
    /\ j.copy_len + s.pos + s.weak_sum.count <= j.scoop_avail + j.avail_in
    /\ s.weak_sum.count <= BlockLen
    /\ fn \in {"rs_delta_s_header", "rs_delta_s_slack"} =>
         s.pos = 0 /\ s.basis_len = 0 /\ s.weak_sum.count = 0
    /\ fn = "rs_delta_s_flush" => j.eof_in
    /\ fn \in {"rs_delta_s_end", "NULL"} =>
         /\ j.eof_in /\ s.pos = 0 /\ s.basis_len = 0
         /\ j.scoop_avail + j.avail_in = j.copy_len
    /\ s.stats.lit_bytes + s.stats.copy_bytes + Uncounted(s) = j.cursor + j.copy_len + s.pos
    /\ OutLen(j) + TubeLen(j) + j.copy_len
         = s.stats.cmdbytes + s.stats.lit_bytes
             + (IF fn = "rs_delta_s_header" THEN 0 ELSE 4) + (IF fn = "NULL" THEN 1 ELSE 0)

\* That is what it says of the job.
LEMMA DueNow == DeltaInv => Due(statefn, job, scan)
  BY DEF DeltaInv, Due, Fits, NotScanning, AtEnd, Counted

\* And it does so of the next state when it is true there.
LEMMA DueNext ==
    ASSUME Due(statefn', job', scan')
    PROVE  Fits' /\ NotScanning' /\ AtEnd' /\ Counted'
  <1>1. OutLen(job)' = OutLen(job') /\ TubeLen(job)' = TubeLen(job')
    BY DEF OutLen, TubeLen
  <1>2. Uncounted(scan)' = Uncounted(scan')
    BY DEF Uncounted
  <1>3. Fits' /\ NotScanning' /\ AtEnd'
    BY DEF Due, Fits, NotScanning, AtEnd
  <1>4. Counted'
    BY <1>1, <1>2 DEF Due, Counted
  <1> QED
    BY <1>3, <1>4

\* A state function returns.
LEMMA DeltaFinish ==
    ASSUME DeltaInv, pc \in {"statefn", "loop"},
           NEW j, Work(job, j), j.asserts, NEW fn \in StateFns,
           NEW r \in {"RS_RUNNING", "RS_DONE", "RS_BLOCKED", "RS_INPUT_ENDED"},
           Finish(j, fn, r), basis' = basis, ScanOK(scan'),
           Due(IF r = "RS_DONE" THEN "NULL" ELSE fn, j, scan')
    PROVE  DeltaInv'
  <1>1. JobOK(job)
    BY Amounts
  <1>2. JobOK(j)
    BY DEF Work
  <1>3. /\ input' = input /\ Work(j, job') /\ SameOutput(j, job') /\ SameInput(j, job')
        /\ job'.asserts
        /\ r = "RS_RUNNING" => pc' = "work" /\ statefn' = fn /\ result' = result
        /\ r = "RS_DONE" => pc' = "work" /\ statefn' = "NULL" /\ result' = result
        /\ r \notin {"RS_RUNNING", "RS_DONE"} =>
             pc' = "caller" /\ statefn' = fn /\ result' \in {r, "RS_INTERNAL_ERROR"}
    BY <1>2, FinishFacts
  <1>4. Work(job, job')
    BY <1>1, <1>3, WorkAddsUp
  <1>5. statefn' = (IF r = "RS_DONE" THEN "NULL" ELSE fn) /\ pc' \in {"work", "caller"}
    BY <1>3
  <1>6. statefn' \in StateFns
    BY <1>5 DEF StateFns
  <1>7. DeltaTypeOK' /\ EofIsTrue'
    BY <1>3, <1>4, <1>5, <1>6, CodeStep
  <1>8. TubeFree' /\ Pointed' /\ AssertionsHold'
    BY <1>3, <1>5 DEF TubeFree, Pointed, AssertionsHold
  <1>9. Due(statefn', job', scan')
    <2>1. /\ job'.cursor = j.cursor /\ job'.scoop_avail = j.scoop_avail /\ job'.avail_in = j.avail_in
          /\ job'.copy_len = j.copy_len /\ job'.eof_in = j.eof_in
          /\ OutLen(job') = OutLen(j) /\ TubeLen(job') = TubeLen(j)
      BY <1>3 DEF SameOutput, SameInput, Work, OutLen, TubeLen
    <2>2. Due(statefn', j, scan')
      BY <1>5
    <2> QED
      BY <2>1, <2>2 DEF Due
  <1>10. InTurn'
    <2>1. result \in {"RS_RUNNING", "RS_BLOCKED"}
      BY DEF DeltaInv, InTurn, Over
    <2> QED
      BY <1>3, <2>1 DEF InTurn, Over
  <1> QED
    BY <1>7, <1>8, <1>9, <1>10, DueNext DEF DeltaInv

\* A loop goes on.
LEMMA DeltaLoop ==
    ASSUME DeltaInv, pc \in {"statefn", "loop"}, statefn \in {"rs_delta_s_scan", "rs_delta_s_flush"},
           Work(job, job'), job'.asserts, rs_tube_is_idle(job'), InOnePlace(job'),
           basis' = basis, ScanOK(scan'), pc' = "loop",
           UNCHANGED <<input, statefn, result>>,
           scan'.buf = job'.cursor, scan'.len = job'.scoop_avail + job'.avail_in,
           Due(statefn, job', scan')
    PROVE  DeltaInv'
  <1>1. DeltaTypeOK' /\ EofIsTrue'
    <2>1. statefn' \in StateFns
      BY DEF StateFns
    <2> QED
      BY <2>1, CodeStep
  <1>2. rs_tube_is_idle(job)' = rs_tube_is_idle(job') /\ InOnePlace(job)' = InOnePlace(job')
    BY DEF rs_tube_is_idle, InOnePlace
  <1>3. TubeFree' /\ Pointed' /\ AssertionsHold'
    BY <1>2 DEF TubeFree, Pointed, AssertionsHold
  <1>4. Fits' /\ NotScanning' /\ AtEnd' /\ Counted'
    <2>1. Due(statefn', job', scan')
      OBVIOUS
    <2> QED
      BY <2>1, DueNext
  <1>5. InTurn'
    <2>1. result \in {"RS_RUNNING", "RS_BLOCKED"}
      BY DEF DeltaInv, InTurn, Over
    <2> QED
      BY <2>1 DEF InTurn, Over
  <1> QED
    BY <1>1, <1>3, <1>4, <1>5 DEF DeltaInv

\* What is known when a state function runs: the tube is idle.
LEMMA StateFnRuns ==
    ASSUME DeltaInv, pc \in {"statefn", "loop"}
    PROVE  /\ rs_tube_is_idle(job) /\ job.copy_len = 0 /\ TubeLen(job) = 0
           /\ statefn \in StateFns \ {"NULL"}
  <1>1. rs_tube_is_idle(job) /\ statefn # "NULL"
    BY DEF DeltaInv, TubeFree
  <1>2. job.copy_len = 0 /\ job.write_buf = <<>>
    BY <1>1 DEF rs_tube_is_idle
  <1>3. statefn \in StateFns
    BY DEF DeltaInv, DeltaTypeOK, StateFns
  <1> QED
    BY <1>1, <1>2, <1>3 DEF TubeLen

\* The header is written, then the scan begins, or the slack delta.
LEMMA DeltaHeader == DeltaInv /\ rs_delta_s_header => DeltaInv'
  <1> SUFFICES ASSUME DeltaInv, rs_delta_s_header
               PROVE  DeltaInv'
    OBVIOUS
  <1> DEFINE fn == IF HasSignature THEN "rs_delta_s_scan" ELSE "rs_delta_s_slack"
             k == rs_tube_write(job, rs_emit_delta_header)
  <1>1. /\ pc = "statefn" /\ statefn = "rs_delta_s_header" /\ Finish(k, fn, "RS_RUNNING")
        /\ basis' = basis /\ scan' = scan
    BY DEF rs_delta_s_header, Running
  <1>2. fn \in {"rs_delta_s_scan", "rs_delta_s_slack"}
    OBVIOUS
  <1> HIDE DEF fn
  <1>3. JobOK(job) /\ job.asserts /\ rs_tube_is_idle(job) /\ ScanOK(scan)
    BY <1>1, Amounts, StateFnRuns
  <1>4. rs_emit_delta_header \in Seq(Nat) /\ Len(rs_emit_delta_header) = 4 /\ 4 \in 0 .. 17
    BY CommandBytes
  <1>5. /\ Work(job, k) /\ SameInput(job, k) /\ k.copy_len = 0 /\ k.asserts
        /\ OutLen(k) + TubeLen(k) = OutLen(job) + TubeLen(job) + 4
    <2>1. Len(rs_emit_delta_header) \in 0 .. 17
      BY <1>4
    <2> QED
      BY <1>3, <1>4, <2>1, Written, ZenonT(60)
  <1> HIDE DEF k
  <1>6. Due(fn, k, scan)
    <2>1. Due(statefn, job, scan) /\ job.copy_len = 0
      BY <1>1, DueNow, StateFnRuns
    <2>2. k.cursor = job.cursor /\ k.scoop_avail = job.scoop_avail /\ k.avail_in = job.avail_in
      BY <1>5 DEF SameInput
    <2> DEFINE o == OutLen(job) + TubeLen(job)
               p == OutLen(k) + TubeLen(k)
               x == scan.stats.cmdbytes + scan.stats.lit_bytes
    <2>3. o \in Nat /\ p = o + 4 /\ x \in Nat /\ o + 0 = x + 0 + 0
      <3>1. OutLen(job) \in Nat /\ TubeLen(job) \in Nat /\ scan.stats.cmdbytes \in Nat /\ scan.stats.lit_bytes \in Nat
        BY Amounts
      <3>2. o + 0 = x + 0 + 0
        BY <1>1, <2>1 DEF Due
      <3> QED
        BY <1>5, <3>1, <3>2
    <2> HIDE DEF o, p, x
    <2>4. p + 0 = x + 4 + 0
      BY <2>3
    <2>5. /\ fn # "rs_delta_s_header" /\ fn # "NULL" /\ fn # "rs_delta_s_flush" /\ fn # "rs_delta_s_end"
      BY <1>2
    <2>6. OutLen(k) + TubeLen(k) + k.copy_len
            = scan.stats.cmdbytes + scan.stats.lit_bytes
                + (IF fn = "rs_delta_s_header" THEN 0 ELSE 4) + (IF fn = "NULL" THEN 1 ELSE 0)
      BY <1>5, <2>4, <2>5 DEF p, x
    <2> QED
      BY <1>1, <1>5, <2>1, <2>2, <2>5, <2>6 DEF Due
  <1>7. fn \in StateFns
    BY <1>2 DEF StateFns
  <1> QED
    BY <1>1, <1>3, <1>5, <1>6, <1>7, DeltaFinish

\* The END command is written.
LEMMA DeltaEnd == DeltaInv /\ rs_delta_s_end => DeltaInv'
  <1> SUFFICES ASSUME DeltaInv, rs_delta_s_end
               PROVE  DeltaInv'
    OBVIOUS
  <1> DEFINE k == rs_tube_write(job, rs_emit_end_cmd)
  <1>1. /\ pc = "statefn" /\ statefn = "rs_delta_s_end" /\ Finish(k, statefn, "RS_DONE")
        /\ basis' = basis /\ scan' = scan
    BY DEF rs_delta_s_end, Running
  <1>2. JobOK(job) /\ job.asserts /\ rs_tube_is_idle(job) /\ ScanOK(scan)
    BY <1>1, Amounts, StateFnRuns
  <1>3. rs_emit_end_cmd \in Seq(Nat) /\ Len(rs_emit_end_cmd) = 1 /\ 1 \in 0 .. 17
    BY CommandBytes
  <1>4. /\ Work(job, k) /\ SameInput(job, k) /\ k.copy_len = 0 /\ k.asserts
        /\ OutLen(k) + TubeLen(k) = OutLen(job) + TubeLen(job) + 1
    <2>1. Len(rs_emit_end_cmd) \in 0 .. 17
      BY <1>3
    <2> QED
      BY <1>2, <1>3, <2>1, Written, ZenonT(60)
  <1> HIDE DEF k
  <1>5. Due("NULL", k, scan)
    <2>1. Due(statefn, job, scan) /\ job.copy_len = 0
      BY <1>1, DueNow, StateFnRuns
    <2>2. /\ k.cursor = job.cursor /\ k.scoop_avail = job.scoop_avail /\ k.avail_in = job.avail_in
          /\ k.eof_in = job.eof_in
      BY <1>4 DEF SameInput, Work
    <2> DEFINE o == OutLen(job) + TubeLen(job)
               p == OutLen(k) + TubeLen(k)
               x == scan.stats.cmdbytes + scan.stats.lit_bytes
    <2>3. o \in Nat /\ p = o + 1 /\ x \in Nat /\ o + 0 = x + 4 + 0
      <3>1. OutLen(job) \in Nat /\ TubeLen(job) \in Nat /\ scan.stats.cmdbytes \in Nat /\ scan.stats.lit_bytes \in Nat
        BY Amounts
      <3>2. o + 0 = x + 4 + 0
        BY <1>1, <2>1 DEF Due
      <3> QED
        BY <1>4, <3>1, <3>2
    <2> HIDE DEF o, p, x
    <2>4. p + 0 = x + 4 + 1
      BY <2>3
    <2>5. OutLen(k) + TubeLen(k) + k.copy_len = scan.stats.cmdbytes + scan.stats.lit_bytes + 4 + 1
      BY <1>4, <2>4 DEF p, x
    <2> QED
      BY <1>1, <1>4, <2>1, <2>2, <2>5 DEF Due
  <1>6. statefn \in StateFns
    BY <1>1 DEF StateFns
  <1> QED
    BY <1>1, <1>2, <1>4, <1>5, <1>6, DeltaFinish

\* A state function of the loops gets its input.
LEMMA DeltaEnter ==
    ASSUME DeltaInv, NEW fn \in {"rs_delta_s_scan", "rs_delta_s_flush"}, Enter(fn)
    PROVE  DeltaInv'
  <1> DEFINE t == rs_tube_catchup(job)
             c == CatchUp(State)
             g == IF c.result = "RS_DONE" THEN rs_getinput(c) ELSE c
             k == g.job
  <1>1. /\ pc = "statefn" /\ statefn = fn /\ scan' = g.scan /\ basis' = basis
        /\ IF g.result = "RS_DONE"
             THEN job' = g.job /\ pc' = "loop" /\ UNCHANGED <<input, statefn, result, orig>>
             ELSE Finish(g.job, statefn, g.result)
    BY DEF Enter, Running
  <1>2. JobOK(job) /\ job.asserts /\ rs_tube_is_idle(job) /\ ScanOK(scan) /\ job.copy_len = 0
        /\ job.write_buf = <<>>
    BY <1>1, Amounts, StateFnRuns DEF rs_tube_is_idle
  <1>3. DOMAIN c = {"job", "scan", "result"} /\ c.job = t.job /\ c.scan = scan /\ c.result = t.result
    BY DEF CatchUp, State
  <1>4. /\ Work(job, t.job) /\ t.job.asserts /\ t.result = "RS_DONE" /\ SameInput(job, t.job)
        /\ t.job.copy_len = 0 /\ t.job.write_buf = <<>>
        /\ OutLen(t.job) + TubeLen(t.job) + t.job.copy_len = OutLen(job) + TubeLen(job) + job.copy_len
    <2>1. /\ Work(job, t.job) /\ t.job.asserts = job.asserts
          /\ OutLen(t.job) + TubeLen(t.job) + t.job.copy_len = OutLen(job) + TubeLen(job) + job.copy_len
          /\ job.write_buf = <<>> => t.job.write_buf = <<>>
      BY <1>2, CatchupFacts
    <2>2. /\ SameInput(job, t.job) /\ t.job.copy_len = 0
          /\ t.result # "RS_DONE" => t.job.write_buf # <<>>
      BY <1>2, CatchupPlain
    <2> QED
      BY <1>2, <2>1, <2>2
  <1> HIDE DEF c, t
  <1>5. g = rs_getinput(c)
    BY <1>3, <1>4
  <1>6. JobOK(c.job)
    BY <1>3, <1>4 DEF Work
  <1>7. /\ Work(c.job, k) /\ SameOutput(c.job, k) /\ k.cursor = c.job.cursor
        /\ k.asserts = c.job.asserts /\ ScanOK(g.scan)
        /\ g.scan.pos = scan.pos /\ g.scan.basis_len = scan.basis_len
        /\ g.scan.weak_sum = scan.weak_sum /\ g.scan.stats = scan.stats
        /\ g.result \in Results
        /\ g.result = "RS_DONE" =>
             /\ InOnePlace(k) /\ g.scan.buf = k.cursor
             /\ g.scan.len = k.scoop_avail + k.avail_in
    BY <1>2, <1>3, <1>5, <1>6, GetinputFacts
  <1> HIDE DEF g
  <1>8. Work(job, k) /\ k.asserts /\ rs_tube_is_idle(k)
    <2>1. rs_tube_is_idle(k)
      BY <1>3, <1>4, <1>7 DEF SameOutput, rs_tube_is_idle
    <2> QED
      BY <1>2, <1>3, <1>4, <1>7, <2>1, WorkAddsUp
  <1>9. Due(statefn, k, g.scan)
    <2>1. Due(statefn, job, scan)
      BY DueNow
    <2>2. /\ k.cursor = job.cursor /\ k.copy_len = job.copy_len /\ k.eof_in = job.eof_in
          /\ k.cursor + k.scoop_avail + k.avail_in = job.cursor + job.scoop_avail + job.avail_in
          /\ JobOK(k)
      BY <1>2, <1>3, <1>4, <1>7, <1>8 DEF Work, SameInput, SameOutput
    <2>3. OutLen(k) = OutLen(c.job) /\ TubeLen(k) = TubeLen(c.job) /\ k.copy_len = c.job.copy_len
      BY <1>7 DEF SameOutput, OutLen, TubeLen
    <2>4. OutLen(k) + TubeLen(k) + k.copy_len = OutLen(job) + TubeLen(job) + job.copy_len
      BY <1>3, <1>4, <2>3
    <2>5. k.scoop_avail + k.avail_in = job.scoop_avail + job.avail_in
      <3>1. /\ k.cursor \in Nat /\ k.scoop_avail \in Nat /\ k.avail_in \in Nat
            /\ job.scoop_avail \in Nat /\ job.avail_in \in Nat
        BY <1>2, <2>2 DEF JobOK
      <3> HIDE DEF k
      <3> QED
        BY <2>2, <3>1
    <2>6. Uncounted(g.scan) = Uncounted(scan)
      BY <1>7 DEF Uncounted
    <2> HIDE DEF k
    <2> QED
      BY <1>7, <2>1, <2>2, <2>4, <2>5, <2>6 DEF Due
  <1>10. CASE g.result = "RS_DONE"
    <2>1. /\ Work(job, job') /\ job'.asserts /\ rs_tube_is_idle(job') /\ InOnePlace(job')
          /\ ScanOK(scan') /\ scan'.buf = job'.cursor
          /\ scan'.len = job'.scoop_avail + job'.avail_in /\ Due(statefn, job', scan')
          /\ pc' = "loop" /\ UNCHANGED <<input, statefn, result>>
      BY <1>1, <1>7, <1>8, <1>9, <1>10
    <2> QED
      BY <1>1, <2>1, DeltaLoop
  <1>11. CASE g.result # "RS_DONE"
    <2>1. Finish(k, statefn, g.result) /\ statefn \in StateFns
          /\ g.result \in {"RS_RUNNING", "RS_DONE", "RS_BLOCKED", "RS_INPUT_ENDED"}
      BY <1>1, <1>7, <1>11 DEF Results, StateFns
    <2>2. Due(IF g.result = "RS_DONE" THEN "NULL" ELSE statefn, k, scan') /\ ScanOK(scan')
      BY <1>1, <1>7, <1>9, <1>11
    <2> QED
      BY <1>1, <1>8, <2>1, <2>2, DeltaFinish
  <1> QED
    BY <1>10, <1>11

\* Without a signature all that has arrived becomes a literal.
LEMMA DeltaSlack == DeltaInv /\ rs_delta_s_slack => DeltaInv'
  <1> SUFFICES ASSUME DeltaInv, rs_delta_s_slack
               PROVE  DeltaInv'
    OBVIOUS
  <1> DEFINE avail == rs_scoop_avail(job)
             literal == rs_emit_literal_cmd(avail)
             w == rs_tube_write(job, literal)
             k == rs_tube_copy(w, avail)
  <1>1. pc = "statefn" /\ statefn = "rs_delta_s_slack" /\ basis' = basis
    BY DEF rs_delta_s_slack, Running
  <1>2. JobOK(job) /\ job.asserts /\ rs_tube_is_idle(job) /\ ScanOK(scan) /\ job.copy_len = 0
    BY <1>1, Amounts, StateFnRuns
  <1>3. Due(statefn, job, scan) /\ scan.pos = 0 /\ scan.basis_len = 0 /\ scan.weak_sum.count = 0
    BY <1>1, DueNow DEF DeltaInv, NotScanning
  <1>4. /\ job.cursor \in Nat /\ avail \in Nat /\ avail = job.scoop_avail + job.avail_in
    BY <1>2 DEF JobOK, rs_scoop_avail
  <1>5. CASE avail > 0 /\ Finish(k, statefn, "RS_RUNNING")
             /\ scan' = [scan EXCEPT !.stats.lit_bytes = @ + avail,
                                     !.stats.cmdbytes = @ + Len(literal)]
    <2> HIDE DEF avail
    <2>1. literal \in Seq(Nat) /\ Len(literal) \in 0 .. 17
      BY <1>4, CommandBytes
    <2>2. /\ Work(job, w) /\ SameInput(job, w) /\ w.copy_len = 0 /\ w.asserts
          /\ OutLen(w) + TubeLen(w) = OutLen(job) + TubeLen(job) + Len(literal)
      BY <1>2, <2>1, Written
    <2>3. JobOK(w)
      BY <2>2 DEF Work
    <2> HIDE DEF literal
    <2> HIDE DEF w
    <2>4. /\ Work(w, k) /\ SameInput(w, k) /\ k.out = w.out /\ k.write_buf = w.write_buf
          /\ k.copy_len = avail /\ k.asserts
      BY <1>4, <2>2, <2>3, TubeFacts
    <2>5. /\ DOMAIN scan = ScanFields /\ DOMAIN scan.stats = {"lit_bytes", "copy_bytes", "cmdbytes"}
      BY <1>2 DEF ScanOK
    <2> DEFINE l == Len(literal)
               lit == scan.stats.lit_bytes
               cop == scan.stats.copy_bytes
               cmd == scan.stats.cmdbytes
               o == OutLen(job) + TubeLen(job)
    <2>6. /\ DOMAIN scan' = ScanFields /\ scan'.buf = scan.buf /\ scan'.len = scan.len
          /\ scan'.pos = 0 /\ scan'.basis_pos = scan.basis_pos /\ scan'.basis_len = 0
          /\ scan'.weak_sum = scan.weak_sum
          /\ DOMAIN scan'.stats = {"lit_bytes", "copy_bytes", "cmdbytes"}
          /\ scan'.stats.lit_bytes = lit + avail /\ scan'.stats.copy_bytes = cop
          /\ scan'.stats.cmdbytes = cmd + l
      BY <1>3, <1>5, <2>5 DEF ScanFields
    <2>7. l \in Nat /\ lit \in Nat /\ cop \in Nat /\ cmd \in Nat /\ o \in Nat
      <3>1. l \in 0 .. 17
        BY <2>1 DEF literal
      <3>2. OutLen(job) \in Nat /\ TubeLen(job) \in Nat /\ lit \in Nat /\ cop \in Nat /\ cmd \in Nat
        BY Amounts
      <3> HIDE DEF l, lit, cop, cmd
      <3> QED
        BY <3>1, <3>2
    <2>8. ScanOK(scan')
      <3>1. lit + avail \in Nat /\ cmd + l \in Nat
        <4> HIDE DEF l, lit, cmd
        <4> QED
          BY <1>4, <2>7
      <3> HIDE DEF l
      <3> QED
        BY <1>2, <2>6, <3>1 DEF ScanOK
    <2>9. /\ k.cursor = job.cursor /\ k.scoop_avail = job.scoop_avail /\ k.avail_in = job.avail_in
          /\ OutLen(k) + TubeLen(k) = o + l
      <3>1. OutLen(k) = OutLen(w) /\ TubeLen(k) = TubeLen(w)
        BY <2>4 DEF OutLen, TubeLen
      <3> QED
        BY <2>2, <2>4, <3>1 DEF SameInput
    <2>10. Work(job, k)
      BY <1>2, <2>2, <2>4, WorkAddsUp
    <2> HIDE DEF k
    <2>11. Due(statefn, k, scan')
      <3>1. lit + cop + Uncounted(scan) = job.cursor + job.copy_len + scan.pos
            /\ o + job.copy_len = cmd + lit + 4 + 0
        BY <1>1, <1>3 DEF Due
      <3>2. Uncounted(scan) = 0 /\ Uncounted(scan') = 0
        BY <1>3, <2>6 DEF Uncounted
      <3> DEFINE jc == job.cursor
      <3>3. lit + cop + 0 = jc + 0 + 0 /\ o + 0 = cmd + lit + 4 + 0 /\ jc \in Nat
        BY <1>2, <1>3, <1>4, <3>1, <3>2
      <3>4. (lit + avail) + cop + 0 = jc + avail + 0 /\ (o + l) + avail = (cmd + l) + (lit + avail) + 4 + 0
        <4> HIDE DEF l, lit, cop, cmd, o, jc
        <4> QED
          BY <1>4, <2>7, <3>3
      <3>5. /\ scan'.stats.lit_bytes + scan'.stats.copy_bytes + Uncounted(scan')
                 = k.cursor + k.copy_len + scan'.pos
            /\ OutLen(k) + TubeLen(k) + k.copy_len = scan'.stats.cmdbytes + scan'.stats.lit_bytes + 4 + 0
        BY <2>4, <2>6, <2>9, <3>2, <3>4
      <3>6. k.copy_len + scan'.pos + scan'.weak_sum.count <= k.scoop_avail + k.avail_in
            /\ scan'.weak_sum.count <= BlockLen
        <4>1. avail + 0 + 0 <= avail /\ 0 <= BlockLen
          BY <1>4, DeltaAssumption
        <4> QED
          BY <1>3, <1>4, <2>4, <2>6, <2>9, <4>1
      <3> QED
        BY <1>1, <1>3, <2>6, <3>5, <3>6 DEF Due
    <2>12. statefn \in StateFns
      BY <1>1 DEF StateFns
    <2> QED
      BY <1>1, <1>5, <2>4, <2>8, <2>10, <2>11, <2>12, DeltaFinish
  <1>6. CASE avail = 0 /\ rs_scoop_eof(job) /\ Finish(job, "rs_delta_s_end", "RS_RUNNING") /\ scan' = scan
    <2>1. job.eof_in
      BY <1>6 DEF rs_scoop_eof
    <2>2. Due("rs_delta_s_end", job, scan)
      <3>1. job.scoop_avail + job.avail_in = job.copy_len
        BY <1>2, <1>4, <1>6
      <3> QED
        BY <1>1, <1>3, <2>1, <3>1 DEF Due
    <2>3. Work(job, job) /\ "rs_delta_s_end" \in StateFns
      BY <1>2, WorkAddsUp DEF StateFns
    <2> QED
      BY <1>1, <1>2, <1>6, <2>2, <2>3, DeltaFinish
  <1>7. CASE avail = 0 /\ ~rs_scoop_eof(job) /\ Finish(job, statefn, "RS_BLOCKED") /\ scan' = scan
    <2>1. Work(job, job) /\ statefn \in StateFns
      BY <1>1, <1>2, WorkAddsUp DEF StateFns
    <2> QED
      BY <1>1, <1>2, <1>3, <1>7, <2>1, DeltaFinish
  <1> QED
    BY <1>5, <1>6, <1>7 DEF rs_delta_s_slack

\* The scan has come to the end of what there is.
LEMMA DeltaScanned ==
    ASSUME DeltaInv, InLoop("rs_delta_s_scan"), basis' = basis, scan' = scan,
           IF job.eof_in THEN Finish(job, "rs_delta_s_flush", "RS_RUNNING")
           ELSE Finish(job, statefn, "RS_BLOCKED")
    PROVE  DeltaInv'
  <1>1. pc = "loop" /\ statefn = "rs_delta_s_scan"
    BY DEF InLoop
  <1>2. JobOK(job) /\ job.asserts /\ ScanOK(scan) /\ Due(statefn, job, scan)
    BY Amounts, DueNow
  <1>3. Work(job, job) /\ "rs_delta_s_flush" \in StateFns /\ "rs_delta_s_scan" \in StateFns
    BY <1>2, WorkAddsUp DEF StateFns
  <1>4. CASE job.eof_in
    <2>1. Due("rs_delta_s_flush", job, scan)
      BY <1>1, <1>2, <1>4 DEF Due
    <2> QED
      BY <1>1, <1>2, <1>3, <1>4, <2>1, DeltaFinish
  <1>5. CASE ~job.eof_in
    BY <1>1, <1>2, <1>3, <1>5, DeltaFinish
  <1> QED
    BY <1>4, <1>5

\* In a loop the state is one in which the helpers may be called.
LEMMA LoopBalanced ==
    ASSUME DeltaInv, pc = "loop", NEW st, DOMAIN st = {"job", "scan", "result"}, st.job = job,
           ScanOK(st.scan), st.scan.buf = scan.buf, st.scan.len = scan.len, st.scan.pos = scan.pos,
           st.scan.basis_len = scan.basis_len, st.scan.stats = scan.stats
    PROVE  /\ Balanced(st) /\ rs_tube_is_idle(job) /\ job.copy_len = 0
           /\ scan.len = job.scoop_avail + job.avail_in /\ scan.buf = job.cursor /\ scan.pos <= scan.len
  <1>1. /\ statefn \in {"rs_delta_s_scan", "rs_delta_s_flush"} /\ InOnePlace(job)
        /\ scan.buf = job.cursor /\ scan.len = job.scoop_avail + job.avail_in
    BY DEF DeltaInv, Pointed
  <1>2. rs_tube_is_idle(job) /\ job.copy_len = 0 /\ Due(statefn, job, scan)
    BY StateFnRuns, DueNow
  <1>3. JobOK(job) /\ job.asserts
    BY Amounts
  <1>4. /\ job.cursor \in Nat /\ job.scoop_avail \in Nat /\ job.avail_in \in Nat
        /\ scan.pos \in Nat /\ scan.weak_sum.count \in Nat
    BY Amounts
  <1>5. scan.pos <= scan.len
    <2>1. 0 + scan.pos + scan.weak_sum.count <= scan.len
      BY <1>1, <1>2 DEF Due
    <2> QED
      BY <1>1, <1>4, <2>1
  <1>6. job.cursor + job.copy_len = scan.buf /\ scan.len + job.copy_len = job.scoop_avail + job.avail_in
    BY <1>1, <1>2, <1>4
  <1>7. Solid(st)
    BY <1>1, <1>3, <1>5, <1>6 DEF Solid
  <1>8. Uncounted(st.scan) = Uncounted(scan)
    BY DEF Uncounted
  <1>9. /\ scan.stats.lit_bytes + scan.stats.copy_bytes + Uncounted(scan)
             = job.cursor + job.copy_len + scan.pos
        /\ OutLen(job) + TubeLen(job) + job.copy_len = scan.stats.cmdbytes + scan.stats.lit_bytes + 4 + 0
    BY <1>1, <1>2 DEF Due
  <1>10. scan.stats.cmdbytes + scan.stats.lit_bytes + 4 + 0 = scan.stats.cmdbytes + scan.stats.lit_bytes + 4
    <2>1. scan.stats.cmdbytes \in Nat /\ scan.stats.lit_bytes \in Nat
      BY Amounts
    <2> QED
      BY <2>1
  <1>11. Balanced(st)
    BY <1>7, <1>8, <1>9, <1>10 DEF Balanced
  <1> QED
    BY <1>1, <1>2, <1>5, <1>11

\* The weak sum does not matter for the balance.
LEMMA OtherSum ==
    ASSUME NEW st, Balanced(st), NEW sum, SumOK(sum)
    PROVE  LET t == [st EXCEPT !.scan.weak_sum = sum]
           IN  /\ Balanced(t) /\ t.job = st.job /\ t.result = st.result
               /\ t.scan.pos = st.scan.pos /\ t.scan.len = st.scan.len /\ t.scan.weak_sum = sum
  <1> DEFINE t == [st EXCEPT !.scan.weak_sum = sum]
  <1>1. DOMAIN st = {"job", "scan", "result"} /\ DOMAIN st.scan = ScanFields /\ ScanOK(st.scan) /\ Solid(st)
    BY DEF Balanced, Solid, ScanOK
  <1>2. /\ DOMAIN t = {"job", "scan", "result"} /\ t.job = st.job /\ t.result = st.result
        /\ DOMAIN t.scan = ScanFields /\ t.scan.buf = st.scan.buf /\ t.scan.len = st.scan.len
        /\ t.scan.pos = st.scan.pos /\ t.scan.basis_pos = st.scan.basis_pos
        /\ t.scan.basis_len = st.scan.basis_len /\ t.scan.stats = st.scan.stats
        /\ t.scan.weak_sum = sum
    BY <1>1 DEF ScanFields
  <1> HIDE DEF t
  <1>3. ScanOK(t.scan)
    BY <1>1, <1>2 DEF ScanOK
  <1>4. Solid(t)
    BY <1>1, <1>2, <1>3 DEF Solid
  <1>5. Uncounted(t.scan) = Uncounted(st.scan)
    BY <1>2 DEF Uncounted
  <1>6. Balanced(t)
    BY <1>2, <1>4, <1>5 DEF Balanced
  <1> QED
    BY <1>2, <1>6 DEF t

\* What the helpers lead to is a state of the loop, or one in which it is left.
LEMMA DeltaHelped ==
    ASSUME DeltaInv, pc = "loop", NEW t, Balanced(t), Work(job, t.job), t.result \in Results,
           t.result = "RS_DONE" => rs_tube_is_idle(t.job),
           t.scan.pos + t.scan.weak_sum.count <= t.scan.len, t.scan.weak_sum.count <= BlockLen,
           basis' = basis, scan' = t.scan,
           IF t.result = "RS_DONE"
             THEN job' = t.job /\ UNCHANGED <<input, statefn, pc, result, orig>>
             ELSE Finish(t.job, statefn, t.result)
    PROVE  DeltaInv'
  <1> DEFINE k == t.job
  <1>1. statefn \in {"rs_delta_s_scan", "rs_delta_s_flush"} /\ statefn \in StateFns
    BY DEF DeltaInv, Pointed, StateFns
  <1>2. /\ JobOK(k) /\ ScanOK(t.scan) /\ InOnePlace(k) /\ k.asserts
        /\ t.scan.buf = k.cursor + k.copy_len /\ t.scan.len + k.copy_len = k.scoop_avail + k.avail_in
    BY DEF Balanced, Solid
  <1>3. /\ k.cursor \in Nat /\ k.copy_len \in Nat /\ k.scoop_avail \in Nat /\ k.avail_in \in Nat
        /\ t.scan.pos \in Nat /\ t.scan.len \in Nat /\ t.scan.weak_sum.count \in Nat
        /\ t.scan.stats.cmdbytes \in Nat /\ t.scan.stats.lit_bytes \in Nat
    BY <1>2 DEF JobOK, ScanOK, SumOK
  <1>4. Due(statefn, k, t.scan)
    <2>1. k.copy_len + t.scan.pos + t.scan.weak_sum.count <= k.scoop_avail + k.avail_in
      <3> DEFINE a == k.copy_len
                 p == t.scan.pos
                 c == t.scan.weak_sum.count
                 l == t.scan.len
                 v == k.scoop_avail + k.avail_in
      <3>1. a \in Nat /\ p \in Nat /\ c \in Nat /\ l \in Nat /\ v \in Nat /\ l + a = v /\ p + c <= l
        BY <1>2, <1>3
      <3> HIDE DEF a, p, c, l, v
      <3>2. a + p + c <= v
        BY <3>1
      <3> QED
        BY <3>2 DEF a, p, c, v
    <2>2. statefn = "rs_delta_s_flush" => k.eof_in
      BY DEF DeltaInv, AtEnd, Work
    <2>3. /\ t.scan.stats.lit_bytes + t.scan.stats.copy_bytes + Uncounted(t.scan)
               = k.cursor + k.copy_len + t.scan.pos
          /\ OutLen(k) + TubeLen(k) + k.copy_len = t.scan.stats.cmdbytes + t.scan.stats.lit_bytes + 4
      BY DEF Balanced
    <2>4. t.scan.stats.cmdbytes + t.scan.stats.lit_bytes + 4 = t.scan.stats.cmdbytes + t.scan.stats.lit_bytes + 4 + 0
      BY <1>3
    <2> HIDE DEF k
    <2> QED
      BY <1>1, <2>1, <2>2, <2>3, <2>4 DEF Due
  <1>5. CASE t.result = "RS_DONE"
    <2>1. k.copy_len = 0
      BY <1>5 DEF rs_tube_is_idle
    <2>2. t.scan.buf = k.cursor /\ t.scan.len = k.scoop_avail + k.avail_in
      BY <1>2, <1>3, <2>1
    <2>3. job' = k /\ pc' = "loop" /\ UNCHANGED <<input, statefn, result>>
      BY <1>5
    <2>4. /\ Work(job, job') /\ job'.asserts /\ rs_tube_is_idle(job') /\ InOnePlace(job')
          /\ ScanOK(scan') /\ scan'.buf = job'.cursor
          /\ scan'.len = job'.scoop_avail + job'.avail_in /\ Due(statefn, job', scan')
      BY <1>2, <1>4, <1>5, <2>2, <2>3
    <2> QED
      BY <1>1, <2>3, <2>4, DeltaLoop
  <1>6. CASE t.result # "RS_DONE"
    <2>1. Finish(k, statefn, t.result)
          /\ t.result \in {"RS_RUNNING", "RS_DONE", "RS_BLOCKED", "RS_INPUT_ENDED"}
      BY <1>6 DEF Results
    <2>2. Due(IF t.result = "RS_DONE" THEN "NULL" ELSE statefn, k, scan') /\ ScanOK(scan')
      BY <1>2, <1>4, <1>6
    <2> QED
      BY <1>1, <1>2, <2>1, <2>2, DeltaFinish
  <1> QED
    BY <1>5, <1>6

\* What rs_findmatch looks for in a loop.
LEMMA Found ==
    ASSUME DeltaInv, pc = "loop", scan.pos < scan.len
    PROVE  LET f == rs_findmatch(scan)
           IN  /\ ScanOK(f.scan) /\ f.scan.buf = scan.buf /\ f.scan.len = scan.len
               /\ f.scan.pos = scan.pos /\ f.scan.basis_len = scan.basis_len
               /\ f.scan.basis_pos = scan.basis_pos /\ f.scan.stats = scan.stats
               /\ SumOK(f.scan.weak_sum) /\ f.scan.weak_sum.count \in Nat \ {0}
               /\ f.scan.weak_sum.count <= BlockLen
               /\ scan.pos + f.scan.weak_sum.count <= scan.len
               /\ f.match_len = f.scan.weak_sum.count /\ f.match_pos \in Int
               /\ f.match_pos # -1 => AreAt(basis, f.match_pos, ScanBytes(scan, scan.pos, f.match_len))
  <1> DEFINE f == rs_findmatch(scan)
  <1>2. /\ rs_tube_is_idle(job) /\ scan.len = job.scoop_avail + job.avail_in
        /\ scan.buf = job.cursor
    BY StateFnRuns DEF DeltaInv, Pointed
  <1>3. /\ input \in Seq(Nat) /\ basis \in Seq(Nat) /\ ScanOK(scan) /\ JobOK(job)
        /\ scan.weak_sum.count <= BlockLen
    BY Amounts DEF DeltaInv, Fits
  <1>4. /\ scan.buf + scan.len <= Len(input) /\ scan.pos + scan.weak_sum.count <= scan.len
    <2>1. /\ job.cursor \in Nat /\ job.scoop_avail \in Nat /\ job.avail_in \in Nat
          /\ scan.pos \in Nat /\ scan.weak_sum.count \in Nat
      BY Amounts
    <2>2. 0 + scan.pos + scan.weak_sum.count <= scan.len
      BY <1>2, StateFnRuns DEF DeltaInv, Fits
    <2>3. job.cursor + job.scoop_avail + job.avail_in <= Len(input) /\ Len(input) \in Nat
      BY <1>3, Amounts DEF JobOK
    <2> DEFINE l == Len(input)
               x == job.cursor + (job.scoop_avail + job.avail_in)
    <2>4. x <= l
      <3>1. x = job.cursor + job.scoop_avail + job.avail_in
        BY <2>1
      <3> HIDE DEF x
      <3> QED
        BY <2>3, <3>1
    <2>5. scan.buf + scan.len = x
      BY <1>2
    <2>6. scan.pos + scan.weak_sum.count <= scan.len
      BY <2>1, <2>2
    <2> QED
      BY <2>4, <2>5, <2>6
  <1>5. /\ ScanOK(f.scan) /\ f.scan.buf = scan.buf /\ f.scan.len = scan.len /\ f.scan.pos = scan.pos
        /\ f.scan.basis_len = scan.basis_len /\ f.scan.basis_pos = scan.basis_pos
        /\ f.scan.stats = scan.stats
        /\ f.match_len = f.scan.weak_sum.count /\ f.match_len \in Nat \ {0}
        /\ f.match_len <= BlockLen /\ scan.pos + f.match_len <= scan.len
        /\ f.match_pos \in Int
        /\ f.match_pos # -1 => AreAt(basis, f.match_pos, ScanBytes(scan, scan.pos, f.match_len))
    BY <1>3, <1>4, FindmatchFacts
  <1> HIDE DEF f
  <1>6. SumOK(f.scan.weak_sum)
    BY <1>5 DEF ScanOK
  <1> QED
    BY <1>5, <1>6 DEF f

\* An iteration of a loop, whatever becomes of the weak sum when there is no match.
LEMMA DeltaIteration ==
    ASSUME DeltaInv, pc = "loop", scan.pos < scan.len, NEW rolled, SumOK(rolled),
           scan.pos + 1 + rolled.count <= scan.len, rolled.count <= BlockLen,
           Iteration(rs_findmatch(scan), rolled)
    PROVE  DeltaInv'
  <1> DEFINE f == rs_findmatch(scan)
             st == [State EXCEPT !.scan = f.scan]
             m == rs_appendmatch(st, f.match_pos, f.match_len)
             matched == [m EXCEPT !.scan.weak_sum = weaksum_reset(@)]
             rst == [st EXCEPT !.scan.weak_sum = rolled]
             missed == rs_appendmiss(rst, 1)
             next == IF f.match_pos # -1 THEN matched ELSE missed
  <1>1. /\ scan' = next.scan /\ basis' = basis
        /\ IF next.result = "RS_DONE"
             THEN job' = next.job /\ UNCHANGED <<input, statefn, pc, result, orig>>
             ELSE Finish(next.job, statefn, next.result)
    BY DEF Iteration
  <1>2. rs_tube_is_idle(job)
    BY StateFnRuns
  <1>3. ScanOK(scan)
    BY Amounts
  <1>5. /\ ScanOK(f.scan) /\ f.scan.buf = scan.buf /\ f.scan.len = scan.len /\ f.scan.pos = scan.pos
        /\ f.scan.basis_len = scan.basis_len /\ f.scan.stats = scan.stats
        /\ f.match_len \in Nat \ {0} /\ scan.pos + f.match_len <= scan.len
        /\ f.match_pos \in Int
    BY Found
  <1> HIDE DEF f
  <1>6. DOMAIN st = {"job", "scan", "result"} /\ st.job = job /\ st.scan = f.scan /\ st.result = "RS_DONE"
    BY DEF State
  <1> HIDE DEF st
  <1>7. Balanced(st)
    BY <1>5, <1>6, LoopBalanced
  <1>8. CASE f.match_pos # -1
    <2>1. next = matched
      BY <1>8
    <2>2. Scanning(st, m, f.match_len)
      BY <1>2, <1>5, <1>6, <1>7, AppendmatchFacts
    <2> HIDE DEF m
    <2>3. /\ Balanced(m) /\ Work(job, m.job) /\ m.result \in Results
          /\ m.result = "RS_DONE" => rs_tube_is_idle(m.job)
      BY <1>6, <2>2 DEF Scanning
    <2>4. ScanOK(m.scan) /\ SumOK(m.scan.weak_sum) /\ m.scan.pos <= m.scan.len
      BY <2>3 DEF Balanced, Solid, ScanOK
    <2> DEFINE sum == weaksum_reset(m.scan.weak_sum)
    <2>5. SumOK(sum) /\ sum.count = 0
      BY <2>4, SumFacts
    <2>6. matched = [m EXCEPT !.scan.weak_sum = sum]
      OBVIOUS
    <2> HIDE DEF sum, matched, next
    <2>7. /\ Balanced(matched) /\ matched.job = m.job /\ matched.result = m.result
          /\ matched.scan.pos = m.scan.pos /\ matched.scan.len = m.scan.len
          /\ matched.scan.weak_sum = sum
      BY <2>3, <2>5, <2>6, OtherSum
    <2>8. /\ matched.scan.pos + matched.scan.weak_sum.count <= matched.scan.len
          /\ matched.scan.weak_sum.count <= BlockLen
      <3>1. m.scan.pos \in Nat /\ m.scan.len \in Nat
        BY <2>4 DEF ScanOK
      <3>2. m.scan.pos + 0 <= m.scan.len /\ 0 <= BlockLen
        BY <2>4, <3>1, DeltaAssumption
      <3> QED
        BY <2>5, <2>7, <3>2
    <2> QED
      BY <1>1, <2>1, <2>3, <2>7, <2>8, DeltaHelped
  <1>9. CASE f.match_pos = -1
    <2>1. next = missed
      BY <1>9
    <2>2. /\ Balanced(rst) /\ rst.job = job /\ rst.scan.pos = scan.pos /\ rst.scan.len = scan.len
          /\ rst.scan.weak_sum = rolled
      BY <1>5, <1>6, <1>7, OtherSum
    <2> HIDE DEF rst
    <2>3. /\ scan.pos \in Nat /\ scan.len \in Nat /\ rolled.count \in Nat
      BY <1>3 DEF ScanOK, SumOK
    <2>4. Scanning(rst, missed, 1)
      <3>1. rst.scan.pos + 1 <= rst.scan.len /\ 1 \in Nat
        BY <2>2, <2>3
      <3> QED
        BY <1>2, <2>2, <3>1, AppendmissFacts
    <2> HIDE DEF missed, next
    <2>5. /\ Balanced(missed) /\ Work(job, missed.job) /\ missed.result \in Results
          /\ missed.result = "RS_DONE" => rs_tube_is_idle(missed.job)
          /\ missed.scan.weak_sum = rolled
      BY <2>2, <2>4 DEF Scanning
    <2>6. missed.scan.len - missed.scan.pos + 1 = scan.len - scan.pos
      <3>1. 1 \in Nat
        OBVIOUS
      <3> QED
        BY <2>2, <2>4, <3>1, LessToScan
    <2>7. missed.scan.pos + rolled.count <= missed.scan.len
      <3>1. missed.scan.len \in Nat /\ missed.scan.pos \in Nat
        BY <2>5 DEF Balanced, Solid, ScanOK
      <3> QED
        BY <2>3, <2>6, <3>1
    <2> QED
      BY <1>1, <2>1, <2>5, <2>7, DeltaHelped
  <1> QED
    BY <1>8, <1>9

\* The scan.
LEMMA DeltaScan == DeltaInv /\ rs_delta_s_scan => DeltaInv'
  <1> SUFFICES ASSUME DeltaInv, rs_delta_s_scan
               PROVE  DeltaInv'
    OBVIOUS
  <1>1. CASE Enter("rs_delta_s_scan")
    BY <1>1, DeltaEnter
  <1>2. CASE /\ InLoop("rs_delta_s_scan") /\ scan.pos + BlockLen < scan.len
             /\ LET f == rs_findmatch(scan)
                IN  Iteration(f, weaksum_rotate(f.scan.weak_sum, ScanByte(scan, scan.pos),
                                                ScanByte(scan, scan.pos + BlockLen)))
    <2> DEFINE f == rs_findmatch(scan)
               rolled == weaksum_rotate(f.scan.weak_sum, ScanByte(scan, scan.pos),
                                        ScanByte(scan, scan.pos + BlockLen))
    <2>1. pc = "loop" /\ Iteration(rs_findmatch(scan), rolled)
      BY <1>2 DEF InLoop
    <2>2. /\ scan.pos \in Nat /\ scan.len \in Nat /\ BlockLen \in Nat \ {0}
          /\ scan.pos + BlockLen < scan.len
      BY <1>2, Amounts DEF ScanOK
    <2>3. scan.pos < scan.len
      BY <2>2
    <2>4. SumOK(f.scan.weak_sum) /\ f.scan.weak_sum.count \in Nat /\ f.scan.weak_sum.count <= BlockLen
      BY <2>1, <2>3, Found
    <2> HIDE DEF f
    <2>5. SumOK(rolled) /\ rolled.count = f.scan.weak_sum.count
      BY <2>4, SumFacts
    <2> HIDE DEF rolled
    <2>6. scan.pos + 1 + rolled.count <= scan.len /\ rolled.count <= BlockLen
      BY <2>2, <2>4, <2>5
    <2> QED
      BY <2>1, <2>3, <2>5, <2>6, DeltaIteration
  <1>3. CASE /\ InLoop("rs_delta_s_scan") /\ scan.pos + BlockLen >= scan.len
             /\ IF job.eof_in THEN Finish(job, "rs_delta_s_flush", "RS_RUNNING")
                ELSE Finish(job, statefn, "RS_BLOCKED")
             /\ UNCHANGED <<basis, scan>>
    BY <1>3, DeltaScanned
  <1> QED
    BY <1>1, <1>2, <1>3 DEF rs_delta_s_scan

\* The last of the input.
LEMMA DeltaFlush == DeltaInv /\ rs_delta_s_flush => DeltaInv'
  <1> SUFFICES ASSUME DeltaInv, rs_delta_s_flush
               PROVE  DeltaInv'
    OBVIOUS
  <1>1. CASE Enter("rs_delta_s_flush")
    BY <1>1, DeltaEnter
  <1>2. CASE /\ InLoop("rs_delta_s_flush") /\ scan.pos < scan.len
             /\ LET f == rs_findmatch(scan)
                IN  Iteration(f, weaksum_rollout(f.scan.weak_sum, ScanByte(scan, scan.pos)))
    <2> DEFINE f == rs_findmatch(scan)
               rolled == weaksum_rollout(f.scan.weak_sum, ScanByte(scan, scan.pos))
    <2>1. pc = "loop" /\ Iteration(rs_findmatch(scan), rolled) /\ scan.pos < scan.len
      BY <1>2 DEF InLoop
    <2>2. scan.pos \in Nat /\ scan.len \in Nat /\ BlockLen \in Nat \ {0}
      BY Amounts DEF ScanOK
    <2>3. /\ SumOK(f.scan.weak_sum) /\ f.scan.weak_sum.count \in Nat \ {0}
          /\ f.scan.weak_sum.count <= BlockLen /\ scan.pos + f.scan.weak_sum.count <= scan.len
      BY <2>1, Found
    <2> HIDE DEF f
    <2>4. SumOK(rolled) /\ rolled.count = f.scan.weak_sum.count - 1
      <3>1. f.scan.weak_sum.count > 0
        BY <2>3
      <3> QED
        BY <2>3, <3>1, SumFacts
    <2> HIDE DEF rolled
    <2>5. scan.pos + 1 + rolled.count <= scan.len /\ rolled.count <= BlockLen
      BY <2>2, <2>3, <2>4
    <2> QED
      BY <2>1, <2>4, <2>5, DeltaIteration
  <1>3. CASE /\ InLoop("rs_delta_s_flush") /\ scan.pos >= scan.len
             /\ LET f == rs_appendflush(State)
                IN  /\ scan' = f.scan
                    /\ Finish(f.job, "rs_delta_s_end",
                              IF f.result = "RS_DONE" THEN "RS_RUNNING" ELSE f.result)
             /\ UNCHANGED basis
    <2> DEFINE f == rs_appendflush(State)
               k == f.job
               r == IF f.result = "RS_DONE" THEN "RS_RUNNING" ELSE f.result
    <2>1. /\ pc = "loop" /\ statefn = "rs_delta_s_flush" /\ scan.pos >= scan.len
          /\ scan' = f.scan /\ Finish(k, "rs_delta_s_end", r) /\ basis' = basis
      BY <1>3 DEF InLoop
    <2>2. DOMAIN State = {"job", "scan", "result"} /\ State.job = job /\ State.scan = scan
      BY DEF State
    <2>3. ScanOK(scan)
      BY Amounts
    <2>4. /\ Balanced(State) /\ rs_tube_is_idle(job) /\ job.copy_len = 0
          /\ scan.len = job.scoop_avail + job.avail_in /\ scan.pos <= scan.len
      BY <2>1, <2>2, <2>3, LoopBalanced
    <2>5. Flushed(State, f)
      BY <2>2, <2>4, AppendflushFacts
    <2> HIDE DEF f
    <2>6. /\ Balanced(f) /\ Work(job, k) /\ f.result \in Results /\ f.scan.pos = 0 /\ f.scan.basis_len = 0
          /\ f.scan.weak_sum = scan.weak_sum
          /\ k.cursor + k.copy_len + f.scan.pos = job.cursor + job.copy_len + scan.pos + 0
      BY <2>2, <2>5 DEF Flushed, Scanning
    <2>7. ScanOK(f.scan) /\ k.asserts /\ JobOK(k) /\ f.scan.len + k.copy_len = k.scoop_avail + k.avail_in
      BY <2>6 DEF Balanced, Solid
    <2>8. f.scan.len = 0
      <3>1. /\ scan.pos \in Nat /\ scan.len \in Nat /\ f.scan.len \in Nat
        BY <2>3, <2>7 DEF ScanOK
      <3>2. f.scan.len - f.scan.pos + 0 = scan.len - scan.pos
        <4>1. 0 \in Nat /\ Scanning(State, f, 0)
          BY <2>5 DEF Flushed
        <4> QED
          BY <2>2, <2>4, <4>1, LessToScan
      <3> QED
        BY <2>1, <2>4, <2>6, <3>1, <3>2
    <2>9. scan.weak_sum.count = 0
      <3>1. 0 + scan.pos + scan.weak_sum.count <= scan.len
        BY <2>4 DEF DeltaInv, Fits
      <3>2. /\ scan.pos \in Nat /\ scan.len \in Nat /\ scan.weak_sum.count \in Nat
        BY <2>3, Amounts DEF ScanOK
      <3> QED
        BY <2>1, <3>1, <3>2
    <2>10. Due("rs_delta_s_end", k, f.scan)
      <3>1. k.eof_in
        BY <2>1, <2>6 DEF DeltaInv, AtEnd, Work
      <3>2. /\ k.copy_len \in Nat /\ k.scoop_avail \in Nat /\ k.avail_in \in Nat
            /\ f.scan.stats.cmdbytes \in Nat /\ f.scan.stats.lit_bytes \in Nat
        BY <2>7 DEF JobOK, ScanOK
      <3>3. k.scoop_avail + k.avail_in = k.copy_len
        BY <2>7, <2>8, <3>2
      <3>4. k.copy_len + f.scan.pos + f.scan.weak_sum.count <= k.scoop_avail + k.avail_in
            /\ f.scan.weak_sum.count <= BlockLen
        <4>1. k.copy_len + 0 + 0 <= k.copy_len /\ 0 <= BlockLen
          BY <3>2, DeltaAssumption
        <4> QED
          BY <2>6, <2>9, <3>3, <4>1
      <3>5. /\ f.scan.stats.lit_bytes + f.scan.stats.copy_bytes + Uncounted(f.scan)
                 = k.cursor + k.copy_len + f.scan.pos
            /\ OutLen(k) + TubeLen(k) + k.copy_len = f.scan.stats.cmdbytes + f.scan.stats.lit_bytes + 4
        BY <2>6 DEF Balanced
      <3>6. f.scan.stats.cmdbytes + f.scan.stats.lit_bytes + 4 = f.scan.stats.cmdbytes + f.scan.stats.lit_bytes + 4 + 0
        BY <3>2
      <3> HIDE DEF k
      <3> QED
        BY <2>6, <3>1, <3>3, <3>4, <3>5, <3>6 DEF Due
    <2>11. r \in {"RS_RUNNING", "RS_DONE", "RS_BLOCKED", "RS_INPUT_ENDED"} /\ r # "RS_DONE"
      BY <2>6 DEF Results
    <2>12. "rs_delta_s_end" \in StateFns
      BY DEF StateFns
    <2> HIDE DEF r, k
    <2> QED
      BY <2>1, <2>6, <2>7, <2>10, <2>11, <2>12, DeltaFinish
  <1> QED
    BY <1>1, <1>2, <1>3 DEF rs_delta_s_flush

\* Nothing happens.
LEMMA DeltaSame == DeltaInv /\ UNCHANGED vars => DeltaInv'
  <1> SUFFICES ASSUME DeltaInv, UNCHANGED vars
               PROVE  DeltaInv'
    OBVIOUS
  <1>1. /\ input' = input /\ job' = job /\ statefn' = statefn /\ pc' = pc /\ result' = result
        /\ basis' = basis /\ scan' = scan
    BY DEF vars, engineVars
  <1>2. JobOK(job)' /\ ScanOK(scan)'
    BY <1>1, Amounts DEF JobOK, ScanOK, SumOK
  <1>3. DeltaTypeOK'
    BY <1>1, <1>2 DEF DeltaInv, DeltaTypeOK
  <1>4. EofIsTrue' /\ TubeFree' /\ Pointed' /\ InTurn' /\ AssertionsHold'
    BY <1>1 DEF DeltaInv, EofIsTrue, TubeFree, Pointed, InTurn, AssertionsHold, Over,
                rs_tube_is_idle, InOnePlace
  <1>5. Due(statefn', job', scan')
    BY <1>1, DueNow
  <1> QED
    BY <1>3, <1>4, <1>5, DueNext DEF DeltaInv

\* The invariant holds throughout.
LEMMA DeltaAlways == Spec => []DeltaInv
  <1>1. DeltaInv /\ [Next]_vars => DeltaInv'
    BY DeltaCalled, DeltaCatchup, DeltaHeader, DeltaScan, DeltaFlush, DeltaEnd, DeltaSlack, DeltaSame
    DEF Next, Step, Stopped
  <1> QED
    BY <1>1, DeltaInit, PTL DEF Spec

-----------------------------------------------------------------------------
\* None of the assertions of delta.c, tube.c, scoop.c and job.c can fail in a
\* delta job: the tube is free when a command is queued and the command fits,
\* and the scanned data is all in one place when rs_processmatch skips it.
THEOREM DeltaAssertions == Spec => []AssertionsHold
  <1>1. DeltaInv => AssertionsHold
    BY DEF DeltaInv
  <1> QED
    BY <1>1, DeltaAlways, PTL

\* Inside the loops of rs_delta_s_scan and rs_delta_s_flush scan_buf points to
\* the unscanned data and scan_len is all there is of it, however often the tube
\* was flushed and the scoop moved since rs_getinput.
THEOREM DeltaPointer == Spec => []ScanPointerValid
  <1>1. DeltaInv => ScanPointerValid
    <2> SUFFICES ASSUME DeltaInv, pc = "loop"
                 PROVE  /\ scan.buf = job.cursor + job.copy_len
                        /\ scan.len = rs_scoop_avail(job) - job.copy_len
                        /\ scan.pos <= scan.len
      BY DEF ScanPointerValid
    <2>1. DOMAIN State = {"job", "scan", "result"} /\ State.job = job /\ State.scan = scan
      BY DEF State
    <2>2. /\ job.copy_len = 0 /\ scan.len = job.scoop_avail + job.avail_in /\ scan.buf = job.cursor
          /\ scan.pos <= scan.len
      <3>1. ScanOK(scan)
        BY Amounts
      <3> QED
        BY <2>1, <3>1, LoopBalanced
    <2>3. job.cursor \in Nat /\ job.scoop_avail \in Nat /\ job.avail_in \in Nat
      BY Amounts
    <2> QED
      BY <2>2, <2>3 DEF rs_scoop_avail
  <1> QED
    BY <1>1, DeltaAlways, PTL

\* The statistics of a delta job that has succeeded account for every byte of the
\* new file, as a literal or a copy, and for every byte of the delta.
THEOREM DeltaStatistics == Spec => []StatisticsBalance
  <1>1. DeltaInv => StatisticsBalance
    <2> SUFFICES ASSUME DeltaInv, result = "RS_DONE"
                 PROVE  /\ Len(input) = scan.stats.lit_bytes + scan.stats.copy_bytes
                        /\ Len(job.out) = 4 + scan.stats.cmdbytes + scan.stats.lit_bytes + 1
      BY DEF StatisticsBalance
    <2>1. statefn = "NULL" /\ job.write_buf = <<>> /\ job.copy_len = 0
      BY DEF DeltaInv, InTurn, rs_tube_is_idle
    <2>2. TubeLen(job) = 0
      BY <2>1 DEF TubeLen
    <2>3. /\ job.eof_in /\ scan.pos = 0 /\ scan.basis_len = 0
          /\ job.scoop_avail + job.avail_in = 0
      BY <2>1 DEF DeltaInv, AtEnd
    <2> DEFINE l == Len(input)
               lit == scan.stats.lit_bytes
               cop == scan.stats.copy_bytes
               cmd == scan.stats.cmdbytes
               o == OutLen(job)
               jc == job.cursor
               js == job.scoop_avail
               ja == job.avail_in
    <2>4. jc + js + ja = l
      BY <2>3 DEF DeltaInv, EofIsTrue
    <2>5. Uncounted(scan) = 0
      BY <2>3 DEF Uncounted
    <2>6. lit + cop + 0 = jc + 0 + 0 /\ o + 0 + 0 = cmd + lit + 4 + 1
      BY <2>1, <2>2, <2>3, <2>5 DEF DeltaInv, Counted
    <2>7. /\ l \in Nat /\ lit \in Nat /\ cop \in Nat /\ cmd \in Nat /\ o \in Nat
          /\ jc \in Nat /\ js \in Nat /\ ja \in Nat
      BY Amounts
    <2>8. js + ja = 0
      BY <2>3
    <2>9. l = lit + cop /\ o = 4 + cmd + lit + 1
      <3> HIDE DEF l, lit, cop, cmd, o, jc, js, ja
      <3> QED
        BY <2>4, <2>6, <2>7, <2>8
    <2> QED
      BY <2>9 DEF OutLen
  <1> QED
    BY <1>1, DeltaAlways, PTL

-----------------------------------------------------------------------------
(* What the commands mean to the patch job's side.                         *)

\* So is a number that fits into the widest integer, in the width that is chosen for it.
LEMMA NetintKept ==
    ASSUME NEW v \in Nat, v < Radix ^ RS_MAX_INT_BYTES \div 2
    PROVE  /\ rs_int_len(v) \in {1, 2, 4, 8}
           /\ NetintValue(Netint(v, rs_int_len(v))) = v
  <1> DEFINE w == rs_int_len(v)
             M == Radix ^ 8
  <1>1. M \in Nat /\ RS_MAX_INT_BYTES = 8
    BY CommandAssumption DEF RS_MAX_INT_BYTES
  <1>2. v < M \div 2
    BY <1>1
  <1>3. v < M /\ ~(v >= M \div 2)
    <2> HIDE DEF M
    <2> QED
      BY <1>1, <1>2
  <1>4. Radix ^ 1 = Radix
    <2>1. Radix ^ 0 = 1 /\ Radix ^ (0 + 1) = Radix * Radix ^ 0 /\ Radix \in Nat
      BY NetintPowers, NetintAssumption
    <2>2. 0 + 1 = 1 /\ Radix * 1 = Radix
      BY <2>1
    <2> QED
      BY <2>1, <2>2
  <1>5. w \in {1, 2, 4, 8} /\ v < Radix ^ w
    <2>1. CASE v < Radix
      BY <1>4, <2>1 DEF rs_int_len
    <2>2. CASE ~(v < Radix) /\ v < Radix ^ 2
      BY <2>2 DEF rs_int_len
    <2>3. CASE ~(v < Radix) /\ ~(v < Radix ^ 2) /\ v < Radix ^ 4
      BY <2>3 DEF rs_int_len
    <2>4. CASE ~(v < Radix) /\ ~(v < Radix ^ 2) /\ ~(v < Radix ^ 4)
      BY <1>3, <2>4 DEF rs_int_len
    <2> QED
      BY <2>1, <2>2, <2>3, <2>4
  <1> HIDE DEF w
  <1>6. w \in Nat /\ w <= 8
    BY <1>5
  <1>7. \A n \in 0 .. w : Radix ^ n \in Nat \ {0}
    <2>1. \A n \in 0 .. w : n \in 0 .. 8
      BY <1>6
    <2>2. \A n \in 0 .. 8 : Radix ^ n \in Nat \ {0}
      BY <1>1, CommandAssumption
    <2> QED
      BY <2>1, <2>2, Zenon
  <1>8. \A n \in 0 .. w - 1 : Radix ^ (n + 1) = Radix * Radix ^ n
    <2>1. \A n \in 0 .. w - 1 : n \in 0 .. 7 /\ 8 - 1 = 7
      BY <1>6
    <2>2. \A n \in 0 .. 8 - 1 : Radix ^ (n + 1) = Radix * Radix ^ n
      BY <1>1, CommandPowers
    <2> QED
      BY <2>1, <2>2, Zenon
  <1>9. Netint(v, w) \in Seq(Nat) /\ Len(Netint(v, w)) = w
    <2>1. v \in Int
      OBVIOUS
    <2> QED
      BY <1>5, <2>1, NetintBytes
  <1>10. Shifted(Netint(v, w)) = v
    BY <1>5, <1>6, <1>7, <1>8, <1>9, NetintBack
  <1>11. NetintValue(Netint(v, w)) = v
    BY <1>1, <1>3, <1>10 DEF NetintValue, Signed
  <1> QED
    BY <1>5, <1>11 DEF w

\* A piece in the middle.
HasWithin(d, s, t, u) ==
    /\ d \in Seq(Nat) /\ Len(d) = Len(s) + Len(t) + Len(u)
    /\ Len(s) \in Nat /\ Len(t) \in Nat /\ Len(u) \in Nat
    /\ \A a \in 1 .. Len(t) : d[Len(s) + a] = t[a]
    /\ \A a \in Nat, b \in Nat :
         a <= b /\ b <= Len(t) => SubSeq(d, Len(s) + a + 1, Len(s) + b) = SubSeq(t, a + 1, b)
\* Where the pieces of a sequence lie.
LEMMA Within ==
    ASSUME NEW s \in Seq(Nat), NEW t \in Seq(Nat), NEW u \in Seq(Nat)
    PROVE  HasWithin((s \o t) \o u, s, t, u)
  <1> DEFINE d == (s \o t) \o u
             x == Len(s)
             y == Len(t)
  <1>1. x \in Nat /\ y \in Nat /\ Len(u) \in Nat
    BY LenProperties
  <1>2. s \o t \in Seq(Nat) /\ Len(s \o t) = x + y /\ \A i \in 1 .. y : (s \o t)[x + i] = t[i]
    BY <1>1
  <1>3. d \in Seq(Nat) /\ Len(d) = (x + y) + Len(u) /\ \A i \in 1 .. x + y : d[i] = (s \o t)[i]
    BY <1>1, <1>2
  <1>4. \A a \in 1 .. y : d[x + a] = t[a]
    BY <1>1, <1>2, <1>3
  <1> HIDE DEF d, x, y
  <1>5. ASSUME NEW a \in Nat, NEW b \in Nat, a <= b, b <= y
        PROVE  SubSeq(d, x + a + 1, x + b) = SubSeq(t, a + 1, b)
    <2>1. PICK n \in Nat : b = a + n
      BY <1>5
    <2>2. PICK m \in Nat : m = x + a
      BY <1>1
    <2>3. m + n <= Len(d) /\ x + a + 1 = m + 1 /\ x + b = m + n
      BY <1>1, <1>3, <1>5, <2>1, <2>2
    <2>4. /\ SubSeq(d, m + 1, m + n) \in Seq(Nat) /\ Len(SubSeq(d, m + 1, m + n)) = n
          /\ \A i \in 1 .. n : SubSeq(d, m + 1, m + n)[i] = d[m + i]
      BY <1>3, <2>3, PieceFacts
    <2>5. /\ SubSeq(t, a + 1, a + n) \in Seq(Nat) /\ Len(SubSeq(t, a + 1, a + n)) = n
          /\ \A i \in 1 .. n : SubSeq(t, a + 1, a + n)[i] = t[a + i]
      BY <1>5, <2>1, PieceFacts DEF y
    <2>6. \A i \in 1 .. n : d[m + i] = t[a + i]
      <3> SUFFICES ASSUME NEW i \in 1 .. n
                   PROVE  d[m + i] = t[a + i]
        OBVIOUS
      <3>1. a + i \in 1 .. y /\ m + i = x + (a + i)
        BY <1>1, <1>5, <2>1, <2>2
      <3> QED
        BY <1>4, <3>1
    <2>7. PICK v1 \in Seq(Nat), v2 \in Seq(Nat) : v1 = SubSeq(d, m + 1, m + n) /\ v2 = SubSeq(t, a + 1, a + n)
      BY <2>4, <2>5
    <2>8. Len(v1) = n /\ Len(v2) = n /\ \A i \in 1 .. n : v1[i] = v2[i]
      BY <2>4, <2>5, <2>6, <2>7
    <2>9. v1 = v2
      BY <2>8, SeqEqual
    <2> QED
      BY <2>1, <2>3, <2>7, <2>9
  <1> QED
    BY <1>1, <1>3, <1>4, <1>5 DEF HasWithin, d, x, y

\* The second of two pieces, the first of which has m bytes.
LEMMA LastPiece ==
    ASSUME NEW s \in Seq(Nat), NEW t \in Seq(Nat)
    PROVE  /\ s \o t \in Seq(Nat) /\ Len(s \o t) = Len(s) + Len(t)
           /\ SubSeq(s \o t, Len(s) + 1, Len(s) + Len(t)) = t
  <1>1. PICK m \in Nat, n \in Nat : m = Len(s) /\ n = Len(t)
    BY LenProperties
  <1>2. PICK x \in Seq(Nat) : x = s \o t
    BY ConcatProperties
  <1>3. Len(x) = m + n /\ \A i \in 1 .. n : x[m + i] = t[i]
    BY <1>1, <1>2
  <1>4. PICK y : y = SubSeq(x, m + 1, m + n)
    OBVIOUS
  <1>5. y \in Seq(Nat) /\ Len(y) = n /\ \A i \in 1 .. n : y[i] = x[m + i]
    BY <1>3, <1>4, PieceFacts
  <1>6. \A i \in 1 .. n : y[i] = t[i]
    BY <1>3, <1>5
  <1>7. y = t
    BY <1>1, <1>5, <1>6, SeqEqual
  <1> QED
    BY <1>1, <1>2, <1>3, <1>4, <1>7

\* And the first.
LEMMA FirstPiece ==
    ASSUME NEW s \in Seq(Nat), NEW t \in Seq(Nat)
    PROVE  /\ s \o t \in Seq(Nat) /\ Len(s \o t) = Len(s) + Len(t)
           /\ Len(s) \in Nat /\ Len(t) \in Nat
           /\ \A i \in 1 .. Len(s) : (s \o t)[i] = s[i]
           /\ \A i \in 1 .. Len(t) : (s \o t)[Len(s) + i] = t[i]
           /\ \A a, n \in Nat :
                a + n <= Len(s) => SubSeq(s \o t, a + 1, a + n) = SubSeq(s, a + 1, a + n)
  <1> DEFINE d == s \o t
  <1>1. Len(s) \in Nat /\ Len(t) \in Nat
    BY LenProperties
  <1>2. d \in Seq(Nat) /\ Len(d) = Len(s) + Len(t)
    BY ConcatProperties
  <1>3. /\ \A i \in 1 .. Len(s) : d[i] = s[i]
        /\ \A i \in 1 .. Len(t) : d[Len(s) + i] = t[i]
    BY <1>1
  <1>4. ASSUME NEW a \in Nat, NEW n \in Nat, a + n <= Len(s)
        PROVE  SubSeq(d, a + 1, a + n) = SubSeq(s, a + 1, a + n)
    <2> HIDE DEF d
    <2>1. PICK x, y : x = SubSeq(d, a + 1, a + n) /\ y = SubSeq(s, a + 1, a + n)
      OBVIOUS
    <2>2. x \in Seq(Nat) /\ Len(x) = n /\ \A i \in 1 .. n : x[i] = d[a + i]
      <3>1. a + n <= Len(d)
        BY <1>1, <1>2, <1>4
      <3> QED
        BY <1>2, <2>1, <3>1, PieceFacts
    <2>3. y \in Seq(Nat) /\ Len(y) = n /\ \A i \in 1 .. n : y[i] = s[a + i]
      BY <1>4, <2>1, PieceFacts
    <2>4. \A i \in 1 .. n : a + i \in 1 .. Len(s)
      BY <1>1, <1>4
    <2>5. \A i \in 1 .. n : x[i] = y[i]
      BY <1>3, <2>2, <2>3, <2>4
    <2>6. x = y
      BY <2>2, <2>3, <2>5, SeqEqual
    <2> QED
      BY <2>1, <2>6
  <1> QED
    BY <1>1, <1>2, <1>3, <1>4

\* The widths and their places in the table.
LEMMA WidthFacts ==
    ASSUME NEW w \in {1, 2, 4, 8}
    PROVE  WidthIndex(w) \in 1 .. 4 /\ Widths[WidthIndex(w)] = w
  <1>1. \E i \in 1 .. 4 : Widths[i] = w
    <2>1. Widths[1] = 1 /\ Widths[2] = 2 /\ Widths[3] = 4 /\ Widths[4] = 8
      BY DEF Widths
    <2> QED
      BY <2>1
  <1> QED
    BY <1>1 DEF WidthIndex

\* A number that is small enough to be sent.
Sendable(v) == v \in Nat /\ v < Radix ^ RS_MAX_INT_BYTES \div 2

\* A literal command is one.
LEMMA LiteralEntry ==
    ASSUME NEW len \in Nat \ {0}, Sendable(len)
    PROVE  LET cmd == rs_emit_literal_cmd(len)
               c == rs_prototab(cmd[1])
           IN  /\ cmd \in Seq(Nat) /\ c.kind = "LITERAL" /\ c.len_2 = 0 /\ c.len_1 \in Nat
               /\ Len(cmd) = 1 + c.len_1
               /\ c.len_1 = 0 => c.immediate = len
               /\ c.len_1 # 0 => NetintValue(SubSeq(cmd, 2, 1 + c.len_1)) = len
  <1> DEFINE cmd == rs_emit_literal_cmd(len)
             c == rs_prototab(cmd[1])
  <1>0. cmd \in Seq(Nat) /\ MaxImmediate \in Nat
    BY CommandBytes, CommandAssumption
  <1>1. CASE len <= MaxImmediate
    <2>1. cmd = <<len>>
      BY <1>1 DEF rs_emit_literal_cmd
    <2>2. cmd[1] = len /\ Len(cmd) = 1
      BY <2>1
    <2>3. c = [kind |-> "LITERAL", immediate |-> len, len_1 |-> 0, len_2 |-> 0]
      BY <1>1, <2>2 DEF rs_prototab, RS_OP_END
    <2> HIDE DEF cmd, c
    <2> QED
      BY <1>0, <2>2, <2>3 DEF cmd, c
  <1>2. CASE ~(len <= MaxImmediate)
    <2> DEFINE w == rs_int_len(len)
               op == RS_OP_LITERAL_N1 + WidthIndex(w) - 1
               t == Netint(len, w)
    <2>1. w \in {1, 2, 4, 8} /\ NetintValue(t) = len
      BY NetintKept DEF Sendable
    <2>2. WidthIndex(w) \in 1 .. 4 /\ Widths[WidthIndex(w)] = w
      BY <2>1, WidthFacts
    <2>3. t \in Seq(Nat) /\ Len(t) = w
      <3>1. len \in Int
        OBVIOUS
      <3> QED
        BY <2>1, <3>1, NetintBytes
    <2>4. cmd = <<op>> \o t
      BY <1>2 DEF rs_emit_literal_cmd
    <2>5. op \in Nat /\ rs_prototab(op) = [kind |-> "LITERAL", immediate |-> 0, len_1 |-> w, len_2 |-> 0]
      <3>0. PICK i \in 1 .. 4 : i = WidthIndex(w) /\ Widths[i] = w
        BY <2>2
      <3>1. op = MaxImmediate + i
        BY <1>0, <3>0 DEF RS_OP_LITERAL_N1
      <3>2. /\ op \in Nat /\ op # 0 /\ ~(op <= MaxImmediate) /\ op < MaxImmediate + 5
            /\ (op - (MaxImmediate + 1)) + 1 = i
        BY <1>0, <3>1
      <3> HIDE DEF op
      <3>3. rs_prototab(op) = [kind |-> "LITERAL", immediate |-> 0,
                               len_1 |-> Widths[(op - (MaxImmediate + 1)) + 1], len_2 |-> 0]
        BY <3>2 DEF rs_prototab, RS_OP_END, RS_OP_COPY_N1_N1, RS_OP_LITERAL_N1
      <3> QED
        BY <3>0, <3>2, <3>3
    <2> HIDE DEF op, t, w
    <2>6. <<op>> \in Seq(Nat) /\ Len(<<op>>) = 1 /\ <<op>>[1] = op
      BY <2>5
    <2>7. PICK s \in Seq(Nat) : s = <<op>>
      BY <2>6
    <2>8. w \in Nat \ {0}
      BY <2>1
    <2>9. PICK x \in Seq(Nat) : x = s \o t
      BY <2>3, <2>7, ConcatProperties
    <2>10. /\ Len(x) = 1 + w /\ x[1] = op
           /\ \A i \in 1 .. w : x[1 + i] = t[i]
      BY <2>3, <2>6, <2>7, <2>8, <2>9
    <2>11. SubSeq(x, 2, 1 + w) = t
      <3>1. SubSeq(s \o t, Len(s) + 1, Len(s) + Len(t)) = t
        BY <2>3, LastPiece, Zenon
      <3>2. Len(s) = 1 /\ Len(t) = w /\ 1 + 1 = 2
        BY <2>3, <2>6, <2>7
      <3> QED
        BY <2>9, <3>1, <3>2
    <2>12. cmd = x
      BY <2>4, <2>7, <2>9
    <2>13. c = [kind |-> "LITERAL", immediate |-> 0, len_1 |-> w, len_2 |-> 0]
      BY <2>5, <2>10, <2>12
    <2> HIDE DEF cmd, c
    <2>14. c.kind = "LITERAL" /\ c.len_1 = w /\ c.len_2 = 0
      BY <2>13
    <2> QED
      BY <1>0, <2>1, <2>8, <2>10, <2>11, <2>12, <2>14 DEF cmd, c
  <1> QED
    BY <1>1, <1>2

\* And a copy command is one.
LEMMA CopyEntry ==
    ASSUME NEW where, NEW len, Sendable(where), Sendable(len)
    PROVE  LET cmd == rs_emit_copy_cmd(where, len)
               c == rs_prototab(cmd[1])
           IN  /\ cmd \in Seq(Nat) /\ c.kind = "COPY" /\ c.len_1 \in Nat \ {0} /\ c.len_2 \in Nat \ {0}
               /\ Len(cmd) = 1 + c.len_1 + c.len_2
               /\ NetintValue(SubSeq(cmd, 2, 1 + c.len_1)) = where
               /\ NetintValue(SubSeq(cmd, 2 + c.len_1, 1 + c.len_1 + c.len_2)) = len
  <1> DEFINE cmd == rs_emit_copy_cmd(where, len)
             c == rs_prototab(cmd[1])
             w == rs_int_len(where)
             v == rs_int_len(len)
             op == RS_OP_COPY_N1_N1 + 4 * (WidthIndex(w) - 1) + WidthIndex(v) - 1
             t == Netint(where, w)
             u == Netint(len, v)
  <1>0. where \in Int /\ len \in Int /\ where \in Nat /\ len \in Nat /\ MaxImmediate \in Nat
    BY CommandAssumption DEF Sendable
  <1>1. w \in {1, 2, 4, 8} /\ NetintValue(t) = where /\ v \in {1, 2, 4, 8} /\ NetintValue(u) = len
    BY NetintKept DEF Sendable
  <1>2. /\ WidthIndex(w) \in 1 .. 4 /\ Widths[WidthIndex(w)] = w
        /\ WidthIndex(v) \in 1 .. 4 /\ Widths[WidthIndex(v)] = v
    BY <1>1, WidthFacts
  <1>3. t \in Seq(Nat) /\ Len(t) = w /\ u \in Seq(Nat) /\ Len(u) = v
    BY <1>0, <1>1, NetintBytes
  <1>4. cmd = (<<op>> \o t) \o u
    BY DEF rs_emit_copy_cmd
  <1>5. op \in Nat /\ rs_prototab(op) = [kind |-> "COPY", immediate |-> 0, len_1 |-> w, len_2 |-> v]
    <2>0. PICK i \in 1 .. 4, k \in 1 .. 4 :
            i = WidthIndex(w) /\ Widths[i] = w /\ k = WidthIndex(v) /\ Widths[k] = v
      BY <1>2
    <2>1. op = MaxImmediate + 5 + 4 * (i - 1) + k - 1
      BY <1>0, <2>0 DEF RS_OP_COPY_N1_N1
    <2>2. /\ op \in Nat /\ op # 0 /\ ~(op <= MaxImmediate) /\ ~(op < MaxImmediate + 5)
          /\ op <= MaxImmediate + 5 + 15
          /\ ((op - (MaxImmediate + 5)) \div 4) + 1 = i /\ ((op - (MaxImmediate + 5)) % 4) + 1 = k
      BY <1>0, <2>1
    <2> HIDE DEF op
    <2>3. rs_prototab(op) = [kind |-> "COPY", immediate |-> 0,
                             len_1 |-> Widths[((op - (MaxImmediate + 5)) \div 4) + 1],
                             len_2 |-> Widths[((op - (MaxImmediate + 5)) % 4) + 1]]
      BY <2>2 DEF rs_prototab, RS_OP_END, RS_OP_COPY_N1_N1, LastCommand
    <2> QED
      BY <2>0, <2>2, <2>3
  <1> HIDE DEF op, t, u, w, v
  <1>6. <<op>> \in Seq(Nat) /\ Len(<<op>>) = 1 /\ <<op>>[1] = op
    BY <1>5
  <1>7. PICK s \in Seq(Nat) : s = <<op>>
    BY <1>6
  <1>8. w \in Nat \ {0} /\ v \in Nat \ {0}
    BY <1>1
  <1>9. PICK x \in Seq(Nat) : x = (s \o t) \o u
    BY <1>3, <1>7, Within DEF HasWithin
  <1>10. /\ Len(x) = 1 + w + v
         /\ \A a \in Nat, b \in Nat :
              a <= b /\ b <= w => SubSeq(x, 1 + a + 1, 1 + b) = SubSeq(t, a + 1, b)
    <2>1. Len(s) = 1 /\ Len(t) = w /\ Len(u) = v
      BY <1>3, <1>6, <1>7
    <2>2. /\ Len(x) = Len(s) + Len(t) + Len(u)
          /\ \A a \in Nat, b \in Nat :
               a <= b /\ b <= Len(t) => SubSeq(x, Len(s) + a + 1, Len(s) + b) = SubSeq(t, a + 1, b)
      <3> DEFINE d == (s \o t) \o u
      <3>1. HasWithin(d, s, t, u)
        BY <1>3, Within, Zenon
      <3> HIDE DEF d
      <3>2. x = d
        BY <1>9 DEF d
      <3> QED
        BY <3>1, <3>2, Zenon DEF HasWithin
    <2>3. ASSUME NEW a \in Nat, NEW b \in Nat, a <= b, b <= w
          PROVE  SubSeq(x, 1 + a + 1, 1 + b) = SubSeq(t, a + 1, b)
      <3>1. SubSeq(x, Len(s) + a + 1, Len(s) + b) = SubSeq(t, a + 1, b)
        BY <2>1, <2>2, <2>3
      <3> QED
        BY <2>1, <3>1
    <2> QED
      BY <2>1, <2>2, <2>3
  <1>11. SubSeq(x, 2, 1 + w) = t
    <2>0. 0 \in Nat /\ w \in Nat /\ 0 <= w /\ w <= w
      BY <1>8
    <2>1. SubSeq(x, 1 + 0 + 1, 1 + w) = SubSeq(t, 0 + 1, w)
      BY <1>10, <2>0, Zenon
    <2>2. SubSeq(t, 1, w) = t
      BY <1>3
    <2>3. 1 + 0 + 1 = 2 /\ 0 + 1 = 1
      OBVIOUS
    <2> QED
      BY <2>1, <2>2, <2>3
  <1>12. SubSeq(x, 2 + w, 1 + w + v) = u /\ x[1] = op
    <2>1. PICK y \in Seq(Nat) : y = s \o t /\ Len(y) = 1 + w /\ y[1] = op
      <3>1. s \o t \in Seq(Nat) /\ Len(s \o t) = Len(s) + Len(t) /\ Len(s) = 1 /\ s[1] = op
        BY <1>3, <1>6, <1>7, LastPiece
      <3>2. (s \o t)[1] = s[1]
        BY <1>3, <1>8, <3>1
      <3> QED
        BY <1>3, <3>1, <3>2
    <2>2. SubSeq(y \o u, Len(y) + 1, Len(y) + Len(u)) = u
      BY <1>3, LastPiece, Zenon
    <2>3. (1 + w) + 1 = 2 + w /\ (1 + w) + v = 1 + w + v
      BY <1>8
    <2>4. (y \o u)[1] = y[1]
      BY <1>3, <1>8, <2>1
    <2> QED
      BY <1>3, <1>9, <2>1, <2>2, <2>3, <2>4
  <1>13. cmd = x
    BY <1>4, <1>7, <1>9
  <1>14. c = [kind |-> "COPY", immediate |-> 0, len_1 |-> w, len_2 |-> v]
    BY <1>5, <1>12, <1>13
  <1> HIDE DEF cmd, c
  <1>15. c.kind = "COPY" /\ c.len_1 = w /\ c.len_2 = v
    BY <1>14
  <1> QED
    BY <1>1, <1>8, <1>10, <1>11, <1>12, <1>13, <1>15 DEF cmd, c

\* C is the beginning of a delta, up to a command's end, and means done.
Decodes(C, done) ==
    /\ C \in Seq(Nat) /\ done \in Seq(Nat)
    /\ \A e \in Seq(Nat) : Apply(C \o e, basis) = Preceded(done, Commands(C \o e, basis)[Len(C)])

\* The header by itself means nothing yet.
LEMMA DecodesHeader ==
    ASSUME basis \in Seq(Nat)
    PROVE  Decodes(rs_emit_delta_header, <<>>)
  <1> DEFINE H == rs_emit_delta_header
  <1>1. H \in Seq(Nat) /\ Len(H) = 4 /\ <<>> \in Seq(Nat)
    BY CommandBytes
  <1>2. N4Value(H) = RS_DELTA_MAGIC
    <2> DEFINE M == Radix ^ 4
    <2>1. RS_DELTA_MAGIC \in Nat /\ M \in Nat /\ RS_DELTA_MAGIC < M \div 2
      BY CommandAssumption, NetintAssumption
    <2>2. RS_DELTA_MAGIC < M /\ ~(RS_DELTA_MAGIC >= M \div 2)
      <3> HIDE DEF M
      <3> QED
        BY <2>1
    <2>3. 4 \in Nat /\ RS_DELTA_MAGIC < Radix ^ 4
      BY <2>2
    <2>4. \A n \in 0 .. 4 : Radix ^ n \in Nat \ {0}
      BY NetintAssumption
    <2>5. \A n \in 0 .. 4 - 1 : Radix ^ (n + 1) = Radix * Radix ^ n
      <3>1. 4 - 1 = 3
        OBVIOUS
      <3> QED
        BY <3>1, NetintPowers
    <2>6. Netint(RS_DELTA_MAGIC, 4) \in Seq(Nat) /\ Len(Netint(RS_DELTA_MAGIC, 4)) = 4
      BY <1>1 DEF rs_emit_delta_header
    <2>7. Shifted(Netint(RS_DELTA_MAGIC, 4)) = RS_DELTA_MAGIC
      BY <2>1, <2>3, <2>4, <2>5, <2>6, NetintBack
    <2> QED
      BY <2>2, <2>7 DEF N4Value, rs_emit_delta_header
  <1> HIDE DEF H
  <1>3. ASSUME NEW e \in Seq(Nat)
        PROVE  Apply(H \o e, basis) = Preceded(<<>>, Commands(H \o e, basis)[Len(H)])
    <2> DEFINE d == H \o e
    <2>1. d \in Seq(Nat)
      BY <1>1, LastPiece
    <2>2. Len(d) = 4 + Len(e) /\ Len(e) \in Nat /\ \A i \in 1 .. 4 : d[i] = H[i]
      <3>1. /\ Len(d) = Len(H) + Len(e) /\ Len(e) \in Nat
            /\ \A i \in 1 .. Len(H) : d[i] = H[i]
        BY <1>1, FirstPiece, ZenonT(30)
      <3> HIDE DEF d
      <3> QED
        BY <1>1, <3>1
    <2> HIDE DEF d
    <2>3. SubSeq(d, 1, 4) = H
      <3>1. PICK z \in Nat, n \in Nat : z = 0 /\ n = 4
        OBVIOUS
      <3>2. z + n <= Len(d) /\ z + 1 = 1 /\ z + n = 4
        BY <2>2, <3>1
      <3>3. PICK y : y = SubSeq(d, z + 1, z + n)
        OBVIOUS
      <3>4. y \in Seq(Nat) /\ Len(y) = n /\ \A i \in 1 .. n : y[i] = d[z + i]
        BY <2>1, <3>2, <3>3, PieceFacts
      <3>5. Len(y) = Len(H) /\ \A i \in 1 .. Len(y) : y[i] = H[i]
        BY <1>1, <2>2, <3>1, <3>4
      <3>6. y = H
        BY <1>1, <3>4, <3>5, SeqEqual
      <3> QED
        BY <3>2, <3>3, <3>6
    <2>4. Apply(d, basis) = Commands(d, basis)[4]
      <3>1. ~(Len(d) < 4)
        BY <2>2
      <3> QED
        BY <1>2, <2>3, <3>1, Zenon DEF Apply
    <2>5. Commands(d, basis)[4] \in Meanings
      <3>1. 4 \in 0 .. Len(d) /\ SIZE_MAX \in Nat
        BY <2>2, SizeAssumption
      <3> QED
        BY <2>1, <3>1, CommandsFacts
    <2>6. Preceded(<<>>, Commands(d, basis)[4]) = Commands(d, basis)[4]
      BY <1>1, <2>5, PrecededFacts
    <2> QED
      BY <1>1, <2>4, <2>6 DEF d
  <1> QED
    BY <1>1, <1>3 DEF Decodes, H

\* What a delta means if it ends here.
LEMMA DecodesStop ==
    ASSUME basis \in Seq(Nat), NEW C, NEW done, Decodes(C, done)
    PROVE  /\ MeansEnd(Apply(C, basis), done, "RS_INPUT_ENDED")
           /\ MeansEnd(Apply(C \o rs_emit_end_cmd, basis), done, "RS_DONE")
  <1>0. SIZE_MAX \in Nat /\ C \in Seq(Nat) /\ done \in Seq(Nat) /\ Len(C) \in Nat
    BY SizeAssumption, LenProperties DEF Decodes
  <1>1. MeansEnd(Apply(C, basis), done, "RS_INPUT_ENDED")
    <2>1. <<>> \in Seq(Nat) /\ C \o <<>> = C
      BY <1>0, ConcatEmptySeq
    <2>2. Apply(C, basis) = Preceded(done, Commands(C, basis)[Len(C)])
      BY <2>1 DEF Decodes
    <2>3. Len(C) \in 0 .. Len(C)
      BY <1>0
    <2> QED
      BY <1>0, <2>2, <2>3, CommandMeans
  <1>2. MeansEnd(Apply(C \o rs_emit_end_cmd, basis), done, "RS_DONE")
    <2>1. rs_emit_end_cmd \in Seq(Nat) /\ Len(rs_emit_end_cmd) = 1 /\ rs_emit_end_cmd[1] = 0
      BY CommandBytes DEF rs_emit_end_cmd, RS_OP_END
    <2> DEFINE d == C \o rs_emit_end_cmd
    <2>2. d \in Seq(Nat)
      BY <1>0, <2>1, LastPiece
    <2>3. PICK p \in Nat : p = Len(C)
      BY <1>0
    <2>4. Len(d) = p + 1 /\ d[p + 1] = 0
      <3>1. /\ Len(d) = Len(C) + Len(rs_emit_end_cmd)
            /\ \A i \in 1 .. Len(rs_emit_end_cmd) : d[Len(C) + i] = rs_emit_end_cmd[i]
        BY <1>0, <2>1, FirstPiece, ZenonT(30)
      <3> HIDE DEF d
      <3>2. 1 \in 1 .. Len(rs_emit_end_cmd)
        BY <2>1
      <3> QED
        BY <2>1, <2>3, <3>1, <3>2
    <2>5. Apply(d, basis) = Preceded(done, Commands(d, basis)[p])
      BY <2>1, <2>2, <2>3 DEF Decodes
    <2> HIDE DEF d
    <2>6. CommandAt(d, p) = [kind |-> "END", immediate |-> 0, len_1 |-> 0, len_2 |-> 0]
      BY <2>4 DEF CommandAt, rs_prototab, RS_OP_END
    <2>7. CommandAt(d, p).kind = "END" /\ CommandAt(d, p).len_1 = 0 /\ CommandAt(d, p).len_2 = 0
      BY <2>6
    <2>8. CommandEnd(d, p) = p + 1 /\ p \in 0 .. Len(d) /\ p < Len(d) /\ CommandEnd(d, p) <= Len(d)
      BY <2>4, <2>7 DEF CommandEnd
    <2>9. MeansEnd(Apply(d, basis), done, "RS_DONE")
      BY <1>0, <2>2, <2>5, <2>7, <2>8, CommandMeans
    <2> QED
      BY <2>9 DEF d
  <1> QED
    BY <1>1, <1>2

\* What a command in the middle of a delta adds.
LEMMA LiteralMeans ==
    ASSUME NEW d \in Seq(Nat), basis \in Seq(Nat), SIZE_MAX \in Nat,
           NEW p \in 0 .. Len(d), NEW done \in Seq(Nat), NEW m,
           m = Preceded(done, Commands(d, basis)[p]),
           NEW q \in Nat, NEW n \in Nat, p < Len(d), q <= Len(d), q + n <= Len(d),
           ~(n <= 0 \/ n > SIZE_MAX),
           CommandEnd(d, p) = q, CommandAt(d, p).kind = "LITERAL", FirstParam(d, p) = n
    PROVE  m = Preceded(done \o SubSeq(d, q + 1, q + n), Commands(d, basis)[q + n])
  BY CommandMeans

LEMMA CopyMeans ==
    ASSUME NEW d \in Seq(Nat), basis \in Seq(Nat), SIZE_MAX \in Nat,
           NEW p \in 0 .. Len(d), NEW done \in Seq(Nat), NEW m,
           m = Preceded(done, Commands(d, basis)[p]),
           NEW q \in Nat, NEW where \in Nat, NEW n \in Nat, p < Len(d), q <= Len(d),
           ~(n <= 0 \/ where < 0), where + n <= Len(basis),
           CommandEnd(d, p) = q, CommandAt(d, p).kind = "COPY",
           FirstParam(d, p) = where, SecondParam(d, p) = n
    PROVE  m = Preceded(done \o SubSeq(basis, where + 1, where + n), Commands(d, basis)[q])
  BY CommandMeans

\* A literal adds its bytes.
LEMMA DecodesLiteral ==
    ASSUME basis \in Seq(Nat), NEW C, NEW done, Decodes(C, done),
           NEW data \in Seq(Nat), NEW n \in Nat \ {0}, n = Len(data), Sendable(n), n <= SIZE_MAX
    PROVE  Decodes((C \o rs_emit_literal_cmd(n)) \o data, done \o data)
  <1> DEFINE cmd == rs_emit_literal_cmd(n)
             ent == rs_prototab(cmd[1])
             X == cmd \o data
  <1>0. SIZE_MAX \in Nat /\ C \in Seq(Nat) /\ done \in Seq(Nat) /\ Len(C) \in Nat
    BY SizeAssumption, LenProperties DEF Decodes
  <1>1. /\ cmd \in Seq(Nat) /\ ent.kind = "LITERAL" /\ ent.len_2 = 0 /\ ent.len_1 \in Nat
        /\ Len(cmd) = 1 + ent.len_1
        /\ ent.len_1 = 0 => ent.immediate = n
        /\ ent.len_1 # 0 => NetintValue(SubSeq(cmd, 2, 1 + ent.len_1)) = n
    BY LiteralEntry
  <1> HIDE DEF cmd
  <1>2. PICK w \in Nat : w = ent.len_1
    BY <1>1
  <1>3. /\ X \in Seq(Nat) /\ Len(X) = Len(cmd) + n
        /\ \A i \in 1 .. Len(cmd) : X[i] = cmd[i]
        /\ \A a, l \in Nat : a + l <= Len(cmd) => SubSeq(X, a + 1, a + l) = SubSeq(cmd, a + 1, a + l)
    BY <1>1, FirstPiece, ZenonT(30)
  <1>4. SubSeq(X, Len(cmd) + 1, Len(cmd) + n) = data
    BY <1>1, LastPiece, ZenonT(30)
  <1> HIDE DEF X
  <1>5. /\ Len(X) = 1 + w + n /\ X[1] = cmd[1] /\ SubSeq(X, (1 + w) + 1, 1 + w + n) = data
        /\ SubSeq(X, 1 + 1, 1 + w) = SubSeq(cmd, 2, 1 + w)
    <2>1. Len(cmd) = 1 + w
      BY <1>1, <1>2
    <2>2. 1 \in 1 .. Len(cmd) /\ 1 \in Nat /\ 1 + w <= Len(cmd)
      BY <2>1
    <2>3. X[1] = cmd[1]
      BY <1>3, <2>2
    <2>4. SubSeq(X, 1 + 1, 1 + w) = SubSeq(cmd, 1 + 1, 1 + w)
      BY <1>3, <2>2, Zenon
    <2>5. Len(X) = 1 + w + n
      BY <1>3, <2>1
    <2>6. SubSeq(X, (1 + w) + 1, (1 + w) + n) = data /\ (1 + w) + n = 1 + w + n /\ 1 + 1 = 2
      <3>1. SubSeq(X, (1 + w) + 1, (1 + w) + n) = data
        BY <1>4, <2>1, Zenon
      <3>2. (1 + w) + n = 1 + w + n /\ 1 + 1 = 2
        OBVIOUS
      <3> QED
        BY <3>1, <3>2, Zenon
    <2> QED
      BY <2>3, <2>4, <2>5, <2>6
  <1>6. done \o data \in Seq(Nat)
    BY <1>0, LastPiece
  <1>7. ASSUME NEW e \in Seq(Nat)
        PROVE  Apply((C \o X) \o e, basis)
                 = Preceded(done \o data, Commands((C \o X) \o e, basis)[Len(C) + Len(X)])
    <2> DEFINE d == (C \o X) \o e
    <2>0. C \in Seq(Nat) /\ X \in Seq(Nat)
      BY <1>0, <1>3
    <2>1. /\ d \in Seq(Nat) /\ Len(d) = Len(C) + Len(X) + Len(e) /\ Len(e) \in Nat
          /\ \A a \in 1 .. Len(X) : d[Len(C) + a] = X[a]
          /\ \A a \in Nat, b \in Nat :
               a <= b /\ b <= Len(X) => SubSeq(d, Len(C) + a + 1, Len(C) + b) = SubSeq(X, a + 1, b)
      <3>1. HasWithin(d, C, X, e)
        BY <2>0, Within, Zenon
      <3> HIDE DEF d
      <3> QED
        BY <3>1, Zenon DEF HasWithin
    <2>2. Apply(d, basis) = Preceded(done, Commands(d, basis)[Len(C)])
      <3>1. X \o e \in Seq(Nat)
        BY <2>0, LastPiece, Zenon
      <3>2. d = C \o (X \o e)
        <4>1. C \in Seq(Nat) /\ X \in Seq(Nat) /\ e \in Seq(Nat)
          BY <2>0, Zenon
        <4> QED
          BY <4>1, ConcatBytes, ZenonT(30)
      <3> HIDE DEF d
      <3> QED
        BY <3>1, <3>2, Zenon DEF Decodes
    <2> HIDE DEF d
    <2>3. PICK p \in Nat : p = Len(C)
      BY <1>0
    <2>4. Len(d) = p + (1 + w + n) + Len(e)
      BY <1>5, <2>1, <2>3
    <2>5. d[p + 1] = cmd[1]
      BY <1>5, <2>1, <2>3
    <2>6. CommandAt(d, p) = ent /\ CommandEnd(d, p) = p + 1 + w
      <3>1. CommandAt(d, p) = ent
        BY <2>5, Zenon DEF CommandAt
      <3>2. CommandEnd(d, p) = p + 1 + w + 0
        BY <1>1, <1>2, <3>1, Zenon DEF CommandEnd
      <3>3. p + 1 + w + 0 = p + 1 + w
        OBVIOUS
      <3> QED
        BY <3>1, <3>2, <3>3, Zenon
    <2>7. SubSeq(d, p + 1 + 1, p + (1 + w)) = SubSeq(cmd, 2, 1 + w)
      <3>1. 1 \in Nat /\ 1 + w \in Nat /\ 1 <= 1 + w /\ 1 + w <= Len(X)
        BY <1>5
      <3>2. SubSeq(d, Len(C) + 1 + 1, Len(C) + (1 + w)) = SubSeq(X, 1 + 1, 1 + w)
        BY <2>1, <3>1, Zenon
      <3> QED
        BY <1>5, <2>3, <3>2
    <2>8. FirstParam(d, p) = n
      <3>1. p + 1 + 1 = p + 2 /\ p + (1 + w) = p + 1 + w
        OBVIOUS
      <3>2. SubSeq(d, p + 2, p + 1 + w) = SubSeq(cmd, 2, 1 + w)
        BY <2>7, <3>1
      <3>3. w = 0 => ent.immediate = n
        BY <1>1, <1>2
      <3>4. w # 0 => NetintValue(SubSeq(cmd, 2, 1 + w)) = n
        BY <1>1, <1>2
      <3>5. FirstParam(d, p) = IF w = 0 THEN ent.immediate ELSE NetintValue(SubSeq(d, p + 2, p + 1 + w))
        BY <1>2, <2>6 DEF FirstParam
      <3> QED
        BY <3>2, <3>3, <3>4, <3>5
    <2>9. SubSeq(d, (p + 1 + w) + 1, (p + 1 + w) + n) = data
      <3>1. 1 + w \in Nat /\ 1 + w + n \in Nat /\ 1 + w <= 1 + w + n /\ 1 + w + n <= Len(X)
        BY <1>5
      <3>2. SubSeq(d, Len(C) + (1 + w) + 1, Len(C) + (1 + w + n)) = SubSeq(X, (1 + w) + 1, 1 + w + n)
        BY <2>1, <3>1, Zenon
      <3>3. p + (1 + w) + 1 = (p + 1 + w) + 1 /\ p + (1 + w + n) = (p + 1 + w) + n
        OBVIOUS
      <3> QED
        BY <1>5, <2>3, <3>2, <3>3
    <2>10. PICK q \in Nat : q = p + 1 + w
      OBVIOUS
    <2>11. p \in 0 .. Len(d) /\ p < Len(d) /\ q <= Len(d) /\ q + n <= Len(d) /\ ~(n <= 0 \/ n > SIZE_MAX)
      BY <1>0, <2>1, <2>4, <2>10
    <2>12. Apply(d, basis) = Preceded(done \o SubSeq(d, q + 1, q + n), Commands(d, basis)[q + n])
      <3>1. CommandEnd(d, p) = q /\ CommandAt(d, p).kind = "LITERAL" /\ FirstParam(d, p) = n
        BY <1>1, <2>6, <2>8, <2>10
      <3>2. Apply(d, basis) = Preceded(done, Commands(d, basis)[p])
        BY <2>2, <2>3
      <3>3. /\ d \in Seq(Nat) /\ SIZE_MAX \in Nat /\ done \in Seq(Nat) /\ p \in 0 .. Len(d)
            /\ p < Len(d) /\ q <= Len(d) /\ q + n <= Len(d) /\ ~(n <= 0 \/ n > SIZE_MAX)
            /\ n \in Nat
        BY <1>0, <2>1, <2>11
      <3> QED
        BY <3>1, <3>2, <3>3, LiteralMeans, ZenonT(40)
    <2>13. SubSeq(d, q + 1, q + n) = data /\ q + n = Len(C) + Len(X)
      <3>1. SubSeq(d, q + 1, q + n) = data
        BY <2>9, <2>10, Zenon
      <3>2. Len(X) = 1 + w + n /\ Len(C) = p
        BY <1>5, <2>3, Zenon
      <3>3. p + 1 + w + n = p + (1 + w + n)
        OBVIOUS
      <3> QED
        BY <2>10, <3>1, <3>2, <3>3, Zenon
    <2> QED
      BY <2>12, <2>13 DEF d
  <1>8. /\ C \o X \in Seq(Nat) /\ Len(C \o X) = Len(C) + Len(X)
        /\ (C \o cmd) \o data = C \o X
    <2>1. C \o X \in Seq(Nat) /\ Len(C \o X) = Len(C) + Len(X)
      BY <1>0, <1>3, LastPiece, Zenon
    <2>2. (C \o cmd) \o data = C \o X
      <3>1. C \in Seq(Nat) /\ cmd \in Seq(Nat) /\ data \in Seq(Nat)
        BY <1>0, <1>1, Zenon
      <3>2. (C \o cmd) \o data = C \o (cmd \o data)
        BY <3>1, ConcatBytes, ZenonT(30)
      <3> QED
        BY <3>2, Zenon DEF X
    <2> QED
      BY <2>1, <2>2
  <1>9. Decodes(C \o X, done \o data)
    BY <1>6, <1>7, <1>8 DEF Decodes
  <1> QED
    BY <1>8, <1>9 DEF cmd

\* A copy adds a piece of the basis.
LEMMA DecodesCopy ==
    ASSUME basis \in Seq(Nat), NEW C, NEW done, Decodes(C, done),
           NEW where \in Nat, NEW len \in Nat \ {0}, where + len <= Len(basis),
           Sendable(where), Sendable(len)
    PROVE  Decodes(C \o rs_emit_copy_cmd(where, len), done \o SubSeq(basis, where + 1, where + len))
  <1> DEFINE X == rs_emit_copy_cmd(where, len)
             ent == rs_prototab(X[1])
             data == SubSeq(basis, where + 1, where + len)
  <1>0. SIZE_MAX \in Nat /\ C \in Seq(Nat) /\ done \in Seq(Nat) /\ Len(C) \in Nat
    BY SizeAssumption, LenProperties DEF Decodes
  <1>1. /\ X \in Seq(Nat) /\ ent.kind = "COPY" /\ ent.len_1 \in Nat \ {0} /\ ent.len_2 \in Nat \ {0}
        /\ Len(X) = 1 + ent.len_1 + ent.len_2
        /\ NetintValue(SubSeq(X, 2, 1 + ent.len_1)) = where
        /\ NetintValue(SubSeq(X, 2 + ent.len_1, 1 + ent.len_1 + ent.len_2)) = len
    BY CopyEntry
  <1> HIDE DEF X
  <1>2. PICK w \in Nat, v \in Nat : w = ent.len_1 /\ v = ent.len_2 /\ w # 0 /\ v # 0
    BY <1>1
  <1>3. /\ Len(X) = 1 + w + v
        /\ NetintValue(SubSeq(X, 2, 1 + w)) = where
        /\ NetintValue(SubSeq(X, 2 + w, 1 + w + v)) = len
    BY <1>1, <1>2
  <1>4. data \in Seq(Nat)
    BY PieceFacts
  <1>5. done \o data \in Seq(Nat)
    BY <1>0, <1>4, LastPiece
  <1> HIDE DEF data
  <1>6. ASSUME NEW e \in Seq(Nat)
        PROVE  Apply((C \o X) \o e, basis)
                 = Preceded(done \o data, Commands((C \o X) \o e, basis)[Len(C) + Len(X)])
    <2> DEFINE d == (C \o X) \o e
    <2>0. C \in Seq(Nat) /\ X \in Seq(Nat)
      BY <1>0, <1>1
    <2>1. /\ d \in Seq(Nat) /\ Len(d) = Len(C) + Len(X) + Len(e) /\ Len(e) \in Nat
          /\ \A a \in 1 .. Len(X) : d[Len(C) + a] = X[a]
          /\ \A a \in Nat, b \in Nat :
               a <= b /\ b <= Len(X) => SubSeq(d, Len(C) + a + 1, Len(C) + b) = SubSeq(X, a + 1, b)
      <3>1. HasWithin(d, C, X, e)
        BY <2>0, Within, Zenon
      <3> HIDE DEF d
      <3> QED
        BY <3>1, Zenon DEF HasWithin
    <2>2. Apply(d, basis) = Preceded(done, Commands(d, basis)[Len(C)])
      <3>1. X \o e \in Seq(Nat)
        BY <2>0, LastPiece, Zenon
      <3>2. d = C \o (X \o e)
        <4>1. C \in Seq(Nat) /\ X \in Seq(Nat) /\ e \in Seq(Nat)
          BY <2>0, Zenon
        <4> QED
          BY <4>1, ConcatBytes, ZenonT(30)
      <3> HIDE DEF d
      <3> QED
        BY <3>1, <3>2, Zenon DEF Decodes
    <2> HIDE DEF d
    <2>3. PICK p \in Nat : p = Len(C)
      BY <1>0
    <2>4. Len(d) = p + (1 + w + v) + Len(e)
      BY <1>3, <2>1, <2>3
    <2>5. d[p + 1] = X[1]
      <3>1. 1 \in 1 .. Len(X)
        BY <1>3
      <3> QED
        BY <2>1, <2>3, <3>1
    <2>6. CommandAt(d, p) = ent /\ CommandEnd(d, p) = p + 1 + w + v
      BY <1>1, <1>2, <2>3, <2>5 DEF CommandAt, CommandEnd
    <2>7. FirstParam(d, p) = where
      <3>1. 1 \in Nat /\ 1 + w \in Nat /\ 1 <= 1 + w /\ 1 + w <= Len(X)
        BY <1>3
      <3>2. SubSeq(d, Len(C) + 1 + 1, Len(C) + (1 + w)) = SubSeq(X, 1 + 1, 1 + w)
        BY <2>1, <3>1, Zenon
      <3>3. p + 1 + 1 = p + 2 /\ p + (1 + w) = p + 1 + w /\ 1 + 1 = 2
        OBVIOUS
      <3>4. SubSeq(d, p + 2, p + 1 + w) = SubSeq(X, 2, 1 + w)
        BY <2>3, <3>2, <3>3
      <3>5. FirstParam(d, p) = NetintValue(SubSeq(d, p + 2, p + 1 + w))
        BY <1>2, <2>6 DEF FirstParam
      <3> QED
        BY <1>3, <3>4, <3>5
    <2>8. SecondParam(d, p) = len
      <3>1. 1 + w \in Nat /\ 1 + w + v \in Nat /\ 1 + w <= 1 + w + v /\ 1 + w + v <= Len(X)
        BY <1>3
      <3>2. SubSeq(d, Len(C) + (1 + w) + 1, Len(C) + (1 + w + v)) = SubSeq(X, (1 + w) + 1, 1 + w + v)
        BY <2>1, <3>1, Zenon
      <3>3. p + (1 + w) + 1 = p + 2 + w /\ p + (1 + w + v) = p + 1 + w + v /\ (1 + w) + 1 = 2 + w
        OBVIOUS
      <3>4. SubSeq(d, p + 2 + w, p + 1 + w + v) = SubSeq(X, 2 + w, 1 + w + v)
        BY <2>3, <3>2, <3>3
      <3>5. SecondParam(d, p) = NetintValue(SubSeq(d, p + 2 + w, p + 1 + w + v))
        BY <1>2, <2>6 DEF SecondParam
      <3> QED
        BY <1>3, <3>4, <3>5
    <2>10. PICK q \in Nat : q = p + 1 + w + v
      OBVIOUS
    <2>11. p \in 0 .. Len(d) /\ p < Len(d) /\ q <= Len(d) /\ ~(len <= 0 \/ where < 0)
      <3>1. PICK l \in Nat : l = Len(e)
        BY <2>1
      <3>2. Len(d) = p + (1 + w + v) + l
        BY <2>4, <3>1, Zenon
      <3>3. p \in 0 .. p + (1 + w + v) + l /\ p < p + (1 + w + v) + l
            /\ p + 1 + w + v <= p + (1 + w + v) + l
        OBVIOUS
      <3>4. ~(len <= 0 \/ where < 0)
        OBVIOUS
      <3> QED
        BY <2>10, <3>2, <3>3, <3>4, Zenon
    <2>12. Apply(d, basis)
             = Preceded(done \o SubSeq(basis, where + 1, where + len), Commands(d, basis)[q])
      <3>1. /\ CommandEnd(d, p) = q /\ CommandAt(d, p).kind = "COPY"
            /\ FirstParam(d, p) = where /\ SecondParam(d, p) = len
        BY <1>1, <2>6, <2>7, <2>8, <2>10
      <3>2. Apply(d, basis) = Preceded(done, Commands(d, basis)[p])
        BY <2>2, <2>3
      <3>3. /\ d \in Seq(Nat) /\ SIZE_MAX \in Nat /\ done \in Seq(Nat) /\ p \in 0 .. Len(d)
            /\ p < Len(d) /\ q <= Len(d) /\ ~(len <= 0 \/ where < 0)
            /\ where \in Nat /\ len \in Nat /\ where + len <= Len(basis)
        BY <1>0, <2>1, <2>11
      <3> QED
        BY <3>1, <3>2, <3>3, CopyMeans, ZenonT(40)
    <2>13. q = Len(C) + Len(X)
      BY <1>3, <2>3, <2>10
    <2> QED
      BY <2>12, <2>13 DEF d, data
  <1>7. C \o X \in Seq(Nat) /\ Len(C \o X) = Len(C) + Len(X)
    BY <1>0, <1>1, LastPiece, Zenon
  <1>8. Decodes(C \o X, done \o data)
    BY <1>5, <1>6, <1>7 DEF Decodes
  <1> QED
    BY <1>8 DEF X, data

-----------------------------------------------------------------------------
(* What has been put out, and what the tube is going to.                   *)

Total(j) == (j.out \o j.write_buf) \o NextBytes(j, j.copy_len)

\* What has been put out is a sequence of bytes.
LEMMA TotalType ==
    ASSUME NEW j, JobOK(j), j.cursor + j.copy_len <= Len(input)
    PROVE  /\ Total(j) \in Seq(Nat) /\ NextBytes(j, j.copy_len) \in Seq(Nat)
           /\ j.out \o j.write_buf \in Seq(Nat)
           /\ j.copy_len = 0 => Total(j) = j.out \o j.write_buf
           /\ rs_tube_is_idle(j) => Total(j) = j.out
  <1>1. /\ j.out \in Seq(Nat) /\ j.write_buf \in Seq(Nat) /\ input \in Seq(Nat)
        /\ j.cursor \in Nat /\ j.copy_len \in Nat
    BY DEF JobOK
  <1> DEFINE a == j.out \o j.write_buf
             n == NextBytes(j, j.copy_len)
  <1>2. a \in Seq(Nat)
    BY <1>1, LastPiece
  <1>3. n \in Seq(Nat) /\ Len(n) = j.copy_len
    BY <1>1, PieceFacts DEF NextBytes
  <1> HIDE DEF a, n
  <1>4. a \o n \in Seq(Nat)
    BY <1>2, <1>3, LastPiece
  <1>5. ASSUME j.copy_len = 0
        PROVE  a \o n = a
    <2>1. n = <<>>
      BY <1>3, <1>5
    <2> QED
      BY <1>2, <2>1, ConcatEmptySeq
  <1>6. j.write_buf = <<>> => a = j.out
    BY <1>1, ConcatEmptySeq DEF a
  <1>7. Total(j) = a \o n
    BY DEF Total, a, n
  <1>8. j.copy_len = 0 => Total(j) = a
    BY <1>5, <1>7
  <1>9. rs_tube_is_idle(j) => Total(j) = j.out
    BY <1>6, <1>8 DEF rs_tube_is_idle
  <1> QED
    BY <1>2, <1>3, <1>4, <1>7, <1>8, <1>9 DEF a, n

\* rs_tube_catchup moves bytes on and neither adds nor loses one.
LEMMA TotalKept ==
    ASSUME NEW j, JobOK(j), j.cursor + j.copy_len <= Len(input)
    PROVE  Total(rs_tube_catchup(j).job) = Total(j)
  <1> DEFINE w == rs_tube_catchup_write(j)
             k == rs_tube_catchup_copy(w)
             c == rs_tube_catchup(j)
  <1>1. /\ Work(j, w) /\ SameInput(j, w) /\ w.copy_len = j.copy_len /\ JobOK(w)
    BY CatchupWriteFacts DEF Work
  <1>2. w.out \o w.write_buf = j.out \o j.write_buf
    BY CatchupWriteKeeps
  <1>3. Total(w) = Total(j)
    <2> HIDE DEF w
    <2>1. NextBytes(w, w.copy_len) = NextBytes(j, j.copy_len)
      BY <1>1 DEF NextBytes, SameInput
    <2> QED
      BY <1>2, <2>1 DEF Total
  <1>4. CASE w.write_buf # <<>>
    <2>1. c.job = w
      BY <1>4 DEF rs_tube_catchup
    <2> QED
      BY <1>3, <2>1
  <1>5. CASE w.write_buf = <<>>
    <2>1. c.job = k
      BY <1>5 DEF rs_tube_catchup
    <2>2. /\ k.out = w.out \o SubSeq(input, w.cursor + 1, k.cursor) /\ w.cursor <= k.cursor
          /\ k.cursor + k.copy_len = w.cursor + w.copy_len /\ Work(w, k) /\ k.write_buf = w.write_buf
      BY <1>1, CatchupCopyMoves, CatchupCopyFacts
    <2> HIDE DEF w, k, c
    <2>3. /\ w.cursor \in Nat /\ w.copy_len \in Nat /\ k.cursor \in Nat /\ k.copy_len \in Nat
          /\ w.out \in Seq(Nat) /\ k.out \in Seq(Nat) /\ input \in Seq(Nat) /\ Len(input) \in Nat
          /\ JobOK(k) /\ w.cursor + w.copy_len <= Len(input)
      <3>1. JobOK(k)
        BY <2>2 DEF Work
      <3>2. w.cursor + w.copy_len <= Len(input)
        BY <1>1 DEF SameInput
      <3> QED
        BY <1>1, <3>1, <3>2, LenProperties DEF JobOK
    <2>4. PICK a \in Nat, b \in Nat, z \in Nat :
            a = w.cursor /\ b = k.cursor /\ z = w.cursor + w.copy_len
      BY <2>3
    <2>5. a <= b /\ b <= z /\ z <= Len(input) /\ k.cursor + k.copy_len = z
      BY <2>2, <2>3, <2>4
    <2> DEFINE s1 == SubSeq(input, a + 1, b)
               s2 == SubSeq(input, b + 1, z)
               s3 == SubSeq(input, a + 1, z)
    <2>6. s1 \o s2 = s3
      BY <2>3, <2>5, PiecesJoin
    <2>7. s1 \in Seq(Nat) /\ s2 \in Seq(Nat)
      <3>1. b <= Len(input)
        BY <2>3, <2>5
      <3>2. s1 \in Seq(Nat)
        BY <2>3, <2>5, <3>1, PartFacts
      <3>3. s2 \in Seq(Nat)
        BY <2>3, <2>5, PartFacts
      <3> QED
        BY <3>2, <3>3
    <2>8. NextBytes(k, k.copy_len) = s2 /\ NextBytes(w, w.copy_len) = s3 /\ k.out = w.out \o s1
      BY <2>2, <2>4, <2>5 DEF NextBytes
    <2> HIDE DEF s1, s2, s3
    <2>9. k.out \o k.write_buf = k.out /\ w.out \o w.write_buf = w.out
      BY <1>5, <2>2, <2>3, ConcatEmptySeq
    <2>10. Total(k) = (w.out \o s1) \o s2
      BY <2>8, <2>9 DEF Total
    <2>11. (w.out \o s1) \o s2 = w.out \o (s1 \o s2)
      BY <2>3, <2>7, ConcatBytes
    <2>12. Total(w) = w.out \o s3
      BY <2>8, <2>9 DEF Total
    <2>13. Total(k) = Total(w)
      BY <2>6, <2>10, <2>11, <2>12
    <2> QED
      BY <1>3, <2>1, <2>13 DEF c
  <1> QED
    BY <1>4, <1>5

\* The files are among those that can be sent.
FilesFit == input \in Inputs /\ basis \in Bases

\* Lengths and places in the files can be sent.
LEMMA FileSizes ==
    ASSUME FilesFit
    PROVE  /\ input \in Seq(Nat) /\ basis \in Seq(Nat) /\ Len(input) \in Nat /\ Len(basis) \in Nat
           /\ \A n \in Nat : n <= Len(input) => Sendable(n) /\ n <= SIZE_MAX
           /\ \A n \in Nat : n <= Len(basis) => Sendable(n)
  <1>1. input \in Seq(Nat) /\ basis \in Seq(Nat)
    BY DeltaAssumption DEF FilesFit
  <1>2. Len(input) \in Nat /\ Len(basis) \in Nat
    BY <1>1, LenProperties
  <1>3. PICK l : l = Radix ^ RS_MAX_INT_BYTES \div 2
    OBVIOUS
  <1>4. l \in Int
    <2>1. RS_MAX_INT_BYTES \in 0 .. RS_MAX_INT_BYTES
      BY DEF RS_MAX_INT_BYTES
    <2>2. PICK m \in Nat : m = Radix ^ RS_MAX_INT_BYTES
      BY <2>1, CommandAssumption
    <2> QED
      BY <1>3, <2>2
  <1>5. Len(input) <= SIZE_MAX /\ SIZE_MAX \in Nat /\ Len(input) < l /\ Len(basis) < l
    BY <1>3, SizeAssumption DEF FilesFit
  <1>6. \A n \in Nat : n <= Len(input) => n < l /\ n <= SIZE_MAX
    BY <1>2, <1>4, <1>5
  <1>7. \A n \in Nat : n <= Len(basis) => n < l
    BY <1>2, <1>4, <1>5
  <1> QED
    BY <1>1, <1>2, <1>3, <1>6, <1>7 DEF Sendable

\* The last len bytes of the first S of the new file are those of the basis at where.
Matching(where, len, S) ==
    /\ len <= S /\ where \in Nat /\ where + len <= Len(basis)
    /\ SubSeq(basis, where + 1, where + len) = SubSeq(input, (S - len) + 1, S)

\* The part of the new file up to S.
UpTo(S) == SubSeq(input, 1, S)

\* One part of the new file follows the other.
LEMMA UpToJoins ==
    ASSUME input \in Seq(Nat), NEW a \in Nat, NEW b \in Nat, a <= b, b <= Len(input)
    PROVE  /\ UpTo(a) \o SubSeq(input, a + 1, b) = UpTo(b)
           /\ UpTo(a) \in Seq(Nat) /\ SubSeq(input, a + 1, b) \in Seq(Nat)
  <1>1. PICK z \in Nat : z = 0 /\ z + 1 = 1 /\ z <= a
    OBVIOUS
  <1>2. SubSeq(input, z + 1, a) \o SubSeq(input, a + 1, b) = SubSeq(input, z + 1, b)
    BY <1>1, PiecesJoin
  <1>3. a <= Len(input) /\ Len(input) \in Nat
    BY LenProperties
  <1>4. SubSeq(input, z + 1, a) \in Seq(Nat) /\ SubSeq(input, a + 1, b) \in Seq(Nat)
    BY <1>1, <1>3, PartFacts
  <1> QED
    BY <1>1, <1>2, <1>4 DEF UpTo

\* A match is sent.
LEMMA TellCopy ==
    ASSUME FilesFit, NEW T, NEW S \in Nat, S <= Len(input), NEW where, NEW len \in Nat \ {0},
           Matching(where, len, S), Decodes(T, UpTo(S - len))
    PROVE  Decodes(T \o rs_emit_copy_cmd(where, len), UpTo(S))
  <1>1. /\ input \in Seq(Nat) /\ basis \in Seq(Nat) /\ Len(input) \in Nat /\ Len(basis) \in Nat
        /\ \A n \in Nat : n <= Len(input) => Sendable(n) /\ n <= SIZE_MAX
        /\ \A n \in Nat : n <= Len(basis) => Sendable(n)
    BY FileSizes
  <1>2. /\ len <= S /\ where \in Nat /\ where + len <= Len(basis)
        /\ SubSeq(basis, where + 1, where + len) = SubSeq(input, (S - len) + 1, S)
    BY DEF Matching
  <1>3. Sendable(where) /\ Sendable(len)
    BY <1>1, <1>2
  <1>4. PICK a \in Nat : a = S - len /\ a <= S
    BY <1>2
  <1>5. Decodes(T \o rs_emit_copy_cmd(where, len), UpTo(a) \o SubSeq(basis, where + 1, where + len))
    BY <1>1, <1>2, <1>3, <1>4, DecodesCopy
  <1>6. UpTo(a) \o SubSeq(input, a + 1, S) = UpTo(S)
    BY <1>1, <1>4, UpToJoins
  <1> QED
    BY <1>2, <1>4, <1>5, <1>6

\* A miss is sent.
LEMMA TellLiteral ==
    ASSUME FilesFit, NEW T, NEW a \in Nat, NEW n \in Nat \ {0}, a + n <= Len(input), Decodes(T, UpTo(a))
    PROVE  Decodes((T \o rs_emit_literal_cmd(n)) \o SubSeq(input, a + 1, a + n), UpTo(a + n))
  <1>1. /\ input \in Seq(Nat) /\ basis \in Seq(Nat) /\ Len(input) \in Nat
        /\ \A m \in Nat : m <= Len(input) => Sendable(m) /\ m <= SIZE_MAX
    BY FileSizes
  <1>2. Sendable(n) /\ n <= SIZE_MAX
    BY <1>1
  <1>3. PICK data : data = SubSeq(input, a + 1, a + n)
    OBVIOUS
  <1>4. data \in Seq(Nat) /\ Len(data) = n
    BY <1>1, <1>3, PieceFacts
  <1>5. Decodes((T \o rs_emit_literal_cmd(n)) \o data, UpTo(a) \o data)
    BY <1>1, <1>2, <1>4, DecodesLiteral
  <1>6. UpTo(a) \o data = UpTo(a + n)
    <2>1. a + n \in Nat /\ a <= a + n
      OBVIOUS
    <2> QED
      BY <1>1, <1>3, <2>1, UpToJoins
  <1> QED
    BY <1>3, <1>5, <1>6

\* What rs_processmatch does to the output: nothing is added.
LEMMA ProcessmatchTotal ==
    ASSUME NEW st, DOMAIN st = {"job", "scan", "result"}, JobOK(st.job), InOnePlace(st.job),
           st.job.copy_len = 0, st.scan.pos \in Nat,
           st.scan.pos <= st.job.scoop_avail + st.job.avail_in
    PROVE  Total(rs_processmatch(st).job) = Total(st.job)
  <1> DEFINE j == st.job
             n == st.scan.pos
             a == Assert_(j, j.copy_len = 0)
             k == rs_scoop_advance(a, n)
             c == rs_tube_catchup(k)
  <1>1. rs_processmatch(st).job = c.job
    BY DEF rs_processmatch, CatchUp
  <1>2. Work(j, a) /\ SameOutput(j, a) /\ SameInput(j, a)
    BY AssertFacts
  <1>3. JobOK(a) /\ Contiguous(a, n)
    <2>1. /\ a.scoop_avail = j.scoop_avail /\ a.avail_in = j.avail_in /\ JobOK(a)
          /\ j.scoop_avail \in Nat /\ j.avail_in \in Nat /\ InOnePlace(j)
      BY <1>2 DEF Work, SameInput, JobOK
    <2> HIDE DEF a, n, j
    <2>2. n \in Nat /\ n <= j.scoop_avail + j.avail_in
      BY DEF n, j
    <2> QED
      BY <2>1, <2>2 DEF InOnePlace, Contiguous
  <1> HIDE DEF a
  <1>4. Work(a, k) /\ SameOutput(a, k)
    BY <1>3, AdvanceFacts
  <1>5. JobOK(k) /\ k.copy_len = 0 /\ k.out = j.out /\ k.write_buf = j.write_buf
    BY <1>2, <1>4 DEF Work, SameOutput
  <1> HIDE DEF k
  <1>6. k.cursor + k.copy_len <= Len(input) /\ j.cursor + j.copy_len <= Len(input)
    <2>1. /\ k.cursor \in Nat /\ k.scoop_avail \in Nat /\ k.avail_in \in Nat
          /\ k.cursor + k.scoop_avail + k.avail_in <= Len(input) /\ k.copy_len = 0
      BY <1>5 DEF JobOK
    <2>2. /\ j.cursor \in Nat /\ j.scoop_avail \in Nat /\ j.avail_in \in Nat
          /\ j.cursor + j.scoop_avail + j.avail_in <= Len(input) /\ j.copy_len = 0
      BY DEF JobOK
    <2>3. Len(input) \in Nat
      BY <1>5, LengthFacts
    <2>4. \A x, y, z, l \in Nat : x + y + z <= l => x + 0 <= l
      OBVIOUS
    <2> QED
      BY <2>1, <2>2, <2>3, <2>4, Zenon
  <1>7. Total(c.job) = Total(k)
    BY <1>5, <1>6, TotalKept
  <1>8. Total(k) = k.out \o k.write_buf /\ Total(j) = j.out \o j.write_buf
    BY <1>5, <1>6, TotalType
  <1> QED
    BY <1>1, <1>5, <1>7, <1>8

\* rs_processmiss adds the bytes that were collected.
LEMMA ProcessmissTotal ==
    ASSUME NEW st, DOMAIN st = {"job", "scan", "result"}, JobOK(st.job),
           st.job.copy_len = 0, st.scan.pos \in Nat,
           st.scan.pos <= st.job.scoop_avail + st.job.avail_in
    PROVE  Total(rs_processmiss(st).job)
             = Total(st.job) \o SubSeq(input, st.job.cursor + 1, st.job.cursor + st.scan.pos)
  <1> DEFINE j == st.job
             n == st.scan.pos
             a == Assert_(j, j.write_buf # <<>>)
             k == rs_tube_copy(a, n)
             c == rs_tube_catchup(k)
  <1>1. rs_processmiss(st).job = c.job
    BY DEF rs_processmiss, CatchUp
  <1>2. Work(j, a) /\ SameOutput(j, a) /\ SameInput(j, a)
    BY AssertFacts
  <1>3. JobOK(a)
    BY <1>2 DEF Work
  <1> HIDE DEF a
  <1>4. Work(a, k) /\ SameInput(a, k) /\ k.out = a.out /\ k.write_buf = a.write_buf /\ k.copy_len = n
    <2> HIDE DEF n
    <2>1. n \in Nat
      BY DEF n
    <2> QED
      BY <1>3, <2>1, TubeFacts
  <1>5. JobOK(k) /\ k.copy_len = n /\ k.out = j.out /\ k.write_buf = j.write_buf /\ k.cursor = j.cursor
    BY <1>2, <1>4 DEF Work, SameOutput, SameInput
  <1> HIDE DEF k
  <1>6. k.cursor + k.copy_len <= Len(input) /\ j.cursor + j.copy_len <= Len(input)
    <2>1. /\ j.cursor \in Nat /\ j.scoop_avail \in Nat /\ j.avail_in \in Nat /\ Len(input) \in Nat
          /\ j.cursor + j.scoop_avail + j.avail_in <= Len(input)
      BY LengthFacts DEF JobOK
    <2> QED
      BY <1>5, <2>1
  <1>7. Total(c.job) = Total(k)
    BY <1>5, <1>6, TotalKept
  <1>8. Total(j) = j.out \o j.write_buf
    BY <1>6, TotalType
  <1>9. Total(k) = (j.out \o j.write_buf) \o SubSeq(input, j.cursor + 1, j.cursor + n)
    BY <1>5 DEF Total, NextBytes
  <1> QED
    BY <1>1, <1>7, <1>8, <1>9

\* A command is added to what an idle tube has put out.
LEMMA WrittenTotal ==
    ASSUME NEW j, JobOK(j), rs_tube_is_idle(j), NEW cmd \in Seq(Nat)
    PROVE  LET k == rs_tube_write(j, cmd)
           IN  /\ Total(k) = Total(j) \o cmd /\ JobOK(k) /\ k.copy_len = 0 /\ SameInput(j, k)
  <1> DEFINE k == rs_tube_write(j, cmd)
  <1>1. /\ Work(j, k) /\ SameInput(j, k) /\ k.out = j.out /\ k.copy_len = j.copy_len
        /\ k.write_buf = j.write_buf \o cmd
    BY TubeFacts
  <1>2. JobOK(k) /\ j.copy_len = 0 /\ j.write_buf = <<>> /\ k.cursor = j.cursor
    BY <1>1 DEF Work, rs_tube_is_idle, SameInput
  <1> HIDE DEF k
  <1>3. k.write_buf = cmd
    BY <1>1, <1>2, ConcatEmptySeq
  <1>4. k.cursor + k.copy_len <= Len(input) /\ j.cursor + j.copy_len <= Len(input)
    BY <1>1, <1>2, LengthFacts DEF JobOK
  <1>5. Total(k) = k.out \o k.write_buf /\ Total(j) = j.out
    BY <1>1, <1>2, <1>4, TotalType
  <1> QED
    BY <1>1, <1>2, <1>3, <1>5 DEF k

\* T, what has been put out, and the match or the miss that s collects stand for
\* the first S bytes of the new file.
Told(T, s, S) ==
    /\ Uncounted(s) <= S
    /\ Decodes(T, UpTo(S - Uncounted(s)))
    /\ s.basis_len > 0 => Matching(s.basis_pos, s.basis_len, S)

\* rs_appendflush sends what was collected.
LEMMA AppendflushTells ==
    ASSUME FilesFit, NEW st, Balanced(st), rs_tube_is_idle(st.job),
           NEW S \in Nat, S = st.job.cursor + st.scan.pos, S <= Len(input),
           Told(Total(st.job), st.scan, S)
    PROVE  Decodes(Total(rs_appendflush(st).job), UpTo(S))
  <1> DEFINE j == st.job
             s == st.scan
             t == rs_appendflush(st)
             copy == rs_emit_copy_cmd(s.basis_pos, s.basis_len)
             literal == rs_emit_literal_cmd(s.pos)
  <1>1. /\ JobOK(j) /\ ScanOK(s) /\ j.copy_len = 0 /\ DOMAIN st = {"job", "scan", "result"}
        /\ InOnePlace(j) /\ s.pos <= s.len /\ s.len + j.copy_len = j.scoop_avail + j.avail_in
    BY DEF Balanced, Solid, rs_tube_is_idle
  <1>2. /\ DOMAIN s = ScanFields /\ DOMAIN s.stats = {"lit_bytes", "copy_bytes", "cmdbytes"}
        /\ s.pos \in Nat /\ s.basis_len \in Nat /\ s.basis_pos \in Int /\ s.basis_len \in Int
        /\ s.len \in Nat
    BY <1>1 DEF ScanOK
  <1>3. copy \in Seq(Nat) /\ literal \in Seq(Nat)
    BY <1>2, CommandBytes
  <1>4. s.pos <= j.scoop_avail + j.avail_in /\ j.cursor \in Nat
    <2>1. j.scoop_avail \in Nat /\ j.avail_in \in Nat /\ j.cursor \in Nat
      BY <1>1 DEF JobOK
    <2>2. s.len + 0 = j.scoop_avail + j.avail_in
      BY <1>1
    <2> QED
      BY <1>1, <1>2, <2>1, <2>2
  <1>5. CASE s.basis_len > 0
    <2> DEFINE u == [st EXCEPT
                       !.job = rs_tube_write(@, copy),
                       !.scan.basis_len = 0,
                       !.scan.stats.copy_bytes = @ + s.basis_len,
                       !.scan.stats.cmdbytes = @ + Len(copy)]
    <2>1. t = rs_processmatch(u)
      BY <1>5 DEF rs_appendflush
    <2>2. DOMAIN u = {"job", "scan", "result"} /\ u.job = rs_tube_write(j, copy) /\ u.scan.pos = s.pos
      BY <1>1, <1>2 DEF ScanFields
    <2> HIDE DEF u
    <2>3. Total(u.job) = Total(j) \o copy /\ JobOK(u.job) /\ u.job.copy_len = 0 /\ SameInput(j, u.job)
      BY <1>1, <1>3, <2>2, WrittenTotal
    <2>4. InOnePlace(u.job) /\ u.scan.pos \in Nat /\ u.scan.pos <= u.job.scoop_avail + u.job.avail_in
      BY <1>1, <1>2, <1>4, <2>2, <2>3 DEF SameInput, InOnePlace
    <2>5. Total(t.job) = Total(j) \o copy
      BY <2>1, <2>2, <2>3, <2>4, ProcessmatchTotal
    <2>6. Decodes(Total(j), UpTo(S - s.basis_len)) /\ Matching(s.basis_pos, s.basis_len, S)
      BY <1>5 DEF Told, Uncounted
    <2>7. PICK len, T : len \in Nat \ {0} /\ len = s.basis_len /\ T = Total(j)
      BY <1>2, <1>5
    <2>8. Decodes(T \o rs_emit_copy_cmd(s.basis_pos, len), UpTo(S))
      BY <2>6, <2>7, TellCopy
    <2> QED
      BY <2>5, <2>7, <2>8
  <1>6. CASE ~(s.basis_len > 0) /\ s.pos > 0
    <2> DEFINE u == [st EXCEPT
                       !.job = rs_tube_write(@, literal),
                       !.scan.stats.lit_bytes = @ + s.pos,
                       !.scan.stats.cmdbytes = @ + Len(literal)]
    <2>1. t = rs_processmiss(u)
      BY <1>6 DEF rs_appendflush
    <2>2. DOMAIN u = {"job", "scan", "result"} /\ u.job = rs_tube_write(j, literal) /\ u.scan.pos = s.pos
      BY <1>1, <1>2 DEF ScanFields
    <2> HIDE DEF u
    <2>3. Total(u.job) = Total(j) \o literal /\ JobOK(u.job) /\ u.job.copy_len = 0 /\ SameInput(j, u.job)
      BY <1>1, <1>3, <2>2, WrittenTotal
    <2>4. /\ u.scan.pos \in Nat /\ u.scan.pos <= u.job.scoop_avail + u.job.avail_in
          /\ u.job.cursor = j.cursor
      BY <1>1, <1>2, <1>4, <2>2, <2>3 DEF SameInput
    <2>5. Total(t.job) = (Total(j) \o literal) \o SubSeq(input, j.cursor + 1, j.cursor + s.pos)
      <3>1. Total(t.job) = Total(u.job) \o SubSeq(input, u.job.cursor + 1, u.job.cursor + u.scan.pos)
        BY <2>1, <2>2, <2>3, <2>4, ProcessmissTotal
      <3> QED
        BY <2>2, <2>3, <2>4, <3>1
    <2>6. Decodes(Total(j), UpTo(S - s.pos))
      BY <1>6 DEF Told, Uncounted
    <2>7. PICK n, T, a :
            n \in Nat \ {0} /\ n = s.pos /\ T = Total(j) /\ a \in Nat /\ a = j.cursor
      BY <1>2, <1>4, <1>6
    <2>8. S - n = a /\ S = a + n
      BY <2>7
    <2>9. Decodes((T \o rs_emit_literal_cmd(n)) \o SubSeq(input, a + 1, a + n), UpTo(a + n))
      BY <2>6, <2>7, <2>8, TellLiteral
    <2> QED
      BY <2>5, <2>7, <2>8, <2>9
  <1>7. CASE ~(s.basis_len > 0) /\ ~(s.pos > 0)
    <2>1. t = [st EXCEPT !.result = "RS_DONE"]
      BY <1>7 DEF rs_appendflush
    <2>2. t.job = j
      BY <1>1, <2>1
    <2>3. Uncounted(s) = 0
      BY <1>2, <1>7 DEF Uncounted
    <2>4. Decodes(Total(j), UpTo(S - Uncounted(s)))
      BY DEF Told
    <2>5. S - Uncounted(s) = S
      BY <2>3
    <2> QED
      BY <2>2, <2>4, <2>5
  <1> QED
    BY <1>5, <1>6, <1>7

\* rs_appendmiss: a byte more is collected.
LEMMA AppendmissTells ==
    ASSUME FilesFit, NEW st, Balanced(st), rs_tube_is_idle(st.job), NEW n \in Nat,
           NEW S \in Nat, S = st.job.cursor + st.scan.pos, S <= Len(input),
           Told(Total(st.job), st.scan, S)
    PROVE  LET t == rs_appendmiss(st, n) IN Told(Total(t.job), t.scan, S + n)
  <1> DEFINE t == rs_appendmiss(st, n)
             f == IF st.scan.basis_len > 0 \/ st.scan.pos >= MAX_MISS_LEN
                    THEN rs_appendflush(st) ELSE [st EXCEPT !.result = "RS_DONE"]
  <1>1. t = [f EXCEPT !.scan.pos = @ + n]
    BY DEF rs_appendmiss
  <1>2. /\ DOMAIN st = {"job", "scan", "result"} /\ DOMAIN st.scan = ScanFields
        /\ st.scan.pos \in Nat /\ st.scan.basis_len \in Nat
    BY DEF Balanced, Solid, ScanOK
  <1>3. /\ DOMAIN f = {"job", "scan", "result"} /\ DOMAIN f.scan = ScanFields
        /\ f.scan.pos \in Nat /\ f.scan.basis_len = 0 /\ f.scan.pos <= S
        /\ Decodes(Total(f.job), UpTo(S - f.scan.pos))
    <2>1. CASE st.scan.basis_len > 0 \/ st.scan.pos >= MAX_MISS_LEN
      <3>1. f = rs_appendflush(st)
        BY <2>1
      <3>2. Scanning(st, f, 0) /\ f.scan.pos = 0 /\ f.scan.basis_len = 0
        BY <3>1, AppendflushFacts DEF Flushed
      <3>3. Decodes(Total(f.job), UpTo(S))
        BY <3>1, AppendflushTells
      <3>4. DOMAIN f = {"job", "scan", "result"} /\ DOMAIN f.scan = ScanFields
        BY <3>2 DEF Scanning, Balanced, Solid, ScanOK
      <3>5. S - 0 = S /\ 0 <= S
        OBVIOUS
      <3> QED
        BY <3>2, <3>3, <3>4, <3>5
    <2>2. CASE ~(st.scan.basis_len > 0 \/ st.scan.pos >= MAX_MISS_LEN)
      <3>1. DOMAIN f = {"job", "scan", "result"} /\ f.job = st.job /\ f.scan = st.scan
        BY <1>2, <2>2
      <3>2. Uncounted(st.scan) = st.scan.pos /\ st.scan.basis_len = 0
        BY <1>2, <2>2 DEF Uncounted
      <3> HIDE DEF f
      <3> QED
        BY <1>2, <3>1, <3>2 DEF Told
    <2> QED
      BY <2>1, <2>2
  <1> HIDE DEF f
  <1>4. t.job = f.job /\ t.scan.pos = f.scan.pos + n /\ t.scan.basis_len = 0
    BY <1>1, <1>3 DEF ScanFields
  <1> HIDE DEF t
  <1>5. Uncounted(t.scan) = f.scan.pos + n
    BY <1>4 DEF Uncounted
  <1>6. (S + n) - (f.scan.pos + n) = S - f.scan.pos /\ f.scan.pos + n <= S + n
    BY <1>3
  <1>7. ~(t.scan.basis_len > 0)
    BY <1>4
  <1>8. Told(Total(t.job), t.scan, S + n)
    BY <1>3, <1>4, <1>5, <1>6, <1>7 DEF Told
  <1> QED
    BY <1>8 DEF t

\* The bytes from a to b and from b to c are those from a to c.
JoinsAt(s, a, b, c) == SubSeq(s, a + 1, b) \o SubSeq(s, b + 1, c) = SubSeq(s, a + 1, c)
\* They are.
LEMMA Joined ==
    ASSUME NEW s \in Seq(Nat), NEW a \in Nat, NEW b \in Nat, NEW c \in Nat,
           a <= b, b <= c, c <= Len(s)
    PROVE  JoinsAt(s, a, b, c)
  BY PiecesJoin DEF JoinsAt

\* A match that continues another one.
LEMMA MatchGrows ==
    ASSUME input \in Seq(Nat), basis \in Seq(Nat), NEW where \in Nat, NEW len \in Nat, NEW n \in Nat,
           NEW S \in Nat, S + n <= Len(input), Matching(where, len, S),
           AreAt(basis, where + len, SubSeq(input, S + 1, S + n))
    PROVE  Matching(where, len + n, S + n)
  <1>1. /\ len <= S /\ where + len <= Len(basis)
        /\ SubSeq(basis, where + 1, where + len) = SubSeq(input, (S - len) + 1, S)
    BY DEF Matching
  <1>2. Len(SubSeq(input, S + 1, S + n)) = n
    BY PieceFacts
  <1>3. PICK a \in Nat, b \in Nat, z \in Nat : a = S - len /\ b = where + len /\ z = where + len + n
    BY <1>1
  <1>4. z <= Len(basis) /\ SubSeq(basis, b + 1, z) = SubSeq(input, S + 1, S + n) /\ z = b + n
    BY <1>2, <1>3 DEF AreAt
  <1>5. PICK e \in Nat : e = S + n
    OBVIOUS
  <1>6. a <= S /\ S <= e /\ e <= Len(input) /\ where <= b /\ b <= z
    BY <1>1, <1>3, <1>5
  <1>7. SubSeq(input, a + 1, S) \o SubSeq(input, S + 1, e) = SubSeq(input, a + 1, e)
    <2>1. JoinsAt(input, a, S, e)
      BY <1>6, Joined
    <2> QED
      BY <2>1 DEF JoinsAt
  <1>8. SubSeq(basis, where + 1, b) \o SubSeq(basis, b + 1, z) = SubSeq(basis, where + 1, z)
    <2>1. JoinsAt(basis, where, b, z)
      BY <1>4, <1>6, Joined
    <2> QED
      BY <2>1 DEF JoinsAt
  <1>9. SubSeq(basis, where + 1, z) = SubSeq(input, a + 1, e)
    BY <1>1, <1>3, <1>4, <1>5, <1>7, <1>8
  <1>10. where + (len + n) = z /\ (S + n) - (len + n) = a /\ len + n <= S + n
    BY <1>1, <1>3
  <1> QED
    BY <1>4, <1>5, <1>9, <1>10 DEF Matching

\* rs_appendmatch: the match is made longer, or begun.
LEMMA AppendmatchTells ==
    ASSUME FilesFit, NEW st, Balanced(st), rs_tube_is_idle(st.job), NEW where \in Int,
           NEW n \in Nat \ {0}, st.scan.pos + n <= st.scan.len,
           NEW S \in Nat, S = st.job.cursor + st.scan.pos, S + n <= Len(input),
           Told(Total(st.job), st.scan, S),
           AreAt(basis, where, SubSeq(input, S + 1, S + n))
    PROVE  LET t == rs_appendmatch(st, where, n) IN Told(Total(t.job), t.scan, S + n)
  <1> DEFINE longer == st.scan.basis_len > 0 /\ st.scan.basis_pos + st.scan.basis_len = where
             f == rs_appendflush(st)
             g == IF longer THEN st ELSE f
             taken == IF longer THEN [st EXCEPT !.scan.basis_len = @ + n, !.result = "RS_DONE"]
                      ELSE [f EXCEPT !.scan.basis_pos = where, !.scan.basis_len = n]
             next == [taken EXCEPT !.scan.pos = @ + n]
             t == rs_appendmatch(st, where, n)
             len == IF longer THEN st.scan.basis_len + n ELSE n
             from == IF longer THEN st.scan.basis_pos ELSE where
  <1>1. t = IF next.result = "RS_DONE" THEN rs_processmatch(next) ELSE next
    BY DEF rs_appendmatch
  <1>2. Scanning(st, f, 0) /\ f.scan.pos = 0
    BY AppendflushFacts DEF Flushed
  <1>3. input \in Seq(Nat) /\ basis \in Seq(Nat) /\ Len(input) \in Nat /\ S <= Len(input)
    BY FileSizes
  <1>4. Decodes(Total(f.job), UpTo(S))
    BY <1>3, AppendflushTells
  <1> HIDE DEF f
  <1>5. /\ DOMAIN st = {"job", "scan", "result"} /\ DOMAIN st.scan = ScanFields
        /\ st.scan.pos \in Nat /\ st.scan.len \in Nat /\ st.scan.basis_len \in Nat
        /\ st.scan.basis_pos \in Int /\ st.job.copy_len = 0
    BY DEF Balanced, Solid, ScanOK, rs_tube_is_idle
  <1>6. Balanced(f) /\ DOMAIN f = {"job", "scan", "result"} /\ DOMAIN f.scan = ScanFields /\ f.scan.len \in Nat
        /\ (f.result = "RS_DONE" => rs_tube_is_idle(f.job))
    BY <1>2 DEF Scanning, Balanced, Solid, ScanOK
  <1>7. Balanced(g) /\ g.scan.pos \in Nat /\ g.scan.pos + n <= g.scan.len
    <2>1. CASE longer
      BY <1>5, <2>1
    <2>2. CASE ~longer
      <3>1. f.scan.len - f.scan.pos + 0 = st.scan.len - st.scan.pos
        <4>1. 0 \in Nat
          OBVIOUS
        <4> QED
          BY <1>2, <4>1, LessToScan
      <3>2. g = f /\ Balanced(f)
        BY <1>6, <2>2
      <3>3. f.scan.pos \in Nat /\ f.scan.pos + n <= f.scan.len
        <4>1. \A a, l, p \in Nat : l - 0 + 0 = a - p /\ p + n <= a => 0 \in Nat /\ 0 + n <= l
          OBVIOUS
        <4>2. f.scan.len - 0 + 0 = st.scan.len - st.scan.pos /\ st.scan.pos + n <= st.scan.len
          BY <1>2, <3>1
        <4>3. f.scan.len \in Nat /\ st.scan.len \in Nat /\ st.scan.pos \in Nat
          BY <1>5, <1>6, Zenon
        <4> QED
          BY <1>2, <4>1, <4>2, <4>3, Zenon
      <3> HIDE DEF g
      <3> QED
        BY <3>2, <3>3, Zenon
    <2> QED
      BY <2>1, <2>2
  <1>8. /\ DOMAIN next = {"job", "scan", "result"} /\ next.job = g.job
        /\ DOMAIN next.scan = ScanFields /\ next.scan.pos = g.scan.pos + n
        /\ next.scan.basis_len = len /\ next.scan.basis_pos = from
        /\ next.result = (IF longer THEN "RS_DONE" ELSE f.result)
    <2>1. CASE longer
      BY <1>5, <2>1 DEF ScanFields
    <2>2. CASE ~longer
      BY <1>6, <2>2 DEF ScanFields
    <2> QED
      BY <2>1, <2>2
  <1> HIDE DEF next, taken
  <1>9. /\ len \in Nat \ {0} /\ len <= S + n /\ Matching(from, len, S + n)
        /\ Decodes(Total(g.job), UpTo((S + n) - len))
    <2>1. CASE longer
      <3>1. PICK l \in Nat, w \in Int : l = st.scan.basis_len /\ w = st.scan.basis_pos /\ l > 0 /\ w + l = where
        BY <1>5, <2>1
      <3>2. Uncounted(st.scan) = l
        BY <3>1 DEF Uncounted
      <3>3. l <= S /\ Decodes(Total(st.job), UpTo(S - l)) /\ Matching(w, l, S)
        BY <3>1, <3>2 DEF Told
      <3>4. w \in Nat
        BY <3>3 DEF Matching
      <3>5. Matching(w, l + n, S + n)
        BY <1>3, <3>1, <3>3, <3>4, MatchGrows
      <3>6. (S + n) - (l + n) = S - l /\ l + n \in Nat \ {0} /\ l + n <= S + n
        BY <3>3
      <3>7. g = st /\ len = l + n /\ from = w
        BY <2>1, <3>1
      <3> HIDE DEF g, len, from
      <3> QED
        BY <3>3, <3>5, <3>6, <3>7
    <2>2. CASE ~longer
      <3>1. g = f /\ len = n /\ from = where
        BY <2>2
      <3>2. (S + n) - n = S /\ n <= S + n
        OBVIOUS
      <3>3. PICK e \in Nat : e = S + n
        OBVIOUS
      <3>4. Len(SubSeq(input, S + 1, S + n)) = n
        BY <1>3, PieceFacts
      <3>5. Matching(where, n, S + n)
        BY <3>2, <3>4 DEF AreAt, Matching
      <3> HIDE DEF g, len, from
      <3> QED
        BY <1>4, <3>1, <3>2, <3>5
    <2> QED
      BY <2>1, <2>2
  <1>10. next.result = "RS_DONE" => rs_tube_is_idle(g.job)
    BY <1>6, <1>8
  <1> HIDE DEF g, len, from, longer
  <1>11. Told(Total(next.job), next.scan, S + n)
    <2>1. Uncounted(next.scan) = len
      BY <1>8, <1>9 DEF Uncounted
    <2> QED
      BY <1>8, <1>9, <2>1 DEF Told
  <1>12. CASE next.result # "RS_DONE"
    <2>1. t = next
      BY <1>1, <1>12
    <2> QED
      BY <1>11, <2>1
  <1>13. CASE next.result = "RS_DONE"
    <2>1. t = rs_processmatch(next)
      BY <1>1, <1>13
    <2>2. /\ JobOK(g.job) /\ InOnePlace(g.job) /\ g.job.copy_len = 0
          /\ g.scan.len + g.job.copy_len = g.job.scoop_avail + g.job.avail_in
          /\ g.job.scoop_avail \in Nat /\ g.job.avail_in \in Nat
          /\ g.scan.len \in Nat
      BY <1>7, <1>10, <1>13 DEF Balanced, Solid, rs_tube_is_idle, JobOK, ScanOK
    <2>3. next.scan.pos \in Nat /\ next.scan.pos <= next.job.scoop_avail + next.job.avail_in
      <3> HIDE DEF next
      <3>1. PICK a \in Nat : a = g.scan.pos /\ a + n <= g.scan.len /\ next.scan.pos = a + n
        BY <1>7, <1>8, Zenon
      <3>2. g.scan.len = next.job.scoop_avail + next.job.avail_in
        <4>1. g.scan.len + 0 = g.job.scoop_avail + g.job.avail_in /\ g.scan.len \in Nat
          BY <2>2, Zenon
        <4>2. g.scan.len + 0 = g.scan.len
          BY <4>1
        <4> QED
          BY <1>8, <4>1, <4>2, Zenon
      <3>3. a + n \in Nat
        OBVIOUS
      <3> QED
        BY <3>1, <3>2, <3>3, Zenon
    <2>4. Total(t.job) = Total(next.job)
      BY <1>8, <2>1, <2>2, <2>3, ProcessmatchTotal
    <2>5. t.scan = Rebase(next.scan)
      BY <1>8, <2>1 DEF rs_processmatch, CatchUp
    <2>6. t.scan.basis_len = len /\ t.scan.basis_pos = from
      BY <1>8, <2>5 DEF Rebase, ScanFields
    <2> HIDE DEF t
    <2>7. Uncounted(t.scan) = len /\ Uncounted(next.scan) = len
      BY <1>8, <1>9, <2>6 DEF Uncounted
    <2> QED
      BY <1>8, <1>11, <2>4, <2>6, <2>7 DEF Told, t
  <1> QED
    BY <1>12, <1>13

-----------------------------------------------------------------------------
(* What the output means, as an invariant.                                 *)

\* How far the scan s of the job j has come in the new file.
Reached(j, s) == j.cursor + j.copy_len + s.pos

\* What the delta says when fn is next.
Speaks(fn, j, s) ==
    /\ fn = "rs_delta_s_header" => Total(j) = <<>> /\ j.cursor + j.copy_len = 0
    /\ fn \notin {"rs_delta_s_header", "NULL"} => Told(Total(j), s, Reached(j, s))
    /\ fn = "NULL" => MeansEnd(Apply(Total(j), basis), UpTo(Reached(j, s)), "RS_DONE")

TellInv == FilesFit /\ Speaks(statefn, job, scan)

\* Bytes may move on, and the scan's other fields may change.
LEMMA SpeaksMoved ==
    ASSUME NEW fn, NEW j, NEW s, Speaks(fn, j, s), NEW k, Total(k) = Total(j),
           k.cursor + k.copy_len = j.cursor + j.copy_len, NEW u, u.pos = s.pos,
           u.basis_pos = s.basis_pos, u.basis_len = s.basis_len
    PROVE  Speaks(fn, k, u)
  <1>1. Reached(k, u) = Reached(j, s) /\ Uncounted(u) = Uncounted(s)
    BY DEF Reached, Uncounted
  <1>2. Told(Total(j), s, Reached(j, s)) => Told(Total(k), u, Reached(k, u))
    BY <1>1 DEF Told
  <1> QED
    BY <1>1, <1>2 DEF Speaks

\* The output and the place in the input are what counts.
LEMMA TotalSame ==
    ASSUME NEW j, NEW k, SameOutput(j, k), k.cursor = j.cursor
    PROVE  Total(k) = Total(j) /\ k.cursor + k.copy_len = j.cursor + j.copy_len
  BY DEF SameOutput, Total, NextBytes

\* The files do not change.
LEMMA TellNext ==
    ASSUME FilesFit, input' = input, basis' = basis, Speaks(statefn', job', scan')
    PROVE  TellInv'
  <1>1. FilesFit'
    BY DEF FilesFit
  <1>2. Speaks(statefn, job, scan)' = Speaks(statefn', job', scan')
    BY DEF Speaks, Told, Reached, Uncounted, Total, NextBytes, UpTo, Matching, Decodes
  <1> QED
    BY <1>1, <1>2 DEF TellInv

\* A state function returns.
LEMMA TellFinish ==
    ASSUME FilesFit, NEW j, JobOK(j), NEW fn,
           NEW r \in {"RS_RUNNING", "RS_DONE", "RS_BLOCKED", "RS_INPUT_ENDED"},
           Finish(j, fn, r), basis' = basis,
           Speaks(IF r = "RS_DONE" THEN "NULL" ELSE fn, j, scan')
    PROVE  TellInv'
  <1>1. /\ input' = input /\ SameOutput(j, job') /\ SameInput(j, job')
        /\ statefn' = IF r = "RS_DONE" THEN "NULL" ELSE fn
    BY FinishFacts
  <1>2. Total(job') = Total(j) /\ job'.cursor + job'.copy_len = j.cursor + j.copy_len
    BY <1>1, TotalSame DEF SameInput
  <1>3. Speaks(statefn', job', scan')
    BY <1>1, <1>2, SpeaksMoved
  <1> QED
    BY <1>1, <1>3, TellNext

\* At first nothing has been said.
LEMMA TellInit == Init => TellInv
  <1> SUFFICES ASSUME Init
               PROVE  TellInv
    OBVIOUS
  <1>1. FilesFit /\ EngineInit("rs_delta_s_header")
    BY DEF Init, FilesFit
  <1>2. input \in Seq(Nat)
    BY <1>1, FileSizes
  <1>3. /\ JobOK(job) /\ job.cursor = 0 /\ job.copy_len = 0 /\ job.write_buf = <<>> /\ job.out = <<>>
        /\ statefn = "rs_delta_s_header"
    BY <1>1, <1>2, EngineInitFacts
  <1>4. job.cursor + job.copy_len = 0 /\ 0 <= Len(input)
    BY <1>2, <1>3, LenProperties
  <1>5. Total(job) = <<>>
    BY <1>3, <1>4, TotalType DEF rs_tube_is_idle
  <1> QED
    BY <1>1, <1>3, <1>4, <1>5 DEF TellInv, Speaks

\* Nothing happens.
LEMMA TellSame == TellInv /\ UNCHANGED vars => TellInv'
  <1> SUFFICES ASSUME TellInv, UNCHANGED vars
               PROVE  TellInv'
    OBVIOUS
  <1>1. input' = input /\ job' = job /\ statefn' = statefn /\ basis' = basis /\ scan' = scan
    BY DEF vars, engineVars
  <1> QED
    BY <1>1, TellNext DEF TellInv

\* The caller comes back.
LEMMA TellCalled == DeltaInv /\ TellInv /\ Caller(CallIter) => TellInv'
  <1> SUFFICES ASSUME DeltaInv, TellInv, Caller(CallIter)
               PROVE  TellInv'
    OBVIOUS
  <1>1. PICK n \in 0 .. Len(input), e \in BOOLEAN, m \in 0 .. MaxOut : Call(n, e, m)
    BY DEF Caller, CallIter, Iter
  <1>2. basis' = basis /\ scan' = scan
    BY DEF Caller
  <1>3. DOMAIN job = JobFields
    BY Amounts DEF JobOK
  <1>4. /\ job'.cursor = job.cursor /\ job'.out = job.out /\ job'.write_buf = job.write_buf
        /\ job'.copy_len = job.copy_len /\ input' = input /\ statefn' = statefn
    BY <1>1, <1>3 DEF Call, JobFields
  <1>5. Total(job') = Total(job)
    BY <1>4 DEF Total, NextBytes
  <1>6. Speaks(statefn, job', scan)
    BY <1>4, <1>5, SpeaksMoved DEF TellInv
  <1> QED
    BY <1>2, <1>4, <1>6, TellNext DEF TellInv

\* The tube is emptied.
LEMMA TellCatchup == DeltaInv /\ TellInv /\ Caller(Catchup) => TellInv'
  <1> SUFFICES ASSUME DeltaInv, TellInv, Caller(Catchup)
               PROVE  TellInv'
    OBVIOUS
  <1> DEFINE c == rs_tube_catchup(job)
             k == c.job
  <1>1. /\ basis' = basis /\ scan' = scan
        /\ \/ /\ c.result = "RS_DONE" /\ statefn # "NULL"
              /\ job' = c.job /\ pc' = "statefn"
              /\ UNCHANGED <<input, statefn, result, orig>>
           \/ /\ ~(c.result = "RS_DONE" /\ statefn # "NULL")
              /\ Return(c.job, c.result)
              /\ UNCHANGED statefn
    BY DEF Caller, Catchup
  <1>2. JobOK(job) /\ job.cursor + job.copy_len <= Len(input)
    <2>1. /\ JobOK(job) /\ job.cursor \in Nat /\ job.copy_len \in Nat /\ job.scoop_avail \in Nat
          /\ job.avail_in \in Nat /\ scan.pos \in Nat /\ scan.weak_sum.count \in Nat /\ Len(input) \in Nat
      BY Amounts
    <2>2. job.copy_len + scan.pos + scan.weak_sum.count <= job.scoop_avail + job.avail_in
      BY DEF DeltaInv, Fits
    <2>3. job.cursor + job.scoop_avail + job.avail_in <= Len(input)
      BY <2>1 DEF JobOK
    <2>4. \A a, b, d, e, h, i, l \in Nat : b + d + e <= h + i /\ a + h + i <= l => a + b <= l
      OBVIOUS
    <2> QED
      BY <2>1, <2>2, <2>3, <2>4, Zenon
  <1>3. /\ JobOK(k) /\ c.result \in Results
        /\ c.result = "RS_DONE" => rs_tube_is_idle(k)
        /\ k.cursor + k.copy_len = job.cursor + job.copy_len
    BY <1>2, CatchupFacts DEF Results, Work
  <1>4. Total(k) = Total(job)
    BY <1>2, TotalKept
  <1> HIDE DEF c
  <1>5. /\ input' = input /\ statefn' = statefn /\ SameOutput(k, job') /\ job'.cursor = k.cursor
    <2>1. CASE job' = k /\ UNCHANGED <<input, statefn, result, orig>>
      BY <2>1 DEF SameOutput
    <2>2. CASE Return(k, c.result) /\ UNCHANGED statefn
      <3>1. c.result # "RS_RUNNING"
        BY <1>3 DEF Results
      <3>2. input' = input /\ SameOutput(k, job') /\ SameInput(k, job')
        BY <1>3, <2>2, <3>1, ReturnFacts
      <3> QED
        BY <2>2, <3>2 DEF SameInput
    <2> QED
      BY <1>1, <2>1, <2>2
  <1>6. Total(job') = Total(k) /\ job'.cursor + job'.copy_len = k.cursor + k.copy_len
    BY <1>5, TotalSame
  <1>7. Speaks(statefn, job', scan)
    BY <1>3, <1>4, <1>6, SpeaksMoved DEF TellInv
  <1> QED
    BY <1>1, <1>5, <1>7, TellNext DEF TellInv

\* With nothing collected the output alone says it.
LEMMA ToldPlain ==
    ASSUME NEW T, NEW s, s.pos = 0, s.basis_len = 0, NEW S \in Nat
    PROVE  Told(T, s, S) <=> Decodes(T, UpTo(S))
  <1>1. Uncounted(s) = 0 /\ ~(s.basis_len > 0)
    BY DEF Uncounted
  <1>2. S - 0 = S /\ 0 <= S
    OBVIOUS
  <1> QED
    BY <1>1, <1>2 DEF Told

\* The header is written.
LEMMA TellHeader == DeltaInv /\ TellInv /\ rs_delta_s_header => TellInv'
  <1> SUFFICES ASSUME DeltaInv, TellInv, rs_delta_s_header
               PROVE  TellInv'
    OBVIOUS
  <1> DEFINE fn == IF HasSignature THEN "rs_delta_s_scan" ELSE "rs_delta_s_slack"
             H == rs_emit_delta_header
             k == rs_tube_write(job, H)
  <1>1. /\ pc = "statefn" /\ statefn = "rs_delta_s_header" /\ Finish(k, fn, "RS_RUNNING")
        /\ basis' = basis /\ scan' = scan
    BY DEF rs_delta_s_header, Running
  <1>2. fn \in {"rs_delta_s_scan", "rs_delta_s_slack"}
    OBVIOUS
  <1> HIDE DEF fn
  <1>3. JobOK(job) /\ rs_tube_is_idle(job) /\ basis \in Seq(Nat) /\ job.copy_len = 0
    BY <1>1, Amounts, StateFnRuns
  <1>4. H \in Seq(Nat)
    BY CommandBytes
  <1>5. Total(k) = Total(job) \o H /\ JobOK(k) /\ k.copy_len = 0 /\ SameInput(job, k)
    BY <1>3, <1>4, WrittenTotal
  <1> HIDE DEF k
  <1>6. Total(job) = <<>> /\ job.cursor + job.copy_len = 0 /\ FilesFit
    BY <1>1 DEF TellInv, Speaks
  <1>7. Total(k) = H
    BY <1>4, <1>5, <1>6, ConcatEmptySeq
  <1>8. scan.pos = 0 /\ scan.basis_len = 0
    BY <1>1 DEF DeltaInv, NotScanning
  <1>9. Reached(k, scan) = 0
    <2>1. k.cursor + k.copy_len = 0
      BY <1>3, <1>5, <1>6 DEF SameInput
    <2> QED
      BY <1>8, <2>1 DEF Reached
  <1>10. UpTo(0) = <<>>
    <2>1. input \in Seq(Nat)
      BY Amounts
    <2>2. 0 \in Nat /\ 0 <= Len(input)
      BY <2>1, LenProperties
    <2>3. SubSeq(input, 0 + 1, 0) = <<>>
      BY <2>1, <2>2, PartFacts
    <2> QED
      BY <2>3 DEF UpTo
  <1>11. Decodes(H, UpTo(0))
    BY <1>3, <1>10, DecodesHeader
  <1>12. Told(Total(k), scan, 0)
    BY <1>7, <1>8, <1>11, ToldPlain
  <1>13. Speaks(fn, k, scan)
    BY <1>2, <1>9, <1>12 DEF Speaks
  <1> QED
    BY <1>1, <1>5, <1>6, <1>13, TellFinish

\* The end is written.
LEMMA TellEnd == DeltaInv /\ TellInv /\ rs_delta_s_end => TellInv'
  <1> SUFFICES ASSUME DeltaInv, TellInv, rs_delta_s_end
               PROVE  TellInv'
    OBVIOUS
  <1> DEFINE E == rs_emit_end_cmd
             k == rs_tube_write(job, E)
             S == Reached(job, scan)
  <1>1. /\ pc = "statefn" /\ statefn = "rs_delta_s_end" /\ Finish(k, statefn, "RS_DONE")
        /\ basis' = basis /\ scan' = scan
    BY DEF rs_delta_s_end, Running
  <1>2. /\ JobOK(job) /\ rs_tube_is_idle(job) /\ basis \in Seq(Nat) /\ job.copy_len = 0
        /\ job.cursor \in Nat /\ scan.pos \in Nat
    BY <1>1, Amounts, StateFnRuns
  <1>3. E \in Seq(Nat)
    BY CommandBytes
  <1>4. Total(k) = Total(job) \o E /\ JobOK(k) /\ k.copy_len = 0 /\ SameInput(job, k)
    BY <1>2, <1>3, WrittenTotal
  <1> HIDE DEF k
  <1>5. S \in Nat
    BY <1>2 DEF Reached
  <1>6. Told(Total(job), scan, S) /\ FilesFit
    BY <1>1 DEF TellInv, Speaks
  <1>7. scan.pos = 0 /\ scan.basis_len = 0
    BY <1>1 DEF DeltaInv, AtEnd
  <1> HIDE DEF S
  <1>8. Decodes(Total(job), UpTo(S))
    BY <1>5, <1>6, <1>7, ToldPlain
  <1>9. MeansEnd(Apply(Total(k), basis), UpTo(S), "RS_DONE")
    BY <1>2, <1>4, <1>8, DecodesStop
  <1>10. Reached(k, scan) = S
    BY <1>2, <1>4 DEF Reached, SameInput, S
  <1>11. Speaks("NULL", k, scan)
    BY <1>9, <1>10 DEF Speaks
  <1> QED
    BY <1>1, <1>4, <1>6, <1>11, TellFinish

\* A loop is entered, with more of the input.
LEMMA TellEnter ==
    ASSUME DeltaInv, TellInv, NEW fn \in {"rs_delta_s_scan", "rs_delta_s_flush"}, Enter(fn)
    PROVE  TellInv'
  <1> DEFINE t == rs_tube_catchup(job)
             c == CatchUp(State)
             g == IF c.result = "RS_DONE" THEN rs_getinput(c) ELSE c
             k == g.job
  <1>1. /\ pc = "statefn" /\ statefn = fn /\ scan' = g.scan /\ basis' = basis
        /\ IF g.result = "RS_DONE"
             THEN job' = g.job /\ pc' = "loop" /\ UNCHANGED <<input, statefn, result, orig>>
             ELSE Finish(g.job, statefn, g.result)
    BY DEF Enter, Running
  <1>2. JobOK(job) /\ ScanOK(scan) /\ job.copy_len = 0
    BY <1>1, Amounts, StateFnRuns
  <1>3. DOMAIN c = {"job", "scan", "result"} /\ c.job = t.job /\ c.scan = scan /\ c.result = t.result
    BY DEF CatchUp, State
  <1>4. /\ JobOK(t.job) /\ t.result \in Results
        /\ t.job.cursor + t.job.copy_len = job.cursor + job.copy_len
    BY <1>2, CatchupFacts DEF Results, Work
  <1>5. Total(t.job) = Total(job)
    <2>1. job.cursor + job.copy_len <= Len(input)
      BY <1>2, LengthFacts DEF JobOK
    <2> QED
      BY <1>2, <2>1, TotalKept
  <1> HIDE DEF c, t
  <1>6. /\ JobOK(k) /\ SameOutput(c.job, k) /\ k.cursor = c.job.cursor
        /\ g.scan.pos = scan.pos /\ g.scan.basis_len = scan.basis_len
        /\ g.scan.basis_pos = scan.basis_pos /\ g.result \in Results
    <2>1. CASE c.result = "RS_DONE"
      <3>1. g = rs_getinput(c)
        BY <2>1
      <3> QED
        BY <1>2, <1>3, <1>4, <3>1, GetinputFacts DEF Work
    <2>2. CASE c.result # "RS_DONE"
      <3>1. g = c
        BY <2>2
      <3> QED
        BY <1>3, <1>4, <3>1 DEF SameOutput
    <2> QED
      BY <2>1, <2>2
  <1> HIDE DEF g
  <1>7. Total(k) = Total(job) /\ k.cursor + k.copy_len = job.cursor + job.copy_len
    BY <1>3, <1>4, <1>5, <1>6, TotalSame
  <1>8. Speaks(statefn, k, g.scan) /\ FilesFit
    BY <1>6, <1>7, SpeaksMoved DEF TellInv
  <1>9. CASE g.result = "RS_DONE"
    BY <1>1, <1>8, <1>9, TellNext
  <1>10. CASE g.result # "RS_DONE"
    <2>1. Finish(k, statefn, g.result)
          /\ g.result \in {"RS_RUNNING", "RS_DONE", "RS_BLOCKED", "RS_INPUT_ENDED"}
      BY <1>1, <1>6, <1>10 DEF Results
    <2> QED
      BY <1>1, <1>6, <1>8, <1>10, <2>1, TellFinish
  <1> QED
    BY <1>9, <1>10

\* A slack delta sends what has arrived.
LEMMA TellSlack == DeltaInv /\ TellInv /\ rs_delta_s_slack => TellInv'
  <1> SUFFICES ASSUME DeltaInv, TellInv, rs_delta_s_slack
               PROVE  TellInv'
    OBVIOUS
  <1> DEFINE avail == rs_scoop_avail(job)
             literal == rs_emit_literal_cmd(avail)
             w == rs_tube_write(job, literal)
             k == rs_tube_copy(w, avail)
  <1>1. pc = "statefn" /\ statefn = "rs_delta_s_slack" /\ basis' = basis
    BY DEF rs_delta_s_slack, Running
  <1>2. JobOK(job) /\ rs_tube_is_idle(job) /\ ScanOK(scan) /\ job.copy_len = 0 /\ FilesFit
    BY <1>1, Amounts, StateFnRuns DEF TellInv
  <1>3. Speaks(statefn, job, scan) /\ scan.pos = 0 /\ scan.basis_len = 0
    BY <1>1 DEF DeltaInv, NotScanning, TellInv
  <1>4. job.cursor \in Nat /\ avail \in Nat /\ job.cursor + avail <= Len(input)
    BY <1>2, LengthFacts DEF JobOK, rs_scoop_avail
  <1>5. CASE avail > 0 /\ Finish(k, statefn, "RS_RUNNING")
             /\ scan' = [scan EXCEPT !.stats.lit_bytes = @ + avail,
                                     !.stats.cmdbytes = @ + Len(literal)]
    <2> HIDE DEF avail
    <2>1. literal \in Seq(Nat)
      BY <1>4, CommandBytes
    <2>2. Total(w) = Total(job) \o literal /\ JobOK(w) /\ w.copy_len = 0 /\ SameInput(job, w)
      BY <1>2, <2>1, WrittenTotal
    <2> HIDE DEF literal
    <2> HIDE DEF w
    <2>3. /\ Work(w, k) /\ SameInput(w, k) /\ k.out = w.out /\ k.write_buf = w.write_buf
          /\ k.copy_len = avail
      BY <1>4, <2>2, TubeFacts
    <2>4. JobOK(k) /\ k.cursor = job.cursor
      BY <2>2, <2>3 DEF Work, SameInput
    <2> HIDE DEF k
    <2>5. scan'.pos = 0 /\ scan'.basis_len = 0
      BY <1>2, <1>3, <1>5 DEF ScanOK, ScanFields
    <2>6. Total(w) = w.out \o w.write_buf
      <3>1. w.cursor + w.copy_len <= Len(input)
        BY <2>2, LengthFacts DEF JobOK
      <3> QED
        BY <2>2, <3>1, TotalType
    <2>7. PICK a, n, T : a \in Nat /\ n \in Nat \ {0} /\ a = job.cursor /\ n = avail /\ T = Total(job)
      BY <1>4, <1>5
    <2>8. Total(k) = (T \o literal) \o SubSeq(input, a + 1, a + n)
      BY <2>2, <2>3, <2>4, <2>6, <2>7 DEF Total, NextBytes
    <2>9. Decodes(T, UpTo(a))
      <3>1. Reached(job, scan) = a
        BY <1>2, <1>3, <2>7 DEF Reached
      <3>2. Told(T, scan, a)
        BY <1>1, <1>3, <2>7, <3>1 DEF Speaks
      <3> QED
        BY <1>3, <2>7, <3>2, ToldPlain
    <2>10. Decodes(Total(k), UpTo(a + n))
      BY <1>2, <1>4, <2>7, <2>8, <2>9, TellLiteral DEF literal
    <2>11. Reached(k, scan') = a + n
      BY <2>3, <2>4, <2>5, <2>7 DEF Reached
    <2>12. Told(Total(k), scan', a + n)
      <3>1. a + n \in Nat
        BY <2>7
      <3> QED
        BY <2>5, <2>10, <3>1, ToldPlain
    <2>13. Speaks(statefn, k, scan')
      BY <1>1, <2>11, <2>12 DEF Speaks
    <2> QED
      BY <1>1, <1>2, <1>5, <2>4, <2>13, TellFinish
  <1>6. CASE rs_scoop_eof(job) /\ Finish(job, "rs_delta_s_end", "RS_RUNNING") /\ scan' = scan
    <2>1. Speaks("rs_delta_s_end", job, scan)
      BY <1>1, <1>3 DEF Speaks
    <2> QED
      BY <1>1, <1>2, <1>6, <2>1, TellFinish
  <1>7. CASE Finish(job, statefn, "RS_BLOCKED") /\ scan' = scan
    BY <1>1, <1>2, <1>3, <1>7, TellFinish
  <1> QED
    BY <1>5, <1>6, <1>7 DEF rs_delta_s_slack

\* A match is found, or a byte is missed.
LEMMA TellIteration ==
    ASSUME DeltaInv, TellInv, pc = "loop", scan.pos < scan.len, NEW rolled, SumOK(rolled),
           Iteration(rs_findmatch(scan), rolled)
    PROVE  TellInv'
  <1> DEFINE f == rs_findmatch(scan)
             st == [State EXCEPT !.scan = f.scan]
             m == rs_appendmatch(st, f.match_pos, f.match_len)
             matched == [m EXCEPT !.scan.weak_sum = weaksum_reset(@)]
             rst == [st EXCEPT !.scan.weak_sum = rolled]
             missed == rs_appendmiss(rst, 1)
             next == IF f.match_pos # -1 THEN matched ELSE missed
             S == Reached(job, scan)
  <1>1. /\ scan' = next.scan /\ basis' = basis
        /\ IF next.result = "RS_DONE"
             THEN job' = next.job /\ UNCHANGED <<input, statefn, pc, result, orig>>
             ELSE Finish(next.job, statefn, next.result)
    BY DEF Iteration
  <1>2. /\ rs_tube_is_idle(job) /\ job.copy_len = 0 /\ FilesFit
        /\ statefn \in {"rs_delta_s_scan", "rs_delta_s_flush"}
        /\ scan.buf = job.cursor /\ scan.len = job.scoop_avail + job.avail_in
    BY StateFnRuns DEF TellInv, DeltaInv, Pointed
  <1>3. /\ JobOK(job) /\ ScanOK(scan) /\ input \in Seq(Nat) /\ Len(input) \in Nat
        /\ job.cursor \in Nat /\ job.scoop_avail \in Nat /\ job.avail_in \in Nat /\ scan.pos \in Nat
        /\ job.cursor + job.scoop_avail + job.avail_in <= Len(input)
    BY Amounts DEF JobOK
  <1>4. S \in Nat /\ S = job.cursor + scan.pos
    BY <1>2, <1>3 DEF Reached
  <1>5. /\ ScanOK(f.scan) /\ f.scan.buf = scan.buf /\ f.scan.len = scan.len /\ f.scan.pos = scan.pos
        /\ f.scan.basis_len = scan.basis_len /\ f.scan.basis_pos = scan.basis_pos
        /\ f.scan.stats = scan.stats
        /\ f.match_len \in Nat \ {0} /\ scan.pos + f.match_len <= scan.len
        /\ f.match_pos \in Int
        /\ f.match_pos # -1 => AreAt(basis, f.match_pos, ScanBytes(scan, scan.pos, f.match_len))
    BY Found
  <1>6. Told(Total(job), scan, S)
    BY <1>2 DEF TellInv, Speaks
  <1> HIDE DEF f
  <1>7. DOMAIN st = {"job", "scan", "result"} /\ st.job = job /\ st.scan = f.scan
    BY DEF State
  <1> HIDE DEF st
  <1>8. Balanced(st)
    BY <1>5, <1>7, LoopBalanced
  <1> HIDE DEF S
  <1>9. ASSUME NEW n \in Nat, Told(Total(next.job), next.scan, S + n),
               Reached(next.job, next.scan) = S + n, JobOK(next.job), next.result \in Results
        PROVE  TellInv'
    <2> HIDE DEF next
    <2>1. Speaks(statefn, next.job, next.scan)
      BY <1>2, <1>9 DEF Speaks
    <2>2. CASE next.result = "RS_DONE"
      BY <1>1, <1>2, <2>1, <2>2, TellNext
    <2>3. CASE next.result # "RS_DONE"
      <3>1. Finish(next.job, statefn, next.result)
            /\ next.result \in {"RS_RUNNING", "RS_DONE", "RS_BLOCKED", "RS_INPUT_ENDED"}
        BY <1>1, <1>9, <2>3 DEF Results
      <3> QED
        BY <1>1, <1>2, <1>9, <2>1, <2>3, <3>1, TellFinish
    <2> QED
      BY <2>2, <2>3
  <1>10. CASE f.match_pos # -1
    <2>1. next = matched
      BY <1>10
    <2>2. PICK n \in Nat \ {0} : n = f.match_len
      BY <1>5
    <2>3. Scanning(st, m, f.match_len)
      BY <1>2, <1>5, <1>7, <1>8, AppendmatchFacts
    <2>4. S + n <= Len(input) /\ ScanBytes(scan, scan.pos, n) = SubSeq(input, S + 1, S + n)
      <3>1. scan.len \in Nat /\ scan.buf + scan.pos = S
        BY <1>2, <1>3, <1>4
      <3>2. S + n <= Len(input)
        <4>1. scan.pos + n <= job.scoop_avail + job.avail_in
          BY <1>2, <1>5, <2>2
        <4>2. \A a, b, d, h, i, l \in Nat :
                b + d <= h + i /\ a + h + i <= l => a + 0 + b + d <= l
          OBVIOUS
        <4>3. /\ job.cursor \in Nat /\ scan.pos \in Nat /\ job.scoop_avail \in Nat /\ job.avail_in \in Nat
              /\ Len(input) \in Nat /\ S = job.cursor + 0 + scan.pos
              /\ job.cursor + job.scoop_avail + job.avail_in <= Len(input)
          BY <1>3, <1>4
        <4> QED
          BY <2>2, <4>1, <4>2, <4>3, Zenon
      <3> QED
        BY <3>1, <3>2 DEF ScanBytes
    <2>5. AreAt(basis, f.match_pos, SubSeq(input, S + 1, S + n))
      BY <1>5, <1>10, <2>2, <2>4
    <2>6. Told(Total(st.job), st.scan, S)
      <3>1. Uncounted(f.scan) = Uncounted(scan)
        BY <1>5 DEF Uncounted
      <3> QED
        BY <1>5, <1>6, <1>7, <3>1 DEF Told
    <2>7. Told(Total(m.job), m.scan, S + n)
      BY <1>2, <1>4, <1>5, <1>7, <1>8, <2>2, <2>4, <2>5, <2>6, AppendmatchTells
    <2> HIDE DEF m
    <2>8. /\ Balanced(m) /\ JobOK(m.job) /\ m.result \in Results
          /\ Reached(m.job, m.scan) = job.cursor + job.copy_len + scan.pos + n
      BY <1>5, <1>7, <2>2, <2>3 DEF Scanning, Work, Reached
    <2>9. ScanOK(m.scan)
      BY <2>8 DEF Balanced, Solid
    <2>10. SumOK(weaksum_reset(m.scan.weak_sum))
      <3>1. SumOK(m.scan.weak_sum)
        BY <2>9 DEF ScanOK
      <3> QED
        BY <3>1, SumFacts
    <2>11. /\ DOMAIN m = {"job", "scan", "result"} /\ DOMAIN m.scan = ScanFields
      BY <2>8 DEF Balanced, Solid, ScanOK
    <2>12. /\ next.job = m.job /\ next.result = m.result /\ next.scan.pos = m.scan.pos
           /\ next.scan.basis_pos = m.scan.basis_pos /\ next.scan.basis_len = m.scan.basis_len
      BY <2>1, <2>11 DEF ScanFields
    <2> HIDE DEF next, matched
    <2>13. Uncounted(next.scan) = Uncounted(m.scan)
      BY <2>12 DEF Uncounted
    <2>14. Told(Total(next.job), next.scan, S + n)
      BY <2>7, <2>12, <2>13 DEF Told
    <2>15. Reached(next.job, next.scan) = S + n
      BY <2>8, <2>12 DEF Reached, S
    <2> QED
      BY <1>9, <2>8, <2>12, <2>14, <2>15
  <1>11. CASE f.match_pos = -1
    <2>1. next = missed
      BY <1>11
    <2>2. /\ Balanced(rst) /\ rst.job = job /\ rst.scan.pos = scan.pos /\ rst.scan.len = scan.len
      BY <1>5, <1>7, <1>8, OtherSum
    <2>3. rst.scan.basis_len = scan.basis_len /\ rst.scan.basis_pos = scan.basis_pos
      BY <1>5, <1>7 DEF ScanOK, ScanFields
    <2> HIDE DEF rst
    <2>4. Scanning(rst, missed, 1)
      <3>1. scan.len \in Nat
        BY <1>3 DEF ScanOK
      <3>2. rst.scan.pos + 1 <= rst.scan.len /\ 1 \in Nat
        BY <1>3, <2>2, <3>1
      <3> QED
        BY <1>2, <2>2, <3>2, AppendmissFacts
    <2>5. Told(Total(rst.job), rst.scan, S)
      <3>1. Uncounted(rst.scan) = Uncounted(scan)
        BY <2>2, <2>3 DEF Uncounted
      <3> QED
        BY <1>6, <2>2, <2>3, <3>1 DEF Told
    <2>6. S <= Len(input) /\ 1 \in Nat
      BY <1>2, <1>3, <1>4
    <2>7. Told(Total(missed.job), missed.scan, S + 1)
      BY <1>2, <1>4, <2>2, <2>5, <2>6, AppendmissTells
    <2> HIDE DEF missed
    <2>8. /\ JobOK(missed.job) /\ missed.result \in Results
          /\ Reached(missed.job, missed.scan) = job.cursor + job.copy_len + scan.pos + 1
      BY <2>2, <2>4 DEF Scanning, Work, Reached
    <2>9. Reached(missed.job, missed.scan) = S + 1
      BY <2>8 DEF Reached, S
    <2> HIDE DEF next
    <2> QED
      BY <1>9, <2>1, <2>6, <2>7, <2>8, <2>9
  <1> QED
    BY <1>10, <1>11

\* The scan.
LEMMA TellScan == DeltaInv /\ TellInv /\ rs_delta_s_scan => TellInv'
  <1> SUFFICES ASSUME DeltaInv, TellInv, rs_delta_s_scan
               PROVE  TellInv'
    OBVIOUS
  <1>1. CASE Enter("rs_delta_s_scan")
    BY <1>1, TellEnter
  <1>2. CASE /\ InLoop("rs_delta_s_scan") /\ scan.pos + BlockLen < scan.len
             /\ LET f == rs_findmatch(scan)
                IN  Iteration(f, weaksum_rotate(f.scan.weak_sum, ScanByte(scan, scan.pos),
                                                ScanByte(scan, scan.pos + BlockLen)))
    <2> DEFINE f == rs_findmatch(scan)
               rolled == weaksum_rotate(f.scan.weak_sum, ScanByte(scan, scan.pos),
                                        ScanByte(scan, scan.pos + BlockLen))
    <2>1. pc = "loop" /\ Iteration(rs_findmatch(scan), rolled)
      BY <1>2 DEF InLoop
    <2>2. scan.pos < scan.len
      <3>1. /\ scan.pos \in Nat /\ scan.len \in Nat /\ BlockLen \in Nat \ {0}
            /\ scan.pos + BlockLen < scan.len
        BY <1>2, Amounts DEF ScanOK
      <3> QED
        BY <3>1
    <2>3. SumOK(f.scan.weak_sum)
      BY <2>1, <2>2, Found
    <2> HIDE DEF f
    <2>4. SumOK(rolled)
      BY <2>3, SumFacts
    <2> HIDE DEF rolled
    <2> QED
      BY <2>1, <2>2, <2>4, TellIteration
  <1>3. CASE /\ InLoop("rs_delta_s_scan") /\ scan.pos + BlockLen >= scan.len
             /\ IF job.eof_in THEN Finish(job, "rs_delta_s_flush", "RS_RUNNING")
                ELSE Finish(job, statefn, "RS_BLOCKED")
             /\ UNCHANGED <<basis, scan>>
    <2>1. JobOK(job) /\ FilesFit /\ statefn = "rs_delta_s_scan" /\ basis' = basis /\ scan' = scan
      BY <1>3, Amounts DEF TellInv, InLoop
    <2>2. Speaks("rs_delta_s_scan", job, scan) /\ Speaks("rs_delta_s_flush", job, scan)
      BY <2>1 DEF TellInv, Speaks
    <2>3. CASE Finish(job, "rs_delta_s_flush", "RS_RUNNING")
      BY <2>1, <2>2, <2>3, TellFinish
    <2>4. CASE Finish(job, "rs_delta_s_scan", "RS_BLOCKED")
      BY <2>1, <2>2, <2>4, TellFinish
    <2> QED
      BY <1>3, <2>1, <2>3, <2>4
  <1> QED
    BY <1>1, <1>2, <1>3 DEF rs_delta_s_scan

\* The last of the input.
LEMMA TellFlush == DeltaInv /\ TellInv /\ rs_delta_s_flush => TellInv'
  <1> SUFFICES ASSUME DeltaInv, TellInv, rs_delta_s_flush
               PROVE  TellInv'
    OBVIOUS
  <1>1. CASE Enter("rs_delta_s_flush")
    BY <1>1, TellEnter
  <1>2. CASE /\ InLoop("rs_delta_s_flush") /\ scan.pos < scan.len
             /\ LET f == rs_findmatch(scan)
                IN  Iteration(f, weaksum_rollout(f.scan.weak_sum, ScanByte(scan, scan.pos)))
    <2> DEFINE f == rs_findmatch(scan)
               rolled == weaksum_rollout(f.scan.weak_sum, ScanByte(scan, scan.pos))
    <2>1. pc = "loop" /\ Iteration(rs_findmatch(scan), rolled) /\ scan.pos < scan.len
      BY <1>2 DEF InLoop
    <2>2. SumOK(f.scan.weak_sum) /\ f.scan.weak_sum.count \in Nat \ {0}
      BY <2>1, Found
    <2> HIDE DEF f
    <2>3. SumOK(rolled)
      <3>1. f.scan.weak_sum.count > 0
        BY <2>2
      <3> QED
        BY <2>2, <3>1, SumFacts
    <2> HIDE DEF rolled
    <2> QED
      BY <2>1, <2>3, TellIteration
  <1>3. CASE /\ InLoop("rs_delta_s_flush") /\ scan.pos >= scan.len
             /\ LET f == rs_appendflush(State)
                IN  /\ scan' = f.scan
                    /\ Finish(f.job, "rs_delta_s_end",
                              IF f.result = "RS_DONE" THEN "RS_RUNNING" ELSE f.result)
             /\ UNCHANGED basis
    <2> DEFINE f == rs_appendflush(State)
               k == f.job
               r == IF f.result = "RS_DONE" THEN "RS_RUNNING" ELSE f.result
               S == Reached(job, scan)
    <2>1. /\ pc = "loop" /\ statefn = "rs_delta_s_flush"
          /\ scan' = f.scan /\ Finish(k, "rs_delta_s_end", r) /\ basis' = basis
      BY <1>3 DEF InLoop
    <2>2. DOMAIN State = {"job", "scan", "result"} /\ State.job = job /\ State.scan = scan
      BY DEF State
    <2>3. /\ ScanOK(scan) /\ job.cursor \in Nat /\ scan.pos \in Nat /\ job.scoop_avail \in Nat
          /\ job.avail_in \in Nat /\ Len(input) \in Nat
          /\ job.cursor + job.scoop_avail + job.avail_in <= Len(input)
      BY Amounts DEF JobOK
    <2>4. /\ Balanced(State) /\ rs_tube_is_idle(job) /\ job.copy_len = 0
          /\ scan.len = job.scoop_avail + job.avail_in /\ scan.pos <= scan.len
      BY <2>1, <2>2, <2>3, LoopBalanced
    <2>5. S \in Nat /\ S = job.cursor + scan.pos /\ S <= Len(input)
      BY <2>3, <2>4 DEF Reached
    <2>6. Told(Total(job), scan, S) /\ FilesFit
      BY <2>1 DEF TellInv, Speaks
    <2> HIDE DEF S
    <2>7. Flushed(State, f)
      BY <2>2, <2>4, AppendflushFacts
    <2>8. Decodes(Total(k), UpTo(S))
      BY <2>2, <2>4, <2>5, <2>6, AppendflushTells
    <2> HIDE DEF f
    <2>9. /\ JobOK(k) /\ f.result \in Results /\ f.scan.pos = 0 /\ f.scan.basis_len = 0
          /\ k.cursor + k.copy_len + f.scan.pos = job.cursor + job.copy_len + scan.pos + 0
      BY <2>2, <2>7 DEF Flushed, Scanning, Work
    <2>10. Reached(k, f.scan) = S
      BY <2>3, <2>4, <2>5, <2>9 DEF Reached
    <2>11. Told(Total(k), f.scan, S)
      BY <2>5, <2>8, <2>9, ToldPlain
    <2>12. Speaks("rs_delta_s_end", k, f.scan)
      BY <2>10, <2>11 DEF Speaks
    <2>13. r \in {"RS_RUNNING", "RS_DONE", "RS_BLOCKED", "RS_INPUT_ENDED"} /\ r # "RS_DONE"
      BY <2>9 DEF Results
    <2> HIDE DEF r, k
    <2> QED
      BY <2>1, <2>6, <2>9, <2>12, <2>13, TellFinish
  <1> QED
    BY <1>1, <1>2, <1>3 DEF rs_delta_s_flush

\* The output always says it.
LEMMA TellAlways == Spec => []TellInv
  <1>1. DeltaInv /\ TellInv /\ [Next]_vars => TellInv'
    BY TellCalled, TellCatchup, TellHeader, TellScan, TellFlush, TellEnd, TellSlack, TellSame
    DEF Next, Step, Stopped
  <1> QED
    BY <1>1, TellInit, DeltaAlways, PTL DEF Spec

\* What is being collected follows what has been put out.
LEMMA PendingFollows ==
    ASSUME DeltaInv
    PROVE  LET rest == IF scan.basis_len > 0 THEN rs_emit_copy_cmd(scan.basis_pos, scan.basis_len)
                       ELSE IF scan.pos > 0
                         THEN rs_emit_literal_cmd(scan.pos)
                                \o SubSeq(input, job.cursor + job.copy_len + 1, Scanned)
                       ELSE <<>>
           IN  /\ rest \in Seq(Nat) /\ job.out \o Pending = Total(job) \o rest
               /\ Total(job) \in Seq(Nat) /\ job.cursor + job.copy_len \in Nat
               /\ Scanned \in Nat /\ Scanned = Reached(job, scan) /\ Scanned <= Len(input)
  <1> DEFINE rest == IF scan.basis_len > 0 THEN rs_emit_copy_cmd(scan.basis_pos, scan.basis_len)
                     ELSE IF scan.pos > 0
                       THEN rs_emit_literal_cmd(scan.pos)
                              \o SubSeq(input, job.cursor + job.copy_len + 1, Scanned)
                     ELSE <<>>
             a == job.cursor + job.copy_len
  <1>1. /\ JobOK(job) /\ job.cursor \in Nat /\ job.copy_len \in Nat /\ job.scoop_avail \in Nat
        /\ job.avail_in \in Nat /\ scan.pos \in Nat /\ scan.weak_sum.count \in Nat /\ Len(input) \in Nat
        /\ input \in Seq(Nat) /\ ScanOK(scan)
    BY Amounts
  <1>2. job.copy_len + scan.pos + scan.weak_sum.count <= job.scoop_avail + job.avail_in
    BY DEF DeltaInv, Fits
  <1>3. job.cursor + job.scoop_avail + job.avail_in <= Len(input)
    BY <1>1 DEF JobOK
  <1>4. a \in Nat /\ a <= Len(input) /\ a + scan.pos <= Len(input) /\ a + scan.pos \in Nat
    <2> DEFINE jc == job.cursor
               jl == job.copy_len
               js == job.scoop_avail
               ja == job.avail_in
               p == scan.pos
               n == scan.weak_sum.count
               l == Len(input)
    <2>1. /\ jc \in Nat /\ jl \in Nat /\ js \in Nat /\ ja \in Nat /\ p \in Nat /\ n \in Nat /\ l \in Nat
          /\ jl + p + n <= js + ja /\ jc + js + ja <= l
      BY <1>1, <1>2, <1>3
    <2> HIDE DEF jc, jl, js, ja, p, n, l
    <2>2. jc + jl \in Nat /\ jc + jl <= l /\ (jc + jl) + p <= l /\ (jc + jl) + p \in Nat
      BY <2>1
    <2> QED
      BY <2>2 DEF jc, jl, p, l
  <1>5. Scanned = a + scan.pos /\ Scanned = Reached(job, scan)
    BY DEF Scanned, Reached
  <1>6. /\ Total(job) \in Seq(Nat) /\ NextBytes(job, job.copy_len) \in Seq(Nat)
        /\ job.out \in Seq(Nat) /\ job.write_buf \in Seq(Nat)
    <2>1. job.out \in Seq(Nat) /\ job.write_buf \in Seq(Nat)
      BY <1>1 DEF JobOK
    <2>2. job.cursor + job.copy_len <= Len(input)
      BY <1>4
    <2> QED
      BY <1>1, <2>1, <2>2, TotalType
  <1>7. rest \in Seq(Nat)
    <2>1. scan.basis_len \in Int /\ scan.basis_pos \in Int
      BY <1>1 DEF ScanOK
    <2>2. CASE scan.basis_len > 0
      BY <2>1, <2>2, CommandBytes
    <2>3. CASE ~(scan.basis_len > 0) /\ scan.pos > 0
      <3> DEFINE l == rs_emit_literal_cmd(scan.pos)
                 data == SubSeq(input, a + 1, a + scan.pos)
      <3>1. l \in Seq(Nat)
        BY <1>1, CommandBytes
      <3>2. data \in Seq(Nat)
        BY <1>1, <1>4, PieceFacts
      <3>3. rest = l \o data
        BY <1>5, <2>3
      <3> HIDE DEF l, data, rest
      <3> QED
        BY <3>1, <3>2, <3>3, LastPiece
    <2>4. CASE ~(scan.basis_len > 0) /\ ~(scan.pos > 0)
      BY <2>4
    <2> QED
      BY <2>2, <2>3, <2>4
  <1>8. Pending = (job.write_buf \o NextBytes(job, job.copy_len)) \o rest
    BY DEF Pending
  <1> HIDE DEF rest
  <1>9. PICK o \in Seq(Nat), w \in Seq(Nat), n \in Seq(Nat), r \in Seq(Nat) :
          /\ o = job.out /\ w = job.write_buf /\ n = NextBytes(job, job.copy_len) /\ r = rest
    BY <1>6, <1>7
  <1>10. o \o ((w \o n) \o r) = ((o \o w) \o n) \o r
    <2>1. PICK x : x = w \o n
      OBVIOUS
    <2>2. x \in Seq(Nat)
      BY <2>1, LastPiece
    <2>3. o \o (x \o r) = (o \o x) \o r
      BY <2>2, ConcatBytes, ZenonT(30)
    <2>4. o \o x = (o \o w) \o n
      BY <2>1, ConcatBytes, ZenonT(30)
    <2> QED
      BY <2>1, <2>3, <2>4
  <1>11. job.out \o Pending = Total(job) \o rest
    BY <1>8, <1>9, <1>10 DEF Total
  <1> QED
    BY <1>4, <1>5, <1>6, <1>7, <1>11 DEF rest

\* What the invariants say of the delta.
LEMMA TellsScanned == DeltaInv /\ TellInv => DeltaDecodesToScanned
  <1> SUFFICES ASSUME DeltaInv, TellInv
               PROVE  DeltaDecodesToScanned
    OBVIOUS
  <1> DEFINE rest == IF scan.basis_len > 0 THEN rs_emit_copy_cmd(scan.basis_pos, scan.basis_len)
                     ELSE IF scan.pos > 0
                       THEN rs_emit_literal_cmd(scan.pos)
                              \o SubSeq(input, job.cursor + job.copy_len + 1, Scanned)
                     ELSE <<>>
             verdict == IF statefn = "NULL" THEN "RS_DONE" ELSE "RS_INPUT_ENDED"
  <1>1. /\ rest \in Seq(Nat) /\ job.out \o Pending = Total(job) \o rest
        /\ Total(job) \in Seq(Nat) /\ job.cursor + job.copy_len \in Nat
        /\ Scanned \in Nat /\ Scanned = Reached(job, scan) /\ Scanned <= Len(input)
    BY PendingFollows
  <1>2. FilesFit /\ Speaks(statefn, job, scan) /\ basis \in Seq(Nat) /\ input \in Seq(Nat)
        /\ scan.pos \in Nat /\ scan.basis_len \in Nat
    BY Amounts DEF TellInv
  <1>3. MeansEnd(Apply(Total(job) \o rest, basis), UpTo(Scanned), verdict)
    <2>1. CASE statefn \in {"rs_delta_s_header", "NULL"}
      <3>1. scan.pos = 0 /\ scan.basis_len = 0
        BY <2>1 DEF DeltaInv, NotScanning, AtEnd
      <3>2. rest = <<>>
        BY <3>1
      <3> HIDE DEF rest
      <3>3. Total(job) \o rest = Total(job)
        BY <1>1, <3>2, ConcatEmptySeq
      <3>4. CASE statefn = "NULL"
        <4>1. MeansEnd(Apply(Total(job), basis), UpTo(Reached(job, scan)), "RS_DONE") /\ verdict = "RS_DONE"
          BY <1>2, <3>4 DEF Speaks
        <4> QED
          BY <1>1, <3>3, <4>1
      <3>5. CASE statefn = "rs_delta_s_header"
        <4>1. Total(job) = <<>> /\ job.cursor + job.copy_len = 0 /\ verdict = "RS_INPUT_ENDED"
          BY <1>2, <3>5 DEF Speaks
        <4>2. Apply(<<>>, basis).out = <<>> /\ Apply(<<>>, basis).verdict = "RS_INPUT_ENDED"
          BY DEF Apply
        <4>3. Scanned = 0
          BY <1>1, <3>1, <4>1 DEF Reached
        <4>4. UpTo(0) = <<>>
          <5>1. 0 \in Nat /\ 0 <= Len(input)
            BY <1>2, LenProperties
          <5>2. SubSeq(input, 0 + 1, 0) = <<>>
            BY <1>2, <5>1, PartFacts
          <5> QED
            BY <5>2 DEF UpTo
        <4> HIDE DEF verdict
        <4> QED
          BY <3>3, <4>1, <4>2, <4>3, <4>4 DEF MeansEnd
      <3> QED
        BY <2>1, <3>4, <3>5
    <2>2. CASE statefn \notin {"rs_delta_s_header", "NULL"}
      <3>1. Told(Total(job), scan, Scanned) /\ verdict = "RS_INPUT_ENDED"
        BY <1>1, <1>2, <2>2 DEF Speaks
      <3>2. Decodes(Total(job) \o rest, UpTo(Scanned))
        <4> DEFINE S == Scanned
        <4>1. S \in Nat /\ S <= Len(input) /\ S = job.cursor + job.copy_len + scan.pos
          BY <1>1 DEF Reached
        <4>2. CASE scan.basis_len > 0
          <5>1. Decodes(Total(job), UpTo(S - scan.basis_len)) /\ Matching(scan.basis_pos, scan.basis_len, S)
            BY <3>1, <4>2 DEF Told, Uncounted
          <5>2. PICK len, T : len \in Nat \ {0} /\ len = scan.basis_len /\ T = Total(job)
            BY <1>2, <4>2
          <5>3. rest = rs_emit_copy_cmd(scan.basis_pos, len)
            BY <4>2, <5>2
          <5> HIDE DEF rest, S
          <5>4. Decodes(T \o rs_emit_copy_cmd(scan.basis_pos, len), UpTo(S))
            BY <1>2, <4>1, <5>1, <5>2, TellCopy
          <5> QED
            BY <5>2, <5>3, <5>4 DEF S
        <4>3. CASE ~(scan.basis_len > 0) /\ scan.pos > 0
          <5>1. Decodes(Total(job), UpTo(S - scan.pos))
            BY <3>1, <4>3 DEF Told, Uncounted
          <5>2. PICK n, T : n \in Nat \ {0} /\ n = scan.pos /\ T = Total(job)
            BY <1>2, <4>3
          <5>3. PICK a \in Nat : a = job.cursor + job.copy_len
            BY <1>1
          <5>4. rest = rs_emit_literal_cmd(n) \o SubSeq(input, a + 1, S)
            BY <4>3, <5>2, <5>3
          <5> HIDE DEF rest, S
          <5>5. S = a + n /\ S - n = a
            BY <4>1, <5>2, <5>3
          <5>6. Decodes((T \o rs_emit_literal_cmd(n)) \o SubSeq(input, a + 1, a + n), UpTo(a + n))
            BY <1>2, <4>1, <5>1, <5>2, <5>5, TellLiteral
          <5>7. PICK l, data : l = rs_emit_literal_cmd(n) /\ data = SubSeq(input, a + 1, a + n)
            OBVIOUS
          <5>8. l \in Seq(Nat) /\ data \in Seq(Nat) /\ T \in Seq(Nat)
            <6>1. l \in Seq(Nat)
              BY <5>2, <5>7, CommandBytes
            <6>2. data \in Seq(Nat)
              <7>1. n \in Nat /\ a + n <= Len(input)
                BY <4>1, <5>2, <5>5
              <7>2. SubSeq(input, a + 1, a + n) \in Seq(Nat)
                BY <1>2, <7>1, PieceFacts
              <7> QED
                BY <5>7, <7>2
            <6> QED
              BY <1>1, <5>2, <6>1, <6>2
          <5>9. (T \o l) \o data = T \o (l \o data)
            BY <5>8, ConcatBytes
          <5>10. rest = l \o data /\ UpTo(a + n) = UpTo(S)
            BY <5>4, <5>5, <5>7
          <5>11. Decodes((T \o l) \o data, UpTo(S))
            BY <5>6, <5>7, <5>10
          <5> QED
            BY <5>2, <5>9, <5>10, <5>11 DEF S
        <4>4. CASE ~(scan.basis_len > 0) /\ ~(scan.pos > 0)
          <5>1. scan.pos = 0 /\ scan.basis_len = 0 /\ rest = <<>>
            BY <1>2, <4>4
          <5> HIDE DEF rest
          <5>2. Total(job) \o rest = Total(job)
            BY <1>1, <5>1, ConcatEmptySeq
          <5>3. Decodes(Total(job), UpTo(Scanned))
            BY <1>1, <3>1, <5>1, ToldPlain
          <5> QED
            BY <5>2, <5>3
        <4> QED
          BY <4>2, <4>3, <4>4
      <3> HIDE DEF rest, verdict
      <3> QED
        BY <1>2, <3>1, <3>2, DecodesStop
    <2> QED
      BY <2>1, <2>2
  <1>4. result = "RS_DONE" => Scanned = Len(input)
    <2> SUFFICES ASSUME result = "RS_DONE"
                 PROVE  Scanned = Len(input)
      OBVIOUS
    <2>1. statefn = "NULL" /\ rs_tube_is_idle(job)
      BY DEF DeltaInv, InTurn
    <2>2. /\ job.eof_in /\ scan.pos = 0 /\ job.scoop_avail + job.avail_in = job.copy_len
          /\ job.copy_len = 0
      BY <2>1 DEF DeltaInv, AtEnd, rs_tube_is_idle
    <2>3. job.cursor + job.scoop_avail + job.avail_in = Len(input)
      BY <2>2 DEF DeltaInv, EofIsTrue
    <2>4. job.cursor \in Nat /\ job.scoop_avail \in Nat /\ job.avail_in \in Nat
      BY Amounts
    <2> QED
      BY <2>2, <2>3, <2>4 DEF Scanned
  <1> HIDE DEF rest, verdict
  <1>5. MeansEnd(Apply(job.out \o Pending, basis), SubSeq(input, 1, Scanned), verdict)
    BY <1>1, <1>3 DEF UpTo
  <1> QED
    BY <1>4, <1>5 DEF DeltaDecodesToScanned, MeansEnd, verdict

\* At any moment what the delta job has put out, what waits in the tube and the
\* match or the miss that it is collecting decode, by what the commands mean, to
\* the part of the new file that has been scanned: wherever the job was blocked,
\* no byte is lost or sent twice, and a job that has succeeded has sent all of it.
THEOREM DeltaDecodes == Spec => []DeltaDecodesToScanned
  BY TellsScanned, DeltaAlways, TellAlways, PTL

-----------------------------------------------------------------------------
(* Residues.                                                               *)

\* x and y have the same residue modulo m.
Alike(x, y, m) == \E k \in Int : x - y = k * m

\* A residue is like the number.
LEMMA ResidueAlike ==
    ASSUME NEW m \in Nat \ {0}, NEW x \in Int
    PROVE  x % m \in Nat /\ x % m < m /\ Alike(x % m, x, m)
  <1>1. x \div m \in Int /\ x = (x \div m) * m + (x % m) /\ x % m \in Nat /\ x % m < m
    OBVIOUS
  <1> DEFINE q == x \div m
             r == x % m
  <1> HIDE DEF q, r
  <1>2. q \in Int /\ x = q * m + r /\ r \in Nat /\ r < m
    BY <1>1 DEF q, r
  <1>3. -q \in Int /\ r - x = (-q) * m
    BY <1>2
  <1>4. Alike(r, x, m)
    BY <1>3 DEF Alike
  <1> QED
    BY <1>2, <1>4 DEF r

\* To be alike is an equivalence.
LEMMA AlikeRules ==
    ASSUME NEW m \in Nat \ {0}, NEW x \in Int, NEW y \in Int
    PROVE  /\ Alike(x, x, m)
           /\ Alike(x, y, m) => Alike(y, x, m)
           /\ \A z \in Int : Alike(x, y, m) /\ Alike(y, z, m) => Alike(x, z, m)
  <1>1. Alike(x, x, m)
    <2>1. x - x = 0 * m
      OBVIOUS
    <2> QED
      BY <2>1 DEF Alike
  <1>2. ASSUME Alike(x, y, m) PROVE Alike(y, x, m)
    <2>1. PICK k \in Int : x - y = k * m
      BY <1>2 DEF Alike
    <2>2. -k \in Int /\ y - x = (-k) * m
      BY <2>1
    <2> QED
      BY <2>2 DEF Alike
  <1>3. ASSUME NEW z \in Int, Alike(x, y, m), Alike(y, z, m) PROVE Alike(x, z, m)
    <2>1. PICK k \in Int : x - y = k * m
      BY <1>3 DEF Alike
    <2>2. PICK l \in Int : y - z = l * m
      BY <1>3 DEF Alike
    <2>3. k + l \in Int /\ x - z = (k + l) * m
      BY <2>1, <2>2
    <2> QED
      BY <2>3 DEF Alike
  <1> QED
    BY <1>1, <1>2, <1>3

\* The same, as formulas that can be applied to any numbers.
LEMMA AlikeSelf == \A m \in Nat \ {0}, x \in Int : Alike(x, x, m)
  BY AlikeRules

\* The same, the other way round.
LEMMA AlikeBack == \A m \in Nat \ {0}, x, y \in Int : Alike(x, y, m) => Alike(y, x, m)
  BY AlikeRules

\* The same, in a chain.
LEMMA AlikeChain ==
    \A m \in Nat \ {0}, x, y, z \in Int : Alike(x, y, m) /\ Alike(y, z, m) => Alike(x, z, m)
  BY AlikeRules

\* It is kept by sums, differences and products.
LEMMA AlikeSums ==
    ASSUME NEW m \in Nat \ {0}, NEW x \in Int, NEW y \in Int, NEW u \in Int, NEW v \in Int,
           Alike(x, y, m), Alike(u, v, m)
    PROVE  Alike(x + u, y + v, m) /\ Alike(x - u, y - v, m) /\ Alike(x * u, y * v, m)
  <1>1. PICK k \in Int : x - y = k * m
    BY DEF Alike
  <1>2. PICK l \in Int : u - v = l * m
    BY DEF Alike
  <1>3. k + l \in Int /\ (x + u) - (y + v) = (k + l) * m
    BY <1>1, <1>2
  <1>4. k - l \in Int /\ (x - u) - (y - v) = (k - l) * m
    BY <1>1, <1>2
  <1>5. x * l + k * v \in Int /\ x * u - y * v = (x * l + k * v) * m
    <2>1. x * u - y * v = x * (u - v) + (x - y) * v
      OBVIOUS
    <2>2. x * u - y * v = x * (l * m) + (k * m) * v
      BY <1>1, <1>2, <2>1
    <2>3. x * (l * m) + (k * m) * v = (x * l + k * v) * m
      OBVIOUS
    <2> QED
      BY <2>2, <2>3
  <1> QED
    BY <1>3, <1>4, <1>5 DEF Alike

\* Numbers that are alike have the same residue.
LEMMA AlikeResidues ==
    ASSUME NEW m \in Nat \ {0}, NEW x \in Int, NEW y \in Int, Alike(x, y, m)
    PROVE  x % m = y % m
  <1> DEFINE r == x % m
             t == y % m
  <1>1. r \in Nat /\ r < m /\ Alike(r, x, m) /\ t \in Nat /\ t < m /\ Alike(t, y, m)
    BY ResidueAlike
  <1> HIDE DEF r, t
  <1>2. Alike(r, t, m)
    <2>1. Alike(r, y, m)
      BY <1>1, AlikeRules
    <2>2. Alike(y, t, m)
      <3>1. t \in Int /\ Alike(t, y, m)
        BY <1>1
      <3> QED
        BY <3>1, AlikeRules
    <2> QED
      BY <1>1, <2>1, <2>2, AlikeRules
  <1>3. PICK k \in Int : r - t = k * m
    BY <1>2 DEF Alike
  <1>4. k < 1
    <2>1. k >= 1 => k * m >= m
      OBVIOUS
    <2> QED
      BY <1>1, <1>3, <2>1
  <1>5. k > -1
    <2>1. k <= -1 => k * m <= -m
      OBVIOUS
    <2> QED
      BY <1>1, <1>3, <2>1
  <1>6. k = 0
    BY <1>4, <1>5
  <1>7. r - t = 0
    BY <1>3, <1>6
  <1> QED
    BY <1>1, <1>7 DEF r, t

-----------------------------------------------------------------------------
(* Recursive functions and powers.                                         *)

\* The function g is the one that the first value and the steps define.
Stepwise(g, n, S, a, step) ==
    g \in [0 .. n -> S] /\ g = [k \in 0 .. n |-> IF k = 0 THEN a ELSE step[k][g[k - 1]]]

\* There is one.
LEMMA RecursiveFunction ==
    ASSUME NEW n \in Nat, NEW S, NEW a \in S, NEW step \in Steps(n, S)
    PROVE  \E g : Stepwise(g, n, S, a, step)
  <1>1. PICK g : Recurs(g, n, S, a, step)
    BY RecursionExists
  <1>2. \A k \in 0 .. n : g[k] = IF k = 0 THEN a ELSE step[k][g[k - 1]]
    BY <1>1 DEF Recurs
  <1>3. g \in [0 .. n -> S]
    BY <1>1 DEF Recurs
  <1>4. g = [k \in 0 .. n |-> g[k]]
    BY <1>3
  <1> QED
    BY <1>2, <1>3, <1>4 DEF Stepwise

\* The power that rabinkarp_pow computes, without a table.
PowOf(b, n) == LET f[k \in 0 .. n] == IF k = 0 THEN 1 ELSE b * f[k - 1] IN f[n]

\* The powers of b up to n form a sequence in which each is b times the one before.
LEMMA PowSequence ==
    ASSUME NEW b \in Nat, NEW n \in Nat
    PROVE  \E f \in [0 .. n -> Nat] : /\ f[0] = 1 /\ \A k \in 1 .. n : f[k] = b * f[k - 1]
                                      /\ PowOf(b, n) = f[n]
  <1> DEFINE F(f) == f = [k \in 0 .. n |-> IF k = 0 THEN 1 ELSE b * f[k - 1]]
             p == CHOOSE f : F(f)
             step == [k \in 1 .. n |-> [v \in Nat |-> b * v]]
  <1>1. PowOf(b, n) = p[n]
    BY DEF PowOf
  <1>2. step \in Steps(n, Nat)
    BY DEF Steps
  <1>3. PICK g : Stepwise(g, n, Nat, 1, step)
    <2> HIDE DEF step
    <2> QED
      BY <1>2, RecursiveFunction
  <1>4. \A k \in 0 .. n : k # 0 => step[k][g[k - 1]] = b * g[k - 1]
    <2> SUFFICES ASSUME NEW k \in 0 .. n, k # 0 PROVE step[k][g[k - 1]] = b * g[k - 1]
      OBVIOUS
    <2>1. k \in 1 .. n /\ k - 1 \in 0 .. n
      OBVIOUS
    <2>2. g[k - 1] \in Nat
      BY <1>3, <2>1 DEF Stepwise
    <2> QED
      BY <2>1, <2>2
  <1>5. F(g)
    <2> HIDE DEF step
    <2> QED
      BY <1>3, <1>4 DEF Stepwise
  <1>6. F(p)
    BY <1>5
  <1> HIDE DEF p, step
  <1>7. p[0] = 1 /\ \A k \in 1 .. n : p[k] = b * p[k - 1]
    BY <1>6
  <1> DEFINE T == {k \in 0 .. n : p[k] \in Nat}
  <1>8. \A k \in 0 .. n : k \in T
    <2>1. 0 \in T
      BY <1>7
    <2>2. \A k \in 1 .. n : k - 1 \in T => k \in T
      BY <1>7
    <2> HIDE DEF T
    <2> QED
      BY <2>1, <2>2, CountUp
  <1>9. p \in [0 .. n -> Nat]
    <2>1. p = [k \in 0 .. n |-> p[k]]
      BY <1>6
    <2> QED
      BY <1>8, <2>1
  <1> QED
    BY <1>1, <1>7, <1>9

\* A power is b times the one before.
LEMMA PowFacts ==
    ASSUME NEW b \in Nat
    PROVE  PowOf(b, 0) = 1 /\ \A n \in Nat : PowOf(b, n) \in Nat /\ PowOf(b, n + 1) = b * PowOf(b, n)
  <1>1. PowOf(b, 0) = 1
    <2>1. PICK f \in [0 .. 0 -> Nat] : f[0] = 1 /\ PowOf(b, 0) = f[0]
      BY PowSequence
    <2> QED
      BY <2>1
  <1>2. ASSUME NEW n \in Nat PROVE PowOf(b, n) \in Nat /\ PowOf(b, n + 1) = b * PowOf(b, n)
    <2>1. PICK f \in [0 .. n -> Nat] : /\ f[0] = 1 /\ \A k \in 1 .. n : f[k] = b * f[k - 1]
                                       /\ PowOf(b, n) = f[n]
      BY PowSequence
    <2>2. PICK g \in [0 .. n + 1 -> Nat] : /\ g[0] = 1 /\ \A k \in 1 .. n + 1 : g[k] = b * g[k - 1]
                                           /\ PowOf(b, n + 1) = g[n + 1]
      <3>1. n + 1 \in Nat
        OBVIOUS
      <3> QED
        BY <3>1, PowSequence
    <2> DEFINE T == {k \in 0 .. n : f[k] = g[k]}
    <2>3. \A k \in 0 .. n : k \in T
      <3>1. 0 \in T
        BY <2>1, <2>2
      <3>2. ASSUME NEW k \in 1 .. n, k - 1 \in T PROVE k \in T
        <4>1. k \in 1 .. n + 1 /\ k \in 0 .. n
          OBVIOUS
        <4>2. f[k] = b * f[k - 1] /\ g[k] = b * g[k - 1] /\ f[k - 1] = g[k - 1]
          BY <2>1, <2>2, <3>2, <4>1
        <4> QED
          BY <4>1, <4>2
      <3> HIDE DEF T
      <3> QED
        BY <3>1, <3>2, CountUp
    <2>4. f[n] = g[n] /\ n + 1 \in 1 .. n + 1 /\ (n + 1) - 1 = n /\ f[n] \in Nat
      BY <2>3
    <2>5. g[n + 1] = b * g[n]
      BY <2>2, <2>4
    <2> QED
      BY <2>1, <2>2, <2>4, <2>5
  <1> QED
    BY <1>1, <1>2

\* The power of a sum.
LEMMA PowSum ==
    ASSUME NEW b \in Nat, NEW m \in Nat, NEW n \in Nat
    PROVE  PowOf(b, m + n) = PowOf(b, m) * PowOf(b, n)
  <1> DEFINE T == {k \in 0 .. n : PowOf(b, m + k) = PowOf(b, m) * PowOf(b, k)}
  <1>1. 0 \in T
    <2>1. PowOf(b, 0) = 1 /\ PowOf(b, m) \in Nat /\ m + 0 = m
      BY PowFacts
    <2> QED
      BY <2>1
  <1>2. ASSUME NEW k \in 1 .. n, k - 1 \in T PROVE k \in T
    <2>1. k - 1 \in Nat /\ m + (k - 1) \in Nat /\ (m + (k - 1)) + 1 = m + k /\ (k - 1) + 1 = k
      OBVIOUS
    <2>2. PowOf(b, m + k) = b * PowOf(b, m + (k - 1)) /\ PowOf(b, k) = b * PowOf(b, k - 1)
      BY <2>1, PowFacts
    <2>3. PowOf(b, m) \in Nat /\ PowOf(b, k - 1) \in Nat
      BY <2>1, PowFacts
    <2>4. PowOf(b, m + (k - 1)) = PowOf(b, m) * PowOf(b, k - 1)
      BY <1>2
    <2>5. \A v, w \in Nat : b * (v * w) = v * (b * w)
      OBVIOUS
    <2>6. PowOf(b, m + k) = PowOf(b, m) * PowOf(b, k)
      BY <2>2, <2>3, <2>4, <2>5
    <2> QED
      BY <2>6
  <1>3. \A k \in 0 .. n : k \in T
    <2> HIDE DEF T
    <2> QED
      BY <1>1, <1>2, CountUp
  <1> QED
    BY <1>3

\* The table has the powers for each bit.
LEMMA TableFacts ==
    \A i \in 0 .. 31 :
        /\ RABINKARP_MULT_POW2[i] \in Nat
        /\ Alike(RABINKARP_MULT_POW2[i], PowOf(RABINKARP_MULT, PowOf(2, i)), RkMod)
  <1> DEFINE m == RABINKARP_MULT
             F(f) == f = [i \in 0 .. 31 |-> IF i = 0 THEN m % RkMod ELSE (f[i - 1] * f[i - 1]) % RkMod]
             sq == RABINKARP_MULT_POW2
             step == [i \in 1 .. 31 |-> [v \in Nat |-> (v * v) % RkMod]]
             first == m % RkMod
  <1>1. m \in Nat /\ RkMod \in Nat \ {0} /\ first \in Nat /\ \A v \in Nat : (v * v) % RkMod \in Nat
    BY WeaksumAssumption
  <1>2. sq = CHOOSE f : F(f)
    BY DEF RABINKARP_MULT_POW2
  <1>3. step \in Steps(31, Nat)
    BY <1>1 DEF Steps
  <1>4. PICK g : Stepwise(g, 31, Nat, first, step)
    <2> HIDE DEF step, first
    <2> QED
      BY <1>1, <1>3, RecursiveFunction
  <1>5. \A i \in 0 .. 31 : i # 0 => step[i][g[i - 1]] = (g[i - 1] * g[i - 1]) % RkMod
    <2> SUFFICES ASSUME NEW i \in 0 .. 31, i # 0 PROVE step[i][g[i - 1]] = (g[i - 1] * g[i - 1]) % RkMod
      OBVIOUS
    <2>1. i \in 1 .. 31 /\ i - 1 \in 0 .. 31
      OBVIOUS
    <2>2. g[i - 1] \in Nat
      BY <1>4, <2>1 DEF Stepwise
    <2> QED
      BY <2>1, <2>2
  <1>6. F(g)
    <2>1. g = [i \in 0 .. 31 |-> IF i = 0 THEN first ELSE step[i][g[i - 1]]]
      BY <1>4 DEF Stepwise
    <2> HIDE DEF step
    <2> QED
      BY <1>5, <2>1
  <1>7. F(sq)
    BY <1>2, <1>6
  <1> HIDE DEF sq, step, first
  <1>8. sq[0] = m % RkMod /\ \A i \in 1 .. 31 : sq[i] = (sq[i - 1] * sq[i - 1]) % RkMod
    BY <1>7
  <1> DEFINE P(e) == PowOf(m, e)
             Right(i) == sq[i] \in Nat /\ Alike(sq[i], P(PowOf(2, i)), RkMod)
             T == {i \in 0 .. 31 : Right(i)}
  <1>9. 0 \in T
    <2>1. PowOf(2, 0) = 1
      BY PowFacts
    <2>2. P(0) = 1 /\ P(0 + 1) = m * P(0) /\ 0 + 1 = 1
      BY <1>1, PowFacts
    <2>3. P(PowOf(2, 0)) = m
      BY <1>1, <2>1, <2>2
    <2>4. sq[0] \in Nat /\ Alike(sq[0], m, RkMod)
      <3>1. m \in Int
        BY <1>1
      <3> HIDE DEF m
      <3> QED
        BY <1>1, <1>8, <3>1, ResidueAlike
    <2> QED
      BY <2>3, <2>4
  <1>10. ASSUME NEW i \in 1 .. 31, i - 1 \in T PROVE i \in T
    <2> DEFINE a == sq[i - 1]
               e == PowOf(2, i - 1)
    <2>1. i - 1 \in Nat /\ (i - 1) + 1 = i /\ 2 \in Nat
      OBVIOUS
    <2>2. e \in Nat /\ PowOf(2, i) = 2 * e
      BY <2>1, PowFacts
    <2>3. a \in Nat /\ Alike(a, P(e), RkMod) /\ sq[i] = (a * a) % RkMod
      BY <1>8, <1>10
    <2> HIDE DEF a, e
    <2>4. P(e) \in Nat /\ P(2 * e) = P(e) * P(e)
      <3>1. 2 * e = e + e
        BY <2>2
      <3>2. P(e) \in Nat
        BY <1>1, <2>2, PowFacts
      <3>3. P(e + e) = P(e) * P(e)
        BY <1>1, <2>2, PowSum
      <3> QED
        BY <3>1, <3>2, <3>3
    <2> HIDE DEF P
    <2>5. Alike(a * a, P(e) * P(e), RkMod)
      BY <1>1, <2>3, <2>4, AlikeSums
    <2>6. sq[i] \in Nat /\ Alike(sq[i], a * a, RkMod)
      <3>1. a * a \in Int
        BY <2>3
      <3> QED
        BY <1>1, <2>3, <3>1, ResidueAlike
    <2>7. Alike(sq[i], P(e) * P(e), RkMod)
      <3>1. sq[i] \in Int /\ a * a \in Int /\ P(e) * P(e) \in Int
        BY <2>3, <2>4, <2>6
      <3> QED
        BY <1>1, <2>5, <2>6, <3>1, AlikeRules
    <2> QED
      BY <2>2, <2>4, <2>6, <2>7
  <1>11. \A i \in 0 .. 31 : i \in T
    <2> HIDE DEF T
    <2> QED
      BY <1>9, <1>10, CountUp
  <1> QED
    BY <1>11 DEF sq

\* A window is shorter than 2^32: its length fits the argument of rabinkarp_pow.
Short(n) == n \div 65536 < 65536

\* A number that four bytes hold has at most 32 bits.
LEMMA ShortFacts ==
    ASSUME NEW n \in Nat, Short(n)
    PROVE  n < PowOf(2, 32)
  <1>1. PowOf(2, 0) = 1 /\ PowOf(2, 0 + 1) = 2 * PowOf(2, 0)
    BY PowFacts
  <1>2. PowOf(2, 1) = 2
    BY <1>1
  <1>3. PowOf(2, 1 + 1) = PowOf(2, 1) * PowOf(2, 1)
    BY PowSum
  <1>4. PowOf(2, 2 + 2) = PowOf(2, 2) * PowOf(2, 2)
    BY PowSum
  <1>5. PowOf(2, 4 + 4) = PowOf(2, 4) * PowOf(2, 4)
    BY PowSum
  <1>6. PowOf(2, 8 + 8) = PowOf(2, 8) * PowOf(2, 8)
    BY PowSum
  <1>7. PowOf(2, 16 + 16) = PowOf(2, 16) * PowOf(2, 16)
    BY PowSum
  <1>8. 1 + 1 = 2 /\ 2 + 2 = 4 /\ 4 + 4 = 8 /\ 8 + 8 = 16 /\ 16 + 16 = 32
    OBVIOUS
  <1>9. PowOf(2, 32) = 4294967296
    BY <1>2, <1>3, <1>4, <1>5, <1>6, <1>7, <1>8
  <1>10. n < 4294967296
    BY DEF Short
  <1> QED
    BY <1>9, <1>10

\* The loop with the table gives the power.
LEMMA PowRight ==
    ASSUME NEW n \in Nat, Short(n)
    PROVE  rabinkarp_pow(n) \in Nat /\ Alike(rabinkarp_pow(n), PowOf(RABINKARP_MULT, n), RkMod)
  <1> DEFINE tab == RABINKARP_MULT_POW2
             m == RABINKARP_MULT
             R == RkMod
             F(f) == f = [i \in 0 .. 32 |-> IF i = 0 THEN n ELSE f[i - 1] \div 2]
             rest == CHOOSE f : F(f)
             G(f) == f = [i \in 0 .. 32 |->
                            IF i = 0 THEN 1
                            ELSE IF rest[i - 1] % 2 = 1 THEN (f[i - 1] * tab[i - 1]) % R
                            ELSE f[i - 1]]
             ans == CHOOSE f : G(f)
  <1>1. rabinkarp_pow(n) = ans[32]
    BY DEF rabinkarp_pow
  <1>2. m \in Nat /\ R \in Nat \ {0} /\ \A i \in 0 .. 31 : tab[i] \in Nat /\ Alike(tab[i], PowOf(m, PowOf(2, i)), R)
    BY WeaksumAssumption, TableFacts
  <1> HIDE DEF tab, m, R
  <1>3. rest[0] = n /\ \A i \in 1 .. 32 : rest[i] = rest[i - 1] \div 2
    <2> DEFINE step == [i \in 1 .. 32 |-> [v \in Nat |-> v \div 2]]
    <2>1. step \in Steps(32, Nat)
      BY DEF Steps
    <2>2. PICK g : Stepwise(g, 32, Nat, n, step)
      <3> HIDE DEF step
      <3> QED
        BY <2>1, RecursiveFunction
    <2>3. \A i \in 0 .. 32 : i # 0 => step[i][g[i - 1]] = g[i - 1] \div 2
      <3> SUFFICES ASSUME NEW i \in 0 .. 32, i # 0 PROVE step[i][g[i - 1]] = g[i - 1] \div 2
        OBVIOUS
      <3>1. i \in 1 .. 32 /\ i - 1 \in 0 .. 32
        OBVIOUS
      <3>2. g[i - 1] \in Nat
        BY <2>2, <3>1 DEF Stepwise
      <3> QED
        BY <3>1, <3>2
    <2>4. F(g)
      <3> HIDE DEF step
      <3> QED
        BY <2>2, <2>3 DEF Stepwise
    <2>5. F(rest)
      BY <2>4
    <2> HIDE DEF rest
    <2> QED
      BY <2>5
  <1> HIDE DEF rest
  <1>4. ans[0] = 1 /\ \A i \in 1 .. 32 : ans[i] = IF rest[i - 1] % 2 = 1 THEN (ans[i - 1] * tab[i - 1]) % R
                                                  ELSE ans[i - 1]
    <2> DEFINE Body(i, v) == IF rest[i - 1] % 2 = 1 THEN (v * tab[i - 1]) % R ELSE v
               step == [i \in 1 .. 32 |-> [v \in Nat |-> Body(i, v)]]
    <2>1. step \in Steps(32, Nat)
      <3>1. ASSUME NEW i \in 1 .. 32, NEW v \in Nat PROVE Body(i, v) \in Nat
        <4>1. tab[i - 1] \in Nat
          BY <1>2
        <4>2. (v * tab[i - 1]) % R \in Nat
          BY <1>2, <4>1
        <4> QED
          BY <4>2
      <3> HIDE DEF Body
      <3> QED
        BY <3>1 DEF Steps
    <2>2. PICK g : Stepwise(g, 32, Nat, 1, step)
      <3> HIDE DEF step
      <3> QED
        BY <2>1, RecursiveFunction
    <2>3. \A i \in 0 .. 32 : i # 0 => step[i][g[i - 1]] = Body(i, g[i - 1])
      <3> SUFFICES ASSUME NEW i \in 0 .. 32, i # 0 PROVE step[i][g[i - 1]] = Body(i, g[i - 1])
        OBVIOUS
      <3>1. i \in 1 .. 32 /\ i - 1 \in 0 .. 32
        OBVIOUS
      <3>2. g[i - 1] \in Nat
        BY <2>2, <3>1 DEF Stepwise
      <3> HIDE DEF Body
      <3> QED
        BY <3>1, <3>2
    <2>4. g = [i \in 0 .. 32 |-> IF i = 0 THEN 1 ELSE Body(i, g[i - 1])]
      <3> HIDE DEF step, Body
      <3> QED
        BY <2>2, <2>3 DEF Stepwise
    <2>5. G(g)
      BY <2>4
    <2>6. G(ans)
      BY <2>5
    <2>7. ans = [i \in 0 .. 32 |-> IF i = 0 THEN 1 ELSE Body(i, ans[i - 1])]
      BY <2>6
    <2> HIDE DEF ans
    <2>8. ans[0] = 1 /\ \A i \in 1 .. 32 : ans[i] = Body(i, ans[i - 1])
      <3> HIDE DEF Body
      <3> QED
        BY <2>7
    <2> QED
      BY <2>8
  <1> HIDE DEF ans
  <1> DEFINE P(e) == PowOf(m, e)
             E(i) == PowOf(2, i)
             Inv(i) == /\ rest[i] \in Nat /\ ans[i] \in Nat /\ rest[i] * E(i) <= n
                       /\ Alike(ans[i] * P(rest[i] * E(i)), P(n), R)
             T == {i \in 0 .. 32 : Inv(i)}
  <1>5. /\ \A e \in Nat : P(e) \in Nat
        /\ \A d \in Nat, e \in Nat : P(d + e) = P(d) * P(e)
        /\ E(0) = 1 /\ \A i \in Nat : E(i) \in Nat /\ E(i + 1) = 2 * E(i)
    BY <1>2, PowFacts, PowSum
  <1> HIDE DEF P, E
  <1>6. 0 \in T
    <2>1. rest[0] * E(0) = n /\ ans[0] * P(rest[0] * E(0)) = P(n) /\ P(n) \in Int
      <3>1. rest[0] = n /\ ans[0] = 1 /\ E(0) = 1
        BY <1>3, <1>4, <1>5
      <3>2. P(n) \in Nat
        BY <1>5
      <3>3. rest[0] * E(0) = n
        BY <3>1
      <3> QED
        BY <3>1, <3>2, <3>3
    <2>2. Alike(P(n), P(n), R)
      BY <1>2, <2>1, AlikeRules
    <2> QED
      BY <1>3, <1>4, <2>1, <2>2
  <1>7. ASSUME NEW i \in 1 .. 32, i - 1 \in T PROVE i \in T
    <2> DEFINE r == rest[i - 1]
               q == rest[i]
               a == ans[i - 1]
               b == ans[i]
               e == E(i - 1)
               t == tab[i - 1]
    <2>1. i - 1 \in Nat /\ (i - 1) + 1 = i /\ i - 1 \in 0 .. 31 /\ i \in 0 .. 32
      OBVIOUS
    <2>2. e \in Nat /\ E(i) = 2 * e
      BY <1>5, <2>1
    <2>3. r \in Nat /\ a \in Nat /\ r * e <= n /\ Alike(a * P(r * e), P(n), R)
      BY <1>7
    <2>4. q = r \div 2 /\ b = IF r % 2 = 1 THEN (a * t) % R ELSE a
      BY <1>3, <1>4
    <2>5. t \in Nat /\ Alike(t, P(e), R)
      BY <1>2, <2>1 DEF P, E
    <2>6. SUFFICES q \in Nat /\ b \in Nat /\ q * (2 * e) <= n /\ Alike(b * P(q * (2 * e)), P(n), R)
      BY <2>1, <2>2
    <2> HIDE DEF r, q, a, b, e, t, T
    <2>7. q \in Nat /\ (r = 2 * q \/ r = 2 * q + 1)
      BY <2>3, <2>4
    <2>8. CASE r % 2 = 1
      <3>1. r = 2 * q + 1
        BY <2>3, <2>4, <2>8
      <3>2. r * e = q * (2 * e) + e /\ q * (2 * e) \in Nat
        BY <2>2, <2>7, <3>1
      <3> DEFINE d == q * (2 * e)
      <3> HIDE DEF d
      <3>3. d \in Nat /\ r * e = d + e /\ P(d) \in Nat /\ P(e) \in Nat /\ P(n) \in Nat
        BY <1>5, <2>2, <3>2 DEF d
      <3>4. P(r * e) = P(d) * P(e)
        BY <1>5, <2>2, <3>3
      <3>5. b = (a * t) % R /\ a * t \in Int
        BY <2>3, <2>4, <2>5, <2>8
      <3>6. b \in Nat /\ Alike(b, a * t, R)
        BY <1>2, <3>5, ResidueAlike
      <3>7. Alike(a * t, a * P(e), R)
        <4>1. a \in Int /\ t \in Int /\ P(e) \in Int
          BY <2>3, <2>5, <3>3
        <4>2. Alike(a, a, R)
          BY <1>2, <4>1, AlikeRules
        <4> QED
          BY <1>2, <2>5, <4>1, <4>2, AlikeSums
      <3>8. Alike(b, a * P(e), R)
        <4>1. a * P(e) \in Int /\ b \in Int
          BY <2>3, <3>3, <3>6
        <4> QED
          BY <1>2, <3>5, <3>6, <3>7, <4>1, AlikeRules
      <3>9. Alike(b * P(d), (a * P(e)) * P(d), R)
        <4>1. a * P(e) \in Int /\ b \in Int /\ P(d) \in Int
          BY <2>3, <3>3, <3>6
        <4>2. Alike(P(d), P(d), R)
          BY <1>2, <4>1, AlikeRules
        <4> QED
          BY <1>2, <3>8, <4>1, <4>2, AlikeSums
      <3>10. (a * P(e)) * P(d) = a * P(r * e)
        <4>1. \A u, v, w \in Nat : (u * v) * w = u * (w * v)
          OBVIOUS
        <4> QED
          BY <2>3, <3>3, <3>4, <4>1
      <3>11. Alike(b * P(d), P(n), R)
        <4>1. a * P(r * e) \in Int /\ b * P(d) \in Int /\ P(n) \in Int
          <5>1. P(r * e) \in Nat
            BY <3>3, <3>4
          <5> QED
            BY <2>3, <3>3, <3>6, <5>1
        <4> QED
          BY <1>2, <2>3, <3>9, <3>10, <4>1, AlikeRules
      <3> QED
        BY <2>2, <2>3, <2>7, <3>3, <3>6, <3>11 DEF d
    <2>9. CASE r % 2 # 1
      <3>1. r = 2 * q
        BY <2>3, <2>4, <2>9
      <3>2. r * e = q * (2 * e)
        BY <2>2, <2>7, <3>1
      <3> QED
        BY <2>3, <2>4, <2>7, <2>9, <3>2
    <2> QED
      BY <2>8, <2>9
  <1>8. \A i \in 0 .. 32 : i \in T
    <2> HIDE DEF T
    <2> QED
      BY <1>6, <1>7, CountUp
  <1>9. Inv(32)
    BY <1>8
  <1>10. rest[32] = 0
    <2>1. n < E(32) /\ E(32) \in Nat
      BY <1>5, ShortFacts DEF E
    <2>2. \A k \in Nat : k # 0 => k * E(32) >= E(32)
      BY <2>1
    <2> QED
      BY <1>9, <2>1, <2>2
  <1>11. P(0) = 1
    BY <1>2, PowFacts DEF P
  <1>12. ans[32] * P(rest[32] * E(32)) = ans[32] /\ ans[32] \in Nat
    <2>1. E(32) \in Nat
      BY <1>5
    <2>2. rest[32] * E(32) = 0
      BY <1>10, <2>1
    <2> QED
      BY <1>9, <1>11, <2>2
  <1>13. Alike(ans[32], P(n), R)
    BY <1>9, <1>12
  <1> QED
    BY <1>1, <1>12, <1>13 DEF P, m, R

-----------------------------------------------------------------------------
(* The sums of a window.                                                   *)

\* Each value follows from the one before by adding and reducing.
Adding(f, n, a, add, m) ==
    f \in [0 .. n -> Nat] /\ f[0] = a /\ \A k \in 1 .. n : f[k] = (f[k - 1] + add[k]) % m

\* The recursive function that adds them up is such a sequence.
LEMMA AddingExists ==
    ASSUME NEW n \in Nat, NEW a \in Nat, NEW add, \A k \in 1 .. n : add[k] \in Nat, NEW m \in Nat \ {0}
    PROVE  LET f == CHOOSE g : g = [k \in 0 .. n |-> IF k = 0 THEN a ELSE (g[k - 1] + add[k]) % m]
           IN  Adding(f, n, a, add, m)
  <1> DEFINE F(g) == g = [k \in 0 .. n |-> IF k = 0 THEN a ELSE (g[k - 1] + add[k]) % m]
             f == CHOOSE g : F(g)
             step == [k \in 1 .. n |-> [v \in Nat |-> (v + add[k]) % m]]
  <1>1. \A v, w \in Nat : (v + w) % m \in Nat
    OBVIOUS
  <1>2. step \in Steps(n, Nat)
    BY <1>1 DEF Steps
  <1>3. PICK g : Stepwise(g, n, Nat, a, step)
    <2> HIDE DEF step
    <2> QED
      BY <1>2, RecursiveFunction
  <1>4. \A k \in 0 .. n : k # 0 => step[k][g[k - 1]] = (g[k - 1] + add[k]) % m
    <2> SUFFICES ASSUME NEW k \in 0 .. n, k # 0 PROVE step[k][g[k - 1]] = (g[k - 1] + add[k]) % m
      OBVIOUS
    <2>1. k \in 1 .. n /\ k - 1 \in 0 .. n
      OBVIOUS
    <2>2. g[k - 1] \in Nat
      BY <1>3, <2>1 DEF Stepwise
    <2> QED
      BY <2>1, <2>2
  <1>5. F(g)
    <2> HIDE DEF step
    <2> QED
      BY <1>3, <1>4 DEF Stepwise
  <1>6. F(f)
    BY <1>5
  <1> HIDE DEF f, step
  <1>7. f[0] = a /\ \A k \in 1 .. n : f[k] = (f[k - 1] + add[k]) % m
    BY <1>6
  <1> DEFINE T == {k \in 0 .. n : f[k] \in Nat}
  <1>8. \A k \in 0 .. n : k \in T
    <2>1. 0 \in T
      BY <1>7
    <2>2. ASSUME NEW k \in 1 .. n, k - 1 \in T PROVE k \in T
      <3>1. f[k - 1] \in Nat /\ add[k] \in Nat /\ f[k] = (f[k - 1] + add[k]) % m /\ k \in 0 .. n
        BY <1>7, <2>2
      <3> QED
        BY <1>1, <3>1
    <2> HIDE DEF T
    <2> QED
      BY <2>1, <2>2, CountUp
  <1>9. f \in [0 .. n -> Nat]
    <2>1. f = [k \in 0 .. n |-> f[k]]
      BY <1>6
    <2> QED
      BY <1>8, <2>1
  <1>10. Adding(f, n, a, add, m)
    BY <1>7, <1>9 DEF Adding
  <1> QED
    BY <1>10 DEF f

\* The two sums of a rollsum.
Rolls(w, s1, s2) == Adding(s1, Len(w), 0, w, RollMod) /\ Adding(s2, Len(w), 0, s1, RollMod)
RollsumWith(n, v1, v2) ==
    [kind |-> "RS_ROLLSUM", count |-> n,
     s1 |-> (v1 + n * ROLLSUM_CHAR_OFFSET) % RollMod,
     s2 |-> (v2 + ((n * (n + 1)) \div 2) * ROLLSUM_CHAR_OFFSET) % RollMod]

\* A fresh rollsum is made of these sequences.
LEMMA RollsumParts ==
    ASSUME NEW w \in Seq(Nat)
    PROVE  \E s1, s2 : /\ Rolls(w, s1, s2)
                       /\ RollsumUpdate(RollsumInit, w) = RollsumWith(Len(w), s1[Len(w)], s2[Len(w)])
  <1> DEFINE n == Len(w)
             s1 == CHOOSE f : f = [k \in 0 .. n |-> IF k = 0 THEN 0 ELSE (f[k - 1] + w[k]) % RollMod]
             s2 == CHOOSE f : f = [k \in 0 .. n |-> IF k = 0 THEN 0 ELSE (f[k - 1] + s1[k]) % RollMod]
  <1>1. n \in Nat /\ \A k \in 1 .. n : w[k] \in Nat
    BY LenProperties
  <1>2. RollMod \in Nat \ {0}
    BY WeaksumAssumption
  <1>3. /\ RollsumInit.s1 = 0 /\ RollsumInit.s2 = 0 /\ RollsumInit.count = 0
        /\ RollsumInit = [kind |-> "RS_ROLLSUM", count |-> 0, s1 |-> 0, s2 |-> 0]
    BY DEF RollsumInit
  <1>4. RollsumUpdate(RollsumInit, w)
          = [RollsumInit EXCEPT !.s1 = (s1[n] + n * ROLLSUM_CHAR_OFFSET) % RollMod,
                        !.s2 = (s2[n] + ((n * (n + 1)) \div 2) * ROLLSUM_CHAR_OFFSET) % RollMod,
                        !.count = @ + n]
    BY <1>3 DEF RollsumUpdate
  <1>5. Adding(s1, n, 0, w, RollMod)
    <2> HIDE DEF n
    <2> QED
      BY <1>1, <1>2, AddingExists
  <1> HIDE DEF s1
  <1>6. \A k \in 1 .. n : s1[k] \in Nat
    <2> HIDE DEF n
    <2>1. s1 \in [0 .. n -> Nat] /\ \A k \in 1 .. n : k \in 0 .. n
      BY <1>1, <1>5 DEF Adding
    <2> QED
      BY <2>1
  <1>7. Adding(s2, n, 0, s1, RollMod)
    <2> HIDE DEF n
    <2> QED
      BY <1>1, <1>2, <1>6, AddingExists
  <1> HIDE DEF s2
  <1>8. RollsumUpdate(RollsumInit, w) = RollsumWith(n, s1[n], s2[n])
    <2> HIDE DEF n
    <2>1. 0 + n = n
      BY <1>1
    <2> QED
      BY <1>3, <1>4, <2>1 DEF RollsumWith
  <1> QED
    BY <1>5, <1>7, <1>8 DEF Rolls

\* The RabinKarp hash of a window, and the power that goes with it.
Hashes(w, h) ==
    /\ h \in [0 .. Len(w) -> Nat] /\ h[0] = RABINKARP_SEED
    /\ \A k \in 1 .. Len(w) : h[k] = (RABINKARP_MULT * h[k - 1] + w[k]) % RkMod
RabinKarpWith(n, v) ==
    [kind |-> "RS_RABINKARP", count |-> n, hash |-> v, mult |-> PowOf(RABINKARP_MULT, n) % RkMod]

\* A fresh RabinKarp sum is made of this sequence and of a power of the multiplier.
LEMMA RabinKarpParts ==
    ASSUME NEW w \in Seq(Nat), Short(Len(w))
    PROVE  \E h : /\ Hashes(w, h)
                  /\ rabinkarp_update(rabinkarp_init, w) = RabinKarpWith(Len(w), h[Len(w)])
  <1> DEFINE n == Len(w)
             Round(v, k) == (RABINKARP_MULT * v + w[k]) % RkMod
             F(f) == f = [k \in 0 .. n |->
                            IF k = 0 THEN RABINKARP_SEED ELSE (RABINKARP_MULT * f[k - 1] + w[k]) % RkMod]
             h == CHOOSE f : F(f)
             step == [k \in 1 .. n |-> [v \in Nat |-> Round(v, k)]]
             p == rabinkarp_pow(n)
  <1>1. n \in Nat /\ \A k \in 1 .. n : w[k] \in Nat
    BY LenProperties
  <1>2. RkMod \in Nat \ {0} /\ RABINKARP_MULT \in Nat /\ RABINKARP_SEED = 1
    BY WeaksumAssumption DEF RABINKARP_SEED
  <1>3. \A v, x \in Nat : (RABINKARP_MULT * v + x) % RkMod \in Nat
    BY <1>2
  <1>4. step \in Steps(n, Nat)
    <2>1. \A k \in 1 .. n, v \in Nat : Round(v, k) \in Nat
      BY <1>1, <1>3
    <2> HIDE DEF Round, n
    <2> QED
      BY <2>1 DEF Steps
  <1>5. PICK g : Stepwise(g, n, Nat, 1, step)
    <2> HIDE DEF step, n
    <2> QED
      BY <1>1, <1>4, RecursiveFunction
  <1>6. \A k \in 0 .. n : k # 0 => step[k][g[k - 1]] = Round(g[k - 1], k)
    <2> HIDE DEF Round, n
    <2> SUFFICES ASSUME NEW k \in 0 .. n, k # 0 PROVE step[k][g[k - 1]] = Round(g[k - 1], k)
      OBVIOUS
    <2>1. k \in 1 .. n /\ k - 1 \in 0 .. n
      BY <1>1
    <2>2. g[k - 1] \in Nat
      BY <1>5, <2>1 DEF Stepwise
    <2> QED
      BY <2>1, <2>2
  <1>7. g = [k \in 0 .. n |-> IF k = 0 THEN 1 ELSE Round(g[k - 1], k)]
    <2> HIDE DEF step, Round, n
    <2> QED
      BY <1>5, <1>6 DEF Stepwise
  <1>8. F(g)
    BY <1>2, <1>7
  <1>9. F(h)
    BY <1>8
  <1>10. rabinkarp_update(rabinkarp_init, w) = RabinKarpWith(n, h[n])
    <2>1. rabinkarp_init = [kind |-> "RS_RABINKARP", count |-> 0, hash |-> RABINKARP_SEED, mult |-> 1]
      BY DEF rabinkarp_init
    <2>2. rabinkarp_init.hash = RABINKARP_SEED /\ rabinkarp_init.count = 0 /\ rabinkarp_init.mult = 1
      BY <2>1
    <2>3. rabinkarp_update(rabinkarp_init, w)
            = [rabinkarp_init EXCEPT !.hash = h[n], !.count = @ + n, !.mult = (@ * p) % RkMod]
      BY <2>2 DEF rabinkarp_update
    <2>4. p \in Nat /\ Alike(p, PowOf(RABINKARP_MULT, n), RkMod)
      BY <1>1, PowRight
    <2>5. (1 * p) % RkMod = PowOf(RABINKARP_MULT, n) % RkMod
      <3> DEFINE q == PowOf(RABINKARP_MULT, n)
      <3>1. q \in Int /\ p \in Int
        BY <1>1, <1>2, <2>4, PowFacts
      <3> HIDE DEF p, n, q
      <3>2. p % RkMod = q % RkMod
        BY <1>2, <2>4, <3>1, AlikeResidues DEF q
      <3>3. 1 * p = p
        BY <2>4
      <3> QED
        BY <3>2, <3>3 DEF q
    <2> HIDE DEF h, n, p
    <2>6. 0 + n = n
      BY <1>1
    <2> QED
      BY <2>1, <2>3, <2>5, <2>6 DEF RabinKarpWith
  <1> HIDE DEF h
  <1>11. h = [k \in 0 .. n |-> IF k = 0 THEN 1 ELSE Round(h[k - 1], k)]
    BY <1>2, <1>9
  <1>12. h[0] = 1 /\ \A k \in 1 .. n : h[k] = Round(h[k - 1], k)
    <2> HIDE DEF Round, n
    <2> QED
      BY <1>1, <1>11
  <1> DEFINE T == {k \in 0 .. n : h[k] \in Nat}
  <1>13. \A k \in 0 .. n : k \in T
    <2>1. 0 \in T
      BY <1>1, <1>12
    <2>2. ASSUME NEW k \in 1 .. n, k - 1 \in T PROVE k \in T
      <3>1. h[k - 1] \in Nat /\ w[k] \in Nat /\ h[k] = Round(h[k - 1], k) /\ k \in 0 .. n
        BY <1>1, <1>12, <2>2
      <3>2. Round(h[k - 1], k) \in Nat
        BY <1>3, <3>1
      <3> QED
        BY <3>1, <3>2
    <2> HIDE DEF T, n
    <2> QED
      BY <1>1, <2>1, <2>2, CountUp
  <1>14. h \in [0 .. n -> Nat]
    <2>1. h = [k \in 0 .. n |-> h[k]]
      <3> HIDE DEF Round, n
      <3> QED
        BY <1>11
    <2> HIDE DEF n
    <2> QED
      BY <1>13, <2>1
  <1>15. Hashes(w, h)
    BY <1>2, <1>12, <1>14 DEF Hashes
  <1> QED
    BY <1>10, <1>15

-----------------------------------------------------------------------------
(* Rolling.                                                                *)

\* The window v begins one byte after u.
Behind(u, v) ==
    /\ u \in Seq(Nat) /\ v \in Seq(Nat) /\ Len(u) > 0
    /\ Len(v) \in {Len(u) - 1, Len(u)} /\ \A k \in 1 .. Len(u) - 1 : v[k] = u[k + 1]

\* In the sums of the later window the first byte of the earlier one is missing.
LEMMA RollsumShift ==
    ASSUME NEW u, NEW v, Behind(u, v), NEW s1, NEW s2, Rolls(u, s1, s2), NEW t1, NEW t2, Rolls(v, t1, t2)
    PROVE  \A k \in 0 .. Len(u) - 1 : /\ Alike(t1[k], s1[k + 1] - u[1], RollMod)
                                      /\ Alike(t2[k], s2[k + 1] - (k + 1) * u[1], RollMod)
  <1> DEFINE n == Len(u)
             M == RollMod
             o == u[1]
  <1>1. /\ n \in Nat \ {0} /\ M \in Nat \ {0} /\ n - 1 \in Nat /\ \A k \in 1 .. n : u[k] \in Nat
        /\ \A k \in 1 .. n - 1 : v[k] = u[k + 1]
    BY LenProperties, WeaksumAssumption DEF Behind
  <1>2. /\ s1[0] = 0 /\ s2[0] = 0 /\ \A k \in 0 .. n : s1[k] \in Nat /\ s2[k] \in Nat
        /\ \A k \in 1 .. n : s1[k] = (s1[k - 1] + u[k]) % M /\ s2[k] = (s2[k - 1] + s1[k]) % M
    BY DEF Rolls, Adding
  <1>3. /\ t1[0] = 0 /\ t2[0] = 0 /\ \A k \in 0 .. n - 1 : t1[k] \in Nat /\ t2[k] \in Nat
        /\ \A k \in 1 .. n - 1 : t1[k] = (t1[k - 1] + v[k]) % M /\ t2[k] = (t2[k - 1] + t1[k]) % M
    <2>1. Len(v) \in Nat /\ n - 1 <= Len(v)
      BY <1>1 DEF Behind
    <2>2. \A k \in 0 .. n - 1 : k \in 0 .. Len(v) /\ (k # 0 => k \in 1 .. Len(v))
      BY <1>1, <2>1
    <2> HIDE DEF n
    <2>3. \A k \in 1 .. n - 1 : k \in 0 .. n - 1 /\ k # 0
      BY <1>1
    <2> QED
      BY <2>2, <2>3 DEF Rolls, Adding
  <1> HIDE DEF n, M
  <1>4. o \in Nat
    BY <1>1
  <1> HIDE DEF o
  <1> DEFINE Right(k) == Alike(t1[k], s1[k + 1] - o, M) /\ Alike(t2[k], s2[k + 1] - (k + 1) * o, M)
             T == {k \in 0 .. n - 1 : Right(k)}
  <1>5. 0 \in T
    <2>1. 1 \in 1 .. n /\ 1 - 1 = 0 /\ 0 + 1 = 1 /\ 0 \in 0 .. n - 1
      BY <1>1
    <2>2. s1[1] = (0 + o) % M /\ s2[1] = (0 + s1[1]) % M /\ s1[1] \in Nat /\ s2[1] \in Nat
      BY <1>2, <2>1 DEF o
    <2>3. 0 + o = o /\ 0 + s1[1] = s1[1] /\ (0 + 1) * o = o
      BY <1>4, <2>2
    <2>4. Alike(s1[1], o, M) /\ Alike(s2[1], s1[1], M)
      <3>1. Alike(o % M, o, M)
        BY <1>1, <1>4, ResidueAlike
      <3>2. Alike(s1[1] % M, s1[1], M)
        BY <1>1, <2>2, ResidueAlike
      <3> QED
        BY <2>2, <2>3, <3>1, <3>2
    <2>5. Alike(s2[1], o, M)
      BY <1>1, <1>4, <2>2, <2>4, AlikeChain
    <2>9. Alike(0, s1[1] - o, M) /\ Alike(0, s2[1] - o, M)
      <3>1. ASSUME NEW y \in Nat, Alike(y, o, M) PROVE Alike(0, y - o, M)
        <4>1. PICK k \in Int : y - o = k * M
          BY <3>1 DEF Alike
        <4>2. -k \in Int /\ 0 - (y - o) = (-k) * M
          BY <1>1, <1>4, <4>1
        <4> QED
          BY <4>2 DEF Alike
      <3> QED
        BY <2>2, <2>4, <2>5, <3>1
    <2> QED
      BY <1>3, <2>1, <2>3, <2>9
  <1>6. ASSUME NEW k \in 1 .. n - 1, k - 1 \in T PROVE k \in T
    <2>1. k \in Nat /\ k + 1 \in 1 .. n /\ (k + 1) - 1 = k /\ (k - 1) + 1 = k /\ k \in 0 .. n - 1
          /\ k - 1 \in 0 .. n - 1 /\ k \in 0 .. n /\ k + 1 \in 0 .. n
      BY <1>1
    <2> DEFINE a == s1[k]
               b == s2[k]
               a1 == s1[k + 1]
               b1 == s2[k + 1]
               c == t1[k - 1]
               d == t2[k - 1]
               c1 == t1[k]
               d1 == t2[k]
               x == u[k + 1]
    <2>2. /\ a \in Nat /\ b \in Nat /\ a1 \in Nat /\ b1 \in Nat /\ x \in Nat
          /\ c \in Nat /\ d \in Nat /\ c1 \in Nat /\ d1 \in Nat
      BY <1>1, <1>2, <1>3, <2>1
    <2>3. a1 = (a + x) % M /\ b1 = (b + a1) % M /\ c1 = (c + x) % M /\ d1 = (d + c1) % M
      <3>1. v[k] = x
        BY <1>1
      <3>2. c1 = (c + v[k]) % M /\ d1 = (d + c1) % M
        BY <1>3
      <3>3. a1 = (s1[(k + 1) - 1] + x) % M /\ b1 = (s2[(k + 1) - 1] + a1) % M
        BY <1>2, <2>1
      <3> QED
        BY <2>1, <3>1, <3>2, <3>3
    <2>4. Alike(c, a - o, M) /\ Alike(d, b - k * o, M)
      <3>1. Alike(c, s1[(k - 1) + 1] - o, M) /\ Alike(d, s2[(k - 1) + 1] - ((k - 1) + 1) * o, M)
        BY <1>6
      <3> QED
        BY <2>1, <3>1
    <2>5. SUFFICES Alike(c1, a1 - o, M) /\ Alike(d1, b1 - (k + 1) * o, M)
      BY <2>1
    <2> HIDE DEF a, b, a1, b1, c, d, c1, d1, x, T
    <2>6. Alike(a1, a + x, M) /\ Alike(b1, b + a1, M) /\ Alike(c1, c + x, M) /\ Alike(d1, d + c1, M)
      <3>1. \A y \in Int : Alike(y % M, y, M)
        BY <1>1, ResidueAlike
      <3>2. a + x \in Int /\ b + a1 \in Int /\ c + x \in Int /\ d + c1 \in Int
        BY <2>2
      <3> QED
        BY <2>3, <3>1, <3>2
    <2>7. Alike(c1, a1 - o, M)
      <3>1. Alike(x, x, M) /\ Alike(o, o, M)
        BY <1>1, <1>4, <2>2, AlikeSelf
      <3>2. Alike(c + x, (a - o) + x, M)
        BY <1>1, <1>4, <2>2, <2>4, <3>1, AlikeSums
      <3>3. Alike(a1 - o, (a + x) - o, M)
        BY <1>1, <1>4, <2>2, <2>6, <3>1, AlikeSums
      <3>4. (a + x) - o = (a - o) + x /\ (a - o) + x \in Int /\ a1 - o \in Int /\ c + x \in Int
        BY <1>4, <2>2
      <3>5. Alike(c1, (a - o) + x, M)
        BY <1>1, <2>2, <2>6, <3>2, <3>4, AlikeChain
      <3>6. Alike((a - o) + x, a1 - o, M)
        BY <1>1, <3>3, <3>4, AlikeBack
      <3> QED
        BY <1>1, <2>2, <3>4, <3>5, <3>6, AlikeChain
    <2>8. Alike(d1, b1 - (k + 1) * o, M)
      <3> DEFINE e == k * o
                 f == (k + 1) * o
      <3>1. e \in Nat /\ f \in Nat /\ f = e + o
        BY <1>4, <2>1
      <3>2. Alike(d, b - e, M)
        BY <2>4
      <3> HIDE DEF e, f
      <3>3. Alike(d + c1, (b - e) + (a1 - o), M)
        BY <1>1, <1>4, <2>2, <2>7, <3>1, <3>2, AlikeSums
      <3>4. (b - e) + (a1 - o) = (b + a1) - f /\ (b + a1) - f \in Int /\ d + c1 \in Int /\ b1 - f \in Int
        BY <1>4, <2>2, <3>1
      <3>5. Alike(d1, (b + a1) - f, M)
        BY <1>1, <2>2, <2>6, <3>3, <3>4, AlikeChain
      <3>6. Alike(b1 - f, (b + a1) - f, M)
        <4>1. Alike(f, f, M)
          BY <1>1, <3>1, AlikeSelf
        <4> QED
          BY <1>1, <2>2, <2>6, <3>1, <4>1, AlikeSums
      <3>7. Alike((b + a1) - f, b1 - f, M)
        BY <1>1, <3>4, <3>6, AlikeBack
      <3>8. Alike(d1, b1 - f, M)
        BY <1>1, <2>2, <3>4, <3>5, <3>7, AlikeChain
      <3> QED
        BY <3>8 DEF f
    <2> QED
      BY <2>7, <2>8
  <1>7. \A k \in 0 .. n - 1 : k \in T
    <2> HIDE DEF T
    <2> QED
      BY <1>1, <1>5, <1>6, CountUp
  <1> QED
    BY <1>7 DEF n, M, o

RotatesTo(M, a, b, c, d, o, i, g, e, f) ==
    LET s == (((a + e) % M) + i - o) % M
    IN  s = (c + e) % M /\ (((b + f) % M) + s - (g + e)) % M = (d + f) % M

\* The arithmetic of a rotation: a, b are the sums of the earlier window and c, d
\* those of the later one, without the offsets; e and f are the offsets.
LEMMA RotateNumbers ==
    ASSUME NEW M \in Nat \ {0}, NEW a \in Nat, NEW b \in Nat, NEW c \in Nat, NEW d \in Nat,
           NEW o \in Nat, NEW i \in Nat, NEW g \in Nat, NEW e \in Nat, NEW f \in Nat,
           Alike(c, (a - o) + i, M), Alike(d, (b - g) + c, M)
    PROVE  RotatesTo(M, a, b, c, d, o, i, g, e, f)
  <1> DEFINE ae == a + e
             bf == b + f
             ce == c + e
             df == d + f
             c0 == (a - o) + i
             d0 == (b - g) + c
             p == ae % M
             q == bf % M
             x == p + i - o
             s == x % M
             y == q + s - (g + e)
  <1>1. ae \in Int /\ bf \in Int /\ ce \in Int /\ df \in Int /\ c0 \in Int /\ d0 \in Int
    OBVIOUS
  <1>2. p \in Nat /\ q \in Nat /\ Alike(p, ae, M) /\ Alike(q, bf, M)
    <2> HIDE DEF ae, bf
    <2> QED
      BY <1>1, ResidueAlike
  <1> HIDE DEF p, q
  <1>3. x \in Int
    BY <1>2
  <1>5. PICK k \in Int : p - ae = k * M
    BY <1>2 DEF Alike
  <1>6. PICK l \in Int : c - c0 = l * M
    BY DEF Alike
  <1>7. k - l \in Int /\ x - ce = (k - l) * M
    <2>1. x - ce = (p - ae) - (c - c0)
      BY <1>2
    <2>2. (k - l) * M = k * M - l * M
      BY <1>5, <1>6
    <2> HIDE DEF x, ce, c0, ae
    <2> QED
      BY <1>5, <1>6, <2>1, <2>2
  <1>8. Alike(x, ce, M)
    BY <1>7 DEF Alike
  <1> HIDE DEF x, ce, s
  <1>9. s = ce % M
    <2>1. x % M = ce % M
      BY <1>1, <1>3, <1>8, AlikeResidues
    <2> QED
      BY <2>1 DEF s
  <1>10. s \in Nat /\ Alike(s, ce, M)
    BY <1>1, <1>9, ResidueAlike
  <1>11. PICK u \in Int : q - bf = u * M
    BY <1>2 DEF Alike
  <1>12. PICK v \in Int : s - ce = v * M
    BY <1>10 DEF Alike
  <1>13. PICK w \in Int : d - d0 = w * M
    BY DEF Alike
  <1>14. (u + v) - w \in Int /\ y - df = ((u + v) - w) * M
    <2>1. y - df = ((q - bf) + (s - ce)) - (d - d0)
      BY <1>2, <1>10 DEF ce
    <2>2. ((u + v) - w) * M = (u * M + v * M) - w * M
      BY <1>11, <1>12, <1>13
    <2> HIDE DEF y, df, d0, bf
    <2> QED
      BY <1>11, <1>12, <1>13, <2>1, <2>2
  <1>15. Alike(y, df, M) /\ y \in Int
    <2>1. y \in Int
      BY <1>2, <1>10
    <2> HIDE DEF y, df
    <2> QED
      BY <1>14, <2>1 DEF Alike
  <1> HIDE DEF y, df
  <1>16. y % M = df % M
    BY <1>1, <1>15, AlikeResidues
  <1> QED
    BY <1>9, <1>16 DEF RotatesTo, y, df, s, x, p, q, ce

RollsOutTo(M, x, z, y, h, k, l) == (((x + h) % M) - (y + l)) % M = (z + k) % M

\* The arithmetic of a rollout: offsets are less by l.
LEMMA RolloutNumbers ==
    ASSUME NEW M \in Nat \ {0}, NEW x \in Nat, NEW z \in Nat, NEW y \in Nat, NEW h \in Nat, NEW k \in Nat,
           NEW l \in Nat, k = h - l, Alike(z, x - y, M)
    PROVE  RollsOutTo(M, x, z, y, h, k, l)
  <1> DEFINE xh == x + h
             p == xh % M
             g == p - (y + l)
             zk == z + k
             x0 == x - y
  <1>1. xh \in Int /\ zk \in Int /\ x0 \in Int
    OBVIOUS
  <1>2. p \in Nat /\ Alike(p, xh, M)
    <2> HIDE DEF xh
    <2> QED
      BY <1>1, ResidueAlike
  <1> HIDE DEF p
  <1>3. PICK u \in Int : p - xh = u * M
    BY <1>2 DEF Alike
  <1>4. PICK v \in Int : z - x0 = v * M
    BY DEF Alike
  <1>5. u - v \in Int /\ g - zk = (u - v) * M
    <2>1. g - zk = (p - xh) - (z - x0)
      BY <1>2
    <2>2. (u - v) * M = u * M - v * M
      BY <1>3, <1>4
    <2> HIDE DEF g, zk, xh, x0
    <2> QED
      BY <1>3, <1>4, <2>1, <2>2
  <1>6. Alike(g, zk, M) /\ g \in Int
    BY <1>2, <1>5 DEF Alike
  <1> HIDE DEF g, zk
  <1>7. g % M = zk % M
    BY <1>1, <1>6, AlikeResidues
  <1> QED
    BY <1>7 DEF RollsOutTo, g, zk, p

\* A rollsum that is rolled is the rollsum of the later window.
LEMMA RollsumRolls ==
    ASSUME NEW u, NEW v, Behind(u, v)
    PROVE  LET sum == RollsumUpdate(RollsumInit, u)
           IN  /\ Len(v) = Len(u) => RollsumRotate(sum, u[1], v[Len(v)]) = RollsumUpdate(RollsumInit, v)
               /\ Len(v) = Len(u) - 1 => RollsumRollout(sum, u[1]) = RollsumUpdate(RollsumInit, v)
  <1> DEFINE n == Len(u)
             o == u[1]
             K(k) == (k * (k + 1)) \div 2
  <1>1. /\ u \in Seq(Nat) /\ v \in Seq(Nat) /\ n \in Nat \ {0} /\ o \in Nat
        /\ RollMod \in Nat \ {0} /\ ROLLSUM_CHAR_OFFSET = 31
    BY LenProperties, WeaksumAssumption DEF Behind, ROLLSUM_CHAR_OFFSET
  <1>2. PICK s1, s2 : Rolls(u, s1, s2) /\ RollsumUpdate(RollsumInit, u) = RollsumWith(n, s1[n], s2[n])
    BY <1>1, RollsumParts
  <1>3. PICK t1, t2 : Rolls(v, t1, t2) /\ RollsumUpdate(RollsumInit, v) = RollsumWith(Len(v), t1[Len(v)], t2[Len(v)])
    BY <1>1, RollsumParts
  <1>4. s1[n] \in Nat /\ s2[n] \in Nat
    BY <1>1, <1>2 DEF Rolls, Adding
  <1>5. n - 1 \in 0 .. n - 1 /\ (n - 1) + 1 = n
    BY <1>1
  <1>6. Alike(t1[n - 1], s1[n] - o, RollMod) /\ Alike(t2[n - 1], s2[n] - n * o, RollMod)
    <2>1. \A k \in 0 .. n - 1 : /\ Alike(t1[k], s1[k + 1] - o, RollMod)
                                /\ Alike(t2[k], s2[k + 1] - (k + 1) * o, RollMod)
      BY <1>2, <1>3, RollsumShift
    <2> HIDE DEF n, o
    <2> QED
      BY <1>5, <2>1
  <1>7. K(n) \in Nat /\ n * 31 \in Nat /\ K(n) * 31 \in Nat /\ n * o \in Nat /\ n * (o + 31) = n * o + n * 31
    <2> HIDE DEF n, o
    <2>1. n * (n + 1) \in Nat
      BY <1>1
    <2> QED
      BY <1>1, <2>1
  <1>8. ASSUME Len(v) = n
        PROVE  RollsumRotate(RollsumWith(n, s1[n], s2[n]), o, v[n]) = RollsumWith(n, t1[n], t2[n])
    <2> DEFINE i == v[n]
               a == s1[n]
               b == s2[n]
               c == t1[n]
               d == t2[n]
    <2>1. i \in Nat
      BY <1>1, <1>8
    <2>2. /\ c = (t1[n - 1] + i) % RollMod /\ d = (t2[n - 1] + c) % RollMod
          /\ c \in Nat /\ d \in Nat /\ t1[n - 1] \in Nat /\ t2[n - 1] \in Nat
      <3>1. Adding(t1, n, 0, v, RollMod) /\ Adding(t2, n, 0, t1, RollMod)
        BY <1>3, <1>8 DEF Rolls
      <3> HIDE DEF n
      <3>2. n \in 1 .. n /\ n \in 0 .. n /\ n - 1 \in 0 .. n
        BY <1>1
      <3> QED
        BY <3>1, <3>2 DEF Adding
    <2> HIDE DEF n, o, i
    <2>3. Alike(c, (a - o) + i, RollMod)
      <3> DEFINE x == t1[n - 1]
                 y == a - o
      <3>1. x \in Int /\ y \in Int /\ Alike(x, y, RollMod)
        <4>1. Alike(x, y, RollMod)
          BY <1>6, Zenon
        <4>2. a \in Nat /\ o \in Nat /\ x \in Nat
          BY <1>1, <1>4, <2>2, Zenon
        <4>3. \A i1, i2 \in Nat : i1 - i2 \in Int /\ i1 \in Int
          OBVIOUS
        <4> QED
          BY <4>1, <4>2, <4>3, Zenon
      <3> HIDE DEF x, y
      <3>2. Alike(i, i, RollMod)
        BY <1>1, <2>1, AlikeSelf
      <3>3. Alike(x + i, y + i, RollMod)
        BY <1>1, <2>1, <3>1, <3>2, AlikeSums
      <3>4. Alike(c, x + i, RollMod) /\ x + i \in Int /\ y + i \in Int
        <4> DEFINE z == x + i
        <4>1. c = z % RollMod /\ z \in Int /\ y + i \in Int
          BY <2>1, <2>2, <3>1 DEF x
        <4> HIDE DEF z
        <4>2. Alike(c, z, RollMod)
          BY <1>1, <4>1, ResidueAlike
        <4> QED
          BY <4>1, <4>2 DEF z
      <3>5. Alike(c, y + i, RollMod)
        BY <1>1, <2>2, <3>3, <3>4, AlikeChain
      <3> QED
        BY <3>5 DEF y
    <2>4. Alike(d, (b - n * o) + c, RollMod)
      <3> DEFINE x == t2[n - 1]
                 y == b - n * o
      <3>1. x \in Int /\ y \in Int /\ Alike(x, y, RollMod)
        BY <1>4, <1>6, <1>7, <2>2
      <3> HIDE DEF x, y
      <3>2. Alike(c, c, RollMod)
        BY <1>1, <2>2, AlikeSelf
      <3>3. Alike(x + c, y + c, RollMod)
        BY <1>1, <2>2, <3>1, <3>2, AlikeSums
      <3>4. Alike(d, x + c, RollMod) /\ x + c \in Int /\ y + c \in Int
        <4> DEFINE z == x + c
        <4>1. d = z % RollMod /\ z \in Int /\ y + c \in Int
          BY <2>2, <3>1 DEF x
        <4> HIDE DEF z
        <4>2. Alike(d, z, RollMod)
          BY <1>1, <4>1, ResidueAlike
        <4> QED
          BY <4>1, <4>2 DEF z
      <3>5. Alike(d, y + c, RollMod)
        BY <1>1, <2>2, <3>3, <3>4, AlikeChain
      <3> QED
        BY <3>5 DEF y
    <2> DEFINE g == n * o
               e == n * 31
               f == K(n) * 31
               s == (((a + e) % RollMod) + i - o) % RollMod
    <2>5. s = (c + e) % RollMod /\ (((b + f) % RollMod) + s - (g + e)) % RollMod = (d + f) % RollMod
      <3>1. RollMod \in Nat \ {0} /\ a \in Nat /\ b \in Nat /\ c \in Nat /\ d \in Nat /\ o \in Nat /\ i \in Nat
        BY <1>1, <1>4, <2>1, <2>2
      <3>2. g \in Nat /\ e \in Nat /\ f \in Nat
        BY <1>7
      <3>3. Alike(c, (a - o) + i, RollMod) /\ Alike(d, (b - g) + c, RollMod)
        BY <2>3, <2>4
      <3> HIDE DEF a, b, c, d, g, e, f
      <3>4. RotatesTo(RollMod, a, b, c, d, o, i, g, e, f)
        BY <3>1, <3>2, <3>3, RotateNumbers
      <3> QED
        BY <3>4 DEF RotatesTo
    <2>6. RollsumWith(n, a, b) = [kind |-> "RS_ROLLSUM", count |-> n, s1 |-> (a + e) % RollMod, s2 |-> (b + f) % RollMod]
      BY <1>1 DEF RollsumWith
    <2>7. RollsumWith(n, c, d) = [kind |-> "RS_ROLLSUM", count |-> n, s1 |-> (c + e) % RollMod, s2 |-> (d + f) % RollMod]
      BY <1>1 DEF RollsumWith
    <2>8. n * (o + ROLLSUM_CHAR_OFFSET) = g + e
      BY <1>1, <1>7
    <2> HIDE DEF e, f, g, a, b, c, d
    <2> DEFINE W == RollsumWith(n, a, b)
    <2>9. W.s1 = (a + e) % RollMod /\ W.s2 = (b + f) % RollMod /\ W.count = n
      BY <2>6
    <2>10. RollsumRotate(W, o, i) = [W EXCEPT !.s1 = s, !.s2 = (((b + f) % RollMod) + s - (g + e)) % RollMod]
      BY <2>8, <2>9 DEF RollsumRotate
    <2> HIDE DEF s
    <2>11. RollsumRotate(W, o, i) = RollsumWith(n, c, d)
      <3> DEFINE x1 == (a + e) % RollMod
                 x2 == (b + f) % RollMod
                 y1 == (c + e) % RollMod
                 y2 == (d + f) % RollMod
      <3>1. RollsumRotate(W, o, i) = [W EXCEPT !.s1 = y1, !.s2 = y2]
        BY <2>5, <2>10
      <3>2. W = [kind |-> "RS_ROLLSUM", count |-> n, s1 |-> x1, s2 |-> x2]
        BY <2>6
      <3>3. RollsumWith(n, c, d) = [kind |-> "RS_ROLLSUM", count |-> n, s1 |-> y1, s2 |-> y2]
        BY <2>7
      <3> HIDE DEF x1, x2, y1, y2, W
      <3> QED
        BY <3>1, <3>2, <3>3
    <2> QED
      BY <2>11 DEF a, b, c, d, i
  <1>9. ASSUME Len(v) = n - 1
        PROVE  RollsumRollout(RollsumWith(n, s1[n], s2[n]), o) = RollsumWith(n - 1, t1[n - 1], t2[n - 1])
    <2> DEFINE a == s1[n]
               b == s2[n]
               m == n - 1
               c == t1[m]
               d == t2[m]
    <2>1. c \in Nat /\ d \in Nat /\ m \in Nat
      <3>1. Adding(t1, n - 1, 0, v, RollMod) /\ Adding(t2, n - 1, 0, t1, RollMod)
        BY <1>3, <1>9 DEF Rolls
      <3> HIDE DEF n
      <3>2. m \in 0 .. m /\ m \in Nat
        BY <1>1
      <3> QED
        BY <3>1, <3>2 DEF Adding
    <2> HIDE DEF n, o
    <2>2. K(m) \in Nat /\ K(m) = K(n) - n /\ m * 31 = n * 31 - 31
      <3>1. m * (m + 1) = n * (n + 1) - 2 * n /\ n * (n + 1) \in Nat /\ m * (m + 1) \in Nat
        BY <1>1, <2>1
      <3> DEFINE x == m * (m + 1)
                 y == n * (n + 1)
      <3> HIDE DEF x, y
      <3>2. x = y - 2 * n /\ x \in Nat /\ y \in Nat
        BY <3>1 DEF x, y
      <3>3. x \div 2 = (y \div 2) - n /\ x \div 2 \in Nat
        BY <1>1, <3>2
      <3> QED
        BY <1>1, <3>3 DEF x, y
    <2> DEFINE g == n * o
               e == n * 31
               f == K(n) * 31
               e1 == m * 31
               f1 == K(m) * 31
    <2>3. e \in Nat /\ f \in Nat /\ g \in Nat /\ e1 \in Nat /\ f1 \in Nat /\ e1 = e - 31 /\ f1 = f - e
      <3> HIDE DEF K
      <3> QED
        BY <1>1, <1>7, <2>1, <2>2
    <2>4. a \in Nat /\ b \in Nat /\ Alike(c, a - o, RollMod) /\ Alike(d, b - g, RollMod)
      BY <1>4, <1>6
    <2>6. RollsumWith(n, a, b) = [kind |-> "RS_ROLLSUM", count |-> n, s1 |-> (a + e) % RollMod, s2 |-> (b + f) % RollMod]
      BY <1>1 DEF RollsumWith
    <2>7. RollsumWith(m, c, d) = [kind |-> "RS_ROLLSUM", count |-> m, s1 |-> (c + e1) % RollMod, s2 |-> (d + f1) % RollMod]
      BY <1>1 DEF RollsumWith
    <2>8. n * (o + ROLLSUM_CHAR_OFFSET) = g + e
      BY <1>1, <1>7
    <2> HIDE DEF e, f, g, e1, f1, a, b, c, d, m
    <2>5. /\ (((a + e) % RollMod) - (o + 31)) % RollMod = (c + e1) % RollMod
          /\ (((b + f) % RollMod) - (g + e)) % RollMod = (d + f1) % RollMod
      <3>0. 31 \in Nat
        OBVIOUS
      <3>1. (((a + e) % RollMod) - (o + 31)) % RollMod = (c + e1) % RollMod
        <4>1. RollsOutTo(RollMod, a, c, o, e, e1, 31)
          BY <1>1, <2>1, <2>3, <2>4, <3>0, RolloutNumbers
        <4> QED
          BY <4>1 DEF RollsOutTo
      <3>2. (((b + f) % RollMod) - (g + e)) % RollMod = (d + f1) % RollMod
        <4>1. RollsOutTo(RollMod, b, d, g, f, f1, e)
          BY <1>1, <2>1, <2>3, <2>4, RolloutNumbers
        <4> QED
          BY <4>1 DEF RollsOutTo
      <3> QED
        BY <3>1, <3>2
    <2> DEFINE W == RollsumWith(n, a, b)
    <2>9. W.s1 = (a + e) % RollMod /\ W.s2 = (b + f) % RollMod /\ W.count = n
      BY <2>6
    <2>10. RollsumRollout(W, o) = [W EXCEPT !.s1 = (((a + e) % RollMod) - (o + 31)) % RollMod,
                                            !.s2 = (((b + f) % RollMod) - (g + e)) % RollMod,
                                            !.count = m]
      <3>1. n - 1 = m
        BY DEF m
      <3> QED
        BY <1>1, <2>8, <2>9, <3>1 DEF RollsumRollout
    <2>11. RollsumRollout(W, o) = RollsumWith(m, c, d)
      <3> DEFINE x1 == (a + e) % RollMod
                 x2 == (b + f) % RollMod
                 y1 == (c + e1) % RollMod
                 y2 == (d + f1) % RollMod
      <3>1. RollsumRollout(W, o) = [W EXCEPT !.s1 = y1, !.s2 = y2, !.count = m]
        BY <2>5, <2>10
      <3>2. W = [kind |-> "RS_ROLLSUM", count |-> n, s1 |-> x1, s2 |-> x2]
        BY <2>6
      <3>3. RollsumWith(m, c, d) = [kind |-> "RS_ROLLSUM", count |-> m, s1 |-> y1, s2 |-> y2]
        BY <2>7
      <3> HIDE DEF x1, x2, y1, y2, W
      <3> QED
        BY <3>1, <3>2, <3>3
    <2> QED
      BY <2>11 DEF a, b, c, d, m
  <1> QED
    BY <1>2, <1>3, <1>8, <1>9

\* In the hash of the later window the seed stands where the first byte was.
LEMMA RabinKarpShift ==
    ASSUME NEW u, NEW v, Behind(u, v), NEW h, Hashes(u, h), NEW j, Hashes(v, j)
    PROVE  \A k \in 0 .. Len(u) - 1 :
             Alike(j[k], h[k + 1] - PowOf(RABINKARP_MULT, k) * (u[1] + RABINKARP_ADJ), RkMod)
  <1> DEFINE n == Len(u)
             R == RkMod
             m == RABINKARP_MULT
             x == u[1] + RABINKARP_ADJ
             P(k) == PowOf(m, k)
  <1>1. /\ n \in Nat \ {0} /\ R \in Nat \ {0} /\ n - 1 \in Nat /\ \A k \in 1 .. n : u[k] \in Nat
        /\ \A k \in 1 .. n - 1 : v[k] = u[k + 1]
        /\ m \in Nat /\ RABINKARP_SEED = 1 /\ RABINKARP_ADJ = m - 1
    <2>1. RABINKARP_ADJ = m - 1 /\ m \in Nat /\ RABINKARP_SEED = 1
      <3>1. m \in Nat
        BY WeaksumAssumption
      <3> HIDE DEF m
      <3>2. (m - 1) * 1 = m - 1
        BY <3>1
      <3> QED
        BY <3>1, <3>2 DEF RABINKARP_ADJ, RABINKARP_SEED, m
    <2> QED
      BY <2>1, LenProperties, WeaksumAssumption DEF Behind
  <1>2. /\ h[0] = 1 /\ \A k \in 0 .. n : h[k] \in Nat
        /\ \A k \in 1 .. n : h[k] = (m * h[k - 1] + u[k]) % R
    BY <1>1 DEF Hashes
  <1>3. /\ j[0] = 1 /\ \A k \in 0 .. n - 1 : j[k] \in Nat
        /\ \A k \in 1 .. n - 1 : j[k] = (m * j[k - 1] + v[k]) % R
    <2>1. Len(v) \in Nat /\ n - 1 <= Len(v)
      BY <1>1 DEF Behind
    <2>2. \A k \in 0 .. n - 1 : k \in 0 .. Len(v) /\ (k # 0 => k \in 1 .. Len(v))
      BY <1>1, <2>1
    <2> HIDE DEF n
    <2>3. \A k \in 1 .. n - 1 : k \in 0 .. n - 1 /\ k # 0
      BY <1>1
    <2> QED
      BY <1>1, <2>2, <2>3 DEF Hashes
  <1>4. x \in Int /\ x = (u[1] + m) - 1
    BY <1>1
  <1>5. P(0) = 1 /\ \A k \in Nat : P(k) \in Nat /\ P(k + 1) = m * P(k)
    BY <1>1, PowFacts
  <1> HIDE DEF n, R, m, P
  <1> DEFINE Right(k) == Alike(j[k], h[k + 1] - P(k) * x, R)
             T == {k \in 0 .. n - 1 : Right(k)}
  <1>6. 0 \in T
    <2>1. 1 \in 1 .. n /\ 1 - 1 = 0 /\ 0 + 1 = 1 /\ 0 \in 0 .. n - 1 /\ 1 \in 0 .. n /\ u[1] \in Nat
      BY <1>1
    <2> DEFINE z == m * h[0] + u[1]
    <2>2. h[1] = z % R /\ z \in Int /\ z = x + 1 /\ h[1] \in Nat
      <3>1. h[1] = (m * h[0] + u[1]) % R /\ h[1] \in Nat
        BY <1>2, <2>1
      <3>2. h[0] = 1 /\ m * 1 = m
        BY <1>1, <1>2
      <3>3. z = m + u[1]
        BY <3>2
      <3>4. z \in Int /\ z = x + 1
        <4> HIDE DEF z, x
        <4> QED
          BY <1>1, <1>4, <2>1, <3>3
      <3> QED
        BY <3>1, <3>4
    <2> HIDE DEF z, x
    <2>3. Alike(h[1], z, R)
      BY <1>1, <2>2, ResidueAlike
    <2>4. PICK k \in Int : h[1] - z = k * R
      BY <2>3 DEF Alike
    <2>5. -k \in Int /\ 1 - (h[1] - x) = (-k) * R
      BY <1>1, <1>4, <2>2, <2>4
    <2>6. Alike(1, h[1] - x, R)
      BY <2>5 DEF Alike
    <2>7. P(0) * x = x
      BY <1>4, <1>5
    <2> QED
      BY <1>3, <2>1, <2>6, <2>7
  <1> HIDE DEF x
  <1>7. ASSUME NEW k \in 1 .. n - 1, k - 1 \in T PROVE k \in T
    <2>1. k \in Nat /\ k - 1 \in Nat /\ k + 1 \in 1 .. n /\ (k + 1) - 1 = k /\ (k - 1) + 1 = k /\ k \in 0 .. n - 1
          /\ k - 1 \in 0 .. n - 1 /\ k \in 0 .. n /\ k + 1 \in 0 .. n
      BY <1>1
    <2> DEFINE a == h[k]
               a1 == h[k + 1]
               c == j[k - 1]
               c1 == j[k]
               w == u[k + 1]
               p == P(k - 1)
               y == p * x
    <2>2. a \in Nat /\ a1 \in Nat /\ w \in Nat /\ c \in Nat /\ c1 \in Nat /\ p \in Nat /\ P(k) = m * p
      <3>1. P((k - 1) + 1) = m * p /\ p \in Nat
        BY <1>5, <2>1
      <3> QED
        BY <1>1, <1>2, <1>3, <2>1, <3>1
    <2>3. a1 = (m * a + w) % R /\ c1 = (m * c + w) % R
      <3>1. v[k] = w
        BY <1>1
      <3>2. c1 = (m * c + v[k]) % R
        BY <1>3
      <3>3. a1 = (m * h[(k + 1) - 1] + w) % R
        BY <1>2, <2>1
      <3> QED
        BY <2>1, <3>1, <3>2, <3>3
    <2>4. Alike(c, a - y, R)
      <3>1. Alike(c, h[(k - 1) + 1] - y, R)
        BY <1>7
      <3> QED
        BY <2>1, <3>1
    <2>5. y \in Int /\ P(k) * x = m * y
      BY <1>1, <1>4, <2>2
    <2>6. SUFFICES Alike(c1, a1 - m * y, R)
      BY <2>1, <2>5
    <2> HIDE DEF a, a1, c, c1, w, p, y, T
    <2>7. PICK d \in Int : c - (a - y) = d * R
      BY <2>4 DEF Alike
    <2> DEFINE ma == m * a + w
               mc == m * c + w
    <2>8. ma \in Int /\ mc \in Int
      BY <1>1, <2>2
    <2>9. Alike(a1, ma, R) /\ Alike(c1, mc, R)
      <3> HIDE DEF ma, mc
      <3>1. a1 = ma % R /\ c1 = mc % R
        BY <2>3 DEF ma, mc
      <3> QED
        BY <1>1, <2>8, <3>1, ResidueAlike
    <2>10. PICK e \in Int : a1 - ma = e * R
      BY <2>9 DEF Alike
    <2>11. PICK f \in Int : c1 - mc = f * R
      BY <2>9 DEF Alike
    <2>12. mc - ma = m * (d * R) - m * y
      <3>1. c - a = d * R - y /\ d * R \in Int
        BY <1>1, <2>2, <2>5, <2>7
      <3>2. mc - ma = m * (c - a)
        BY <1>1, <2>2
      <3>3. m * (d * R - y) = m * (d * R) - m * y
        BY <1>1, <2>5, <3>1
      <3> QED
        BY <3>1, <3>2, <3>3
    <2>13. c1 - (a1 - m * y) = ((c1 - mc) + m * (d * R)) - (a1 - ma)
      <3>1. m * y \in Int /\ m * (d * R) \in Int
        BY <1>1, <2>5, <2>7
      <3> HIDE DEF ma, mc
      <3> QED
        BY <2>2, <2>8, <2>12, <3>1
    <2> HIDE DEF ma, mc
    <2>14. (f + m * d) - e \in Int /\ ((f + m * d) - e) * R = (f * R + m * (d * R)) - e * R
      BY <1>1, <2>7, <2>10, <2>11
    <2>15. c1 - (a1 - m * y) = ((f + m * d) - e) * R
      BY <2>10, <2>11, <2>13, <2>14
    <2> QED
      BY <2>14, <2>15 DEF Alike
  <1>8. \A k \in 0 .. n - 1 : k \in T
    <2> HIDE DEF T
    <2> QED
      BY <1>1, <1>6, <1>7, CountUp
  <1> QED
    BY <1>8 DEF n, R, m, x, P

\* Each hash is a residue.
LEMMA HashesReduced ==
    ASSUME NEW w \in Seq(Nat), NEW h, Hashes(w, h)
    PROVE  \A k \in 0 .. Len(w) : h[k] % RkMod = h[k]
  <1>1. RkMod \in Nat \ {0} /\ RABINKARP_MULT \in Nat /\ RABINKARP_SEED = 1 /\ Len(w) \in Nat
    BY WeaksumAssumption, LenProperties DEF RABINKARP_SEED
  <1>2. RkMod # 1
    <2>1. RABINKARP_MULT * RABINKARP_INVM \in Nat /\ (RABINKARP_MULT * RABINKARP_INVM) % RkMod = 1
      BY WeaksumAssumption
    <2>2. \A x \in Nat : x % RkMod < RkMod
      BY <1>1
    <2> QED
      BY <1>1, <2>1, <2>2
  <1>3. \A x \in Nat : x < RkMod => x % RkMod = x
    BY <1>1
  <1> SUFFICES ASSUME NEW k \in 0 .. Len(w) PROVE h[k] \in Nat /\ h[k] < RkMod
    BY <1>3
  <1>4. CASE k = 0
    <2>1. h[0] = 1
      BY <1>1 DEF Hashes
    <2>2. 1 \in Nat /\ 1 < RkMod
      BY <1>1, <1>2
    <2> QED
      BY <1>4, <2>1, <2>2, Zenon
  <1>5. CASE k # 0
    <2> DEFINE z == RABINKARP_MULT * h[k - 1] + w[k]
    <2>1. k \in 1 .. Len(w) /\ k - 1 \in 0 .. Len(w)
      <3> DEFINE l == Len(w)
      <3>1. l \in Nat /\ k \in 0 .. l
        BY <1>1
      <3> HIDE DEF l
      <3>2. k \in 1 .. l /\ k - 1 \in 0 .. l
        BY <1>5, <3>1
      <3> QED
        BY <3>2 DEF l
    <2>2. h[k] = z % RkMod /\ h[k - 1] \in Nat /\ w[k] \in Nat
      <3>1. h[k] = z % RkMod
        BY <2>1, Zenon DEF Hashes
      <3>2. h[k - 1] \in Nat
        BY <2>1 DEF Hashes
      <3>3. w[k] \in Nat
        BY <2>1, LenProperties
      <3> QED
        BY <3>1, <3>2, <3>3, Zenon
    <2>3. z \in Nat
      <3>1. \A a, b \in Nat : RABINKARP_MULT * a + b \in Nat
        BY <1>1
      <3> QED
        BY <2>2, <3>1
    <2> HIDE DEF z
    <2> QED
      BY <1>1, <2>2, <2>3
  <1> QED
    BY <1>4, <1>5

\* A RabinKarp sum that is rolled is the sum of the later window.
LEMMA RabinKarpRolls ==
    ASSUME NEW u, NEW v, Behind(u, v), Short(Len(u))
    PROVE  LET sum == rabinkarp_update(rabinkarp_init, u)
           IN  /\ Len(v) = Len(u) =>
                    rabinkarp_rotate(sum, u[1], v[Len(v)]) = rabinkarp_update(rabinkarp_init, v)
               /\ Len(v) = Len(u) - 1 =>
                    rabinkarp_rollout(sum, u[1]) = rabinkarp_update(rabinkarp_init, v)
  <1> DEFINE n == Len(u)
             R == RkMod
             m == RABINKARP_MULT
             inv == RABINKARP_INVM
             x == u[1] + RABINKARP_ADJ
             P(k) == PowOf(m, k)
  <1>1. /\ u \in Seq(Nat) /\ v \in Seq(Nat) /\ n \in Nat \ {0} /\ u[1] \in Nat
        /\ R \in Nat \ {0} /\ m \in Nat /\ inv \in Nat /\ (m * inv) % R = 1
    BY LenProperties, WeaksumAssumption DEF Behind
  <1>2. x \in Int
    <2>1. RABINKARP_ADJ \in Int
      BY <1>1 DEF RABINKARP_ADJ, RABINKARP_SEED
    <2> QED
      BY <1>1, <2>1
  <1>3. Short(Len(v))
    <2>1. Len(v) \in Nat /\ Len(v) <= n
      BY <1>1 DEF Behind
    <2> HIDE DEF n
    <2>2. \A y \in Nat : y <= n => (y \div 65536 <= n \div 65536)
      BY <1>1
    <2>3. n \div 65536 < 65536 /\ n \div 65536 \in Nat
      BY <1>1 DEF Short, n
    <2>4. Len(v) \div 65536 <= n \div 65536 /\ Len(v) \div 65536 \in Nat
      BY <2>1, <2>2
    <2> QED
      BY <2>3, <2>4 DEF Short
  <1>4. PICK h : Hashes(u, h) /\ rabinkarp_update(rabinkarp_init, u) = RabinKarpWith(n, h[n])
    BY <1>1, RabinKarpParts
  <1>5. PICK j : Hashes(v, j) /\ rabinkarp_update(rabinkarp_init, v) = RabinKarpWith(Len(v), j[Len(v)])
    BY <1>1, <1>3, RabinKarpParts
  <1>6. P(n) \in Nat /\ P(n - 1) \in Nat /\ P(n) = m * P(n - 1)
    <2> HIDE DEF n
    <2>1. n - 1 \in Nat /\ (n - 1) + 1 = n
      BY <1>1
    <2>2. P((n - 1) + 1) = m * P(n - 1) /\ P(n - 1) \in Nat /\ P(n) \in Nat
      BY <1>1, <2>1, PowFacts
    <2> QED
      BY <2>1, <2>2
  <1>7. h[n] \in Nat
    <2>1. h \in [0 .. n -> Nat]
      BY <1>4 DEF Hashes
    <2> HIDE DEF n
    <2> QED
      BY <1>1, <2>1
  <1>8. j[n - 1] \in Nat /\ Alike(j[n - 1], h[n] - P(n - 1) * x, R)
    <2>1. n - 1 \in 0 .. n - 1 /\ (n - 1) + 1 = n /\ n - 1 \in 0 .. Len(v)
      BY <1>1 DEF Behind
    <2>2. \A k \in 0 .. n - 1 : Alike(j[k], h[k + 1] - PowOf(RABINKARP_MULT, k) * (u[1] + RABINKARP_ADJ), RkMod)
      BY <1>4, <1>5, RabinKarpShift
    <2>3. j[n - 1] \in Nat
      BY <1>5, <2>1 DEF Hashes
    <2> HIDE DEF n
    <2> QED
      BY <2>1, <2>2, <2>3
  <1> DEFINE a == h[n]
             c == j[n - 1]
             p == P(n - 1)
             q == P(n) % R
             W == RabinKarpWith(n, a)
  <1>9. q \in Nat /\ Alike(q, P(n), R)
    <2> DEFINE y == P(n)
    <2>1. y \in Int
      BY <1>6
    <2> HIDE DEF y, R
    <2>2. y % R \in Nat /\ Alike(y % R, y, R)
      BY <1>1, <2>1, ResidueAlike
    <2> QED
      BY <2>2 DEF y
  <1>10. W = [kind |-> "RS_RABINKARP", count |-> n, hash |-> a, mult |-> q]
    BY DEF RabinKarpWith
  <1>11. Alike(c, a - p * x, R)
    BY <1>8
  <1>12. PICK d \in Int : c - (a - p * x) = d * R
    BY <1>11 DEF Alike
  <1>13. ASSUME Len(v) = n
         PROVE  rabinkarp_rotate(W, u[1], v[n]) = RabinKarpWith(n, j[n])
    <2> DEFINE i == v[n]
               z == (a * m + i) - q * x
               y == m * c + i
    <2>1. i \in Nat
      BY <1>1, <1>13
    <2>2. j[n] = y % R
      <3>1. n \in 1 .. Len(v)
        BY <1>1, <1>13
      <3> QED
        BY <1>5, <3>1 DEF Hashes
    <2> HIDE DEF i, n, R, m, x, P, a, c, p, q
    <2>3. PICK e \in Int : q - P(n) = e * R
      BY <1>9 DEF Alike
    <2>4. a \in Int /\ c \in Int /\ p \in Int /\ q \in Int /\ P(n) = m * p /\ m \in Int /\ R \in Int
      BY <1>1, <1>6, <1>7, <1>8, <1>9 DEF a, c, p
    <2>5. z \in Int /\ y \in Int
      BY <1>2, <2>1, <2>4
    <2>6. z - y = (-((m * d) + e * x)) * R /\ -((m * d) + e * x) \in Int
      <3>1. c = (a - p * x) + d * R
        BY <1>2, <1>12, <2>4
      <3>2. q = m * p + e * R
        BY <2>3, <2>4
      <3>3. m * c = (m * a - (m * p) * x) + (m * d) * R
        <4>1. \A y1, y2 \in Int : m * ((a - y1) + y2) = (m * a - m * y1) + m * y2
          BY <2>4
        <4>2. p * x \in Int /\ d * R \in Int
          BY <1>2, <2>4
        <4>3. m * c = (m * a - m * (p * x)) + m * (d * R)
          BY <3>1, <4>1, <4>2
        <4>4. m * (p * x) = (m * p) * x /\ m * (d * R) = (m * d) * R
          BY <1>2, <2>4
        <4> QED
          BY <4>3, <4>4
      <3>4. q * x = (m * p) * x + (e * x) * R
        <4>1. m * p \in Int /\ e * R \in Int
          BY <2>3, <2>4
        <4>2. \A y1, y2 \in Int : (y1 + y2) * x = y1 * x + y2 * x
          BY <1>2
        <4>3. q * x = (m * p) * x + (e * R) * x
          BY <3>2, <4>1, <4>2
        <4>4. (e * R) * x = (e * x) * R
          BY <1>2, <2>3, <2>4
        <4> QED
          BY <4>3, <4>4
      <3>5. (-((m * d) + e * x)) * R = -((m * d) * R) - (e * x) * R
        BY <1>2, <2>3, <2>4
      <3> DEFINE f1 == (m * p) * x
                 f2 == (m * d) * R
                 f3 == (e * x) * R
                 f4 == m * a
      <3>6. f1 \in Int /\ f2 \in Int /\ f3 \in Int /\ f4 \in Int /\ -((m * d) + e * x) \in Int /\ a * m = f4
        BY <1>2, <2>3, <2>4
      <3>7. z - y = -f2 - f3
        <4> DEFINE qx == q * x
                   mc == m * c
        <4>1. qx = f1 + f3 /\ mc = (f4 - f1) + f2
          BY <3>3, <3>4
        <4>2. z = (f4 + i) - qx /\ y = mc + i
          BY <3>6
        <4> HIDE DEF f1, f2, f3, f4, qx, mc, z, y
        <4> QED
          BY <2>1, <3>6, <4>1, <4>2
      <3> QED
        BY <3>5, <3>6, <3>7
    <2>7. Alike(z, y, R)
      BY <2>6 DEF Alike
    <2> HIDE DEF z, y
    <2>8. z % R = y % R
      BY <1>1, <2>5, <2>7, AlikeResidues
    <2> HIDE DEF W
    <2>9. W.hash = a /\ W.mult = q
      BY <1>10
    <2>10. rabinkarp_rotate(W, u[1], i) = [W EXCEPT !.hash = z % R]
      <3>1. a * m + i - q * x = z
        <4>1. a * m \in Int /\ q * x \in Int
          BY <1>2, <2>4
        <4> QED
          BY <2>1, <4>1 DEF z
      <3> QED
        BY <2>9, <3>1 DEF rabinkarp_rotate, m, R, x
    <2>11. RabinKarpWith(n, j[n]) = [kind |-> "RS_RABINKARP", count |-> n, hash |-> j[n], mult |-> q]
      BY DEF RabinKarpWith, q, P, m, R
    <2>12. rabinkarp_rotate(W, u[1], i) = RabinKarpWith(n, j[n])
      BY <1>10, <2>2, <2>8, <2>10, <2>11
    <2> QED
      BY <2>12 DEF i
  <1>14. ASSUME Len(v) = n - 1
         PROVE  rabinkarp_rollout(W, u[1]) = RabinKarpWith(n - 1, c)
    <2> DEFINE y == q * inv
               t == y % R
               z == a - t * x
    <2>1. c % R = c
      <3>1. n - 1 \in 0 .. Len(v)
        BY <1>1, <1>14
      <3> QED
        BY <1>1, <1>5, <3>1, HashesReduced
    <2> HIDE DEF n, R, m, x, P, a, c, p, q, inv
    <2>2. a \in Int /\ c \in Int /\ p \in Int /\ q \in Int /\ P(n) = m * p /\ m \in Int /\ R \in Int /\ inv \in Int
      BY <1>1, <1>6, <1>7, <1>8, <1>9 DEF a, c, p
    <2>3. y \in Int /\ m * inv \in Int /\ m * p \in Int
      BY <2>2
    <2>4. t \in Nat /\ Alike(t, y, R)
      <3> HIDE DEF y
      <3> QED
        BY <1>1, <2>3, ResidueAlike
    <2>5. Alike(y, p, R)
      <3>1. Alike(q, m * p, R)
        BY <1>9, <2>2
      <3>2. Alike(inv, inv, R)
        BY <1>1, <2>2, AlikeSelf
      <3>3. Alike(q * inv, (m * p) * inv, R)
        BY <1>1, <2>2, <2>3, <3>1, <3>2, AlikeSums
      <3>4. Alike(1, m * inv, R)
        <4> DEFINE mi == m * inv
        <4>1. mi \in Int /\ mi % R = 1
          BY <1>1, <2>3
        <4> HIDE DEF mi
        <4>2. Alike(mi % R, mi, R)
          BY <1>1, <4>1, ResidueAlike
        <4> QED
          BY <4>1, <4>2 DEF mi
      <3>5. Alike(m * inv, 1, R)
        <4> DEFINE mi == m * inv
        <4>1. mi \in Int /\ Alike(1, mi, R) /\ 1 \in Int
          BY <2>3, <3>4
        <4> HIDE DEF mi
        <4>2. Alike(mi, 1, R)
          BY <1>1, <4>1, AlikeBack
        <4> QED
          BY <4>2 DEF mi
      <3>6. Alike(p, p, R)
        BY <1>1, <2>2, AlikeSelf
      <3> DEFINE mi == m * inv
      <3>7. Alike(mi * p, 1 * p, R)
        <4>1. mi \in Int /\ Alike(mi, 1, R)
          BY <2>3, <3>5
        <4> HIDE DEF mi
        <4> QED
          BY <1>1, <2>2, <3>6, <4>1, AlikeSums
      <3>8. mi * p = (m * p) * inv /\ 1 * p = p /\ (m * p) * inv \in Int
        BY <2>2
      <3>9. Alike((m * p) * inv, p, R)
        BY <3>7, <3>8
      <3> DEFINE mpi == (m * p) * inv
      <3>10. mpi \in Int /\ Alike(y, mpi, R) /\ Alike(mpi, p, R)
        BY <3>3, <3>8, <3>9
      <3> HIDE DEF mpi, y
      <3> QED
        BY <1>1, <2>2, <2>3, <3>10, AlikeChain
    <2> HIDE DEF y
    <2>6. Alike(t, p, R)
      BY <1>1, <2>2, <2>3, <2>4, <2>5, AlikeChain
    <2>7. t = p % R
      BY <1>1, <2>2, <2>3, <2>5, AlikeResidues DEF t
    <2> HIDE DEF t
    <2>8. PICK e \in Int : t - p = e * R
      BY <2>6 DEF Alike
    <2>9. z \in Int /\ -(d + e * x) \in Int /\ z - c = (-(d + e * x)) * R
      <3>1. c = (a - p * x) + d * R
        BY <1>2, <1>12, <2>2
      <3>2. t = p + e * R
        BY <2>2, <2>4, <2>8
      <3>3. t * x = p * x + (e * x) * R
        <4>1. e * R \in Int
          BY <2>2, <2>8
        <4>2. \A y1, y2 \in Int : (y1 + y2) * x = y1 * x + y2 * x
          BY <1>2
        <4>3. t * x = p * x + (e * R) * x
          BY <2>2, <3>2, <4>1, <4>2
        <4>4. (e * R) * x = (e * x) * R
          BY <1>2, <2>2, <2>8
        <4> QED
          BY <4>3, <4>4
      <3>4. (-(d + e * x)) * R = -(d * R) - (e * x) * R
        BY <1>2, <2>2, <2>8
      <3> DEFINE f1 == p * x
                 f2 == d * R
                 f3 == (e * x) * R
      <3>5. f1 \in Int /\ f2 \in Int /\ f3 \in Int /\ -(d + e * x) \in Int
        BY <1>2, <2>2, <2>8
      <3>6. z = a - (f1 + f3) /\ c = (a - f1) + f2
        BY <3>1, <3>3
      <3>7. (-(d + e * x)) * R = -f2 - f3
        BY <3>4
      <3> HIDE DEF f1, f2, f3, z
      <3>8. z \in Int /\ z - c = -f2 - f3
        BY <2>2, <3>5, <3>6
      <3> QED
        BY <3>5, <3>7, <3>8
    <2> HIDE DEF z
    <2>10. Alike(z, c, R)
      BY <2>9 DEF Alike
    <2>11. z % R = c
      <3>1. z % R = c % R
        BY <1>1, <2>2, <2>9, <2>10, AlikeResidues
      <3> QED
        BY <2>1, <3>1
    <2> HIDE DEF W
    <2>12. W.hash = a /\ W.mult = q /\ W.count = n
      BY <1>10
    <2>13. rabinkarp_rollout(W, u[1]) = [W EXCEPT !.hash = z % R, !.count = n - 1, !.mult = t]
      <3>1. (q * inv) % R = t /\ a - t * x = z
        BY DEF z, t, y
      <3> QED
        BY <2>12, <3>1 DEF rabinkarp_rollout, R, x, inv
    <2>14. RabinKarpWith(n - 1, c) = [kind |-> "RS_RABINKARP", count |-> n - 1, hash |-> c, mult |-> t]
      BY <2>7 DEF RabinKarpWith, p, P, m, R
    <2> QED
      BY <1>10, <2>11, <2>13, <2>14
  <1> QED
    BY <1>4, <1>5, <1>13, <1>14

-----------------------------------------------------------------------------
(* The weak sum belongs to the bytes that follow what has been scanned.    *)

\* The weak sum of some bytes.
SumOf(kind, bytes) == weaksum_update(weaksum_init(kind), bytes)

\* The n bytes of the new file that follow the first S.
Window(S, n) == SubSeq(input, S + 1, S + n)

\* The weak sum when fn is next and S bytes have been scanned.  Until the last of
\* the input is flushed it is rolled over full blocks only.
SumAt(fn, sum, S) ==
    /\ sum = SumOf(sum.kind, Window(S, sum.count))
    /\ fn \in {"rs_delta_s_header", "rs_delta_s_slack", "rs_delta_s_scan"} => sum.count \in {0, BlockLen}

SumInv == SumAt(statefn, scan.weak_sum, Reached(job, scan))

\* A weak sum knows its kind and how many bytes it stands for.
LEMMA SumOfFacts ==
    ASSUME NEW kind \in Kinds, NEW bytes \in Seq(Nat)
    PROVE  /\ SumOK(SumOf(kind, bytes)) /\ SumOf(kind, bytes).kind = kind
           /\ SumOf(kind, bytes).count = Len(bytes) /\ weaksum_init(kind).kind = kind
  <1> DEFINE init == weaksum_init(kind)
             sum == weaksum_update(init, bytes)
  <1>1. SumOK(init) /\ init.count = 0
    BY SumFacts
  <1>2. init.kind = kind
    BY DEF weaksum_init, RollsumInit, rabinkarp_init, Kinds
  <1>3. Len(bytes) \in Nat
    BY LenProperties
  <1>4. SumOK(sum) /\ sum.count = Len(bytes)
    BY <1>1, <1>3, SumFacts
  <1>5. sum.kind = kind
    <2>1. CASE kind = "RS_ROLLSUM"
      <3>1. init = RollsumInit /\ sum = RollsumUpdate(RollsumInit, bytes)
        BY <1>2, <2>1 DEF weaksum_init, weaksum_update
      <3>2. PICK v1, v2 : RollsumUpdate(RollsumInit, bytes) = RollsumWith(Len(bytes), v1, v2)
        BY RollsumParts
      <3> QED
        BY <2>1, <3>1, <3>2 DEF RollsumWith
    <2>2. CASE kind # "RS_ROLLSUM"
      <3>1. init = rabinkarp_init /\ sum = rabinkarp_update(init, bytes)
        BY <1>2, <2>2 DEF weaksum_init, weaksum_update
      <3> HIDE DEF sum
      <3>2. PICK a, b, c : sum = [init EXCEPT !.hash = a, !.count = b, !.mult = c]
        BY <3>1 DEF rabinkarp_update
      <3>3. init = [kind |-> "RS_RABINKARP", count |-> 0, hash |-> RABINKARP_SEED, mult |-> 1]
        BY <3>1 DEF rabinkarp_init
      <3> HIDE DEF init
      <3>4. sum.kind = init.kind
        BY <3>2, <3>3
      <3> QED
        BY <1>2, <3>4
    <2> QED
      BY <2>1, <2>2
  <1> QED
    BY <1>2, <1>4, <1>5 DEF SumOf

\* The weak sum of no bytes is the one to begin with.
LEMMA SumOfNone ==
    ASSUME NEW kind \in Kinds
    PROVE  SumOf(kind, <<>>) = weaksum_init(kind)
  <1> DEFINE w == <<>>
             init == weaksum_init(kind)
  <1>1. w \in Seq(Nat) /\ Len(w) = 0 /\ 0 \in 0 .. 0
    OBVIOUS
  <1>2. init.kind = kind
    BY <1>1, SumOfFacts
  <1>3. RollMod \in Nat \ {0} /\ RkMod \in Nat \ {0} /\ 0 % RollMod = 0 /\ RABINKARP_MULT \in Nat
    BY WeaksumAssumption
  <1> HIDE DEF w
  <1>4. CASE kind = "RS_ROLLSUM"
    <2>1. init = RollsumInit /\ SumOf(kind, w) = RollsumUpdate(RollsumInit, w)
      BY <1>2, <1>4 DEF weaksum_init, weaksum_update, SumOf
    <2>2. PICK s1, s2 : Rolls(w, s1, s2) /\ RollsumUpdate(RollsumInit, w) = RollsumWith(0, s1[0], s2[0])
      BY <1>1, RollsumParts
    <2>3. s1[0] = 0 /\ s2[0] = 0
      BY <2>2 DEF Rolls, Adding
    <2>4. 0 + 0 * 31 = 0 /\ 0 + ((0 * (0 + 1)) \div 2) * 31 = 0
      OBVIOUS
    <2> QED
      BY <1>3, <2>1, <2>2, <2>3, <2>4 DEF RollsumWith, RollsumInit, ROLLSUM_CHAR_OFFSET, w
  <1>5. CASE kind # "RS_ROLLSUM"
    <2>1. init = rabinkarp_init /\ SumOf(kind, w) = rabinkarp_update(rabinkarp_init, w)
      BY <1>2, <1>5 DEF weaksum_init, weaksum_update, SumOf
    <2>2. Short(0)
      BY DEF Short
    <2>3. PICK h : Hashes(w, h) /\ rabinkarp_update(rabinkarp_init, w) = RabinKarpWith(0, h[0])
      BY <1>1, <2>2, RabinKarpParts
    <2>4. h[0] = 1 /\ PowOf(RABINKARP_MULT, 0) = 1 /\ h[0] % RkMod = h[0]
      <3>1. h[0] % RkMod = h[0]
        BY <1>1, <2>3, HashesReduced
      <3> QED
        BY <1>3, <2>3, <3>1, PowFacts DEF Hashes, RABINKARP_SEED
    <2> QED
      BY <2>1, <2>3, <2>4 DEF RabinKarpWith, rabinkarp_init, RABINKARP_SEED, w
  <1> QED
    BY <1>4, <1>5

\* To roll the weak sum over to the next window gives the sum of that window.
LEMMA WeaksumRolls ==
    ASSUME NEW kind \in Kinds, NEW u, NEW v, Behind(u, v), Short(Len(u))
    PROVE  /\ Len(v) = Len(u) => weaksum_rotate(SumOf(kind, u), u[1], v[Len(v)]) = SumOf(kind, v)
           /\ Len(v) = Len(u) - 1 => weaksum_rollout(SumOf(kind, u), u[1]) = SumOf(kind, v)
  <1>1. SumOf(kind, u).kind = kind /\ weaksum_init(kind).kind = kind
    BY SumOfFacts DEF Behind
  <1>2. CASE kind = "RS_ROLLSUM"
    <2>1. /\ SumOf(kind, u) = RollsumUpdate(RollsumInit, u)
          /\ SumOf(kind, v) = RollsumUpdate(RollsumInit, v)
      BY <1>1, <1>2 DEF SumOf, weaksum_init, weaksum_update
    <2> QED
      BY <1>1, <1>2, <2>1, RollsumRolls DEF weaksum_rotate, weaksum_rollout
  <1>3. CASE kind # "RS_ROLLSUM"
    <2>1. /\ SumOf(kind, u) = rabinkarp_update(rabinkarp_init, u)
          /\ SumOf(kind, v) = rabinkarp_update(rabinkarp_init, v)
      BY <1>1, <1>3 DEF SumOf, weaksum_init, weaksum_update
    <2> QED
      BY <1>1, <1>3, <2>1, RabinKarpRolls DEF weaksum_rotate, weaksum_rollout
  <1> QED
    BY <1>2, <1>3

\* A window of the new file and the one that begins a byte later.
LEMMA WindowFacts ==
    ASSUME input \in Seq(Nat), NEW S \in Nat, NEW n \in Nat, S + n <= Len(input)
    PROVE  /\ Window(S, n) \in Seq(Nat) /\ Len(Window(S, n)) = n
           /\ \A k \in 1 .. n : Window(S, n)[k] = input[S + k]
           /\ n = 0 => Window(S, n) = <<>>
  <1>1. /\ Window(S, n) \in Seq(Nat) /\ Len(Window(S, n)) = n
        /\ \A k \in 1 .. n : Window(S, n)[k] = input[S + k]
    BY PieceFacts DEF Window
  <1>2. n = 0 => Window(S, n) = <<>>
    BY <1>1
  <1> QED
    BY <1>1, <1>2

\* The window that begins a byte later is behind the one before.
LEMMA WindowBehind ==
    ASSUME input \in Seq(Nat), NEW S \in Nat, NEW n \in Nat \ {0}, NEW m \in {n - 1, n},
           S + n <= Len(input), S + 1 + m <= Len(input)
    PROVE  /\ Behind(Window(S, n), Window(S + 1, m)) /\ Len(Window(S, n)) = n
           /\ Len(Window(S + 1, m)) = m /\ Window(S, n)[1] = input[S + 1]
           /\ m = n => Window(S + 1, m)[m] = input[S + 1 + n]
  <1>1. m \in Nat /\ S + 1 \in Nat /\ 1 \in 1 .. n /\ n \in Nat
    OBVIOUS
  <1>2. /\ Window(S, n) \in Seq(Nat) /\ Len(Window(S, n)) = n
        /\ \A k \in 1 .. n : Window(S, n)[k] = input[S + k]
    BY WindowFacts
  <1>3. /\ Window(S + 1, m) \in Seq(Nat) /\ Len(Window(S + 1, m)) = m
        /\ \A k \in 1 .. m : Window(S + 1, m)[k] = input[S + 1 + k]
    BY <1>1, WindowFacts
  <1>4. \A k \in 1 .. n - 1 : Window(S + 1, m)[k] = Window(S, n)[k + 1]
    <2> SUFFICES ASSUME NEW k \in 1 .. n - 1
                 PROVE  Window(S + 1, m)[k] = Window(S, n)[k + 1]
      OBVIOUS
    <2>1. k \in 1 .. m /\ k + 1 \in 1 .. n /\ S + 1 + k = S + (k + 1)
      OBVIOUS
    <2> QED
      BY <1>2, <1>3, <2>1
  <1>5. Behind(Window(S, n), Window(S + 1, m))
    BY <1>2, <1>3, <1>4 DEF Behind
  <1>6. m = n => Window(S + 1, m)[m] = input[S + 1 + n]
    <2>1. m = n => m \in 1 .. m
      OBVIOUS
    <2>2. m = n => Window(S + 1, m)[m] = input[S + 1 + m]
      BY <1>3, <2>1
    <2> QED
      BY <2>2
  <1> QED
    BY <1>1, <1>2, <1>3, <1>5, <1>6

\* The sum only depends on the state function, the sum itself and the place.
LEMMA SumNext ==
    ASSUME input' = input, SumAt(statefn', scan'.weak_sum, Reached(job', scan'))
    PROVE  SumInv'
  BY DEF SumInv, SumAt, Window, Reached

\* A state function returns.
LEMMA SumFinish ==
    ASSUME NEW j, JobOK(j), NEW fn, NEW r, Finish(j, fn, r), fn # "NULL",
           SumAt(fn, scan'.weak_sum, Reached(j, scan'))
    PROVE  SumInv'
  <1>1. input' = input /\ SameOutput(j, job') /\ SameInput(j, job') /\ statefn' \in {fn, "NULL"}
    BY FinishFacts
  <1>2. Reached(job', scan') = Reached(j, scan')
    BY <1>1 DEF Reached, SameOutput, SameInput
  <1>3. SumAt(statefn', scan'.weak_sum, Reached(job', scan'))
    BY <1>1, <1>2 DEF SumAt
  <1> QED
    BY <1>1, <1>3, SumNext

\* At first there is none.
LEMMA SumInit == Init => SumInv
  <1> SUFFICES ASSUME Init
               PROVE  SumInv
    OBVIOUS
  <1>1. PICK kind \in Kinds : scan.weak_sum = weaksum_init(kind) /\ scan.pos = 0
    BY DeltaAssumption DEF Init
  <1>2. DeltaInv
    BY DeltaInit
  <1>3. scan.weak_sum.kind = kind /\ scan.weak_sum.count = 0
    <2>1. <<>> \in Seq(Nat)
      OBVIOUS
    <2> QED
      BY <1>1, <2>1, SumOfFacts, SumFacts
  <1>4. EngineInit("rs_delta_s_header") /\ input \in Seq(Nat)
    BY <1>2, Amounts DEF Init
  <1>5. job.cursor = 0 /\ job.copy_len = 0
    BY <1>4, EngineInitFacts
  <1>6. Reached(job, scan) = 0
    BY <1>1, <1>5 DEF Reached
  <1>7. Window(0, 0) = <<>>
    BY <1>4, WindowFacts, LenProperties
  <1>8. scan.weak_sum = SumOf(kind, <<>>)
    BY <1>1, SumOfNone
  <1> QED
    BY <1>3, <1>6, <1>7, <1>8 DEF SumInv, SumAt

\* Nothing happens.
LEMMA SumSame == SumInv /\ UNCHANGED vars => SumInv'
  <1> SUFFICES ASSUME SumInv, UNCHANGED vars
               PROVE  SumInv'
    OBVIOUS
  <1>1. input' = input /\ job' = job /\ statefn' = statefn /\ scan' = scan
    BY DEF vars, engineVars
  <1> QED
    BY <1>1, SumNext DEF SumInv

\* The caller comes back.
LEMMA SumCalled == DeltaInv /\ SumInv /\ Caller(CallIter) => SumInv'
  <1> SUFFICES ASSUME DeltaInv, SumInv, Caller(CallIter)
               PROVE  SumInv'
    OBVIOUS
  <1>1. PICK n \in 0 .. Len(input), e \in BOOLEAN, m \in 0 .. MaxOut : Call(n, e, m)
    BY DEF Caller, CallIter, Iter
  <1>2. scan' = scan
    BY DEF Caller
  <1>3. DOMAIN job = JobFields
    BY Amounts DEF JobOK
  <1>4. /\ job'.cursor = job.cursor /\ job'.copy_len = job.copy_len
        /\ input' = input /\ statefn' = statefn
    BY <1>1, <1>3 DEF Call, JobFields
  <1>5. Reached(job', scan') = Reached(job, scan)
    BY <1>2, <1>4 DEF Reached
  <1> QED
    BY <1>2, <1>4, <1>5, SumNext DEF SumInv

\* The tube is emptied.
LEMMA SumCatchup == DeltaInv /\ SumInv /\ Caller(Catchup) => SumInv'
  <1> SUFFICES ASSUME DeltaInv, SumInv, Caller(Catchup)
               PROVE  SumInv'
    OBVIOUS
  <1> DEFINE c == rs_tube_catchup(job)
             k == c.job
  <1>1. /\ scan' = scan
        /\ \/ job' = c.job /\ UNCHANGED <<input, statefn, result, orig>>
           \/ Return(c.job, c.result) /\ UNCHANGED statefn
    BY DEF Caller, Catchup
  <1>2. /\ JobOK(k) /\ c.result \in Results
        /\ c.result = "RS_DONE" => rs_tube_is_idle(k)
        /\ k.cursor + k.copy_len = job.cursor + job.copy_len
    BY Amounts, CatchupFacts DEF Results, Work
  <1> HIDE DEF c
  <1>3. /\ input' = input /\ statefn' = statefn
        /\ job'.cursor + job'.copy_len = k.cursor + k.copy_len
    <2>1. CASE job' = k /\ UNCHANGED <<input, statefn, result, orig>>
      BY <2>1
    <2>2. CASE Return(k, c.result) /\ UNCHANGED statefn
      <3>1. c.result # "RS_RUNNING"
        BY <1>2 DEF Results
      <3>2. input' = input /\ SameOutput(k, job') /\ SameInput(k, job')
        BY <1>2, <2>2, <3>1, ReturnFacts
      <3> QED
        BY <2>2, <3>2 DEF SameInput, SameOutput
    <2> QED
      BY <1>1, <2>1, <2>2
  <1>4. Reached(job', scan') = Reached(job, scan)
    BY <1>1, <1>2, <1>3 DEF Reached
  <1> QED
    BY <1>1, <1>3, <1>4, SumNext DEF SumInv

\* The header is written.
LEMMA SumHeader == DeltaInv /\ SumInv /\ rs_delta_s_header => SumInv'
  <1> SUFFICES ASSUME DeltaInv, SumInv, rs_delta_s_header
               PROVE  SumInv'
    OBVIOUS
  <1> DEFINE fn == IF HasSignature THEN "rs_delta_s_scan" ELSE "rs_delta_s_slack"
             H == rs_emit_delta_header
             k == rs_tube_write(job, H)
  <1>1. /\ pc = "statefn" /\ statefn = "rs_delta_s_header" /\ Finish(k, fn, "RS_RUNNING") /\ scan' = scan
    BY DEF rs_delta_s_header, Running
  <1>2. fn \in {"rs_delta_s_scan", "rs_delta_s_slack"}
    OBVIOUS
  <1> HIDE DEF fn
  <1>3. JobOK(job) /\ rs_tube_is_idle(job) /\ job.copy_len = 0
    BY <1>1, Amounts, StateFnRuns
  <1>4. H \in Seq(Nat)
    BY CommandBytes
  <1>5. JobOK(k) /\ k.copy_len = 0 /\ SameInput(job, k)
    BY <1>3, <1>4, WrittenTotal
  <1> HIDE DEF k
  <1>6. Reached(k, scan') = Reached(job, scan)
    BY <1>1, <1>3, <1>5 DEF Reached, SameInput
  <1>7. SumAt(fn, scan'.weak_sum, Reached(k, scan'))
    BY <1>1, <1>2, <1>6 DEF SumInv, SumAt
  <1> QED
    BY <1>1, <1>2, <1>5, <1>7, SumFinish

\* The end is written.
LEMMA SumEnd == DeltaInv /\ SumInv /\ rs_delta_s_end => SumInv'
  <1> SUFFICES ASSUME DeltaInv, SumInv, rs_delta_s_end
               PROVE  SumInv'
    OBVIOUS
  <1> DEFINE E == rs_emit_end_cmd
             k == rs_tube_write(job, E)
  <1>1. /\ pc = "statefn" /\ statefn = "rs_delta_s_end" /\ Finish(k, statefn, "RS_DONE") /\ scan' = scan
    BY DEF rs_delta_s_end, Running
  <1>2. JobOK(job) /\ rs_tube_is_idle(job) /\ job.copy_len = 0
    BY <1>1, Amounts, StateFnRuns
  <1>3. E \in Seq(Nat)
    BY CommandBytes
  <1>4. JobOK(k) /\ k.copy_len = 0 /\ SameInput(job, k)
    BY <1>2, <1>3, WrittenTotal
  <1> HIDE DEF k
  <1>5. Reached(k, scan') = Reached(job, scan)
    BY <1>1, <1>2, <1>4 DEF Reached, SameInput
  <1>6. SumAt(statefn, scan'.weak_sum, Reached(k, scan'))
    BY <1>1, <1>5 DEF SumInv
  <1> QED
    BY <1>1, <1>4, <1>6, SumFinish

\* A loop is entered.
LEMMA SumEnter ==
    ASSUME DeltaInv, SumInv, NEW fn \in {"rs_delta_s_scan", "rs_delta_s_flush"}, Enter(fn)
    PROVE  SumInv'
  <1> DEFINE t == rs_tube_catchup(job)
             c == CatchUp(State)
             g == IF c.result = "RS_DONE" THEN rs_getinput(c) ELSE c
             k == g.job
  <1>1. /\ pc = "statefn" /\ statefn = fn /\ scan' = g.scan
        /\ IF g.result = "RS_DONE"
             THEN job' = g.job /\ pc' = "loop" /\ UNCHANGED <<input, statefn, result, orig>>
             ELSE Finish(g.job, statefn, g.result)
    BY DEF Enter, Running
  <1>2. JobOK(job) /\ ScanOK(scan)
    BY Amounts
  <1>3. DOMAIN c = {"job", "scan", "result"} /\ c.job = t.job /\ c.scan = scan /\ c.result = t.result
    BY DEF CatchUp, State
  <1>4. JobOK(t.job) /\ t.job.cursor + t.job.copy_len = job.cursor + job.copy_len
    BY <1>2, CatchupFacts DEF Work
  <1> HIDE DEF c, t
  <1>5. /\ JobOK(k) /\ SameOutput(c.job, k) /\ k.cursor = c.job.cursor
        /\ g.scan.pos = scan.pos /\ g.scan.weak_sum = scan.weak_sum
    <2>1. CASE c.result = "RS_DONE"
      <3>1. g = rs_getinput(c)
        BY <2>1
      <3> QED
        BY <1>2, <1>3, <1>4, <3>1, GetinputFacts DEF Work
    <2>2. CASE c.result # "RS_DONE"
      <3>1. g = c
        BY <2>2
      <3> QED
        BY <1>3, <1>4, <3>1 DEF SameOutput
    <2> QED
      BY <2>1, <2>2
  <1> HIDE DEF g
  <1>6. Reached(k, g.scan) = Reached(job, scan)
    BY <1>3, <1>4, <1>5 DEF Reached, SameOutput
  <1>7. SumAt(statefn, scan'.weak_sum, Reached(k, scan'))
    BY <1>1, <1>5, <1>6 DEF SumInv
  <1>8. CASE g.result = "RS_DONE"
    BY <1>1, <1>7, <1>8, SumNext
  <1>9. CASE g.result # "RS_DONE"
    <2>1. Finish(k, statefn, g.result) /\ statefn # "NULL"
      BY <1>1, <1>9
    <2> QED
      BY <1>5, <1>7, <2>1, SumFinish
  <1> QED
    BY <1>8, <1>9

\* Without a weak sum it does not matter where the scan is.
LEMMA SumNowhere ==
    ASSUME input \in Seq(Nat), NEW sum, sum.count = 0, NEW fn, NEW gn, NEW S \in 0 .. Len(input),
           NEW T \in 0 .. Len(input), SumAt(fn, sum, S)
    PROVE  SumAt(gn, sum, T)
  <1>1. Window(S, 0) = <<>> /\ Window(T, 0) = <<>>
    <2>1. S \in Nat /\ T \in Nat /\ S + 0 <= Len(input) /\ T + 0 <= Len(input)
      BY LenProperties
    <2> QED
      BY <2>1, WindowFacts
  <1> QED
    BY <1>1 DEF SumAt

\* How much has been scanned is never more than there is.
LEMMA ReachedBound ==
    ASSUME DeltaInv
    PROVE  /\ Reached(job, scan) \in 0 .. Len(input) /\ input \in Seq(Nat)
           /\ Reached(job, scan) + scan.weak_sum.count
                <= job.cursor + (job.scoop_avail + job.avail_in)
           /\ job.cursor + (job.scoop_avail + job.avail_in) <= Len(input)
  <1>1. /\ JobOK(job) /\ job.cursor \in Nat /\ job.copy_len \in Nat /\ job.scoop_avail \in Nat
        /\ job.avail_in \in Nat /\ scan.pos \in Nat /\ scan.weak_sum.count \in Nat
        /\ Len(input) \in Nat /\ input \in Seq(Nat)
    BY Amounts
  <1>2. job.copy_len + scan.pos + scan.weak_sum.count <= job.scoop_avail + job.avail_in
    BY DEF DeltaInv, Fits
  <1>3. job.cursor + job.scoop_avail + job.avail_in <= Len(input)
    BY <1>1 DEF JobOK
  <1> DEFINE a == job.cursor
             b == job.copy_len
             c == scan.pos
             d == scan.weak_sum.count
             e == job.scoop_avail
             g == job.avail_in
             l == Len(input)
  <1>4. /\ a \in Nat /\ b \in Nat /\ c \in Nat /\ d \in Nat /\ e \in Nat /\ g \in Nat /\ l \in Nat
        /\ b + c + d <= e + g /\ a + e + g <= l /\ Reached(job, scan) = a + b + c
    BY <1>1, <1>2, <1>3 DEF Reached
  <1> HIDE DEF a, b, c, d, e, g, l
  <1>5. a + b + c \in 0 .. l /\ (a + b + c) + d <= a + (e + g) /\ a + (e + g) <= l
    BY <1>4
  <1> QED
    BY <1>1, <1>4, <1>5 DEF a, b, c, d, e, g, l

\* A slack delta has no weak sum.
LEMMA SumSlack == DeltaInv /\ SumInv /\ rs_delta_s_slack => SumInv'
  <1> SUFFICES ASSUME DeltaInv, SumInv, rs_delta_s_slack
               PROVE  SumInv'
    OBVIOUS
  <1> DEFINE S == Reached(job, scan)
             T == Reached(job', scan')
  <1>1. DeltaInv'
    BY DeltaSlack
  <1>2. S \in 0 .. Len(input) /\ input \in Seq(Nat)
    BY ReachedBound
  <1>3. T \in 0 .. Len(input')
    <2>1. (Reached(job, scan) \in 0 .. Len(input))'
      BY <1>1, ReachedBound, PTL
    <2> QED
      BY <2>1 DEF Reached
  <1>4. scan.weak_sum.count = 0
    BY DEF rs_delta_s_slack, Running, DeltaInv, NotScanning
  <1>5. scan'.weak_sum = scan.weak_sum
    <2>1. DOMAIN scan = ScanFields
      BY Amounts DEF ScanOK
    <2> QED
      BY <2>1 DEF rs_delta_s_slack, ScanFields
  <1>6. input' = input
    BY DEF rs_delta_s_slack, Finish, Return
  <1>7. SumAt(statefn', scan.weak_sum, T)
    <2>1. SumAt(statefn, scan.weak_sum, S)
      BY DEF SumInv
    <2> HIDE DEF S, T
    <2> QED
      BY <1>2, <1>3, <1>4, <1>6, <2>1, SumNowhere
  <1> QED
    BY <1>5, <1>6, <1>7, SumNext

\* The weak sum that a lookup uses is that of the window at scan_pos.
LEMMA SumFound ==
    ASSUME DeltaInv, SumInv, pc = "loop", scan.pos < scan.len
    PROVE  LET sum == rs_findmatch(scan).scan.weak_sum
           IN  /\ sum.kind \in Kinds /\ sum = SumOf(sum.kind, Window(Reached(job, scan), sum.count))
               /\ statefn = "rs_delta_s_scan" /\ scan.pos + BlockLen < scan.len => sum.count = BlockLen
               /\ \A n : ScanBytes(scan, scan.pos, n) = Window(Reached(job, scan), n)
               /\ ScanByte(scan, scan.pos) = input[Reached(job, scan) + 1]
               /\ ScanByte(scan, scan.pos + BlockLen) = input[Reached(job, scan) + 1 + BlockLen]
  <1> DEFINE S == Reached(job, scan)
             old == scan.weak_sum
             kind == old.kind
             n == Lesser(scan.len - scan.pos, BlockLen)
             sum == rs_findmatch(scan).scan.weak_sum
  <1>1. /\ ScanOK(scan) /\ scan.pos \in Nat /\ scan.len \in Nat /\ job.cursor \in Nat
        /\ BlockLen \in Nat \ {0} /\ SumOK(old) /\ input \in Seq(Nat) /\ kind \in Kinds
    BY Amounts DEF ScanOK, SumOK, Kinds
  <1>2. scan.buf = job.cursor /\ scan.len = job.scoop_avail + job.avail_in /\ job.copy_len = 0
    BY StateFnRuns DEF DeltaInv, Pointed
  <1>3. S = scan.buf + scan.pos /\ S \in Nat
    BY <1>1, <1>2 DEF Reached
  <1>4. S + (scan.len - scan.pos) <= Len(input) /\ Len(input) \in Nat
    <2>1. job.cursor + scan.len <= Len(input) /\ Len(input) \in Nat
      BY <1>2, Amounts, ReachedBound
    <2> QED
      BY <1>1, <1>2, <1>3, <2>1
  <1>5. n \in Nat /\ S + n <= Len(input) /\ (scan.pos + BlockLen < scan.len => n = BlockLen)
    BY <1>1, <1>3, <1>4 DEF Lesser
  <1>6. old = SumOf(kind, Window(S, old.count)) /\ (statefn = "rs_delta_s_scan" => old.count \in {0, BlockLen})
    BY DEF SumInv, SumAt
  <1>7. \A m : ScanBytes(scan, scan.pos, m) = Window(S, m)
    BY <1>3 DEF ScanBytes, Window
  <1>8. /\ ScanByte(scan, scan.pos) = input[S + 1]
        /\ ScanByte(scan, scan.pos + BlockLen) = input[S + 1 + BlockLen]
    <2>1. scan.buf \in Nat /\ scan.buf + (scan.pos + BlockLen) + 1 = S + 1 + BlockLen
      BY <1>1, <1>2, <1>3
    <2> QED
      BY <1>3, <2>1 DEF ScanByte
  <1> HIDE DEF S, n
  <1>9. sum = IF old.count = 0 THEN weaksum_update(old, Window(S, n)) ELSE old
    <2>1. sum = IF old.count = 0 THEN weaksum_update(old, ScanBytes(scan, scan.pos, n)) ELSE old
      <3>1. DOMAIN scan = ScanFields
        BY <1>1 DEF ScanOK
      <3> QED
        BY <3>1 DEF rs_findmatch, ScanFields, n
    <2> QED
      BY <1>7, <2>1
  <1> HIDE DEF sum
  <1>10. CASE old.count = 0
    <2>1. Window(S, 0) = <<>>
      BY <1>1, <1>3, <1>4, <1>5, WindowFacts
    <2>2. old = weaksum_init(kind)
      BY <1>1, <1>6, <1>10, <2>1, SumOfNone
    <2>3. sum = SumOf(kind, Window(S, n))
      BY <1>9, <1>10, <2>2 DEF SumOf
    <2>4. Window(S, n) \in Seq(Nat) /\ Len(Window(S, n)) = n
      BY <1>1, <1>3, <1>5, WindowFacts
    <2>5. sum.kind = kind /\ sum.count = n
      BY <1>1, <2>3, <2>4, SumOfFacts
    <2> QED
      BY <1>1, <1>5, <1>7, <1>8, <2>3, <2>5 DEF S, sum
  <1>11. CASE old.count # 0
    <2>1. sum = old
      BY <1>9, <1>11
    <2> QED
      BY <1>1, <1>6, <1>7, <1>8, <1>11, <2>1 DEF S, sum
  <1> QED
    BY <1>10, <1>11

\* A match is found, or a byte is missed and the sum is rolled.
LEMMA SumIteration ==
    ASSUME DeltaInv, SumInv, pc = "loop", scan.pos < scan.len, NEW rolled, SumOK(rolled),
           SumAt(statefn, rolled, Reached(job, scan) + 1),
           Iteration(rs_findmatch(scan), rolled)
    PROVE  SumInv'
  <1> DEFINE f == rs_findmatch(scan)
             st == [State EXCEPT !.scan = f.scan]
             m == rs_appendmatch(st, f.match_pos, f.match_len)
             matched == [m EXCEPT !.scan.weak_sum = weaksum_reset(@)]
             rst == [st EXCEPT !.scan.weak_sum = rolled]
             missed == rs_appendmiss(rst, 1)
             next == IF f.match_pos # -1 THEN matched ELSE missed
             S == Reached(job, scan)
  <1>1. /\ scan' = next.scan
        /\ IF next.result = "RS_DONE"
             THEN job' = next.job /\ UNCHANGED <<input, statefn, pc, result, orig>>
             ELSE Finish(next.job, statefn, next.result)
    BY DEF Iteration
  <1>2. /\ rs_tube_is_idle(job) /\ job.copy_len = 0 /\ scan.len = job.scoop_avail + job.avail_in
        /\ statefn \in {"rs_delta_s_scan", "rs_delta_s_flush"}
    BY StateFnRuns DEF DeltaInv, Pointed
  <1>3. /\ JobOK(job) /\ ScanOK(scan) /\ input \in Seq(Nat) /\ Len(input) \in Nat
        /\ job.cursor \in Nat /\ scan.pos \in Nat /\ scan.len \in Nat
        /\ job.cursor + scan.len <= Len(input)
    BY <1>2, Amounts, ReachedBound DEF ScanOK
  <1>4. S \in Nat /\ S = job.cursor + scan.pos
    BY <1>2, <1>3 DEF Reached
  <1>5. /\ ScanOK(f.scan) /\ f.scan.buf = scan.buf /\ f.scan.len = scan.len /\ f.scan.pos = scan.pos
        /\ f.scan.basis_len = scan.basis_len /\ f.scan.basis_pos = scan.basis_pos
        /\ f.scan.stats = scan.stats /\ f.match_len \in Nat \ {0}
        /\ scan.pos + f.match_len <= scan.len /\ f.match_pos \in Int
    BY Found
  <1>6. f.scan.weak_sum.kind \in Kinds
    BY SumFound
  <1> HIDE DEF f
  <1>7. DOMAIN st = {"job", "scan", "result"} /\ st.job = job /\ st.scan = f.scan
    BY DEF State
  <1> HIDE DEF st
  <1>8. Balanced(st)
    BY <1>5, <1>7, LoopBalanced
  <1>9. ASSUME NEW n \in Nat, SumAt(statefn, next.scan.weak_sum, S + n),
               Reached(next.job, next.scan) = S + n, JobOK(next.job)
        PROVE  SumInv'
    <2> HIDE DEF next, S
    <2>1. SumAt(statefn, scan'.weak_sum, Reached(next.job, scan'))
      BY <1>1, <1>9
    <2>2. CASE next.result = "RS_DONE"
      BY <1>1, <2>1, <2>2, SumNext
    <2>3. CASE next.result # "RS_DONE"
      BY <1>1, <1>2, <1>9, <2>1, <2>3, SumFinish
    <2> QED
      BY <2>2, <2>3
  <1>10. CASE f.match_pos # -1
    <2>1. next = matched
      BY <1>10
    <2>2. PICK n \in Nat \ {0} : n = f.match_len
      BY <1>5
    <2>3. Scanning(st, m, f.match_len)
      BY <1>2, <1>5, <1>7, <1>8, AppendmatchFacts
    <2> HIDE DEF m
    <2>4. /\ Balanced(m) /\ JobOK(m.job) /\ m.scan.weak_sum = f.scan.weak_sum
          /\ Reached(m.job, m.scan) = job.cursor + job.copy_len + scan.pos + n
      BY <1>5, <1>7, <2>2, <2>3 DEF Scanning, Work, Reached
    <2>5. DOMAIN m = {"job", "scan", "result"} /\ DOMAIN m.scan = ScanFields
      BY <2>4 DEF Balanced, Solid, ScanOK
    <2>6. /\ next.job = m.job /\ next.scan.pos = m.scan.pos
          /\ next.scan.weak_sum = weaksum_init(f.scan.weak_sum.kind)
      BY <2>1, <2>4, <2>5 DEF ScanFields, weaksum_reset
    <2> HIDE DEF next, matched
    <2>7. Reached(next.job, next.scan) = S + n
      BY <2>4, <2>6 DEF Reached, S
    <2>8. SumAt(statefn, next.scan.weak_sum, S + n)
      <3>1. PICK kind \in Kinds : kind = f.scan.weak_sum.kind
        BY <1>6
      <3>2. S + n \in Nat /\ S + n + 0 <= Len(input)
        <4>1. scan.pos + n <= scan.len
          BY <1>5, <2>2
        <4>2. PICK s \in Nat, m1 \in Nat : s = S /\ m1 = S + n
          BY <1>3, <1>4
        <4>3. S + n <= Len(input)
          BY <1>3, <1>4, <4>1
        <4>4. m1 + 0 = m1
          OBVIOUS
        <4> QED
          BY <4>2, <4>3, <4>4, Zenon
      <3>3. Window(S + n, 0) = <<>>
        BY <1>3, <3>2, WindowFacts
      <3>4. next.scan.weak_sum = weaksum_init(kind) /\ <<>> \in Seq(Nat)
        BY <2>6, <3>1
      <3>5. next.scan.weak_sum.kind = kind /\ next.scan.weak_sum.count = 0
        BY <3>4, SumOfFacts, SumFacts
      <3>6. next.scan.weak_sum = SumOf(kind, <<>>)
        BY <3>4, SumOfNone
      <3> QED
        BY <3>3, <3>5, <3>6 DEF SumAt
    <2> QED
      BY <1>9, <2>2, <2>4, <2>6, <2>7, <2>8
  <1>11. CASE f.match_pos = -1
    <2>1. next = missed
      BY <1>11
    <2>2. /\ Balanced(rst) /\ rst.job = job /\ rst.scan.pos = scan.pos /\ rst.scan.len = scan.len
          /\ rst.scan.weak_sum = rolled
      BY <1>5, <1>7, <1>8, OtherSum
    <2> HIDE DEF rst
    <2>3. Scanning(rst, missed, 1)
      <3>1. rst.scan.pos + 1 <= rst.scan.len /\ 1 \in Nat
        BY <1>3, <2>2
      <3> QED
        BY <1>2, <2>2, <3>1, AppendmissFacts
    <2> HIDE DEF missed
    <2>4. /\ JobOK(missed.job) /\ missed.scan.weak_sum = rolled
          /\ Reached(missed.job, missed.scan) = job.cursor + job.copy_len + scan.pos + 1
      BY <2>2, <2>3 DEF Scanning, Work, Reached
    <2>5. Reached(missed.job, missed.scan) = S + 1
      BY <2>4 DEF Reached, S
    <2> HIDE DEF next
    <2> QED
      BY <1>9, <2>1, <2>4, <2>5
  <1> QED
    BY <1>10, <1>11

\* The scan.
LEMMA SumScan == DeltaInv /\ SumInv /\ rs_delta_s_scan => SumInv'
  <1> SUFFICES ASSUME DeltaInv, SumInv, rs_delta_s_scan
               PROVE  SumInv'
    OBVIOUS
  <1>1. CASE Enter("rs_delta_s_scan")
    BY <1>1, SumEnter
  <1>2. CASE /\ InLoop("rs_delta_s_scan") /\ scan.pos + BlockLen < scan.len
             /\ LET f == rs_findmatch(scan)
                IN  Iteration(f, weaksum_rotate(f.scan.weak_sum, ScanByte(scan, scan.pos),
                                                ScanByte(scan, scan.pos + BlockLen)))
    <2> DEFINE f == rs_findmatch(scan)
               rolled == weaksum_rotate(f.scan.weak_sum, ScanByte(scan, scan.pos),
                                        ScanByte(scan, scan.pos + BlockLen))
               sum == f.scan.weak_sum
               S == Reached(job, scan)
               b == BlockLen
    <2>1. pc = "loop" /\ statefn = "rs_delta_s_scan" /\ Iteration(rs_findmatch(scan), rolled)
      BY <1>2 DEF InLoop
    <2>2. scan.pos \in Nat /\ scan.len \in Nat /\ b \in Nat \ {0} /\ scan.pos + b < scan.len /\ Short(b)
      BY <1>2, Amounts, DeltaAssumption DEF ScanOK, Short
    <2>3. scan.pos < scan.len
      BY <2>2
    <2>4. SumOK(sum)
      BY <2>1, <2>3, Found
    <2>5. /\ sum.kind \in Kinds /\ sum.count = b /\ sum = SumOf(sum.kind, Window(S, b))
          /\ ScanByte(scan, scan.pos) = input[S + 1] /\ ScanByte(scan, scan.pos + b) = input[S + 1 + b]
      BY <1>2, <2>1, <2>3, SumFound
    <2>6. S \in Nat /\ S + b + 1 <= Len(input) /\ input \in Seq(Nat) /\ Len(input) \in Nat
      <3>1. /\ input \in Seq(Nat) /\ Len(input) \in Nat /\ job.cursor \in Nat /\ job.copy_len = 0
            /\ scan.len = job.scoop_avail + job.avail_in
            /\ job.cursor + scan.len <= Len(input)
        BY <2>1, Amounts, ReachedBound, StateFnRuns DEF DeltaInv, Pointed
      <3>2. S = job.cursor + scan.pos
        BY <2>2, <3>1 DEF Reached
      <3> QED
        BY <2>2, <3>1, <3>2
    <2> HIDE DEF f, S, b
    <2>7. /\ Behind(Window(S, b), Window(S + 1, b)) /\ Len(Window(S, b)) = b
          /\ Len(Window(S + 1, b)) = b /\ Window(S, b)[1] = input[S + 1]
          /\ Window(S + 1, b)[b] = input[S + 1 + b]
      <3>1. b \in {b - 1, b} /\ S + b <= Len(input) /\ S + 1 + b <= Len(input)
        BY <2>2, <2>6
      <3> QED
        BY <2>2, <2>6, <3>1, WindowBehind
    <2>8. rolled = SumOf(sum.kind, Window(S + 1, b))
      <3>1. PICK kind \in Kinds : kind = sum.kind
        BY <2>5
      <3>2. weaksum_rotate(SumOf(kind, Window(S, b)), input[S + 1], input[S + 1 + b])
              = SumOf(kind, Window(S + 1, b))
        BY <2>2, <2>7, WeaksumRolls
      <3> QED
        BY <2>5, <3>1, <3>2 DEF b
    <2>9. SumOK(rolled)
      BY <2>4, SumFacts
    <2>10. rolled.kind = sum.kind /\ rolled.count = b
      <3>1. Window(S + 1, b) \in Seq(Nat)
        BY <2>7 DEF Behind
      <3> QED
        BY <2>5, <2>7, <2>8, <3>1, SumOfFacts
    <2> HIDE DEF rolled
    <2>11. SumAt(statefn, rolled, S + 1)
      BY <2>8, <2>10 DEF SumAt, b
    <2> QED
      BY <2>1, <2>3, <2>9, <2>11, SumIteration DEF S
  <1>3. CASE /\ InLoop("rs_delta_s_scan") /\ scan.pos + BlockLen >= scan.len
             /\ IF job.eof_in THEN Finish(job, "rs_delta_s_flush", "RS_RUNNING")
                ELSE Finish(job, statefn, "RS_BLOCKED")
             /\ UNCHANGED <<basis, scan>>
    <2>1. JobOK(job) /\ statefn = "rs_delta_s_scan" /\ scan' = scan
      BY <1>3, Amounts DEF InLoop
    <2>2. /\ SumAt("rs_delta_s_scan", scan'.weak_sum, Reached(job, scan'))
          /\ SumAt("rs_delta_s_flush", scan'.weak_sum, Reached(job, scan'))
      BY <2>1 DEF SumInv, SumAt
    <2>3. CASE Finish(job, "rs_delta_s_flush", "RS_RUNNING")
      BY <2>1, <2>2, <2>3, SumFinish
    <2>4. CASE Finish(job, "rs_delta_s_scan", "RS_BLOCKED")
      BY <2>1, <2>2, <2>4, SumFinish
    <2> QED
      BY <1>3, <2>1, <2>3, <2>4
  <1> QED
    BY <1>1, <1>2, <1>3 DEF rs_delta_s_scan

\* The last of the input: the window shrinks.
LEMMA SumFlush == DeltaInv /\ SumInv /\ rs_delta_s_flush => SumInv'
  <1> SUFFICES ASSUME DeltaInv, SumInv, rs_delta_s_flush
               PROVE  SumInv'
    OBVIOUS
  <1>1. CASE Enter("rs_delta_s_flush")
    BY <1>1, SumEnter
  <1>2. CASE /\ InLoop("rs_delta_s_flush") /\ scan.pos < scan.len
             /\ LET f == rs_findmatch(scan)
                IN  Iteration(f, weaksum_rollout(f.scan.weak_sum, ScanByte(scan, scan.pos)))
    <2> DEFINE f == rs_findmatch(scan)
               rolled == weaksum_rollout(f.scan.weak_sum, ScanByte(scan, scan.pos))
               sum == f.scan.weak_sum
               S == Reached(job, scan)
               n == sum.count
    <2>1. /\ pc = "loop" /\ statefn = "rs_delta_s_flush" /\ Iteration(rs_findmatch(scan), rolled)
          /\ scan.pos < scan.len
      BY <1>2 DEF InLoop
    <2>2. /\ SumOK(sum) /\ n \in Nat \ {0} /\ n <= BlockLen /\ scan.pos + n <= scan.len
      BY <2>1, Found
    <2>3. /\ sum.kind \in Kinds /\ sum = SumOf(sum.kind, Window(S, n))
          /\ ScanByte(scan, scan.pos) = input[S + 1]
      BY <2>1, SumFound
    <2>4. S \in Nat /\ S + n <= Len(input) /\ input \in Seq(Nat) /\ Len(input) \in Nat
      <3>1. /\ input \in Seq(Nat) /\ Len(input) \in Nat /\ job.cursor \in Nat /\ job.copy_len = 0
            /\ scan.pos \in Nat /\ scan.len \in Nat
            /\ scan.len = job.scoop_avail + job.avail_in
            /\ job.cursor + scan.len <= Len(input)
        BY <2>1, Amounts, ReachedBound, StateFnRuns DEF DeltaInv, Pointed, ScanOK
      <3>2. S = job.cursor + scan.pos
        BY <3>1 DEF Reached
      <3> HIDE DEF S, n
      <3>3. \A a, b, d, l, e \in Nat : b + d <= l /\ a + l <= e => a + b \in Nat /\ a + b + d <= e
        OBVIOUS
      <3> QED
        BY <2>2, <3>1, <3>2, <3>3, Zenon
    <2>5. Short(n)
      <3>1. BlockLen \in Nat \ {0} /\ BlockLen \div 65536 < 65536
        BY DeltaAssumption
      <3> HIDE DEF n
      <3> QED
        BY <2>2, <3>1 DEF Short
    <2> HIDE DEF f, S, n
    <2>6. PICK k \in Nat : k = n - 1 /\ n # k
      BY <2>2
    <2>7. /\ Behind(Window(S, n), Window(S + 1, k)) /\ Len(Window(S, n)) = n
          /\ Len(Window(S + 1, k)) = k /\ Window(S, n)[1] = input[S + 1]
      <3>1. k \in {n - 1, n} /\ S + 1 + k <= Len(input)
        BY <2>2, <2>4, <2>6
      <3> QED
        BY <2>2, <2>4, <3>1, WindowBehind
    <2>8. rolled = SumOf(sum.kind, Window(S + 1, k))
      <3>1. PICK kind \in Kinds : kind = sum.kind
        BY <2>3
      <3>2. weaksum_rollout(SumOf(kind, Window(S, n)), input[S + 1]) = SumOf(kind, Window(S + 1, k))
        BY <2>5, <2>6, <2>7, WeaksumRolls
      <3> QED
        BY <2>3, <3>1, <3>2
    <2>9. SumOK(rolled)
      <3>1. sum.count > 0
        BY <2>2 DEF n
      <3> QED
        BY <2>2, <3>1, SumFacts
    <2>10. rolled.kind = sum.kind /\ rolled.count = k
      <3>1. Window(S + 1, k) \in Seq(Nat)
        BY <2>7 DEF Behind
      <3> QED
        BY <2>3, <2>7, <2>8, <3>1, SumOfFacts
    <2> HIDE DEF rolled
    <2>11. SumAt(statefn, rolled, S + 1)
      BY <2>1, <2>8, <2>10 DEF SumAt
    <2> QED
      BY <2>1, <2>9, <2>11, SumIteration DEF S
  <1>3. CASE /\ InLoop("rs_delta_s_flush") /\ scan.pos >= scan.len
             /\ LET f == rs_appendflush(State)
                IN  /\ scan' = f.scan
                    /\ Finish(f.job, "rs_delta_s_end",
                              IF f.result = "RS_DONE" THEN "RS_RUNNING" ELSE f.result)
             /\ UNCHANGED basis
    <2> DEFINE f == rs_appendflush(State)
               k == f.job
               r == IF f.result = "RS_DONE" THEN "RS_RUNNING" ELSE f.result
    <2>1. /\ pc = "loop" /\ statefn = "rs_delta_s_flush"
          /\ scan' = f.scan /\ Finish(k, "rs_delta_s_end", r)
      BY <1>3 DEF InLoop
    <2>2. DOMAIN State = {"job", "scan", "result"} /\ State.job = job /\ State.scan = scan
      BY DEF State
    <2>3. Balanced(State) /\ rs_tube_is_idle(job)
      BY <2>1, <2>2, Amounts, LoopBalanced
    <2>4. Flushed(State, f)
      BY <2>2, <2>3, AppendflushFacts
    <2> HIDE DEF f, r
    <2>5. /\ JobOK(k) /\ f.scan.weak_sum = scan.weak_sum
          /\ Reached(k, f.scan) = Reached(job, scan) + 0 /\ Reached(job, scan) \in Nat
      BY <2>2, <2>4, ReachedBound DEF Flushed, Scanning, Work, Reached
    <2>6. SumAt("rs_delta_s_end", scan'.weak_sum, Reached(k, scan'))
      <3>1. Reached(k, f.scan) = Reached(job, scan)
        BY <2>5
      <3> QED
        BY <2>1, <2>5, <3>1 DEF SumInv, SumAt
    <2> QED
      BY <2>1, <2>5, <2>6, SumFinish
  <1> QED
    BY <1>1, <1>2, <1>3 DEF rs_delta_s_flush

\* The weak sum is always that of the window that it stands for.
LEMMA SumAlways == Spec => []SumInv
  <1>1. DeltaInv /\ SumInv /\ [Next]_vars => SumInv'
    BY SumCalled, SumCatchup, SumHeader, SumScan, SumFlush, SumEnd, SumSlack, SumSame
    DEF Next, Step, Stopped
  <1> QED
    BY <1>1, SumInit, DeltaAlways, PTL DEF Spec

\* The rolling sum of the delta job, of either kind, is always the weak sum of the
\* bytes that come next, computed afresh, and these bytes are there: however often
\* it was rotated or rolled out, and wherever the job was blocked in between, a
\* lookup asks for the block that is really there.
THEOREM DeltaWeakSum == Spec => []WeakSumInSync
  <1>1. DeltaInv /\ SumInv => WeakSumInSync
    <2> SUFFICES ASSUME DeltaInv, SumInv, scan.weak_sum.count > 0
                 PROVE  LET n == scan.weak_sum.count
                        IN  /\ Scanned + n <= job.cursor + rs_scoop_avail(job)
                            /\ scan.weak_sum = WeakSumOf(SubSeq(input, Scanned + 1, Scanned + n))
      BY DEF WeakSumInSync
    <2>1. Reached(job, scan) = Scanned
      BY DEF Reached, Scanned
    <2>2. Scanned + scan.weak_sum.count <= job.cursor + rs_scoop_avail(job)
      BY <2>1, ReachedBound DEF rs_scoop_avail
    <2>3. scan.weak_sum = WeakSumOf(SubSeq(input, Scanned + 1, Scanned + scan.weak_sum.count))
      BY <2>1 DEF SumInv, SumAt, SumOf, Window, WeakSumOf, weaksum_reset
    <2> QED
      BY <2>2, <2>3
  <1> QED
    BY <1>1, DeltaAlways, SumAlways, PTL

-----------------------------------------------------------------------------
(* Sums of the values of a function, and the powers of the multiplier.     *)

\* The partial sums of f up to n form a sequence in which each value of f is added.
LEMMA SumSequence ==
    ASSUME NEW n \in Nat, NEW f, \A k \in 1 .. n : f[k] \in Nat
    PROVE  \E s \in [0 .. n -> Nat] : /\ s[0] = 0 /\ \A k \in 1 .. n : s[k] = s[k - 1] + f[k]
                                      /\ SumTo(f, n) = s[n]
  <1> DEFINE F(s) == s = [k \in 0 .. n |-> IF k = 0 THEN 0 ELSE s[k - 1] + f[k]]
             p == CHOOSE s : F(s)
             step == [k \in 1 .. n |-> [v \in Nat |-> v + f[k]]]
  <1>1. SumTo(f, n) = p[n]
    BY DEF SumTo
  <1>2. step \in Steps(n, Nat)
    BY DEF Steps
  <1>3. PICK g : Stepwise(g, n, Nat, 0, step)
    <2> HIDE DEF step
    <2> QED
      BY <1>2, RecursiveFunction
  <1>4. \A k \in 0 .. n : k # 0 => step[k][g[k - 1]] = g[k - 1] + f[k]
    <2> SUFFICES ASSUME NEW k \in 0 .. n, k # 0 PROVE step[k][g[k - 1]] = g[k - 1] + f[k]
      OBVIOUS
    <2>1. k \in 1 .. n /\ k - 1 \in 0 .. n
      OBVIOUS
    <2>2. g[k - 1] \in Nat
      BY <1>3, <2>1 DEF Stepwise
    <2> QED
      BY <2>1, <2>2
  <1>5. F(g)
    <2> HIDE DEF step
    <2> QED
      BY <1>3, <1>4 DEF Stepwise
  <1>6. F(p)
    BY <1>5
  <1> HIDE DEF p, step
  <1>7. p[0] = 0 /\ \A k \in 1 .. n : p[k] = p[k - 1] + f[k]
    BY <1>6
  <1> DEFINE T == {k \in 0 .. n : p[k] \in Nat}
  <1>8. \A k \in 0 .. n : k \in T
    <2>1. 0 \in T
      BY <1>7
    <2>2. \A k \in 1 .. n : k - 1 \in T => k \in T
      BY <1>7
    <2> HIDE DEF T
    <2> QED
      BY <2>1, <2>2, CountUp
  <1>9. p \in [0 .. n -> Nat]
    <2>1. p = [k \in 0 .. n |-> p[k]]
      BY <1>6
    <2> QED
      BY <1>8, <2>1
  <1> QED
    BY <1>1, <1>7, <1>9

\* The sum of no values.
LEMMA SumNone == \A f : SumTo(f, 0) = 0
  <1> SUFFICES ASSUME NEW f PROVE SumTo(f, 0) = 0
    OBVIOUS
  <1>0. 0 \in Nat /\ \A k \in 1 .. 0 : f[k] \in Nat
    OBVIOUS
  <1>1. PICK s \in [0 .. 0 -> Nat] : s[0] = 0 /\ SumTo(f, 0) = s[0]
    BY <1>0, SumSequence
  <1> QED
    BY <1>1

\* The sum of zeros.
LEMMA SumOfNothing ==
    ASSUME NEW n \in Nat, NEW f, \A k \in 1 .. n : f[k] = 0
    PROVE  SumTo(f, n) = 0
  <1>1. \A k \in 1 .. n : f[k] \in Nat
    OBVIOUS
  <1>2. PICK s \in [0 .. n -> Nat] : /\ s[0] = 0 /\ \A k \in 1 .. n : s[k] = s[k - 1] + f[k]
                                     /\ SumTo(f, n) = s[n]
    BY <1>1, SumSequence
  <1> DEFINE T == {k \in 0 .. n : s[k] = 0}
  <1>3. 0 \in T
    BY <1>2
  <1>4. ASSUME NEW k \in 1 .. n, k - 1 \in T PROVE k \in T
    <2>1. s[k] = s[k - 1] + f[k] /\ s[k - 1] = 0 /\ f[k] = 0 /\ k \in 0 .. n
      BY <1>2, <1>4
    <2> QED
      BY <2>1
  <1> HIDE DEF T
  <1>5. \A k \in 0 .. n : k \in T
    BY <1>3, <1>4, CountUp
  <1> QED
    BY <1>2, <1>5 DEF T

\* If the terms of one sum are like c times those of another, so are the sums.
LEMMA SumScaled ==
    ASSUME NEW M \in Nat \ {0}, NEW n \in Nat, NEW c \in Nat, NEW f, NEW g,
           \A k \in 1 .. n : f[k] \in Nat, \A k \in 1 .. n : g[k] \in Nat,
           \A k \in 1 .. n : Alike(g[k], c * f[k], M)
    PROVE  SumTo(f, n) \in Nat /\ SumTo(g, n) \in Nat /\ Alike(SumTo(g, n), c * SumTo(f, n), M)
  <1>1. PICK s \in [0 .. n -> Nat] : /\ s[0] = 0 /\ \A k \in 1 .. n : s[k] = s[k - 1] + f[k]
                                     /\ SumTo(f, n) = s[n]
    BY SumSequence
  <1>2. PICK t \in [0 .. n -> Nat] : /\ t[0] = 0 /\ \A k \in 1 .. n : t[k] = t[k - 1] + g[k]
                                     /\ SumTo(g, n) = t[n]
    BY SumSequence
  <1> DEFINE T == {k \in 0 .. n : Alike(t[k], c * s[k], M)}
  <1>3. 0 \in T
    <2>1. c * 0 = 0 /\ Alike(0, 0, M) /\ 0 \in 0 .. n
      BY AlikeSelf
    <2> QED
      BY <1>1, <1>2, <2>1
  <1>4. ASSUME NEW k \in 1 .. n, k - 1 \in T PROVE k \in T
    <2>1. k \in 0 .. n /\ k - 1 \in 0 .. n
      OBVIOUS
    <2>2. PICK a \in Nat, b \in Nat, d \in Nat, e \in Nat :
            a = s[k - 1] /\ b = f[k] /\ d = t[k - 1] /\ e = g[k]
      BY <2>1
    <2>3. s[k] = a + b /\ t[k] = d + e
      BY <1>1, <1>2, <2>2
    <2>4. Alike(d, c * a, M) /\ Alike(e, c * b, M)
      BY <1>4, <2>2
    <2>5. c * a \in Int /\ c * b \in Int /\ c * (a + b) = c * a + c * b
      OBVIOUS
    <2>6. Alike(d + e, c * a + c * b, M)
      BY <2>4, <2>5, AlikeSums
    <2> QED
      BY <2>1, <2>3, <2>5, <2>6
  <1> HIDE DEF T
  <1>5. \A k \in 0 .. n : k \in T
    BY <1>3, <1>4, CountUp
  <1>6. n \in 0 .. n
    OBVIOUS
  <1>7. n \in T /\ s[n] \in Nat /\ t[n] \in Nat
    BY <1>5, <1>6
  <1> QED
    BY <1>1, <1>2, <1>7 DEF T

\* The sum of n + 1 values g, of which the first n are each the sum of a value of f
\* and one of d.
LEMMA SumGrows ==
    ASSUME NEW n \in Nat, NEW f, NEW d, NEW g,
           \A k \in 1 .. n : f[k] \in Nat, \A k \in 1 .. n : d[k] \in Nat, g[n + 1] \in Nat,
           \A k \in 1 .. n : g[k] = f[k] + d[k]
    PROVE  /\ SumTo(f, n) \in Nat /\ SumTo(d, n) \in Nat
           /\ SumTo(g, n + 1) = SumTo(f, n) + SumTo(d, n) + g[n + 1]
  <1>0. n + 1 \in Nat /\ \A k \in 1 .. n + 1 : k \in 1 .. n \/ k = n + 1
    OBVIOUS
  <1>00. \A k \in 1 .. n + 1 : g[k] \in Nat
    <2>1. ASSUME NEW k \in 1 .. n PROVE g[k] \in Nat
      <3>1. f[k] \in Nat /\ d[k] \in Nat /\ g[k] = f[k] + d[k]
        OBVIOUS
      <3> QED
        BY <3>1
    <2> QED
      BY <1>0, <2>1
  <1>1. PICK s \in [0 .. n -> Nat] : /\ s[0] = 0 /\ \A k \in 1 .. n : s[k] = s[k - 1] + f[k]
                                     /\ SumTo(f, n) = s[n]
    BY SumSequence
  <1>2. PICK t \in [0 .. n -> Nat] : /\ t[0] = 0 /\ \A k \in 1 .. n : t[k] = t[k - 1] + d[k]
                                     /\ SumTo(d, n) = t[n]
    BY SumSequence
  <1>3. PICK u \in [0 .. n + 1 -> Nat] : /\ u[0] = 0 /\ \A k \in 1 .. n + 1 : u[k] = u[k - 1] + g[k]
                                         /\ SumTo(g, n + 1) = u[n + 1]
    BY <1>0, <1>00, SumSequence
  <1> DEFINE T == {k \in 0 .. n : u[k] = s[k] + t[k]}
  <1>4. 0 \in T
    BY <1>1, <1>2, <1>3
  <1>5. ASSUME NEW k \in 1 .. n, k - 1 \in T PROVE k \in T
    <2>1. k \in 0 .. n /\ k - 1 \in 0 .. n /\ k \in 1 .. n + 1
      OBVIOUS
    <2>2. PICK a \in Nat, b \in Nat, c \in Nat, e \in Nat :
            a = s[k - 1] /\ b = f[k] /\ c = t[k - 1] /\ e = d[k]
      BY <2>1
    <2>3. s[k] = a + b /\ t[k] = c + e /\ u[k] = (a + c) + (b + e)
      BY <1>1, <1>2, <1>3, <1>5, <2>1, <2>2
    <2>4. u[k] = (a + b) + (c + e)
      BY <2>3
    <2> QED
      BY <2>1, <2>3, <2>4
  <1> HIDE DEF T
  <1>6. \A k \in 0 .. n : k \in T
    BY <1>4, <1>5, CountUp
  <1>7. n \in 0 .. n /\ n + 1 \in 1 .. n + 1 /\ (n + 1) - 1 = n
    OBVIOUS
  <1>8. u[n] = s[n] + t[n]
    BY <1>6, <1>7 DEF T
  <1>9. u[n + 1] = u[n] + g[n + 1]
    BY <1>3, <1>7
  <1>10. s[n] \in Nat /\ t[n] \in Nat
    BY <1>7
  <1> QED
    BY <1>1, <1>2, <1>3, <1>8, <1>9, <1>10

\* The definition's powers of the multiplier form a sequence, too.
LEMMA PowerSequence ==
    ASSUME NEW n \in Nat
    PROVE  \E f \in [0 .. n -> Nat] : /\ f[0] = 1
                                      /\ \A k \in 1 .. n : f[k] = (f[k - 1] * RABINKARP_MULT) % RkMod
                                      /\ Power(n) = f[n]
  <1> DEFINE F(f) == f = [k \in 0 .. n |-> IF k = 0 THEN 1 ELSE (f[k - 1] * RABINKARP_MULT) % RkMod]
             p == CHOOSE f : F(f)
             step == [k \in 1 .. n |-> [v \in Nat |-> (v * RABINKARP_MULT) % RkMod]]
  <1>1. Power(n) = p[n]
    BY DEF Power
  <1>2. \A v \in Nat : (v * RABINKARP_MULT) % RkMod \in Nat
    BY WeaksumAssumption
  <1>3. step \in Steps(n, Nat)
    BY <1>2 DEF Steps
  <1>4. PICK g : Stepwise(g, n, Nat, 1, step)
    <2> HIDE DEF step
    <2> QED
      BY <1>3, RecursiveFunction
  <1>5. \A k \in 0 .. n : k # 0 => step[k][g[k - 1]] = (g[k - 1] * RABINKARP_MULT) % RkMod
    <2> SUFFICES ASSUME NEW k \in 0 .. n, k # 0
                 PROVE  step[k][g[k - 1]] = (g[k - 1] * RABINKARP_MULT) % RkMod
      OBVIOUS
    <2>1. k \in 1 .. n /\ k - 1 \in 0 .. n
      OBVIOUS
    <2>2. g[k - 1] \in Nat
      BY <1>4, <2>1 DEF Stepwise
    <2> QED
      BY <2>1, <2>2
  <1>6. F(g)
    <2> HIDE DEF step
    <2> QED
      BY <1>4, <1>5 DEF Stepwise
  <1>7. F(p)
    BY <1>6
  <1> HIDE DEF p, step
  <1>8. p[0] = 1 /\ \A k \in 1 .. n : p[k] = (p[k - 1] * RABINKARP_MULT) % RkMod
    BY <1>7
  <1> DEFINE T == {k \in 0 .. n : p[k] \in Nat}
  <1>9. \A k \in 0 .. n : k \in T
    <2>1. 0 \in T
      BY <1>8
    <2>2. ASSUME NEW k \in 1 .. n, k - 1 \in T PROVE k \in T
      <3>1. p[k - 1] \in Nat /\ p[k] = (p[k - 1] * RABINKARP_MULT) % RkMod /\ k \in 0 .. n
        BY <1>8, <2>2
      <3> QED
        BY <1>2, <3>1
    <2> HIDE DEF T
    <2> QED
      BY <2>1, <2>2, CountUp
  <1>10. p \in [0 .. n -> Nat]
    <2>1. p = [k \in 0 .. n |-> p[k]]
      BY <1>7
    <2> QED
      BY <1>9, <2>1
  <1> QED
    BY <1>1, <1>8, <1>10

\* They are the residues of the powers.
LEMMA PowerIs ==
    ASSUME NEW n \in Nat
    PROVE  Power(n) \in Nat /\ Power(n) = PowOf(RABINKARP_MULT, n) % RkMod
  <1> DEFINE m == RABINKARP_MULT
             P(k) == PowOf(m, k)
             R == RkMod
  <1>1. m \in Nat /\ R \in Nat \ {0}
    BY WeaksumAssumption
  <1>2. P(0) = 1 /\ \A k \in Nat : P(k) \in Nat /\ P(k + 1) = m * P(k)
    BY <1>1, PowFacts
  <1>3. PICK f \in [0 .. n -> Nat] : /\ f[0] = 1 /\ \A k \in 1 .. n : f[k] = (f[k - 1] * m) % R
                                     /\ Power(n) = f[n]
    BY PowerSequence
  <1>4. 1 % R = 1
    <2>1. R # 1
      BY WeaksumAssumption
    <2> HIDE DEF R
    <2> QED
      BY <1>1, <2>1
  <1> HIDE DEF m, P, R
  <1> DEFINE T == {k \in 0 .. n : f[k] = P(k) % R}
  <1>5. 0 \in T
    BY <1>2, <1>3, <1>4
  <1>6. ASSUME NEW k \in 1 .. n, k - 1 \in T PROVE k \in T
    <2>1. k \in 0 .. n /\ k - 1 \in 0 .. n /\ k - 1 \in Nat /\ (k - 1) + 1 = k
      OBVIOUS
    <2>2. PICK a \in Nat : a = P(k - 1) /\ P(k) = m * a
      BY <1>2, <2>1
    <2>3. PICK r \in Nat : r = a % R /\ Alike(r, a, R)
      <3>1. a \in Int
        OBVIOUS
      <3>2. a % R \in Nat /\ Alike(a % R, a, R)
        BY <1>1, <3>1, ResidueAlike
      <3> QED
        BY <3>2
    <2>4. f[k] = (r * m) % R
      BY <1>3, <1>6, <2>2, <2>3
    <2>5. Alike(r * m, a * m, R)
      <3>1. Alike(m, m, R)
        BY <1>1, AlikeSelf
      <3> QED
        BY <1>1, <2>3, <3>1, AlikeSums
    <2>6. r * m \in Int /\ a * m \in Int /\ a * m = m * a
      BY <1>1
    <2>7. (r * m) % R = (a * m) % R
      BY <1>1, <2>5, <2>6, AlikeResidues
    <2> QED
      BY <2>1, <2>2, <2>4, <2>6, <2>7
  <1> HIDE DEF T
  <1>7. \A k \in 0 .. n : k \in T
    BY <1>5, <1>6, CountUp
  <1>8. n \in 0 .. n
    OBVIOUS
  <1>9. n \in T /\ f[n] \in Nat
    BY <1>7, <1>8
  <1> QED
    BY <1>3, <1>9 DEF T, m, P, R

-----------------------------------------------------------------------------
(* The sums of the first bytes of a window, by their definitions.          *)

\* What RollsumOf and RabinKarpOf are made of, for the first k bytes of w.
First(w, k) == SumTo([j \in 1 .. k |-> w[j] + ROLLSUM_CHAR_OFFSET], k)
Second(w, k) == SumTo([j \in 1 .. k |-> (k - j + 1) * (w[j] + ROLLSUM_CHAR_OFFSET)], k)
Weights(w, k) == SumTo([j \in 1 .. k |-> w[j] * Power(k - j)], k)
Hash(w, k) == (Power(k) + Weights(w, k)) % RkMod

\* The weak sum of a window by these definitions.
Defined(kind, w) ==
    IF kind = "RS_ROLLSUM"
    THEN [kind |-> kind, count |-> Len(w), s1 |-> First(w, Len(w)) % RollMod,
          s2 |-> Second(w, Len(w)) % RollMod]
    ELSE [kind |-> kind, count |-> Len(w), hash |-> Hash(w, Len(w)), mult |-> Power(Len(w))]

\* They are numbers, and nothing for no bytes.
LEMMA DefinedNumbers ==
    ASSUME NEW w, NEW k \in Nat, \A j \in 1 .. k : w[j] \in Nat
    PROVE  /\ First(w, k) \in Nat /\ Second(w, k) \in Nat /\ Weights(w, k) \in Nat
           /\ First(w, 0) = 0 /\ Second(w, 0) = 0 /\ Weights(w, 0) = 0
  <1> DEFINE f == [j \in 1 .. k |-> w[j] + ROLLSUM_CHAR_OFFSET]
             g == [j \in 1 .. k |-> (k - j + 1) * (w[j] + ROLLSUM_CHAR_OFFSET)]
             h == [j \in 1 .. k |-> w[j] * Power(k - j)]
  <1>1. First(w, 0) = 0 /\ Second(w, 0) = 0 /\ Weights(w, 0) = 0
    BY SumNone DEF First, Second, Weights
  <1>2. ASSUME NEW j \in 1 .. k PROVE f[j] \in Nat /\ g[j] \in Nat /\ h[j] \in Nat
    <2>1. k - j \in Nat /\ k - j + 1 \in Nat /\ w[j] \in Nat
      OBVIOUS
    <2>2. Power(k - j) \in Nat
      BY <2>1, PowerIs
    <2>3. w[j] + 31 \in Nat
      BY <2>1
    <2>4. \A a, b \in Nat : a * b \in Nat
      OBVIOUS
    <2>5. (k - j + 1) * (w[j] + 31) \in Nat /\ w[j] * Power(k - j) \in Nat
      BY <2>1, <2>2, <2>3, <2>4
    <2> QED
      BY <2>3, <2>5 DEF ROLLSUM_CHAR_OFFSET
  <1> HIDE DEF f, g, h
  <1>3. SumTo(f, k) \in Nat
    BY <1>2, SumSequence
  <1>4. SumTo(g, k) \in Nat
    BY <1>2, SumSequence
  <1>5. SumTo(h, k) \in Nat
    BY <1>2, SumSequence
  <1> QED
    BY <1>1, <1>3, <1>4, <1>5 DEF First, Second, Weights, f, g, h

\* A byte more in a rollsum: the first sum grows by it, the second by the first.
LEMMA RollsumGrows ==
    ASSUME NEW w, NEW k \in Nat, \A j \in 1 .. k + 1 : w[j] \in Nat
    PROVE  /\ First(w, k + 1) = First(w, k) + w[k + 1] + 31
           /\ Second(w, k + 1) = Second(w, k) + First(w, k + 1)
  <1> DEFINE n == k + 1
             b(j) == w[j] + ROLLSUM_CHAR_OFFSET
             f == [j \in 1 .. k |-> b(j)]
             g == [j \in 1 .. n |-> b(j)]
             z == [j \in 1 .. k |-> 0]
             s == [j \in 1 .. k |-> (k - j + 1) * b(j)]
             t == [j \in 1 .. n |-> (n - j + 1) * b(j)]
  <1>1. \A j \in 1 .. n : b(j) \in Nat /\ b(j) = w[j] + 31
    BY DEF ROLLSUM_CHAR_OFFSET
  <1> HIDE DEF b
  <1>2. n \in 1 .. n /\ n - n + 1 = 1 /\ b(n) \in Nat /\ 1 * b(n) = b(n)
    BY <1>1
  <1>3. ASSUME NEW j \in 1 .. k
        PROVE  /\ j \in 1 .. n /\ f[j] = b(j) /\ g[j] = b(j) /\ z[j] = 0 /\ b(j) \in Nat
               /\ s[j] = (k - j + 1) * b(j) /\ t[j] = (n - j + 1) * b(j) /\ s[j] \in Nat
               /\ t[j] = s[j] + f[j]
    <2>1. j \in 1 .. n /\ k - j + 1 \in Nat /\ n - j + 1 = (k - j + 1) + 1
      OBVIOUS
    <2>2. b(j) \in Nat
      BY <1>1, <2>1
    <2>3. PICK c \in Nat, e \in Nat : c = k - j + 1 /\ e = b(j)
      BY <2>1, <2>2
    <2>4. c * e \in Nat /\ (c + 1) * e = c * e + e
      OBVIOUS
    <2>5. f[j] = b(j) /\ g[j] = b(j) /\ z[j] = 0 /\ s[j] = c * e /\ t[j] = (c + 1) * e
      BY <2>1, <2>3
    <2> QED
      BY <2>1, <2>2, <2>3, <2>4, <2>5
  <1>4. g[n] = b(n) /\ t[n] = b(n)
    BY <1>2
  <1> HIDE DEF f, g, z, s, t
  <1>5. \A j \in 1 .. k : f[j] \in Nat
    BY <1>3
  <1>6. SumTo(g, n) = SumTo(f, k) + SumTo(z, k) + b(n) /\ SumTo(f, k) \in Nat /\ SumTo(z, k) \in Nat
    <2>1. \A j \in 1 .. k : z[j] \in Nat /\ g[j] = f[j] + z[j]
      BY <1>3
    <2>2. g[k + 1] \in Nat
      BY <1>2, <1>4
    <2> QED
      BY <1>4, <1>5, <2>1, <2>2, SumGrows
  <1>7. SumTo(z, k) = 0
    <2>1. \A j \in 1 .. k : z[j] = 0
      BY <1>3
    <2> QED
      BY <2>1, SumOfNothing
  <1>8. SumTo(t, n) = SumTo(s, k) + SumTo(f, k) + b(n) /\ SumTo(s, k) \in Nat
    <2>1. \A j \in 1 .. k : s[j] \in Nat /\ t[j] = s[j] + f[j]
      BY <1>3
    <2>2. t[k + 1] \in Nat
      BY <1>2, <1>4
    <2> QED
      BY <1>4, <1>5, <2>1, <2>2, SumGrows
  <1>9. First(w, n) = SumTo(g, n) /\ First(w, k) = SumTo(f, k)
    BY DEF First, f, g, b
  <1>10. Second(w, n) = SumTo(t, n) /\ Second(w, k) = SumTo(s, k)
    BY DEF Second, s, t, b
  <1>11. b(n) = w[k + 1] + 31 /\ w[k + 1] \in Nat
    BY <1>1, <1>2
  <1>12. First(w, n) = First(w, k) + b(n)
    BY <1>2, <1>6, <1>7, <1>9
  <1>13. Second(w, n) = Second(w, k) + First(w, n)
    BY <1>2, <1>6, <1>8, <1>9, <1>10, <1>12
  <1>14. First(w, k) \in Nat
    BY <1>6, <1>9
  <1>15. First(w, n) = First(w, k) + w[k + 1] + 31
    BY <1>11, <1>12, <1>14
  <1> QED
    BY <1>13, <1>15

\* A byte more in a RabinKarp sum: the hash is multiplied and the byte added.
LEMMA HashGrows ==
    ASSUME NEW w, NEW k \in Nat, \A j \in 1 .. k + 1 : w[j] \in Nat
    PROVE  Hash(w, k) \in Nat /\ Hash(w, k + 1) = (RABINKARP_MULT * Hash(w, k) + w[k + 1]) % RkMod
  <1> DEFINE n == k + 1
             m == RABINKARP_MULT
             R == RkMod
             f == [j \in 1 .. k |-> w[j] * Power(k - j)]
             g == [j \in 1 .. n |-> w[j] * Power(n - j)]
             h == [j \in 1 .. k |-> g[j]]
             z == [j \in 1 .. k |-> 0]
  <1>1. m \in Nat /\ R \in Nat \ {0} /\ n \in 1 .. n /\ n - n = 0 /\ w[n] \in Nat
    BY WeaksumAssumption
  <1>2. \A i \in Nat : /\ Power(i) \in Nat /\ Power(0) = 1 /\ Power(i + 1) \in Nat
                       /\ Alike(Power(i + 1), m * Power(i), R)
    <2> SUFFICES ASSUME NEW i \in Nat
                 PROVE  /\ Power(i) \in Nat /\ Power(0) = 1 /\ Power(i + 1) \in Nat
                        /\ Alike(Power(i + 1), m * Power(i), R)
      OBVIOUS
    <2>1. Power(i) \in Nat /\ Power(i + 1) \in Nat
      BY PowerIs
    <2>2. Power(0) = 1
      <3>1. PICK p \in [0 .. 0 -> Nat] : p[0] = 1 /\ Power(0) = p[0]
        BY PowerSequence
      <3> QED
        BY <3>1
    <2>3. PICK P \in Nat, Q \in Nat : P = PowOf(m, i) /\ Q = PowOf(m, i + 1) /\ Q = m * P
      <3>1. i + 1 \in Nat
        OBVIOUS
      <3>2. PowOf(m, i) \in Nat /\ PowOf(m, i + 1) \in Nat /\ PowOf(m, i + 1) = m * PowOf(m, i)
        BY <1>1, <3>1, PowFacts
      <3> QED
        BY <3>2
    <2>4. Power(i) = P % R /\ Power(i + 1) = Q % R
      BY <2>3, PowerIs
    <2> HIDE DEF m, R
    <2>5. P \in Int /\ Q \in Int /\ Alike(P % R, P, R) /\ Alike(Q % R, Q, R)
      <3>1. P \in Int /\ Q \in Int
        OBVIOUS
      <3>2. Alike(P % R, P, R)
        BY <1>1, <3>1, ResidueAlike
      <3>3. Alike(Q % R, Q, R)
        BY <1>1, <3>1, ResidueAlike
      <3> QED
        BY <3>1, <3>2, <3>3
    <2>6. Alike(m * Power(i), m * P, R)
      <3>1. Power(i) \in Int /\ m \in Int
        BY <1>1, <2>1
      <3>2. Alike(m, m, R) /\ Alike(Power(i), P, R)
        BY <1>1, <2>4, <2>5, <3>1, AlikeSelf
      <3> QED
        BY <1>1, <2>5, <3>1, <3>2, AlikeSums
    <2>7. Alike(m * P, m * Power(i), R)
      <3>1. m * P \in Int /\ m * Power(i) \in Int
        BY <1>1, <2>1
      <3> QED
        BY <1>1, <2>6, <3>1, AlikeBack
    <2>8. Alike(Power(i + 1), m * Power(i), R)
      <3>1. m * P \in Int /\ m * Power(i) \in Int /\ Power(i + 1) \in Int
        BY <1>1, <2>1
      <3>2. Alike(Power(i + 1), m * P, R)
        BY <2>3, <2>4, <2>5
      <3> QED
        BY <1>1, <2>7, <3>1, <3>2, AlikeChain
    <2> QED
      BY <2>1, <2>2, <2>8
  <1> HIDE DEF m, R
  <1>3. ASSUME NEW j \in 1 .. k
        PROVE  /\ f[j] \in Nat /\ g[j] \in Nat /\ h[j] = g[j] /\ z[j] = 0 /\ Alike(g[j], m * f[j], R)
    <2>1. j \in 1 .. n /\ k - j \in Nat /\ n - j = (k - j) + 1 /\ w[j] \in Nat
      OBVIOUS
    <2>2. PICK a \in Nat, p \in Nat, q \in Nat :
            a = w[j] /\ p = Power(k - j) /\ q = Power(n - j) /\ Alike(q, m * p, R)
      BY <1>2, <2>1
    <2>3. f[j] = a * p /\ g[j] = a * q /\ h[j] = g[j] /\ z[j] = 0
      BY <2>1, <2>2
    <2>4. a * p \in Nat /\ a * q \in Nat /\ m * p \in Int /\ a * (m * p) = m * (a * p)
      BY <1>1
    <2>5. Alike(a * q, a * (m * p), R)
      <3>1. a \in Int /\ q \in Int
        OBVIOUS
      <3>2. Alike(a, a, R)
        BY <1>1, <3>1, AlikeSelf
      <3> QED
        BY <1>1, <2>2, <2>4, <3>1, <3>2, AlikeSums
    <2> QED
      BY <2>3, <2>4, <2>5
  <1>4. g[n] = w[n]
    <2>1. g[n] = w[n] * Power(0)
      BY <1>1
    <2> QED
      BY <1>1, <1>2, <2>1
  <1> DEFINE A == SumTo(f, k)
             B == SumTo(h, k)
             C == SumTo(g, n)
  <1> HIDE DEF f, g, h, z
  <1>5. A \in Nat /\ B \in Nat /\ Alike(B, m * A, R)
    <2>1. \A j \in 1 .. k : h[j] \in Nat /\ Alike(h[j], m * f[j], R)
      BY <1>3
    <2> QED
      BY <1>1, <1>3, <2>1, SumScaled
  <1>6. C = B + w[n]
    <2>1. SumTo(z, k) = 0
      <3>1. \A j \in 1 .. k : z[j] = 0
        BY <1>3
      <3> QED
        BY <3>1, SumOfNothing
    <2>2. \A j \in 1 .. k : h[j] \in Nat /\ z[j] \in Nat /\ g[j] = h[j] + z[j]
      BY <1>3
    <2>3. g[k + 1] \in Nat
      BY <1>1, <1>4
    <2>4. C = B + SumTo(z, k) + g[n]
      BY <2>2, <2>3, SumGrows
    <2> QED
      BY <1>1, <1>4, <1>5, <2>1, <2>4
  <1>7. Weights(w, k) = A /\ Weights(w, n) = C
    BY DEF Weights, f, g
  <1> HIDE DEF A, B, C
  <1>8. PICK p \in Nat, q \in Nat, i \in Nat :
          p = Power(k) /\ q = Power(n) /\ i = w[n] /\ Alike(q, m * p, R)
    BY <1>1, <1>2
  <1>9. Hash(w, k) = (p + A) % R /\ Hash(w, n) = (q + (B + i)) % R
    BY <1>6, <1>7, <1>8 DEF Hash, R
  <1>10. PICK r \in Nat : r = (p + A) % R /\ Alike(r, p + A, R)
    <2>1. p + A \in Int
      BY <1>5
    <2>2. (p + A) % R \in Nat /\ Alike((p + A) % R, p + A, R)
      BY <1>1, <2>1, ResidueAlike
    <2> QED
      BY <2>2
  <1>11. (q + (B + i)) % R = (m * r + i) % R
    <2>1. m * p \in Int /\ m * A \in Int /\ m * r \in Int /\ p + A \in Int /\ m * (p + A) = m * p + m * A
      BY <1>1, <1>5
    <2>2. Alike(q + B, m * p + m * A, R)
      BY <1>1, <1>5, <1>8, <2>1, AlikeSums
    <2>3. Alike(m * r, m * (p + A), R)
      <3>1. Alike(m, m, R)
        BY <1>1, AlikeSelf
      <3> QED
        BY <1>1, <1>10, <2>1, <3>1, AlikeSums
    <2>4. PICK x \in Int, y \in Int, u \in Int : x = q + B /\ y = m * r /\ u = m * p + m * A
      BY <1>5, <2>1
    <2>5. Alike(x, u, R) /\ Alike(y, u, R)
      BY <2>1, <2>2, <2>3, <2>4
    <2>6. Alike(x, y, R)
      BY <1>1, <2>5, AlikeBack, AlikeChain
    <2>7. Alike(x + i, y + i, R)
      <3>1. Alike(i, i, R)
        BY <1>1, AlikeSelf
      <3> QED
        BY <1>1, <2>6, <3>1, AlikeSums
    <2>8. (x + i) % R = (y + i) % R
      <3>1. x + i \in Int /\ y + i \in Int
        OBVIOUS
      <3> QED
        BY <1>1, <2>7, <3>1, AlikeResidues
    <2>9. q + (B + i) = x + i
      BY <1>5, <2>4
    <2> QED
      BY <2>4, <2>8, <2>9
  <1> QED
    BY <1>8, <1>9, <1>10, <1>11 DEF m, R

-----------------------------------------------------------------------------
(* Updates.                                                                *)

\* The recursive function of an update, by name.
AddUp(n, a, add, m) == CHOOSE g : g = [k \in 0 .. n |-> IF k = 0 THEN a ELSE (g[k - 1] + add[k]) % m]

\* It adds and reduces.
LEMMA AddUpAdds ==
    ASSUME NEW n \in Nat, NEW a \in Nat, NEW add, \A k \in 1 .. n : add[k] \in Nat, NEW m \in Nat \ {0}
    PROVE  Adding(AddUp(n, a, add, m), n, a, add, m)
  BY AddingExists DEF AddUp

\* An update goes on from the sums so far.
LEMMA RollsumUpdateParts ==
    ASSUME NEW sum, sum.s1 \in Nat, sum.s2 \in Nat, NEW w \in Seq(Nat)
    PROVE  \E s1, s2 :
             /\ Adding(s1, Len(w), sum.s1, w, RollMod) /\ Adding(s2, Len(w), sum.s2, s1, RollMod)
             /\ RollsumUpdate(sum, w)
                  = [sum EXCEPT
                       !.s1 = (s1[Len(w)] + Len(w) * ROLLSUM_CHAR_OFFSET) % RollMod,
                       !.s2 = (s2[Len(w)] + ((Len(w) * (Len(w) + 1)) \div 2) * ROLLSUM_CHAR_OFFSET) % RollMod,
                       !.count = @ + Len(w)]
  <1> DEFINE n == Len(w)
             a == sum.s1
             b == sum.s2
             s1 == AddUp(n, a, w, RollMod)
             s2 == AddUp(n, b, s1, RollMod)
  <1>1. n \in Nat /\ \A k \in 1 .. n : w[k] \in Nat
    BY LenProperties
  <1>2. RollMod \in Nat \ {0}
    BY WeaksumAssumption
  <1>4. RollsumUpdate(sum, w)
          = [sum EXCEPT !.s1 = (s1[n] + n * ROLLSUM_CHAR_OFFSET) % RollMod,
                        !.s2 = (s2[n] + ((n * (n + 1)) \div 2) * ROLLSUM_CHAR_OFFSET) % RollMod,
                        !.count = @ + n]
    BY DEF RollsumUpdate, AddUp
  <1>5. a \in Nat /\ b \in Nat
    OBVIOUS
  <1> HIDE DEF a, b
  <1>50. Adding(s1, n, a, w, RollMod)
    <2> HIDE DEF n
    <2> QED
      BY <1>1, <1>2, <1>5, AddUpAdds
  <1> HIDE DEF s1
  <1>6. \A k \in 1 .. n : s1[k] \in Nat
    <2> HIDE DEF n
    <2>1. s1 \in [0 .. n -> Nat] /\ \A k \in 1 .. n : k \in 0 .. n
      BY <1>1, <1>50 DEF Adding
    <2> QED
      BY <2>1
  <1>7. Adding(s2, n, b, s1, RollMod)
    <2> HIDE DEF n
    <2> QED
      BY <1>1, <1>2, <1>5, <1>6, AddUpAdds
  <1> HIDE DEF s2
  <1> QED
    BY <1>4, <1>50, <1>7 DEF a, b

\* Half of a product of neighbours.
LEMMA Halves ==
    ASSUME NEW n \in Nat
    PROVE  (n * (n + 1)) \div 2 \in Nat /\ 2 * ((n * (n + 1)) \div 2) = n * (n + 1)
  <1>1. \A a \in Nat : (2 * a) \div 2 = a
    OBVIOUS
  <1>2. PICK m \in Nat : n = 2 * m \/ n = 2 * m + 1
    <2>1. n \div 2 \in Nat /\ (n = 2 * (n \div 2) \/ n = 2 * (n \div 2) + 1)
      OBVIOUS
    <2> QED
      BY <2>1
  <1>3. \E a \in Nat : n * (n + 1) = 2 * a
    <2>1. CASE n = 2 * m
      <3>1. n * (n + 1) = 2 * (m * (n + 1)) /\ m * (n + 1) \in Nat
        BY <2>1
      <3> QED
        BY <3>1
    <2>2. CASE n = 2 * m + 1
      <3>1. n * (n + 1) = 2 * (n * (m + 1)) /\ n * (m + 1) \in Nat
        BY <2>2
      <3> QED
        BY <3>1
    <2> QED
      BY <1>2, <2>1, <2>2
  <1> QED
    BY <1>1, <1>3

\* The next such half.
LEMMA HalvesNext ==
    ASSUME NEW n \in Nat
    PROVE  ((n + 1) * ((n + 1) + 1)) \div 2 = (n * (n + 1)) \div 2 + (n + 1)
  <1>1. PICK a \in Nat, c \in Nat :
          /\ a = (n * (n + 1)) \div 2 /\ c = ((n + 1) * ((n + 1) + 1)) \div 2
          /\ 2 * a = n * (n + 1) /\ 2 * c = (n + 1) * ((n + 1) + 1)
    <2>1. n + 1 \in Nat
      OBVIOUS
    <2>2. (n * (n + 1)) \div 2 \in Nat /\ 2 * ((n * (n + 1)) \div 2) = n * (n + 1)
      BY Halves
    <2>3. /\ ((n + 1) * ((n + 1) + 1)) \div 2 \in Nat
          /\ 2 * (((n + 1) * ((n + 1) + 1)) \div 2) = (n + 1) * ((n + 1) + 1)
      BY <2>1, Halves
    <2> QED
      BY <2>2, <2>3
  <1>2. (n + 1) * ((n + 1) + 1) = n * (n + 1) + 2 * (n + 1)
    OBVIOUS
  <1>3. 2 * c = 2 * a + 2 * (n + 1)
    BY <1>1, <1>2
  <1>4. c = a + (n + 1)
    BY <1>3
  <1> QED
    BY <1>1, <1>4

\* What is added to a sum, and the offset of it, in numbers.
LEMMA AddedAlike ==
    ASSUME NEW M \in Nat \ {0}, NEW a \in Nat, NEW b \in Nat, NEW c \in Nat, NEW d \in Nat,
           NEW x \in Nat, NEW y \in Nat, Alike(a + c, x, M), Alike(b + d, y, M)
    PROVE  /\ (a + b) % M \in Nat /\ Alike(((a + b) % M) + (c + d), x + y, M)
  <1>1. a + b \in Int /\ a + c \in Int /\ b + d \in Int
    OBVIOUS
  <1>2. PICK r \in Nat : r = (a + b) % M /\ Alike(r, a + b, M)
    <2>1. (a + b) % M \in Nat /\ Alike((a + b) % M, a + b, M)
      BY <1>1, ResidueAlike
    <2> QED
      BY <2>1
  <1>3. PICK i \in Int, j \in Int, l \in Int :
          (a + c) - x = i * M /\ (b + d) - y = j * M /\ r - (a + b) = l * M
    BY <1>2 DEF Alike
  <1>4. i + j + l \in Int /\ (i + j + l) * M = i * M + j * M + l * M
    OBVIOUS
  <1>5. (r + (c + d)) - (x + y) = i * M + j * M + l * M
    <2>1. PICK i1 \in Int, j1 \in Int, l1 \in Int : i1 = i * M /\ j1 = j * M /\ l1 = l * M
      OBVIOUS
    <2> QED
      BY <1>3, <2>1
  <1> QED
    BY <1>2, <1>4, <1>5 DEF Alike

\* A rollsum that stands for u, updated with v, stands for both.
LEMMA RollsumUpdated ==
    ASSUME NEW u \in Seq(Nat), NEW v \in Seq(Nat)
    PROVE  RollsumUpdate(Defined("RS_ROLLSUM", u), v) = Defined("RS_ROLLSUM", u \o v)
  <1> DEFINE w == u \o v
             n == Len(u)
             l == Len(v)
             M == RollMod
             sum == Defined("RS_ROLLSUM", u)
             H(k) == (k * (k + 1)) \div 2
  <1>1. /\ n \in Nat /\ l \in Nat /\ M \in Nat \ {0} /\ w \in Seq(Nat) /\ Len(w) = n + l
        /\ \A i \in 1 .. n : w[i] = u[i]
        /\ \A i \in 1 .. l : w[n + i] = v[i]
        /\ \A i \in 1 .. l : v[i] \in Nat
        /\ \A i \in 1 .. n : u[i] \in Nat
        /\ \A i \in 1 .. n + l : w[i] \in Nat
    <2>1. n \in Nat /\ l \in Nat /\ w \in Seq(Nat) /\ Len(w) = n + l
      BY FirstPiece
    <2>2. (\A i \in 1 .. n : w[i] = u[i]) /\ (\A i \in 1 .. l : w[n + i] = v[i])
      BY FirstPiece
    <2>3. (\A i \in 1 .. l : v[i] \in Nat) /\ (\A i \in 1 .. n : u[i] \in Nat)
      BY LenProperties
    <2>4. \A i \in 1 .. Len(w) : w[i] \in Nat
      <3> HIDE DEF w
      <3> QED
        BY <2>1, LenProperties
    <2> QED
      BY <2>1, <2>2, <2>3, <2>4, WeaksumAssumption
  <1> HIDE DEF w, M
  <1>2. First(u, n) = First(w, n) /\ Second(u, n) = Second(w, n)
    <2>1. [j \in 1 .. n |-> u[j] + ROLLSUM_CHAR_OFFSET] = [j \in 1 .. n |-> w[j] + ROLLSUM_CHAR_OFFSET]
      BY <1>1
    <2>2. [j \in 1 .. n |-> (n - j + 1) * (u[j] + ROLLSUM_CHAR_OFFSET)]
            = [j \in 1 .. n |-> (n - j + 1) * (w[j] + ROLLSUM_CHAR_OFFSET)]
      BY <1>1
    <2> HIDE DEF n
    <2> QED
      BY <2>1, <2>2 DEF First, Second
  <1>3. sum = [kind |-> "RS_ROLLSUM", count |-> n, s1 |-> First(w, n) % M, s2 |-> Second(w, n) % M]
    BY <1>2 DEF Defined, M
  <1> HIDE DEF sum, n, l
  <1>4. \A k \in 0 .. l : First(w, n + k) \in Nat /\ Second(w, n + k) \in Nat
    <2> SUFFICES ASSUME NEW k \in 0 .. l PROVE First(w, n + k) \in Nat /\ Second(w, n + k) \in Nat
      OBVIOUS
    <2>1. n + k \in Nat /\ \A j \in 1 .. n + k : j \in 1 .. n + l
      BY <1>1
    <2>2. \A j \in 1 .. n + k : w[j] \in Nat
      BY <1>1, <2>1
    <2> QED
      BY <2>1, <2>2, DefinedNumbers
  <1>5. PICK x \in Nat, y \in Nat : x = First(w, n) /\ y = Second(w, n)
    <2>1. 0 \in 0 .. l /\ n + 0 = n
      BY <1>1
    <2> QED
      BY <1>4, <2>1
  <1>6. /\ sum.s1 = x % M /\ sum.s2 = y % M /\ sum.count = n
        /\ x % M \in Nat /\ y % M \in Nat /\ Alike(x % M, x, M) /\ Alike(y % M, y, M)
    <2>1. x \in Int /\ y \in Int
      OBVIOUS
    <2>2. x % M \in Nat /\ Alike(x % M, x, M)
      BY <1>1, <2>1, ResidueAlike
    <2>3. y % M \in Nat /\ Alike(y % M, y, M)
      BY <1>1, <2>1, ResidueAlike
    <2> QED
      BY <1>3, <1>5, <2>2, <2>3
  <1>7. PICK s1, s2 :
          /\ Adding(s1, l, sum.s1, v, M) /\ Adding(s2, l, sum.s2, s1, M)
          /\ RollsumUpdate(sum, v)
               = [sum EXCEPT !.s1 = (s1[l] + l * ROLLSUM_CHAR_OFFSET) % M,
                             !.s2 = (s2[l] + H(l) * ROLLSUM_CHAR_OFFSET) % M,
                             !.count = @ + l]
    <2>1. sum.s1 \in Nat /\ sum.s2 \in Nat
      BY <1>6
    <2> QED
      BY <2>1, RollsumUpdateParts DEF l, M
  <1>8. /\ \A k \in 0 .. l : s1[k] \in Nat /\ s2[k] \in Nat
        /\ s1[0] = x % M /\ s2[0] = y % M
        /\ \A k \in 1 .. l : s1[k] = (s1[k - 1] + v[k]) % M /\ s2[k] = (s2[k - 1] + s1[k]) % M
    BY <1>6, <1>7 DEF Adding
  <1>9. /\ \A k \in Nat : H(k) \in Nat /\ H(k) * 31 \in Nat
        /\ \A k \in Nat : H(k + 1) = H(k) + (k + 1)
        /\ H(0) = 0
    <2>1. \A k \in Nat : H(k) \in Nat
      BY Halves
    <2>2. \A k \in Nat : H(k + 1) = H(k) + (k + 1)
      BY HalvesNext
    <2>3. H(0) = 0
      OBVIOUS
    <2> HIDE DEF H
    <2>4. \A k \in Nat : H(k) * 31 \in Nat
      <3>1. \A a \in Nat : a * 31 \in Nat
        OBVIOUS
      <3> QED
        BY <2>1, <3>1
    <2> QED
      BY <2>1, <2>2, <2>3, <2>4
  <1> HIDE DEF H
  <1> DEFINE One(k) == Alike(s1[k] + k * 31, First(w, n + k), M)
             Two(k) == Alike(s2[k] + H(k) * 31, Second(w, n + k), M)
             T == {k \in 0 .. l : One(k) /\ Two(k)}
  <1>10. 0 \in T
    <2>1. 0 \in 0 .. l /\ n + 0 = n /\ 0 * 31 = 0 /\ H(0) * 31 = 0
      BY <1>1, <1>9
    <2>2. (x % M) + 0 = x % M /\ (y % M) + 0 = y % M
      BY <1>6
    <2>3. One(0)
      BY <1>5, <1>6, <1>8, <2>1, <2>2
    <2>4. Two(0)
      BY <1>5, <1>6, <1>8, <2>1, <2>2
    <2> QED
      BY <2>1, <2>3, <2>4
  <1>11. ASSUME NEW k \in 1 .. l, k - 1 \in T PROVE k \in T
    <2>1. /\ k \in 0 .. l /\ k - 1 \in 0 .. l /\ k - 1 \in Nat /\ k \in Nat /\ (k - 1) + 1 = k
          /\ n + (k - 1) \in Nat /\ (n + (k - 1)) + 1 = n + k
      BY <1>1
    <2>2. PICK a \in Nat, b \in Nat, c \in Nat, i \in Nat :
            a = s1[k - 1] /\ b = s2[k - 1] /\ c = s1[k] /\ i = v[k]
      BY <1>1, <1>8, <2>1
    <2>3. PICK f \in Nat, g \in Nat, f1 \in Nat, g1 \in Nat :
            /\ f = First(w, n + (k - 1)) /\ g = Second(w, n + (k - 1))
            /\ f1 = First(w, n + k) /\ g1 = Second(w, n + k)
      BY <1>4, <2>1
    <2>4. f1 = f + (i + 31) /\ g1 = g + f1
      <3>1. \A j \in 1 .. n + k : j \in 1 .. n + l
        BY <1>1
      <3>2. \A j \in 1 .. (n + (k - 1)) + 1 : w[j] \in Nat
        BY <1>1, <2>1, <3>1
      <3>3. w[n + k] = i
        BY <1>1, <2>2
      <3>4. f1 = f + i + 31 /\ g1 = g + f1
        <4> DEFINE z == n + (k - 1)
        <4>1. /\ z \in Nat /\ z + 1 = n + k /\ (\A j \in 1 .. z + 1 : w[j] \in Nat) /\ w[z + 1] = i
              /\ f = First(w, z) /\ g = Second(w, z) /\ f1 = First(w, z + 1) /\ g1 = Second(w, z + 1)
          BY <2>1, <2>3, <3>2, <3>3
        <4> HIDE DEF z
        <4>2. First(w, z + 1) = First(w, z) + w[z + 1] + 31 /\ Second(w, z + 1) = Second(w, z) + First(w, z + 1)
          BY <4>1, RollsumGrows
        <4> QED
          BY <4>1, <4>2
      <3> QED
        BY <3>4
    <2>5. c = (a + i) % M /\ s2[k] = (b + c) % M
      BY <1>8, <2>2
    <2>6. PICK p \in Nat, q \in Nat, h \in Nat, h1 \in Nat :
            p = (k - 1) * 31 /\ q = k * 31 /\ h = H(k - 1) * 31 /\ h1 = H(k) * 31
      <3>1. (k - 1) * 31 \in Nat /\ k * 31 \in Nat
        BY <2>1
      <3>2. H(k - 1) * 31 \in Nat /\ H(k) * 31 \in Nat
        BY <1>9, <2>1
      <3> QED
        BY <3>1, <3>2
    <2>7. q = p + 31 /\ h1 = h + q
      <3>1. q = p + 31
        BY <2>1, <2>6
      <3>2. H(k) = H(k - 1) + k /\ H(k - 1) \in Nat
        BY <1>9, <2>1
      <3>3. h1 = h + q
        BY <2>1, <2>6, <3>2
      <3> QED
        BY <3>1, <3>3
    <2>8. Alike(a + p, f, M) /\ Alike(b + h, g, M)
      BY <1>11, <2>2, <2>3, <2>6
    <2>9. Alike(c + q, f1, M)
      <3>1. 31 \in Nat /\ i + 31 \in Nat /\ i + 31 \in Int
        OBVIOUS
      <3>2. Alike(i + 31, i + 31, M)
        BY <1>1, <3>1, AlikeSelf
      <3>3. Alike(((a + i) % M) + (p + 31), f + (i + 31), M)
        BY <1>1, <2>8, <3>1, <3>2, AddedAlike
      <3> QED
        BY <2>4, <2>5, <2>7, <3>3
    <2>10. Alike(s2[k] + h1, g1, M)
      <3>1. Alike(((b + c) % M) + (h + q), g + f1, M)
        BY <1>1, <2>8, <2>9, AddedAlike
      <3> QED
        BY <2>4, <2>5, <2>7, <3>1
    <2>11. One(k)
      BY <2>2, <2>3, <2>6, <2>9
    <2>12. Two(k)
      BY <2>3, <2>6, <2>10
    <2> QED
      BY <2>1, <2>11, <2>12
  <1> HIDE DEF T
  <1>12. \A k \in 0 .. l : k \in T
    BY <1>1, <1>10, <1>11, CountUp
  <1>13. One(l) /\ Two(l)
    <2>1. l \in 0 .. l
      BY <1>1
    <2> QED
      BY <1>12, <2>1 DEF T
  <1>14. /\ (s1[l] + l * 31) % M = First(w, n + l) % M
         /\ (s2[l] + H(l) * 31) % M = Second(w, n + l) % M
    <2>1. l \in 0 .. l
      BY <1>1
    <2>2. First(w, n + l) \in Int /\ Second(w, n + l) \in Int
      BY <1>4, <2>1
    <2>3. s1[l] + l * 31 \in Int /\ s2[l] + H(l) * 31 \in Int
      <3>1. l * 31 \in Nat
        BY <1>1
      <3>2. H(l) * 31 \in Nat
        BY <1>1, <1>9
      <3>3. s1[l] \in Nat /\ s2[l] \in Nat
        BY <1>8, <2>1
      <3> QED
        BY <3>1, <3>2, <3>3
    <2>4. (s1[l] + l * 31) % M = First(w, n + l) % M
      BY <1>1, <1>13, <2>2, <2>3, AlikeResidues
    <2>5. (s2[l] + H(l) * 31) % M = Second(w, n + l) % M
      BY <1>1, <1>13, <2>2, <2>3, AlikeResidues
    <2> QED
      BY <2>4, <2>5
  <1>15. RollsumUpdate(sum, v)
           = [sum EXCEPT !.s1 = First(w, n + l) % M, !.s2 = Second(w, n + l) % M, !.count = @ + l]
    BY <1>7, <1>14 DEF ROLLSUM_CHAR_OFFSET
  <1>16. RollsumUpdate(sum, v)
           = [kind |-> "RS_ROLLSUM", count |-> n + l, s1 |-> First(w, n + l) % M, s2 |-> Second(w, n + l) % M]
    BY <1>3, <1>15
  <1>17. Defined("RS_ROLLSUM", w)
           = [kind |-> "RS_ROLLSUM", count |-> n + l, s1 |-> First(w, n + l) % M, s2 |-> Second(w, n + l) % M]
    BY <1>1 DEF Defined, M
  <1> QED
    BY <1>16, <1>17 DEF sum, w

\* An update of a RabinKarp sum goes on from the hash so far.
LEMMA RabinKarpUpdateParts ==
    ASSUME NEW sum, sum.hash \in Nat, NEW w \in Seq(Nat)
    PROVE  \E h : /\ h \in [0 .. Len(w) -> Nat] /\ h[0] = sum.hash
                  /\ \A k \in 1 .. Len(w) : h[k] = (RABINKARP_MULT * h[k - 1] + w[k]) % RkMod
                  /\ rabinkarp_update(sum, w)
                       = [sum EXCEPT !.hash = h[Len(w)], !.count = @ + Len(w),
                                     !.mult = (@ * rabinkarp_pow(Len(w))) % RkMod]
  <1> DEFINE n == Len(w)
             a == sum.hash
             Round(v, k) == (RABINKARP_MULT * v + w[k]) % RkMod
             F(f) == f = [k \in 0 .. n |-> IF k = 0 THEN a ELSE Round(f[k - 1], k)]
             h == CHOOSE f : F(f)
             step == [k \in 1 .. n |-> [v \in Nat |-> Round(v, k)]]
  <1>1. n \in Nat /\ (\A k \in 1 .. n : w[k] \in Nat) /\ a \in Nat
    BY LenProperties
  <1>2. \A k \in 1 .. n, v \in Nat : Round(v, k) \in Nat
    <2>1. \A v, x \in Nat : (RABINKARP_MULT * v + x) % RkMod \in Nat
      BY WeaksumAssumption
    <2> QED
      BY <1>1, <2>1
  <1>3. rabinkarp_update(sum, w)
          = [sum EXCEPT !.hash = h[n], !.count = @ + n, !.mult = (@ * rabinkarp_pow(n)) % RkMod]
    BY DEF rabinkarp_update
  <1> HIDE DEF a, n, Round
  <1>4. step \in Steps(n, Nat)
    BY <1>2 DEF Steps
  <1>5. PICK g : Stepwise(g, n, Nat, a, step)
    <2> HIDE DEF step
    <2> QED
      BY <1>1, <1>4, RecursiveFunction
  <1>6. \A k \in 0 .. n : k # 0 => step[k][g[k - 1]] = Round(g[k - 1], k)
    <2> SUFFICES ASSUME NEW k \in 0 .. n, k # 0 PROVE step[k][g[k - 1]] = Round(g[k - 1], k)
      OBVIOUS
    <2>1. k \in 1 .. n /\ k - 1 \in 0 .. n
      BY <1>1
    <2>2. g[k - 1] \in Nat
      BY <1>5, <2>1 DEF Stepwise
    <2> QED
      BY <2>1, <2>2
  <1>7. F(g)
    <2> HIDE DEF step
    <2> QED
      BY <1>5, <1>6 DEF Stepwise
  <1>8. F(h)
    BY <1>7
  <1> HIDE DEF h, step
  <1>9. h[0] = a /\ \A k \in 1 .. n : h[k] = Round(h[k - 1], k)
    BY <1>1, <1>8
  <1> DEFINE T == {k \in 0 .. n : h[k] \in Nat}
  <1>10. \A k \in 0 .. n : k \in T
    <2>1. 0 \in T
      BY <1>1, <1>9
    <2>2. ASSUME NEW k \in 1 .. n, k - 1 \in T PROVE k \in T
      <3>1. h[k - 1] \in Nat /\ h[k] = Round(h[k - 1], k) /\ k \in 0 .. n
        BY <1>1, <1>9, <2>2
      <3> QED
        BY <1>2, <3>1
    <2> HIDE DEF T
    <2> QED
      BY <1>1, <2>1, <2>2, CountUp
  <1>11. h \in [0 .. n -> Nat]
    <2>1. h = [k \in 0 .. n |-> h[k]]
      BY <1>8
    <2> QED
      BY <1>10, <2>1
  <1> QED
    BY <1>3, <1>9, <1>11 DEF n, a, Round

\* The powers of two lengths make the power of their sum, reduced as the code does.
LEMMA PowerOfSum ==
    ASSUME NEW n \in Nat, NEW l \in Nat, Short(l)
    PROVE  (Power(n) * rabinkarp_pow(l)) % RkMod = Power(n + l)
  <1> DEFINE m == RABINKARP_MULT
             R == RkMod
             p == PowOf(m, n)
             q == PowOf(m, l)
             x == Power(n)
             y == rabinkarp_pow(l)
  <1>1. m \in Nat /\ R \in Nat \ {0} /\ n + l \in Nat
    BY WeaksumAssumption
  <1>2. p \in Nat /\ q \in Nat /\ PowOf(m, n + l) = p * q
    BY <1>1, PowFacts, PowSum
  <1>3. x \in Nat /\ x = p % R /\ Power(n + l) = (p * q) % R
    BY <1>1, <1>2, PowerIs
  <1>4. y \in Nat /\ Alike(y, q, R)
    BY PowRight
  <1> HIDE DEF m, R, p, q, x, y
  <1>5. p \in Int /\ q \in Int /\ x \in Int /\ y \in Int
    BY <1>2, <1>3, <1>4
  <1>6. Alike(x, p, R)
    BY <1>1, <1>3, <1>5, ResidueAlike
  <1>7. Alike(x * y, p * q, R)
    BY <1>1, <1>4, <1>5, <1>6, AlikeSums
  <1>8. x * y \in Int /\ p * q \in Int
    BY <1>5
  <1>9. (x * y) % R = (p * q) % R
    BY <1>1, <1>7, <1>8, AlikeResidues
  <1> QED
    BY <1>3, <1>9 DEF x, y, R

\* A RabinKarp sum that stands for u, updated with v, stands for both.
LEMMA RabinKarpUpdated ==
    ASSUME NEW u \in Seq(Nat), NEW v \in Seq(Nat), Short(Len(v))
    PROVE  rabinkarp_update(Defined("RS_RABINKARP", u), v) = Defined("RS_RABINKARP", u \o v)
  <1> DEFINE w == u \o v
             n == Len(u)
             l == Len(v)
             sum == Defined("RS_RABINKARP", u)
  <1>1. /\ n \in Nat /\ l \in Nat /\ w \in Seq(Nat) /\ Len(w) = n + l
        /\ \A i \in 1 .. n : w[i] = u[i]
        /\ \A i \in 1 .. l : w[n + i] = v[i]
        /\ \A i \in 1 .. n + l : w[i] \in Nat
    <2>1. n \in Nat /\ l \in Nat /\ w \in Seq(Nat) /\ Len(w) = n + l
      BY FirstPiece
    <2>2. (\A i \in 1 .. n : w[i] = u[i]) /\ (\A i \in 1 .. l : w[n + i] = v[i])
      BY FirstPiece
    <2>3. \A i \in 1 .. Len(w) : w[i] \in Nat
      <3> HIDE DEF w
      <3> QED
        BY <2>1, LenProperties
    <2> QED
      BY <2>1, <2>2, <2>3
  <1> HIDE DEF w
  <1>2. Hash(u, n) = Hash(w, n)
    <2>1. [j \in 1 .. n |-> u[j] * Power(n - j)] = [j \in 1 .. n |-> w[j] * Power(n - j)]
      BY <1>1
    <2> HIDE DEF n
    <2> QED
      BY <2>1 DEF Hash, Weights
  <1>3. sum = [kind |-> "RS_RABINKARP", count |-> n, hash |-> Hash(w, n), mult |-> Power(n)]
    BY <1>2 DEF Defined
  <1> HIDE DEF sum, n
  <1>4. Hash(w, n) \in Nat
    <2>1. \A j \in 1 .. n : j \in 1 .. n + l
      BY <1>1
    <2>2. Weights(w, n) \in Nat /\ Power(n) \in Nat
      BY <1>1, <2>1, DefinedNumbers, PowerIs
    <2>3. Power(n) + Weights(w, n) \in Int
      BY <2>2
    <2> QED
      BY <2>3, ResidueAlike, WeaksumAssumption DEF Hash
  <1>5. PICK h : /\ h \in [0 .. l -> Nat] /\ h[0] = sum.hash
                 /\ \A k \in 1 .. l : h[k] = (RABINKARP_MULT * h[k - 1] + v[k]) % RkMod
                 /\ rabinkarp_update(sum, v)
                      = [sum EXCEPT !.hash = h[l], !.count = @ + l,
                                    !.mult = (@ * rabinkarp_pow(l)) % RkMod]
    <2>1. sum.hash \in Nat
      BY <1>3, <1>4
    <2> QED
      BY <2>1, RabinKarpUpdateParts
  <1>6. Short(l)
    OBVIOUS
  <1> HIDE DEF l
  <1> DEFINE T == {k \in 0 .. l : h[k] = Hash(w, n + k)}
  <1>7. 0 \in T
    <2>1. n + 0 = n /\ 0 \in 0 .. l
      BY <1>1
    <2> QED
      BY <1>3, <1>5, <2>1
  <1>8. ASSUME NEW k \in 1 .. l, k - 1 \in T PROVE k \in T
    <2>1. k \in 0 .. l /\ n + (k - 1) \in Nat /\ (n + (k - 1)) + 1 = n + k /\ n + k \in 1 .. n + l
      BY <1>1
    <2>2. \A j \in 1 .. (n + (k - 1)) + 1 : w[j] \in Nat
      <3>1. \A j \in 1 .. n + k : j \in 1 .. n + l
        BY <1>1
      <3> QED
        BY <1>1, <2>1, <3>1
    <2>3. Hash(w, n + k) = (RABINKARP_MULT * Hash(w, n + (k - 1)) + w[n + k]) % RkMod
      BY <2>1, <2>2, HashGrows
    <2>4. h[k - 1] = Hash(w, n + (k - 1)) /\ w[n + k] = v[k]
      BY <1>1, <1>8
    <2>5. h[k] = (RABINKARP_MULT * h[k - 1] + v[k]) % RkMod
      BY <1>5
    <2> QED
      BY <2>1, <2>3, <2>4, <2>5
  <1> HIDE DEF T
  <1>9. \A k \in 0 .. l : k \in T
    BY <1>1, <1>7, <1>8, CountUp
  <1>10. h[l] = Hash(w, n + l)
    <2>1. l \in 0 .. l
      BY <1>1
    <2> QED
      BY <1>9, <2>1 DEF T
  <1>11. (Power(n) * rabinkarp_pow(l)) % RkMod = Power(n + l)
    BY <1>1, <1>6, PowerOfSum
  <1>12. rabinkarp_update(sum, v)
           = [kind |-> "RS_RABINKARP", count |-> n + l, hash |-> Hash(w, n + l), mult |-> Power(n + l)]
    BY <1>3, <1>5, <1>10, <1>11
  <1>13. Defined("RS_RABINKARP", w)
           = [kind |-> "RS_RABINKARP", count |-> n + l, hash |-> Hash(w, n + l), mult |-> Power(n + l)]
    BY <1>1 DEF Defined
  <1> QED
    BY <1>12, <1>13 DEF sum, w

\* A byte that is rolled in is added to the window.
LEMMA RolledIn ==
    ASSUME NEW kind \in Kinds, NEW u \in Seq(Nat), NEW i \in Nat
    PROVE  weaksum_rollin(Defined(kind, u), i) = Defined(kind, Append(u, i))
  <1> DEFINE w == Append(u, i)
             n == Len(u)
             sum == Defined(kind, u)
  <1>1. /\ n \in Nat /\ w \in Seq(Nat) /\ Len(w) = n + 1 /\ w[n + 1] = i
        /\ \A j \in 1 .. n : w[j] = u[j] /\ u[j] \in Nat
    <2>1. n \in Nat /\ \A j \in 1 .. n : u[j] \in Nat
      BY LenProperties
    <2>2. w \in Seq(Nat) /\ Len(w) = n + 1 /\ w[n + 1] = i /\ \A j \in 1 .. n : w[j] = u[j]
      BY AppendProperties
    <2> QED
      BY <2>1, <2>2
  <1> HIDE DEF w
  <1>2. First(u, n) = First(w, n) /\ Second(u, n) = Second(w, n) /\ Hash(u, n) = Hash(w, n)
    <2>1. [j \in 1 .. n |-> u[j] + ROLLSUM_CHAR_OFFSET] = [j \in 1 .. n |-> w[j] + ROLLSUM_CHAR_OFFSET]
      BY <1>1
    <2>2. [j \in 1 .. n |-> (n - j + 1) * (u[j] + ROLLSUM_CHAR_OFFSET)]
            = [j \in 1 .. n |-> (n - j + 1) * (w[j] + ROLLSUM_CHAR_OFFSET)]
      BY <1>1
    <2>3. [j \in 1 .. n |-> u[j] * Power(n - j)] = [j \in 1 .. n |-> w[j] * Power(n - j)]
      BY <1>1
    <2> HIDE DEF n
    <2> QED
      BY <2>1, <2>2, <2>3 DEF First, Second, Hash, Weights
  <1>3. /\ kind = "RS_ROLLSUM" =>
             sum = [kind |-> kind, count |-> n, s1 |-> First(w, n) % RollMod, s2 |-> Second(w, n) % RollMod]
        /\ kind # "RS_ROLLSUM" =>
             sum = [kind |-> kind, count |-> n, hash |-> Hash(w, n), mult |-> Power(n)]
    BY <1>2 DEF Defined
  <1> HIDE DEF sum, n
  <1>4. n + 1 \in Nat /\ \A j \in 1 .. n + 1 : w[j] \in Nat
    <2>1. \A j \in 1 .. n + 1 : j \in 1 .. n \/ j = n + 1
      BY <1>1
    <2> QED
      BY <1>1, <2>1
  <1>5. CASE kind = "RS_ROLLSUM"
    <2> DEFINE M == RollMod
    <2>1. PICK f \in Nat, g \in Nat, f1 \in Nat, g1 \in Nat :
            /\ f = First(w, n) /\ g = Second(w, n) /\ f1 = First(w, n + 1) /\ g1 = Second(w, n + 1)
      <3>1. \A j \in 1 .. n : w[j] \in Nat
        BY <1>1
      <3>2. First(w, n) \in Nat /\ Second(w, n) \in Nat
        BY <1>1, <3>1, DefinedNumbers
      <3>3. First(w, n + 1) \in Nat /\ Second(w, n + 1) \in Nat
        BY <1>4, DefinedNumbers
      <3> QED
        BY <3>2, <3>3
    <2>2. f1 = f + i + 31 /\ g1 = g + f1
      BY <1>1, <1>4, <2>1, RollsumGrows
    <2>3. M \in Nat \ {0}
      BY WeaksumAssumption
    <2> HIDE DEF M
    <2>4. ((f % M) + i + 31) % M = f1 % M
      <3>1. f \in Int /\ i + 31 \in Int
        OBVIOUS
      <3>2. PICK r \in Nat : r = f % M /\ Alike(r, f, M)
        <4>1. f % M \in Nat /\ Alike(f % M, f, M)
          BY <2>3, <3>1, ResidueAlike
        <4> QED
          BY <4>1
      <3>3. Alike(i + 31, i + 31, M)
        BY <2>3, <3>1, AlikeSelf
      <3>4. r \in Int /\ Alike(r + (i + 31), f + (i + 31), M)
        BY <2>3, <3>1, <3>2, <3>3, AlikeSums
      <3>5. r + (i + 31) \in Int /\ f + (i + 31) \in Int
        OBVIOUS
      <3>6. (r + (i + 31)) % M = (f + (i + 31)) % M
        BY <2>3, <3>4, <3>5, AlikeResidues
      <3>7. r + (i + 31) = r + i + 31 /\ f + (i + 31) = f1
        BY <2>2
      <3> QED
        BY <3>2, <3>6, <3>7
    <2>5. ((g % M) + (f1 % M)) % M = g1 % M
      <3>1. f1 \in Int /\ g \in Int
        OBVIOUS
      <3>2. PICK r \in Nat : r = f1 % M /\ Alike(r, f1, M)
        <4>1. f1 % M \in Nat /\ Alike(f1 % M, f1, M)
          BY <2>3, <3>1, ResidueAlike
        <4> QED
          BY <4>1
      <3>3. PICK t \in Nat : t = g % M /\ Alike(t, g, M)
        <4>1. g % M \in Nat /\ Alike(g % M, g, M)
          BY <2>3, <3>1, ResidueAlike
        <4> QED
          BY <4>1
      <3>4. Alike(t + r, g + f1, M)
        <4>1. r \in Int /\ t \in Int
          OBVIOUS
        <4> QED
          BY <2>3, <3>1, <3>2, <3>3, <4>1, AlikeSums
      <3>5. t + r \in Int /\ g + f1 \in Int
        OBVIOUS
      <3> QED
        BY <2>2, <2>3, <3>2, <3>3, <3>4, <3>5, AlikeResidues
    <2>6. sum = [kind |-> kind, count |-> n, s1 |-> f % M, s2 |-> g % M]
      BY <1>3, <1>5, <2>1 DEF M
    <2>7. weaksum_rollin(sum, i) = RollsumRollin(sum, i)
      BY <1>5, <2>6 DEF weaksum_rollin
    <2>8. RollsumRollin(sum, i) = [kind |-> kind, count |-> n + 1, s1 |-> f1 % M, s2 |-> g1 % M]
      <3>1. ((sum.s1 + i) + 31) % M = f1 % M /\ (sum.s2 + (f1 % M)) % M = g1 % M
        BY <2>4, <2>5, <2>6
      <3>2. RollsumRollin(sum, i) = [sum EXCEPT !.s1 = f1 % M, !.s2 = g1 % M, !.count = @ + 1]
        BY <3>1 DEF RollsumRollin, ROLLSUM_CHAR_OFFSET, M
      <3> QED
        BY <2>6, <3>2
    <2>9. Defined(kind, w) = [kind |-> kind, count |-> n + 1, s1 |-> f1 % M, s2 |-> g1 % M]
      BY <1>1, <1>5, <2>1 DEF Defined, M
    <2> QED
      BY <2>7, <2>8, <2>9 DEF sum, w
  <1>6. CASE kind # "RS_ROLLSUM"
    <2> DEFINE R == RkMod
               m == RABINKARP_MULT
    <2>1. Hash(w, n) \in Nat /\ Hash(w, n + 1) = (m * Hash(w, n) + i) % R
      BY <1>1, <1>4, HashGrows
    <2>2. m * Hash(w, n) = Hash(w, n) * m
      BY <2>1, WeaksumAssumption
    <2>3. (Power(n) * m) % R = Power(n + 1)
      <3>1. PICK f \in [0 .. n + 1 -> Nat] :
              /\ f[0] = 1 /\ \A k \in 1 .. n + 1 : f[k] = (f[k - 1] * m) % R
              /\ Power(n + 1) = f[n + 1]
        BY <1>4, PowerSequence
      <3>2. PICK g \in [0 .. n -> Nat] :
              /\ g[0] = 1 /\ \A k \in 1 .. n : g[k] = (g[k - 1] * m) % R
              /\ Power(n) = g[n]
        BY <1>1, PowerSequence
      <3> HIDE DEF m, R
      <3> DEFINE T == {k \in 0 .. n : f[k] = g[k]}
      <3>3. 0 \in T
        BY <1>1, <3>1, <3>2
      <3>4. ASSUME NEW k \in 1 .. n, k - 1 \in T PROVE k \in T
        <4>1. k \in 0 .. n /\ k \in 1 .. n + 1
          BY <1>1
        <4>2. f[k] = (f[k - 1] * m) % R /\ g[k] = (g[k - 1] * m) % R /\ f[k - 1] = g[k - 1]
          BY <3>1, <3>2, <3>4, <4>1
        <4> QED
          BY <4>1, <4>2
      <3> HIDE DEF T
      <3>5. \A k \in 0 .. n : k \in T
        BY <1>1, <3>3, <3>4, CountUp
      <3>6. n \in 0 .. n /\ n + 1 \in 1 .. n + 1 /\ (n + 1) - 1 = n
        BY <1>1
      <3>7. f[n] = g[n] /\ f[n + 1] = (f[n] * m) % R
        BY <3>1, <3>5, <3>6 DEF T
      <3> QED
        BY <3>1, <3>2, <3>7
    <2>4. sum = [kind |-> kind, count |-> n, hash |-> Hash(w, n), mult |-> Power(n)]
      BY <1>3, <1>6
    <2>5. weaksum_rollin(sum, i) = rabinkarp_rollin(sum, i)
      BY <1>6, <2>4 DEF weaksum_rollin
    <2>6. rabinkarp_rollin(sum, i)
            = [kind |-> kind, count |-> n + 1, hash |-> Hash(w, n + 1), mult |-> Power(n + 1)]
      <3>1. rabinkarp_rollin(sum, i)
              = [sum EXCEPT !.hash = (@ * m + i) % R, !.count = @ + 1, !.mult = (@ * m) % R]
        BY DEF rabinkarp_rollin
      <3> HIDE DEF m, R
      <3>2. (Hash(w, n) * m + i) % R = Hash(w, n + 1)
        BY <2>1, <2>2
      <3> QED
        BY <2>3, <2>4, <3>1, <3>2
    <2>7. Defined(kind, w)
            = [kind |-> kind, count |-> n + 1, hash |-> Hash(w, n + 1), mult |-> Power(n + 1)]
      BY <1>1, <1>6 DEF Defined
    <2> QED
      BY <2>5, <2>6, <2>7 DEF sum, w
  <1> QED
    BY <1>5, <1>6

\* The weak sum of no bytes is the one to begin with, by the definitions too.
LEMMA DefinedNone ==
    ASSUME NEW kind \in Kinds
    PROVE  Defined(kind, <<>>) = weaksum_init(kind)
  <1> DEFINE w == <<>>
  <1>1. Len(w) = 0 /\ 0 \in Nat /\ \A j \in 1 .. 0 : w[j] \in Nat
    OBVIOUS
  <1> HIDE DEF w
  <1>2. First(w, 0) = 0 /\ Second(w, 0) = 0 /\ Weights(w, 0) = 0
    BY <1>1, DefinedNumbers
  <1>3. Power(0) = 1
    <2>1. PICK p \in [0 .. 0 -> Nat] : p[0] = 1 /\ Power(0) = p[0]
      BY <1>1, PowerSequence
    <2> QED
      BY <2>1
  <1>4. 0 % RollMod = 0 /\ 1 % RkMod = 1
    <2>1. RkMod \in Nat \ {0} /\ RkMod # 1 /\ RollMod \in Nat \ {0}
      BY WeaksumAssumption
    <2> QED
      BY <2>1
  <1>5. Hash(w, 0) = 1
    <2>1. 1 + 0 = 1
      OBVIOUS
    <2> QED
      BY <1>2, <1>3, <1>4, <2>1 DEF Hash
  <1>6. kind = "RS_ROLLSUM" \/ kind = "RS_RABINKARP"
    BY DEF Kinds
  <1>7. CASE kind = "RS_ROLLSUM"
    BY <1>1, <1>2, <1>4, <1>7 DEF Defined, weaksum_init, RollsumInit, w
  <1>8. CASE kind = "RS_RABINKARP"
    BY <1>1, <1>3, <1>5, <1>8 DEF Defined, weaksum_init, rabinkarp_init, RABINKARP_SEED, w
  <1> QED
    BY <1>6, <1>7, <1>8

\* An update adds its bytes to the window.
LEMMA Updated ==
    ASSUME NEW kind \in Kinds, NEW u \in Seq(Nat), NEW v \in Seq(Nat), Short(Len(v))
    PROVE  weaksum_update(Defined(kind, u), v) = Defined(kind, u \o v)
  <1>1. kind = "RS_ROLLSUM" \/ kind = "RS_RABINKARP"
    BY DEF Kinds
  <1>2. Defined(kind, u).kind = kind
    BY DEF Defined
  <1>3. CASE kind = "RS_ROLLSUM"
    BY <1>2, <1>3, RollsumUpdated DEF weaksum_update
  <1>4. CASE kind = "RS_RABINKARP"
    <2>1. kind # "RS_ROLLSUM"
      BY <1>4
    <2> QED
      BY <1>2, <1>4, <2>1, RabinKarpUpdated DEF weaksum_update
  <1> QED
    BY <1>1, <1>3, <1>4

\* What an update computes from nothing is the sum by its definition.
LEMMA SumOfDefined ==
    ASSUME NEW kind \in Kinds, NEW w \in Seq(Nat), Short(Len(w))
    PROVE  SumOf(kind, w) = Defined(kind, w)
  <1>1. <<>> \in Seq(Nat) /\ <<>> \o w = w
    OBVIOUS
  <1>2. weaksum_update(Defined(kind, <<>>), w) = Defined(kind, <<>> \o w)
    BY <1>1, Updated
  <1> QED
    BY <1>1, <1>2, DefinedNone DEF SumOf

\* A window no longer than the bound is short enough for rabinkarp_pow.
LEMMA WindowShort ==
    ASSUME NEW n \in Nat, n <= MaxWindow
    PROVE  Short(n)
  <1>1. MaxWindow \in Nat /\ MaxWindow \div 65536 < 65536
    BY RollingAssumption
  <1>2. n \div 65536 <= MaxWindow \div 65536 /\ n \div 65536 \in Int /\ MaxWindow \div 65536 \in Int
    BY <1>1
  <1> QED
    BY <1>1, <1>2 DEF Short

\* The window and its sum.
RollingInv ==
    /\ window \in Seq(Nat) /\ Len(window) <= MaxWindow
    /\ weaksum.kind \in Kinds /\ weaksum = Defined(weaksum.kind, window)

\* A sum by its definitions knows its kind.
LEMMA DefinedKind == \A kind, w : Defined(kind, w).kind = kind
  BY DEF Defined

\* It holds of a fresh sum.
LEMMA RollingBegins == RollingInit => RollingInv
  <1> SUFFICES ASSUME RollingInit PROVE RollingInv
    OBVIOUS
  <1>1. PICK kind \in Kinds : weaksum = weaksum_init(kind)
    BY DEF RollingInit
  <1>2. window = <<>>
    BY DEF RollingInit
  <1>3. weaksum = Defined(kind, window)
    BY <1>1, <1>2, DefinedNone
  <1>4. weaksum.kind = kind
    BY <1>3, DefinedKind
  <1>5. window \in Seq(Nat) /\ Len(window) <= MaxWindow
    BY <1>2, RollingAssumption
  <1> QED
    BY <1>3, <1>4, <1>5 DEF RollingInv

\* It is kept by every rolling operation.
LEMMA RollingStep == RollingInv /\ [RollingNext]_rolling_vars => RollingInv'
  <1> SUFFICES ASSUME RollingInv, [RollingNext]_rolling_vars PROVE RollingInv'
    OBVIOUS
  <1> DEFINE kind == weaksum.kind
             n == Len(window)
  <1>1. /\ window \in Seq(Nat) /\ n \in Nat /\ n <= MaxWindow
        /\ kind \in Kinds /\ weaksum = Defined(kind, window)
        /\ \A j \in 1 .. n : window[j] \in Nat
    BY LenProperties DEF RollingInv
  <1>2. MaxWindow \in Nat /\ Bytes \subseteq Nat
    BY RollingAssumption
  <1>3. Short(n)
    BY <1>1, WindowShort
  <1>4. SUFFICES window' \in Seq(Nat) /\ Len(window') <= MaxWindow /\ weaksum' = Defined(kind, window')
    <2>1. Defined(kind, window').kind = kind
      BY DefinedKind
    <2> HIDE DEF kind
    <2> QED
      BY <1>1, <2>1 DEF RollingInv
  <1> HIDE DEF kind
  <1>5. CASE Reset
    <2>1. window' = <<>> /\ weaksum' = weaksum_init(kind)
      BY <1>5 DEF Reset, weaksum_reset, kind
    <2> QED
      BY <1>1, <1>2, <2>1, DefinedNone
  <1>6. ASSUME NEW buf \in Buffers, Update(buf)
        PROVE  window' \in Seq(Nat) /\ Len(window') <= MaxWindow /\ weaksum' = Defined(kind, window')
    <2>1. buf \in Seq(Nat)
      <3>1. PICK l \in 0 .. MaxWindow : buf \in [1 .. l -> Bytes]
        BY <1>6 DEF Buffers
      <3>2. l \in Nat
        BY <1>2, <3>1
      <3>3. buf \in [1 .. l -> Nat]
        BY <1>2, <3>1
      <3> QED
        BY <3>2, <3>3, SeqDef
    <2>2. /\ Len(buf) \in Nat /\ n + Len(buf) <= MaxWindow /\ window' = window \o buf
          /\ weaksum' = weaksum_update(weaksum, buf)
      BY <1>6, <2>1, LenProperties DEF Update
    <2>3. window' \in Seq(Nat) /\ Len(window') = n + Len(buf)
      BY <1>1, <2>1, <2>2, FirstPiece
    <2>4. Short(Len(buf))
      <3>1. Len(buf) <= MaxWindow
        BY <1>1, <1>2, <2>2
      <3> QED
        BY <2>2, <3>1, WindowShort
    <2>5. weaksum_update(Defined(kind, window), buf) = Defined(kind, window \o buf)
      BY <1>1, <2>1, <2>4, Updated
    <2> QED
      BY <1>1, <2>2, <2>3, <2>5
  <1>7. ASSUME NEW i \in Bytes, Rotate(i)
        PROVE  window' \in Seq(Nat) /\ Len(window') <= MaxWindow /\ weaksum' = Defined(kind, window')
    <2>1. i \in Nat /\ window # <<>> /\ window' = Tail(window) \o <<i>>
      BY <1>2, <1>7 DEF Rotate
    <2>2. n > 0 /\ 1 \in 1 .. n /\ Head(window) = window[1]
      BY <1>1, <2>1
    <2>3. Tail(window) \in Seq(Nat) /\ Len(Tail(window)) = n - 1
      BY <1>1, <2>1, <2>2, HeadTailProperties
    <2>4. \A j \in 1 .. n - 1 : Tail(window)[j] = window[j + 1]
      BY <1>1, <2>1, HeadTailProperties
    <2>5. <<i>> \in Seq(Nat) /\ Len(<<i>>) = 1 /\ <<i>>[1] = i /\ 1 \in 1 .. 1
      BY <2>1
    <2>6. /\ window' \in Seq(Nat) /\ Len(window') = (n - 1) + 1 /\ window'[(n - 1) + 1] = i
          /\ \A j \in 1 .. n - 1 : window'[j] = window[j + 1]
      <3> DEFINE s == Tail(window)
                 t == <<i>>
      <3> HIDE DEF s, t
      <3>1. s \in Seq(Nat) /\ Len(s) = n - 1 /\ t \in Seq(Nat) /\ Len(t) = 1 /\ window' = s \o t
        BY <2>1, <2>3, <2>5 DEF s, t
      <3>2. /\ s \o t \in Seq(Nat) /\ Len(s \o t) = Len(s) + Len(t)
            /\ \A j \in 1 .. Len(s) : (s \o t)[j] = s[j]
            /\ \A j \in 1 .. Len(t) : (s \o t)[Len(s) + j] = t[j]
        BY <3>1, FirstPiece
      <3>3. (s \o t)[Len(s) + 1] = i
        BY <2>5, <3>1, <3>2 DEF t
      <3>4. \A j \in 1 .. n - 1 : (s \o t)[j] = window[j + 1]
        BY <2>4, <3>1, <3>2 DEF s
      <3> QED
        BY <3>1, <3>2, <3>3, <3>4
    <2>7. Len(window') = n /\ window'[n] = i
      BY <1>1, <2>6
    <2>8. Behind(window, window')
      BY <1>1, <2>2, <2>6, <2>7 DEF Behind
    <2>9. weaksum' = weaksum_rotate(Defined(kind, window), window[1], i)
      BY <1>1, <1>7, <2>2 DEF Rotate
    <2>10. Defined(kind, window) = SumOf(kind, window) /\ Defined(kind, window') = SumOf(kind, window')
      BY <1>1, <1>3, <2>6, <2>7, SumOfDefined
    <2>11. weaksum_rotate(SumOf(kind, window), window[1], i) = SumOf(kind, window')
      BY <1>1, <1>3, <2>7, <2>8, WeaksumRolls
    <2> QED
      BY <1>1, <2>6, <2>7, <2>9, <2>10, <2>11
  <1>8. ASSUME NEW i \in Bytes, Rollin(i)
        PROVE  window' \in Seq(Nat) /\ Len(window') <= MaxWindow /\ weaksum' = Defined(kind, window')
    <2>1. i \in Nat /\ n < MaxWindow /\ window' = Append(window, i) /\ weaksum' = weaksum_rollin(weaksum, i)
      BY <1>2, <1>8 DEF Rollin
    <2>2. window' \in Seq(Nat) /\ Len(window') = n + 1
      BY <1>1, <2>1, AppendProperties
    <2>3. weaksum_rollin(Defined(kind, window), i) = Defined(kind, Append(window, i))
      BY <1>1, <2>1, RolledIn
    <2> QED
      BY <1>1, <1>2, <2>1, <2>2, <2>3
  <1>9. CASE Rollout
    <2>1. window # <<>> /\ window' = Tail(window)
      BY <1>9 DEF Rollout
    <2>2. n > 0 /\ 1 \in 1 .. n /\ Head(window) = window[1]
      BY <1>1, <2>1
    <2>3. window' \in Seq(Nat) /\ Len(window') = n - 1
      BY <1>1, <2>1, <2>2, HeadTailProperties
    <2>4. \A j \in 1 .. n - 1 : window'[j] = window[j + 1]
      BY <1>1, <2>1, HeadTailProperties
    <2>5. Behind(window, window')
      BY <1>1, <2>2, <2>3, <2>4 DEF Behind
    <2>6. weaksum' = weaksum_rollout(Defined(kind, window), window[1])
      BY <1>1, <1>9, <2>2 DEF Rollout
    <2>7. n - 1 \in Nat /\ n - 1 <= MaxWindow
      BY <1>1, <1>2, <2>2
    <2>8. Short(n - 1)
      BY <2>7, WindowShort
    <2>9. Defined(kind, window) = SumOf(kind, window) /\ Defined(kind, window') = SumOf(kind, window')
      BY <1>1, <1>3, <2>3, <2>8, SumOfDefined
    <2>10. weaksum_rollout(SumOf(kind, window), window[1]) = SumOf(kind, window')
      BY <1>1, <1>3, <2>3, <2>5, WeaksumRolls
    <2> QED
      BY <2>3, <2>6, <2>7, <2>9, <2>10
  <1>10. CASE UNCHANGED rolling_vars
    BY <1>1, <1>10 DEF rolling_vars
  <1> QED
    BY <1>5, <1>6, <1>7, <1>8, <1>9, <1>10 DEF RollingNext

\* The definitions are those of RollsumOf and RabinKarpOf.
LEMMA DigestDefined == RollingInv => DigestOfWindow
  <1> SUFFICES ASSUME RollingInv PROVE DigestOfWindow
    OBVIOUS
  <1> DEFINE kind == weaksum.kind
             n == Len(window)
  <1>1. n \in Nat /\ kind \in Kinds /\ weaksum = Defined(kind, window) /\ \A j \in 1 .. n : window[j] \in Nat
    BY LenProperties DEF RollingInv
  <1>2. kind = "RS_ROLLSUM" \/ kind = "RS_RABINKARP"
    BY <1>1 DEF Kinds
  <1>3. RollsumOf(window) = (Second(window, n) % RollMod) * RollMod + (First(window, n) % RollMod)
    <2> DEFINE byte == [k \in 1 .. n |-> window[k] + ROLLSUM_CHAR_OFFSET]
    <2>1. [k \in 1 .. n |-> (n - k + 1) * byte[k]]
            = [k \in 1 .. n |-> (n - k + 1) * (window[k] + ROLLSUM_CHAR_OFFSET)]
      OBVIOUS
    <2>2. RollsumOf(window) = (SumTo([k \in 1 .. n |-> (n - k + 1) * byte[k]], n) % RollMod) * RollMod
                                + (SumTo(byte, n) % RollMod)
      BY DEF RollsumOf
    <2> QED
      BY <2>1, <2>2 DEF First, Second
  <1>4. RabinKarpOf(window) = Hash(window, n)
    <2>1. Power(n) \in Nat
      BY <1>1, PowerIs
    <2>2. 1 * Power(n) = Power(n)
      BY <2>1
    <2>3. RabinKarpOf(window) = (1 * Power(n) + Weights(window, n)) % RkMod
      BY DEF RabinKarpOf, Weights, RABINKARP_SEED
    <2> QED
      BY <2>2, <2>3 DEF Hash
  <1> HIDE DEF n
  <1>5. CASE kind = "RS_ROLLSUM"
    <2>1. weaksum = [kind |-> kind, count |-> n, s1 |-> First(window, n) % RollMod,
                     s2 |-> Second(window, n) % RollMod]
      BY <1>1, <1>5 DEF Defined, n
    <2> HIDE DEF kind
    <2>2. RollsumDigest(weaksum) = RollsumOf(window) /\ weaksum.count = n /\ weaksum.kind = "RS_ROLLSUM"
      BY <1>3, <1>5, <2>1 DEF RollsumDigest
    <2> QED
      BY <2>2 DEF DigestOfWindow, weaksum_digest, n
  <1>6. CASE kind = "RS_RABINKARP"
    <2>1. weaksum = [kind |-> kind, count |-> n, hash |-> Hash(window, n), mult |-> Power(n)]
      BY <1>1, <1>6 DEF Defined, n
    <2> HIDE DEF kind
    <2>2. /\ rabinkarp_digest(weaksum) = RabinKarpOf(window) /\ weaksum.count = n
          /\ weaksum.kind = "RS_RABINKARP" /\ weaksum.mult = Power(n)
      BY <1>4, <1>6, <2>1 DEF rabinkarp_digest
    <2> QED
      BY <2>2 DEF DigestOfWindow, weaksum_digest, n
  <1> QED
    BY <1>2, <1>5, <1>6

\* After any sequence of the rolling operations, on any bytes and for words of any
\* width, the digest, the count and the cached power of a weak sum are those that
\* the definition of the checksum gives for the bytes now in the window.
THEOREM RollingDigest == RollingSpec => []DigestOfWindow
  BY RollingBegins, RollingStep, DigestDefined, PTL DEF RollingSpec

=============================================================================

------------------------------- MODULE Delta --------------------------------
(***************************************************************************)
(* The delta job (src/src/delta.c with the emission of commands of         *)
(* src/src/emit.c): the state machine that reads the new file, looks for   *)
(* blocks of the basis in it by means of the rolling weak sum, and writes  *)
(* the delta.                                                              *)
(*                                                                         *)
(* The signature is that of a basis from a given set, and the strong sum   *)
(* of a block is the block itself: collisions of a cryptographic sum are   *)
(* left out.  Without a basis the signature is empty and the delta a slack *)
(* one.  The loops of rs_delta_s_scan and rs_delta_s_flush are taken one   *)
(* iteration at a time.                                                    *)
(***************************************************************************)
EXTENDS Job, Reference, Weaksum, SequencesExt

CONSTANTS
    Inputs,         \* the new files considered
    Bases,          \* the basis files considered
    BlockLen,       \* block_len of the signature
    WeakKinds,      \* weak sums of signatures considered
    MAX_DELTA_CMD   \* bound on a delta command, 64K

ASSUME DeltaAssumption ==
    /\ Inputs \subseteq Seq(Nat) /\ Bases \subseteq Seq(Nat)
    /\ BlockLen \in Nat \ {0} /\ WeakKinds \subseteq Kinds
    /\ BlockLen \div 65536 < 65536      \* a signature has four bytes for it
    /\ MAX_DELTA_CMD \in Nat /\ MAX_DELTA_CMD > 3
    /\ TubeSize >= 17       \* the longest command fits into the tube

\* The size of a file is an rs_long_t, and all of the new file may be handed over at
\* once, in a buffer whose size is a size_t.
ASSUME SizeAssumption ==
    /\ SIZE_MAX \in Nat /\ \A f \in Inputs : Len(f) <= SIZE_MAX
    /\ \A f \in Inputs \cup Bases : Len(f) < Radix ^ RS_MAX_INT_BYTES \div 2

MAX_MISS_LEN == MAX_DELTA_CMD - 3

VARIABLES
    basis,          \* the basis that the signature was made of
    scan            \* what the delta job keeps in rs_job_t:
                    \*   buf        position in the input that scan_buf points to
                    \*   len        scan_len, the data at scan_buf
                    \*   pos        scan_pos, how much of it has been scanned
                    \*   basis_pos, basis_len  the match being extended
                    \*   weak_sum   the rolling sum of the block at scan_pos
                    \*   stats      bytes of literals, of copies and of commands

vars == <<engineVars, basis, scan>>

Init ==
    /\ input \in Inputs /\ basis \in Bases
    /\ EngineInit("rs_delta_s_header")
    /\ scan \in {[buf |-> 0, len |-> 0, pos |-> 0, basis_pos |-> 0, basis_len |-> 0,
                 weak_sum |-> weaksum_init(kind),
                 stats |-> [lit_bytes |-> 0, copy_bytes |-> 0, cmdbytes |-> 0]] :
                 kind \in WeakKinds}

HasSignature == Len(basis) > 0

-----------------------------------------------------------------------------
(* The signature's side of a lookup (sumset.c): the blocks of the basis,   *)
(* the first of equal ones.                                                *)

Blocks(b) == 0 .. (Len(b) + BlockLen - 1) \div BlockLen - 1
Block(b, i) == SubSeq(b, i * BlockLen + 1, Lesser((i + 1) * BlockLen, Len(b)))

\* The weak sum of a block as rs_signature_add_block stores it in memory.
SignatureWeakSum(kind, bytes) ==
    LET raw == rs_calc_weak_sum(kind, bytes)
    IN  IF kind = "RS_ROLLSUM" THEN mix32(raw) ELSE raw

rs_signature_find_match(b, kind, weak_sum, bytes) ==
    LET same == {i \in Blocks(b) : /\ SignatureWeakSum(kind, Block(b, i)) = weak_sum
                                   /\ Block(b, i) = bytes}
    IN  IF same = {} THEN -1
        ELSE BlockLen * (CHOOSE i \in same : \A k \in same : i <= k)

-----------------------------------------------------------------------------
(* The helpers work on the job j, on the scan s and on the result r of the *)
(* code's function, together a state [job |-> j, scan |-> s, result |-> r]. *)

\* rs_tube_catchup.
CatchUp(st) ==
    LET c == rs_tube_catchup(st.job) IN [st EXCEPT !.job = c.job, !.result = c.result]

\* The byte at an offset from scan_buf, and the n bytes there.
ScanBytes(s, offset, n) == SubSeq(input, s.buf + offset + 1, s.buf + offset + n)
ScanByte(s, offset) == input[s.buf + offset + 1]

\* scan_buf moves to the unscanned data.
Rebase(s) == [s EXCEPT !.buf = @ + s.pos, !.len = @ - s.pos, !.pos = 0]

rs_processmatch(st) ==
    CatchUp([st EXCEPT
        !.job = rs_scoop_advance(Assert_(@, st.job.copy_len = 0), st.scan.pos),
        !.scan = Rebase(@)])

\* Mutant: scan_buf stays where it was.
ProcessmissStays(st) ==
    CatchUp([st EXCEPT
        !.job = rs_tube_copy(Assert_(@, st.job.write_buf # <<>>), st.scan.pos),
        !.scan.pos = 0])

rs_processmiss(st) ==
    CatchUp([st EXCEPT
        !.job = rs_tube_copy(Assert_(@, st.job.write_buf # <<>>), st.scan.pos),
        !.scan = Rebase(@)])

\* Mutant: a copy is counted after its length has been reset.
AppendflushMiscounts(st) ==
    LET s == st.scan
        copy == rs_emit_copy_cmd(s.basis_pos, s.basis_len)
        literal == rs_emit_literal_cmd(s.pos)
    IN  IF s.basis_len > 0 THEN
            rs_processmatch([st EXCEPT
                !.job = rs_tube_write(@, copy),
                !.scan.basis_len = 0,
                !.scan.stats.cmdbytes = @ + Len(copy)])
        ELSE IF s.pos > 0 THEN
            rs_processmiss([st EXCEPT
                !.job = rs_tube_write(@, literal),
                !.scan.stats.lit_bytes = @ + s.pos,
                !.scan.stats.cmdbytes = @ + Len(literal)])
        ELSE [st EXCEPT !.result = "RS_DONE"]

rs_appendflush(st) ==
    LET s == st.scan
        copy == rs_emit_copy_cmd(s.basis_pos, s.basis_len)
        literal == rs_emit_literal_cmd(s.pos)
    IN  IF s.basis_len > 0 THEN
            rs_processmatch([st EXCEPT
                !.job = rs_tube_write(@, copy),
                !.scan.basis_len = 0,
                !.scan.stats.copy_bytes = @ + s.basis_len,
                !.scan.stats.cmdbytes = @ + Len(copy)])
        ELSE IF s.pos > 0 THEN
            rs_processmiss([st EXCEPT
                !.job = rs_tube_write(@, literal),
                !.scan.stats.lit_bytes = @ + s.pos,
                !.scan.stats.cmdbytes = @ + Len(literal)])
        ELSE [st EXCEPT !.result = "RS_DONE"]

\* A match that continues the one before only makes it longer.
rs_appendmatch(st, match_pos, match_len) ==
    LET s == st.scan
        taken == IF s.basis_len > 0 /\ s.basis_pos + s.basis_len = match_pos
                   THEN [st EXCEPT !.scan.basis_len = @ + match_len, !.result = "RS_DONE"]
                   ELSE [rs_appendflush(st) EXCEPT !.scan.basis_pos = match_pos,
                                                   !.scan.basis_len = match_len]
        next == [taken EXCEPT !.scan.pos = @ + match_len]
    IN  IF next.result = "RS_DONE" THEN rs_processmatch(next) ELSE next

\* Mutant: a miss becomes one byte too long.
AppendmissTooLong(st, miss_len) ==
    LET s == st.scan
        flushed == IF s.basis_len > 0 \/ s.pos > MAX_MISS_LEN
                     THEN rs_appendflush(st) ELSE [st EXCEPT !.result = "RS_DONE"]
    IN  [flushed EXCEPT !.scan.pos = @ + miss_len]

\* Mutant: the scan goes on although the output is blocked.
AppendmissUnblocked(st, miss_len) ==
    LET s == st.scan
        flushed == IF s.basis_len > 0 \/ s.pos >= MAX_MISS_LEN THEN rs_appendflush(st) ELSE st
    IN  [flushed EXCEPT !.scan.pos = @ + miss_len, !.result = "RS_DONE"]

rs_appendmiss(st, miss_len) ==
    LET s == st.scan
        flushed == IF s.basis_len > 0 \/ s.pos >= MAX_MISS_LEN
                     THEN rs_appendflush(st) ELSE [st EXCEPT !.result = "RS_DONE"]
    IN  [flushed EXCEPT !.scan.pos = @ + miss_len]

\* All the input there is, and enough of it that the job cannot be called again
\* without having taken more.
rs_getinput(st) ==
    LET min_len == BlockLen + MAX_DELTA_CMD
        avail == rs_scoop_avail(st.job)
        len == IF avail < min_len /\ ~st.job.eof_in THEN min_len ELSE avail
        r == Readahead(st.job, len)
    IN  [st EXCEPT !.job = r.job, !.result = r.result, !.scan.len = len,
                   !.scan.buf = IF r.result = "RS_DONE" THEN st.job.cursor ELSE @]

\* The weak sum, calculated if there is none, and the place of a match or -1.
rs_findmatch(s) ==
    LET weak_sum == IF s.weak_sum.count = 0
                      THEN weaksum_update(s.weak_sum,
                                          ScanBytes(s, s.pos, Lesser(s.len - s.pos, BlockLen)))
                      ELSE s.weak_sum
    IN  [scan |-> [s EXCEPT !.weak_sum = weak_sum],
         match_len |-> weak_sum.count,
         match_pos |-> rs_signature_find_match(basis, weak_sum.kind, weaksum_digest(weak_sum),
                                               ScanBytes(s, s.pos, weak_sum.count))]

-----------------------------------------------------------------------------
State == [job |-> job, scan |-> scan, result |-> "RS_DONE"]

Running(fn) == pc = "statefn" /\ statefn = fn
InLoop(fn) == pc = "loop" /\ statefn = fn

rs_delta_s_header ==
    /\ Running("rs_delta_s_header")
    /\ Finish(rs_tube_write(job, rs_emit_delta_header),
              IF HasSignature THEN "rs_delta_s_scan" ELSE "rs_delta_s_slack", "RS_RUNNING")
    /\ UNCHANGED <<basis, scan>>

\* rs_delta_s_scan and rs_delta_s_flush begin in the same way.
Enter(fn) ==
    /\ Running(fn)
    /\ LET c == CatchUp(State)
           g == IF c.result = "RS_DONE" THEN rs_getinput(c) ELSE c
       IN  /\ scan' = g.scan
           /\ IF g.result = "RS_DONE"
                THEN /\ job' = g.job /\ pc' = "loop"
                     /\ UNCHANGED <<input, statefn, result, orig>>
                ELSE Finish(g.job, statefn, g.result)
    /\ UNCHANGED basis

\* Mutant: the weak sum is not reset after a match.
IterationKeepsSum(f, rolled) ==
    /\ LET st == [State EXCEPT !.scan = f.scan]
           matched == rs_appendmatch(st, f.match_pos, f.match_len)
           missed == rs_appendmiss([st EXCEPT !.scan.weak_sum = rolled], 1)
           next == IF f.match_pos # -1 THEN matched ELSE missed
       IN  /\ scan' = next.scan
           /\ IF next.result = "RS_DONE"
                THEN job' = next.job /\ UNCHANGED <<input, statefn, pc, result, orig>>
                ELSE Finish(next.job, statefn, next.result)
    /\ UNCHANGED basis

\* One iteration, f being what rs_findmatch has found: a match, or a miss after
\* which the weak sum is rolled.
Iteration(f, rolled) ==
    /\ LET st == [State EXCEPT !.scan = f.scan]
           m == rs_appendmatch(st, f.match_pos, f.match_len)
           matched == [m EXCEPT !.scan.weak_sum = weaksum_reset(@)]
           missed == rs_appendmiss([st EXCEPT !.scan.weak_sum = rolled], 1)
           next == IF f.match_pos # -1 THEN matched ELSE missed
       IN  /\ scan' = next.scan
           /\ IF next.result = "RS_DONE"
                THEN job' = next.job /\ UNCHANGED <<input, statefn, pc, result, orig>>
                ELSE Finish(next.job, statefn, next.result)
    /\ UNCHANGED basis

\* Mutant: without data left, the end of the input is not noticed.
ScanNeverFlushes ==
    \/ Enter("rs_delta_s_scan")
    \/ /\ InLoop("rs_delta_s_scan") /\ scan.pos + BlockLen < scan.len
       /\ LET f == rs_findmatch(scan)
          IN  Iteration(f, weaksum_rotate(f.scan.weak_sum, ScanByte(scan, scan.pos),
                                          ScanByte(scan, scan.pos + BlockLen)))
    \/ /\ InLoop("rs_delta_s_scan") /\ scan.pos + BlockLen >= scan.len
       /\ IF job.eof_in /\ scan.len > 0 THEN Finish(job, "rs_delta_s_flush", "RS_RUNNING")
          ELSE Finish(job, statefn, "RS_BLOCKED")
       /\ UNCHANGED <<basis, scan>>

rs_delta_s_scan ==
    \/ Enter("rs_delta_s_scan")
    \/ /\ InLoop("rs_delta_s_scan") /\ scan.pos + BlockLen < scan.len
       /\ LET f == rs_findmatch(scan)
          IN  Iteration(f, weaksum_rotate(f.scan.weak_sum, ScanByte(scan, scan.pos),
                                          ScanByte(scan, scan.pos + BlockLen)))
    \/ /\ InLoop("rs_delta_s_scan") /\ scan.pos + BlockLen >= scan.len
       /\ IF job.eof_in THEN Finish(job, "rs_delta_s_flush", "RS_RUNNING")
          ELSE Finish(job, statefn, "RS_BLOCKED")
       /\ UNCHANGED <<basis, scan>>

\* The last flush may block, but the end comes next in any case.
rs_delta_s_flush ==
    \/ Enter("rs_delta_s_flush")
    \/ /\ InLoop("rs_delta_s_flush") /\ scan.pos < scan.len
       /\ LET f == rs_findmatch(scan)
          IN  Iteration(f, weaksum_rollout(f.scan.weak_sum, ScanByte(scan, scan.pos)))
    \/ /\ InLoop("rs_delta_s_flush") /\ scan.pos >= scan.len
       /\ LET f == rs_appendflush(State)
          IN  /\ scan' = f.scan
              /\ Finish(f.job, "rs_delta_s_end",
                        IF f.result = "RS_DONE" THEN "RS_RUNNING" ELSE f.result)
       /\ UNCHANGED basis

rs_delta_s_end ==
    /\ Running("rs_delta_s_end")
    /\ Finish(rs_tube_write(job, rs_emit_end_cmd), statefn, "RS_DONE")
    /\ UNCHANGED <<basis, scan>>

\* Mutant: one byte less is copied than announced.
SlackShort ==
    /\ Running("rs_delta_s_slack")
    /\ LET avail == rs_scoop_avail(job)
           literal == rs_emit_literal_cmd(avail)
       IN  \/ /\ avail > 0
              /\ Finish(rs_tube_copy(rs_tube_write(job, literal), avail - 1), statefn, "RS_RUNNING")
              /\ scan' = [scan EXCEPT !.stats.lit_bytes = @ + avail,
                                      !.stats.cmdbytes = @ + Len(literal)]
           \/ /\ avail = 0
              /\ IF rs_scoop_eof(job) THEN Finish(job, "rs_delta_s_end", "RS_RUNNING")
                 ELSE Finish(job, statefn, "RS_BLOCKED")
              /\ UNCHANGED scan
    /\ UNCHANGED basis

rs_delta_s_slack ==
    /\ Running("rs_delta_s_slack")
    /\ LET avail == rs_scoop_avail(job)
           literal == rs_emit_literal_cmd(avail)
       IN  \/ /\ avail > 0
              /\ Finish(rs_tube_copy(rs_tube_write(job, literal), avail), statefn, "RS_RUNNING")
              /\ scan' = [scan EXCEPT !.stats.lit_bytes = @ + avail,
                                      !.stats.cmdbytes = @ + Len(literal)]
           \/ /\ avail = 0
              /\ IF rs_scoop_eof(job) THEN Finish(job, "rs_delta_s_end", "RS_RUNNING")
                 ELSE Finish(job, statefn, "RS_BLOCKED")
              /\ UNCHANGED scan
    /\ UNCHANGED basis

Caller(A) == A /\ UNCHANGED <<basis, scan>>

Step ==
    \/ rs_delta_s_header \/ rs_delta_s_scan \/ rs_delta_s_flush \/ rs_delta_s_end
    \/ rs_delta_s_slack \/ Caller(Catchup)

Stopped == Over /\ UNCHANGED vars

Next == Caller(CallIter) \/ Step \/ Stopped

\* As for the patch job, the code runs once it is called, and the caller keeps
\* coming back with input and room for output.  The first is WF_vars(Step): a
\* step of the code is possible exactly when control is not with the caller.
CodeRuns == []<>(pc = "caller") \/ []<><<pc # "caller">>_vars

Fairness == CodeRuns /\ SF_vars(Caller(Feed))

Spec == Init /\ [][Next]_vars /\ Fairness

-----------------------------------------------------------------------------
(* The delta of a whole file, in one go: at each position the block there  *)
(* or, if the basis has no such block, a byte of literal; what follows one *)
(* another is put together.                                                *)

Items(new, b) ==
    LET from[p \in 0 .. Len(new)] ==
            LET bytes == SubSeq(new, p + 1, Lesser(p + BlockLen, Len(new)))
                same == {i \in Blocks(b) : Block(b, i) = bytes}
                where == BlockLen * (CHOOSE i \in same : \A k \in same : i <= k)
            IN  IF p = Len(new) THEN <<>>
                ELSE IF same = {} THEN <<[miss |-> <<new[p + 1]>>]>> \o from[p + 1]
                ELSE <<[where |-> where, len |-> Len(bytes)]>> \o from[p + Len(bytes)]
    IN  from[0]

IsMiss(item) == "miss" \in DOMAIN item

\* Adds an item to a list, as part of the last one if it continues it.
Merge(list, item) ==
    LET last == list[Len(list)]
        Extended(x) == [list EXCEPT ![Len(list)] = x]
    IN  IF list = <<>> \/ IsMiss(last) # IsMiss(item) THEN Append(list, item)
        ELSE IF IsMiss(item) /\ Len(last.miss) < MAX_MISS_LEN
          THEN Extended([miss |-> last.miss \o item.miss])
        ELSE IF ~IsMiss(item) /\ last.where + last.len = item.where
          THEN Extended([last EXCEPT !.len = @ + item.len])
        ELSE Append(list, item)

DeltaOf(new, b) ==
    LET Emit(out, item) ==
            out \o IF IsMiss(item) THEN rs_emit_literal_cmd(Len(item.miss)) \o item.miss
                   ELSE rs_emit_copy_cmd(item.where, item.len)
    IN  FoldLeft(Emit, rs_emit_delta_header, FoldLeft(Merge, <<>>, Items(new, b))) \o rs_emit_end_cmd

Deltas == [pair \in Inputs \X Bases |-> DeltaOf(pair[1], pair[2])]

-----------------------------------------------------------------------------
\* With a signature the delta depends on the new file and the basis alone, not
\* on the sizes of the buffers or on where the job was blocked, and it is the
\* one that the greedy search over the whole file gives.  (A slack delta has a
\* literal command for each piece of input; DeltaDecodesToScanned is about both.)
\* The job is blocked only on input or on room.  If it scans the caller's buffer
\* directly and waits for more, it leaves the miss being collected and a block
\* there, less than what rs_getinput asks for.  It succeeds in the very call
\* that writes the END command: send_delta of the streaming example relies on it.
Target(pair) == Deltas[pair]
DeltaPromise(pair) ==
    [target |-> Len(Deltas[pair]), verdict |-> "RS_DONE", need |-> Len(pair[1]),
     to_eof |-> TRUE, writes |-> TRUE, ends_writing |-> TRUE, leaves |-> MAX_MISS_LEN + BlockLen]
Whole == INSTANCE Transducer WITH
    source <- <<input, basis>>, TargetOf <- Target, PromiseOf <- DeltaPromise,
    out <- IF HasSignature THEN job.out ELSE <<>>,
    result <- IF HasSignature THEN Verdict ELSE "RS_RUNNING",
    answer <- IF HasSignature THEN Answer(Len(job.out)) ELSE NoAnswer
ImplementsTransducer == Whole!Spec

\* How far the input has been scanned: what has left the scoop, what the tube
\* is still going to copy, and what is being collected.
Scanned == job.cursor + job.copy_len + scan.pos

\* Everything that has been decided on, as it will be written.
Pending ==
    job.write_buf \o NextBytes(job, job.copy_len)
        \o IF scan.basis_len > 0 THEN rs_emit_copy_cmd(scan.basis_pos, scan.basis_len)
           ELSE IF scan.pos > 0
             THEN rs_emit_literal_cmd(scan.pos)
                    \o SubSeq(input, job.cursor + job.copy_len + 1, Scanned)
           ELSE <<>>

\* At any moment, also when the job is blocked half-way through a command, the
\* delta written so far together with what is in the tube and with the match or
\* miss being collected decodes to the scanned part of the input: no byte is
\* lost or sent twice.  A completed delta decodes to the new file.
DeltaDecodesToScanned ==
    LET a == Apply(job.out \o Pending, basis)
    IN  /\ a.out = SubSeq(input, 1, Scanned)
        /\ a.verdict = IF statefn = "NULL" THEN "RS_DONE" ELSE "RS_INPUT_ENDED"
        /\ result = "RS_DONE" => Scanned = Len(input)

WeakSumOf(bytes) == weaksum_update(weaksum_reset(scan.weak_sum), bytes)

\* The rolling sum always belongs to the unscanned bytes, also after the job
\* was blocked between the rotation and the next lookup and came back to a
\* scoop at another place.
WeakSumInSync ==
    LET n == scan.weak_sum.count
    IN  n > 0 => /\ Scanned + n <= job.cursor + rs_scoop_avail(job)
                 /\ scan.weak_sum = WeakSumOf(SubSeq(input, Scanned + 1, Scanned + n))

\* Inside the loops scan_buf, a pointer into the scoop or the caller's buffer,
\* points to the data that follows what the tube has queued, and scan_len is
\* what there is of it, although the tube moves the scoop in between.
ScanPointerValid ==
    pc = "loop" => /\ scan.buf = job.cursor + job.copy_len
                   /\ scan.len = rs_scoop_avail(job) - job.copy_len
                   /\ scan.pos <= scan.len

\* None of the assertions of delta.c, tube.c, scoop.c and job.c fails: the tube
\* is free when a command is queued, the scanned data is all in one place when
\* it is skipped.
AssertionsHold == job.asserts

\* When the job is done its statistics account for every byte of the new file
\* and for every byte of the delta.
StatisticsBalance ==
    result = "RS_DONE" =>
        /\ Len(input) = scan.stats.lit_bytes + scan.stats.copy_bytes
        /\ Len(job.out) = 4 + scan.stats.cmdbytes + scan.stats.lit_bytes + 1

\* Every job ends when the caller keeps feeding it.
Terminates == <>Over

=============================================================================

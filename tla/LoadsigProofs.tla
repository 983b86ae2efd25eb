--------------------------- MODULE LoadsigProofs ----------------------------
(***************************************************************************)
(* The loadsig job, for every file, signature or not, and every way in     *)
(* which it is cut into pieces: no assertion fails, the array is never too *)
(* small for the blocks, and the job implements module Transducer, that    *)
(* is, the blocks in memory and the verdict are those of the file as a     *)
(* whole. Of a file that is a signature, the blocks in memory have the     *)
(* sums that the delta job will compute of the same data.                  *)
(*                                                                         *)
(* The argument is that the position in the file is determined by the      *)
(* state function and the number of blocks counted in the statistics, and  *)
(* that what has been read so far is what stands in the file before it.    *)
(***************************************************************************)
EXTENDS Loadsig, JobProofs

\* The blocks of a file, one by one: BlocksIn is all of them.
BlockSize(file) == 4 + HeaderMeaning(file).strong_len
BlockTotal(file) ==
    IF HeaderMeaning(file).result = "RS_DONE" THEN (Len(file) - 12) \div BlockSize(file) ELSE 0
WeakAt(file, k) ==
    Shifted(SubSeq(file, 12 + (k - 1) * BlockSize(file) + 1, 12 + (k - 1) * BlockSize(file) + 4))
      % Radix ^ 4
StrongAt(file, k) == SubSeq(file, 12 + (k - 1) * BlockSize(file) + 5, 12 + k * BlockSize(file))
Mixed(magic, weak) ==
    IF rs_signature_weaksum_kind(magic) = "RS_ROLLSUM" THEN mix32(weak) ELSE weak
Entry(file, k) ==
    [weak_sum |-> Mixed(HeaderMeaning(file).magic, WeakAt(file, k)),
     strong_sum |-> StrongAt(file, k)]
Loaded(file, n) == [k \in 1 .. n |-> Entry(file, k)]

\* The parameters that a file's header stands for.
ParamsIn(file) ==
    rs_sig_args(-1, [magic |-> Field(file, 1), block_len |-> Field(file, 2),
                     strong_len |-> Field(file, 3)])

-----------------------------------------------------------------------------
(* The inductive invariant.                                                *)

LoadsigTypeOK ==
    /\ input \in Seq(Nat) /\ JobOK(job) /\ sig_fsize \in Int
    /\ statefn \in {"rs_loadsig_s_magic", "rs_loadsig_s_blocklen", "rs_loadsig_s_stronglen",
                    "rs_loadsig_s_weak", "rs_loadsig_s_strong", "NULL"}
    /\ pc \in {"caller", "work", "statefn"}

\* The caller says that there is no more only when it has sent everything.
EofIsTrue == job.eof_in => job.cursor + job.scoop_avail + job.avail_in = Len(input)

\* Nothing is ever put out.
NoOutput == job.write_buf = <<>> /\ job.copy_len = 0 /\ (pc = "statefn" => statefn # "NULL")

\* While the job works the caller has no answer yet.
InTurn == Over => pc = "caller"

\* Which fields of the header have been read, as long as none was refused.
HeaderSoFar ==
    ~Over =>
        /\ statefn = "rs_loadsig_s_magic" => job.cursor = 0
        /\ statefn = "rs_loadsig_s_blocklen" => job.cursor = 4 /\ sig_magic = Field(input, 1)
        /\ statefn = "rs_loadsig_s_stronglen" =>
             /\ job.cursor = 8 /\ sig_magic = Field(input, 1) /\ sig_block_len = Field(input, 2)
             /\ sig_block_len >= 1
        /\ statefn \in {"rs_loadsig_s_magic", "rs_loadsig_s_blocklen", "rs_loadsig_s_stronglen"} =>
             sig_blocks = 0

\* The blocks counted are those in memory, and there is room for them.
BlocksSoFar ==
    /\ sig_blocks \in 0 .. BlockTotal(input)
    /\ DOMAIN sig = {"magic", "block_len", "strong_sum_len", "size", "block_sigs"}
    /\ sig.block_sigs = Loaded(input, sig_blocks)
    /\ sig.size \in Nat /\ sig_blocks <= sig.size

\* Once the header has been read the signature has its parameters.
AfterHeader ==
    statefn \in {"rs_loadsig_s_weak", "rs_loadsig_s_strong", "NULL"} =>
        /\ HeaderMeaning(input).result = "RS_DONE"
        /\ sig.magic = HeaderMeaning(input).magic /\ sig.block_len = ParamsIn(input).block_len
        /\ sig.strong_sum_len = HeaderMeaning(input).strong_len
        /\ rs_sig_args_check(sig.magic, sig.block_len, sig.strong_sum_len)

\* And the blocks follow one another.
BlockAhead ==
    ~Over =>
        /\ statefn = "rs_loadsig_s_weak" => job.cursor = 12 + sig_blocks * BlockSize(input)
        /\ statefn = "rs_loadsig_s_strong" =>
             /\ job.cursor = 12 + sig_blocks * BlockSize(input) + 4
             /\ weak_sig = WeakAt(input, sig_blocks + 1)

\* The job is done when what is left is not even a weak sum.
AtEnd ==
    statefn = "NULL" =>
        /\ sig_blocks = BlockTotal(input) /\ FileVerdict(input) = "RS_DONE"
        /\ job.eof_in /\ job.avail_in = 0

\* What the job has been returned with.
Answered ==
    pc = "caller" /\ result # "RS_RUNNING" =>
        \/ result = "RS_BLOCKED" /\ job.avail_in = 0 /\ ~job.eof_in
        \/ /\ result = FileVerdict(input) /\ sig_blocks = BlockTotal(input)
           /\ result = "RS_DONE" => job.eof_in /\ job.avail_in = 0 /\ statefn = "NULL"

LoadsigInv ==
    /\ LoadsigTypeOK /\ EofIsTrue /\ NoOutput /\ InTurn /\ HeaderSoFar /\ BlocksSoFar
    /\ AfterHeader /\ BlockAhead /\ AtEnd /\ Answered /\ job.asserts


-----------------------------------------------------------------------------
(* What a file means.                                                      *)

\* A number of four bytes is an integer, and as a weak sum it is what the bytes say.
LEMMA N4Facts ==
    ASSUME NEW bytes \in Seq(Nat)
    PROVE  /\ N4Value(bytes) \in Int
           /\ N4Value(bytes) % Radix ^ 4 = Shifted(bytes) % Radix ^ 4
  <1> DEFINE v == Shifted(bytes)
             M == Radix ^ 4
  <1>1. v \in Nat
    BY ShiftedFacts
  <1>2. M \in Nat \ {0}
    BY NetintAssumption
  <1>3. N4Value(bytes) = IF v >= M \div 2 THEN v - M ELSE v
    BY DEF N4Value
  <1> HIDE DEF v, M
  <1>4. (v - M) % M = v % M
    <2> DEFINE q == v \div M
               r == v % M
               p == (v - M) \div M
               s == (v - M) % M
               d == q - p - 1
    <2>0. ASSUME NEW w \in Int
          PROVE  w \div M \in Int /\ w % M \in 0 .. M - 1 /\ w = M * (w \div M) + (w % M)
      BY <1>2
    <2>1. q \in Int /\ r \in 0 .. M - 1 /\ v = M * q + r
      BY <1>1, <1>2
    <2>2. v - M \in Int
      BY <1>1, <1>2
    <2>3. p \in Int /\ s \in 0 .. M - 1 /\ v - M = M * p + s
      BY <2>0, <2>2
    <2> HIDE DEF q, r, p, s
    <2>4. d \in Int /\ M * d = M * q - M * p - M
      BY <1>2, <2>1, <2>3
    <2> HIDE DEF d
    <2>5. M * d = s - r /\ M * d \in Int
      <3>1. M * q \in Int /\ M * p \in Int
        BY <1>2, <2>1, <2>3
      <3> QED
        BY <1>1, <1>2, <2>1, <2>3, <2>4, <3>1
    <2>6. M * d < M /\ -M < M * d
      BY <1>2, <2>1, <2>3, <2>5
    <2>7. ~(d >= 1) /\ ~(d <= -1)
      BY <1>2, <2>4, <2>6
    <2>8. d = 0
      BY <2>4, <2>7
    <2>9. s = r
      BY <1>2, <2>1, <2>3, <2>5, <2>8
    <2> QED
      BY <2>9 DEF r, s
  <1>5. N4Value(bytes) \in Int /\ N4Value(bytes) % M = v % M
    <2>1. v - M \in Int /\ v \in Int
      BY <1>1, <1>2
    <2> QED
      BY <1>3, <1>4, <2>1
  <1> QED
    BY <1>5 DEF v, M

\* The fields of a header that is there are numbers.
LEMMA FieldFacts ==
    ASSUME NEW file \in Seq(Nat)
    PROVE  /\ Len(file) >= 4 => Field(file, 1) \in Int
           /\ Len(file) >= 8 => Field(file, 2) \in Int
           /\ Len(file) >= 12 => Field(file, 3) \in Int
           /\ Field(file, 1) = N4Value(SubSeq(file, 0 + 1, 0 + 4))
           /\ Field(file, 2) = N4Value(SubSeq(file, 4 + 1, 4 + 4))
           /\ Field(file, 3) = N4Value(SubSeq(file, 8 + 1, 8 + 4))
  <1>1. /\ Field(file, 1) = N4Value(SubSeq(file, 0 + 1, 0 + 4))
        /\ Field(file, 2) = N4Value(SubSeq(file, 4 + 1, 4 + 4))
        /\ Field(file, 3) = N4Value(SubSeq(file, 8 + 1, 8 + 4))
    BY DEF Field
  <1>2. Len(file) \in Nat
    BY LenProperties
  <1> DEFINE At(m) == N4Value(SubSeq(file, m + 1, m + 4))
  <1>3. ASSUME NEW m \in Nat, m + 4 <= Len(file)
        PROVE  At(m) \in Int
    <2>1. SubSeq(file, m + 1, m + 4) \in Seq(Nat)
      <3>1. 4 \in Nat
        OBVIOUS
      <3> QED
        BY <1>3, <3>1, PieceFacts
    <2> QED
      BY <2>1, N4Facts
  <1>4. Field(file, 1) = At(0) /\ Field(file, 2) = At(4) /\ Field(file, 3) = At(8)
    BY <1>1
  <1> HIDE DEF At
  <1>5. /\ Len(file) >= 4 => At(0) \in Int
        /\ Len(file) >= 8 => At(4) \in Int
        /\ Len(file) >= 12 => At(8) \in Int
    BY <1>2, <1>3
  <1> QED
    BY <1>1, <1>4, <1>5

\* The verdict on a header, case by case.
LEMMA HeaderCases ==
    ASSUME NEW file \in Seq(Nat)
    PROVE  LET h == HeaderMeaning(file)
               a == rs_sig_args(-1, [magic |-> Field(file, 1), block_len |-> Field(file, 2),
                                     strong_len |-> Field(file, 3)])
           IN  /\ Len(file) < 8 => h.result = "RS_INPUT_ENDED"
               /\ Len(file) >= 8 /\ Field(file, 2) < 1 => h.result = "RS_CORRUPT"
               /\ Len(file) >= 8 /\ Field(file, 2) >= 1 =>
                    /\ Len(file) < 12 => h.result = "RS_INPUT_ENDED"
                    /\ Len(file) >= 12 /\ Field(file, 3) \notin 0 .. RS_MAX_STRONG_SUM_LENGTH =>
                         h.result = "RS_CORRUPT"
                    /\ Len(file) >= 12 /\ Field(file, 3) \in 0 .. RS_MAX_STRONG_SUM_LENGTH =>
                         /\ h.result = a.result /\ h.magic = a.magic /\ h.strong_len = a.strong_len
                         /\ a.result \in {"RS_BAD_MAGIC", "RS_PARAM_ERROR", "RS_DONE"}
                         /\ a.magic \in Int /\ a.block_len \in Nat \ {0}
                         /\ a.strong_len \in Nat \ {0}
                         /\ a.result = "RS_DONE" =>
                              rs_sig_args_check(a.magic, a.block_len, a.strong_len)
  <1> DEFINE L == Len(file)
             f1 == Field(file, 1)
             f2 == Field(file, 2)
             f3 == Field(file, 3)
             x == [magic |-> f1, block_len |-> f2, strong_len |-> f3]
             a == rs_sig_args(-1, x)
             h == HeaderMeaning(file)
             Refused(v) == [strong_len |-> 1, magic |-> 0, result |-> v]
  <1>1. h = IF L < 8 THEN Refused("RS_INPUT_ENDED")
            ELSE IF f2 < 1 THEN Refused("RS_CORRUPT")
            ELSE IF L < 12 THEN Refused("RS_INPUT_ENDED")
            ELSE IF f3 \notin 0 .. RS_MAX_STRONG_SUM_LENGTH THEN Refused("RS_CORRUPT")
            ELSE [strong_len |-> a.strong_len, magic |-> a.magic, result |-> a.result]
    BY DEF HeaderMeaning
  <1>2. L \in Nat /\ (L >= 4 => f1 \in Int) /\ (L >= 8 => f2 \in Int) /\ (L >= 12 => f3 \in Int)
    BY FieldFacts, LenProperties
  <1> HIDE DEF L, f1, f2, f3, h
  <1>3. L >= 12 /\ f2 >= 1 /\ f3 \in 0 .. RS_MAX_STRONG_SUM_LENGTH =>
          /\ a.result \in {"RS_BAD_MAGIC", "RS_PARAM_ERROR", "RS_DONE"}
          /\ a.magic \in Int /\ a.block_len \in Nat \ {0} /\ a.strong_len \in Nat \ {0}
          /\ a.result = "RS_DONE" => rs_sig_args_check(a.magic, a.block_len, a.strong_len)
    <2> SUFFICES ASSUME L >= 12, f2 >= 1, f3 \in 0 .. RS_MAX_STRONG_SUM_LENGTH
                 PROVE  /\ a.result \in {"RS_BAD_MAGIC", "RS_PARAM_ERROR", "RS_DONE"}
                        /\ a.magic \in Int /\ a.block_len \in Nat \ {0}
                        /\ a.strong_len \in Nat \ {0}
                        /\ a.result = "RS_DONE" =>
                             rs_sig_args_check(a.magic, a.block_len, a.strong_len)
      OBVIOUS
    <2>1. L >= 4 /\ L >= 8
      BY <1>2
    <2>2. x.magic \in Int /\ x.block_len \in Nat /\ x.strong_len \in Int /\ x.strong_len >= -1
      BY <1>2, <2>1, SigArgsAssumption
    <2> HIDE DEF x
    <2> QED
      BY <2>2, SigArgsFacts
  <1> HIDE DEF a, x
  <1>4. /\ L < 8 => h.result = "RS_INPUT_ENDED"
        /\ L >= 8 /\ f2 < 1 => h.result = "RS_CORRUPT"
    BY <1>1, <1>2
  <1>5. L >= 8 /\ f2 >= 1 =>
          /\ L < 12 => h.result = "RS_INPUT_ENDED"
          /\ L >= 12 /\ f3 \notin 0 .. RS_MAX_STRONG_SUM_LENGTH => h.result = "RS_CORRUPT"
          /\ L >= 12 /\ f3 \in 0 .. RS_MAX_STRONG_SUM_LENGTH =>
               h.result = a.result /\ h.magic = a.magic /\ h.strong_len = a.strong_len
    <2>1. L >= 8 /\ f2 >= 1 => ~(L < 8) /\ ~(f2 < 1)
      BY <1>2
    <2>2. L >= 12 => ~(L < 12)
      BY <1>2
    <2> HIDE DEF Refused
    <2>3. \A v : Refused(v).result = v
      BY DEF Refused
    <2> QED
      BY <1>1, <2>1, <2>2, <2>3
  <1> QED
    BY <1>3, <1>4, <1>5 DEF L, f1, f2, f3, a, x, h

\* What can become of a header, and how the blocks behind a good one lie.
LEMMA FileFacts ==
    ASSUME NEW file \in Seq(Nat)
    PROVE  LET h == HeaderMeaning(file)
               size == BlockSize(file)
               total == BlockTotal(file)
           IN  /\ h.result \in {"RS_INPUT_ENDED", "RS_CORRUPT", "RS_BAD_MAGIC", "RS_PARAM_ERROR",
                                "RS_DONE"}
               /\ total \in Nat /\ Len(file) \in Nat
               /\ h.result # "RS_DONE" => total = 0 /\ FileVerdict(file) = h.result
               /\ h.result = "RS_DONE" =>
                    /\ h.strong_len \in Nat \ {0} /\ size = 4 + h.strong_len /\ Len(file) >= 12
                    /\ \A k \in Nat : k * size \in Nat /\ (k + 1) * size = k * size + size
                    /\ \A k \in Nat : 12 + k * size <= Len(file) <=> k <= total
                    /\ FileVerdict(file) = IF Len(file) < 12 + total * size + 4
                                             THEN "RS_DONE" ELSE "RS_INPUT_ENDED"
  <1> DEFINE h == HeaderMeaning(file)
             size == BlockSize(file)
             total == BlockTotal(file)
             L == Len(file)
             v == FileVerdict(file)
  <1>1. L \in Nat
    BY LenProperties
  <1>2. /\ h.result \in {"RS_INPUT_ENDED", "RS_CORRUPT", "RS_BAD_MAGIC", "RS_PARAM_ERROR", "RS_DONE"}
        /\ h.result = "RS_DONE" => L >= 12 /\ h.strong_len \in Nat \ {0}
    <2>1. L >= 8 => Field(file, 2) < 1 \/ Field(file, 2) >= 1
      BY FieldFacts
    <2>2. L < 8 \/ (L >= 8 /\ L < 12) \/ (L >= 8 /\ L >= 12)
      BY <1>1
    <2> HIDE DEF h, L
    <2> QED
      BY <2>1, <2>2, HeaderCases DEF h, L
  <1>3. /\ size = 4 + h.strong_len
        /\ total = IF h.result = "RS_DONE" THEN (L - 12) \div size ELSE 0
        /\ v = IF h.result # "RS_DONE" THEN h.result
               ELSE IF (L - 12) % (4 + h.strong_len) < 4 THEN "RS_DONE" ELSE "RS_INPUT_ENDED"
    BY DEF BlockSize, BlockTotal, FileVerdict
  <1> HIDE DEF h, size, total, L, v
  <1>4. CASE h.result # "RS_DONE"
    BY <1>1, <1>2, <1>3, <1>4 DEF h, size, total, L, v
  <1>5. CASE h.result = "RS_DONE"
    <2> DEFINE x == L - 12
    <2>1. x \in Nat /\ size \in Nat \ {0} /\ L = x + 12
      BY <1>1, <1>2, <1>3, <1>5
    <2>2. total = x \div size /\ v = IF x % size < 4 THEN "RS_DONE" ELSE "RS_INPUT_ENDED"
      BY <1>3, <1>5
    <2> HIDE DEF x
    <2>3. /\ x \div size \in Nat /\ x % size = x - (x \div size) * size
          /\ \A k \in Nat : k * size \in Nat /\ (k + 1) * size = k * size + size
          /\ \A k \in Nat : k * size <= x <=> k <= x \div size
      BY <2>1, PieceCount
    <2>4. \A k \in Nat : 12 + k * size <= L <=> k <= total
      <3> SUFFICES ASSUME NEW k \in Nat
                   PROVE  12 + k * size <= L <=> k <= total
        OBVIOUS
      <3> DEFINE ks == k * size
      <3>1. ks \in Nat /\ (ks <= x <=> k <= total)
        BY <2>2, <2>3
      <3> HIDE DEF ks
      <3>2. 12 + ks <= L <=> k <= total
        BY <2>1, <3>1
      <3> QED
        BY <3>2 DEF ks
    <2>5. x % size < 4 <=> L < 12 + total * size + 4
      <3> DEFINE ts == total * size
      <3>1. ts \in Nat /\ x % size = x - ts
        BY <2>2, <2>3
      <3> HIDE DEF ts
      <3>2. x % size < 4 <=> L < 12 + ts + 4
        BY <2>1, <3>1
      <3> QED
        BY <3>2 DEF ts
    <2>6. total \in Nat
      BY <2>2, <2>3
    <2>7. v = IF L < 12 + total * size + 4 THEN "RS_DONE" ELSE "RS_INPUT_ENDED"
      BY <2>2, <2>5
    <2> QED
      BY <1>1, <1>2, <1>3, <1>5, <2>3, <2>4, <2>6, <2>7 DEF h, size, total, L, v
  <1> QED
    BY <1>4, <1>5

\* The blocks in memory are a list that grows, up to the blocks of the file.
LEMMA LoadedFacts ==
    ASSUME NEW file \in Seq(Nat), NEW n \in Nat
    PROVE  /\ Len(Loaded(file, n)) = n
           /\ Append(Loaded(file, n), Entry(file, n + 1)) = Loaded(file, n + 1)
           /\ \A m \in Nat : n <= m => Whole!IsPrefixOf(Loaded(file, n), Loaded(file, m))
           /\ Loaded(file, 0) = <<>>
           /\ BlocksIn(file) = Loaded(file, BlockTotal(file))
  <1>1. ASSUME NEW m \in Nat, NEW S, \A k \in 1 .. m : Entry(file, k) \in S
        PROVE  /\ Loaded(file, m) \in Seq(S) /\ Len(Loaded(file, m)) = m
               /\ \A k \in 1 .. m : Loaded(file, m)[k] = Entry(file, k)
    <2> DEFINE s == Loaded(file, m)
    <2>1. s \in [1 .. m -> S] /\ \A k \in 1 .. m : s[k] = Entry(file, k)
      BY <1>1 DEF Loaded
    <2> HIDE DEF s
    <2>2. s \in Seq(S)
      BY <2>1, SeqDef
    <2>3. DOMAIN s = 1 .. Len(s) /\ Len(s) \in Nat /\ DOMAIN s = 1 .. m
      BY <2>1, <2>2, LenProperties
    <2>4. Len(s) = m
      <3> DEFINE l == Len(s)
      <3>1. l \in Nat /\ 1 .. l = 1 .. m
        BY <2>3
      <3> HIDE DEF l
      <3>2. ~(l < m)
        <4>1. m \in 1 .. m => m \in 1 .. l
          BY <3>1
        <4> QED
          BY <1>1, <3>1, <4>1
      <3>3. ~(m < l)
        <4>1. l \in 1 .. l => l \in 1 .. m
          BY <3>1
        <4> QED
          BY <1>1, <3>1, <4>1
      <3>4. l = m
        BY <1>1, <3>1, <3>2, <3>3
      <3> QED
        BY <3>4 DEF l
    <2> QED
      BY <2>1, <2>2, <2>4 DEF s
  <1>2. Len(Loaded(file, n)) = n
    <2>1. \A k \in 1 .. n : Entry(file, k) \in {Entry(file, i) : i \in 1 .. n}
      OBVIOUS
    <2> QED
      BY <1>1, <2>1
  <1>3. Append(Loaded(file, n), Entry(file, n + 1)) = Loaded(file, n + 1)
    <2> DEFINE S == {Entry(file, i) : i \in 1 .. n + 1}
               s == Loaded(file, n)
               t == Loaded(file, n + 1)
               e == Entry(file, n + 1)
    <2>1. (\A k \in 1 .. n + 1 : Entry(file, k) \in S) /\ n + 1 \in Nat
      OBVIOUS
    <2>2. \A k \in 1 .. n : k \in 1 .. n + 1 /\ k # n + 1
      OBVIOUS
    <2>3. e \in S /\ \A k \in 1 .. n : Entry(file, k) \in S
      BY <2>1, <2>2, SMTT(40)
    <2>4. s \in Seq(S) /\ Len(s) = n /\ \A k \in 1 .. n : s[k] = Entry(file, k)
      <3> HIDE DEF S
      <3> QED
        BY <1>1, <2>3
    <2>5. t \in Seq(S) /\ Len(t) = n + 1 /\ \A k \in 1 .. n + 1 : t[k] = Entry(file, k)
      <3> HIDE DEF S
      <3> QED
        BY <1>1, <2>1
    <2> HIDE DEF S, s, t, e
    <2>6. /\ Append(s, e) \in Seq(S) /\ Len(Append(s, e)) = Len(s) + 1
          /\ \A i \in 1 .. Len(s) : Append(s, e)[i] = s[i]
          /\ Append(s, e)[Len(s) + 1] = e
      BY <2>3, <2>4, AppendProperties
    <2>7. \A i \in 1 .. Len(Append(s, e)) : Append(s, e)[i] = t[i]
      <3> SUFFICES ASSUME NEW i \in 1 .. n + 1
                   PROVE  Append(s, e)[i] = t[i]
        BY <2>4, <2>6
      <3>1. CASE i = n + 1
        BY <2>4, <2>5, <2>6, <3>1 DEF e
      <3>2. CASE i # n + 1
        <4>1. i \in 1 .. n
          BY <3>2
        <4> QED
          BY <2>4, <2>5, <2>6, <4>1
      <3> QED
        BY <3>1, <3>2
    <2>8. Append(s, e) = t
      BY <2>4, <2>5, <2>6, <2>7, SeqEqual
    <2> QED
      BY <2>8 DEF s, t, e
  <1>4. ASSUME NEW m \in Nat, n <= m
        PROVE  Whole!IsPrefixOf(Loaded(file, n), Loaded(file, m))
    <2> DEFINE S == {Entry(file, i) : i \in 1 .. m}
               s == Loaded(file, n)
               t == Loaded(file, m)
               r == SubSeq(t, 1, n)
    <2>1. \A k \in 1 .. m : Entry(file, k) \in S
      OBVIOUS
    <2>2. \A k \in 1 .. n : k \in 1 .. m
      BY <1>4
    <2>3. s \in Seq(S) /\ Len(s) = n /\ \A k \in 1 .. n : s[k] = Entry(file, k)
      <3> HIDE DEF S
      <3> QED
        BY <1>1, <2>1, <2>2
    <2>4. t \in Seq(S) /\ Len(t) = m /\ \A k \in 1 .. m : t[k] = Entry(file, k)
      <3> HIDE DEF S
      <3> QED
        BY <1>1, <2>1
    <2> HIDE DEF S, s, t
    <2>5. /\ r \in Seq(S) /\ Len(r) = IF 1 <= n THEN n - 1 + 1 ELSE 0
          /\ \A i \in 1 .. n - 1 + 1 : r[i] = t[1 + i - 1]
      <3>1. \A i \in 1 .. n : t[i] \in S
        BY <2>1, <2>2, <2>4
      <3>2. 1 \in Int /\ n \in Int
        OBVIOUS
      <3> QED
        BY <3>1, <3>2, SubSeqProperties
    <2>6. Len(r) = n
      BY <2>5
    <2>7. \A i \in 1 .. Len(r) : r[i] = s[i]
      <3> SUFFICES ASSUME NEW i \in 1 .. n
                   PROVE  r[i] = s[i]
        BY <2>6
      <3>1. i \in 1 .. n - 1 + 1 /\ 1 + i - 1 = i /\ i \in 1 .. m
        BY <2>2
      <3>2. r[i] = t[i]
        BY <2>5, <3>1
      <3> QED
        BY <2>3, <2>4, <3>1, <3>2
    <2> HIDE DEF r
    <2>8. r = s
      BY <2>3, <2>5, <2>6, <2>7, SeqEqual
    <2> QED
      BY <1>4, <2>3, <2>4, <2>8 DEF Whole!IsPrefixOf, r, s, t
  <1>5. Loaded(file, 0) = <<>>
    <2>1. \A k \in 1 .. 0 : Entry(file, k) \in {}
      OBVIOUS
    <2>2. Loaded(file, 0) \in Seq({}) /\ Len(Loaded(file, 0)) = 0
      BY <1>1, <2>1
    <2> QED
      BY <2>2, EmptySeq
  <1>6. BlocksIn(file) = Loaded(file, BlockTotal(file))
    <2> DEFINE h == HeaderMeaning(file)
    <2>1. CASE h.result # "RS_DONE"
      BY <1>5, <2>1 DEF BlocksIn, BlockTotal
    <2>2. CASE h.result = "RS_DONE"
      BY <2>2 DEF BlocksIn, BlockTotal, Loaded, Entry, Mixed, WeakAt, StrongAt, BlockSize
    <2> QED
      BY <2>1, <2>2
  <1> QED
    BY <1>2, <1>3, <1>4, <1>5, <1>6

-----------------------------------------------------------------------------
(* The steps.                                                              *)

\* A state function that goes on, or is done: the job as a whole stays in order.
LEMMA LoadsigGoes ==
    ASSUME LoadsigInv, pc = "statefn", NEW j, Work(job, j), SameOutput(job, j), j.asserts, NEW fn,
           fn \in {"rs_loadsig_s_magic", "rs_loadsig_s_blocklen", "rs_loadsig_s_stronglen",
                   "rs_loadsig_s_weak", "rs_loadsig_s_strong"},
           NEW r, r \in {"RS_RUNNING", "RS_DONE"}, Finish(j, fn, r), UNCHANGED sig_fsize
    PROVE  /\ LoadsigTypeOK' /\ EofIsTrue' /\ NoOutput' /\ InTurn' /\ Answered' /\ job'.asserts
           /\ input' = input /\ ~Over /\ ~Over' /\ job' = j
           /\ statefn' = IF r = "RS_DONE" THEN "NULL" ELSE fn
  <1>1. /\ job' = j /\ pc' = "work" /\ statefn' = IF r = "RS_DONE" THEN "NULL" ELSE fn
        /\ input' = input /\ result' = result
    BY DEF Finish
  <1>2. ~Over /\ ~Over'
    BY <1>1 DEF LoadsigInv, InTurn, Over
  <1>3. JobOK(job)'
    <2>1. JobOK(job')
      BY <1>1 DEF Work
    <2> QED
      BY <1>1, <2>1 DEF JobOK
  <1>4. LoadsigTypeOK'
    BY <1>1, <1>3 DEF LoadsigInv, LoadsigTypeOK
  <1>5. EofIsTrue'
    BY <1>1 DEF LoadsigInv, EofIsTrue, Work
  <1>6. NoOutput' /\ InTurn' /\ Answered'
    BY <1>1, <1>2 DEF LoadsigInv, NoOutput, InTurn, Answered, SameOutput
  <1> QED
    BY <1>1, <1>2, <1>4, <1>5, <1>6

\* A state function that returns to the caller: it waits for input, or the job is
\* over with the verdict on the file.
LEMMA LoadsigEnds ==
    ASSUME LoadsigInv, pc = "statefn", NEW j, Work(job, j), SameOutput(job, j), j.asserts,
           NEW v, Finish(j, statefn, v), UNCHANGED <<sig_fsize, sig, sig_blocks>>,
           \/ /\ v = "RS_BLOCKED" /\ j.avail_in = 0 /\ ~j.eof_in /\ j.cursor = job.cursor
              /\ UNCHANGED <<headerVars, weak_sig>>
           \/ /\ v \notin {"RS_RUNNING", "RS_DONE", "RS_BLOCKED"}
              /\ v = FileVerdict(input) /\ sig_blocks = BlockTotal(input)
    PROVE  LoadsigInv' /\ input' = input /\ ~Over
  <1>1. JobOK(j) /\ v \notin {"RS_RUNNING", "RS_DONE"}
    BY DEF Work
  <1>2. /\ input' = input /\ Work(j, job') /\ SameOutput(j, job') /\ SameInput(j, job')
        /\ job'.asserts /\ pc' = "caller" /\ statefn' = statefn
    BY <1>1, FinishFacts
  <1>3. result' = v
    <2>1. Return(j, v)
      BY <1>1 DEF Finish
    <2>2. CASE v = "RS_BLOCKED"
      BY <2>1, <2>2, ReturnStands
    <2>3. CASE v # "RS_BLOCKED"
      BY <1>1, <2>1, <2>3 DEF Return
    <2> QED
      BY <2>2, <2>3
  <1>4. ~Over
    BY DEF LoadsigInv, InTurn
  <1>5. JobOK(job') /\ job'.eof_in = job.eof_in /\ j.eof_in = job.eof_in
        /\ job'.cursor + job'.scoop_avail + job'.avail_in
             = job.cursor + job.scoop_avail + job.avail_in
    BY <1>2 DEF Work
  <1>6. LoadsigTypeOK'
    <2>1. JobOK(job)'
      BY <1>2, <1>5 DEF JobOK
    <2> QED
      BY <1>2, <2>1 DEF LoadsigInv, LoadsigTypeOK
  <1>7. EofIsTrue' /\ NoOutput' /\ InTurn'
    BY <1>2, <1>5 DEF LoadsigInv, EofIsTrue, NoOutput, InTurn, SameOutput
  <1>8. BlocksSoFar' /\ AfterHeader' /\ AtEnd'
    <2>1. statefn # "NULL"
      BY DEF LoadsigInv, NoOutput
    <2> QED
      BY <1>2, <2>1 DEF LoadsigInv, BlocksSoFar, AfterHeader, AtEnd
  <1>9. CASE v = "RS_BLOCKED"
    <2>1. job'.cursor = job.cursor /\ job'.avail_in = 0 /\ ~job'.eof_in
          /\ UNCHANGED <<headerVars, weak_sig>>
      BY <1>2, <1>5, <1>9 DEF SameInput
    <2>2. HeaderSoFar' /\ BlockAhead'
      BY <1>2, <1>4, <2>1 DEF LoadsigInv, HeaderSoFar, BlockAhead, headerVars
    <2>3. Answered'
      BY <1>3, <1>9, <2>1 DEF Answered
    <2> QED
      BY <1>2, <1>4, <1>6, <1>7, <1>8, <2>2, <2>3 DEF LoadsigInv
  <1>10. CASE v # "RS_BLOCKED"
    <2>1. Over' /\ v = FileVerdict(input) /\ sig_blocks = BlockTotal(input) /\ v # "RS_DONE"
      BY <1>1, <1>3, <1>10 DEF Over
    <2>2. HeaderSoFar' /\ BlockAhead'
      BY <2>1 DEF HeaderSoFar, BlockAhead
    <2>3. Answered'
      BY <1>2, <1>3, <2>1 DEF Answered
    <2> QED
      BY <1>2, <1>4, <1>6, <1>7, <1>8, <2>2, <2>3 DEF LoadsigInv
  <1> QED
    BY <1>9, <1>10

\* What reading some bytes does, and that the file is shorter if they do not come.
LEMMA LoadsigReads ==
    ASSUME LoadsigInv, NEW len \in Nat
    PROVE  LET r == Read(job, len)
           IN  /\ Work(job, r.job) /\ SameOutput(job, r.job) /\ r.job.asserts
               /\ r.result \in {"RS_DONE", "RS_INPUT_ENDED", "RS_BLOCKED"}
               /\ r.result = "RS_DONE" =>
                    r.job.cursor = job.cursor + len /\ job.cursor + len <= Len(input)
               /\ r.result # "RS_DONE" => r.job.cursor = job.cursor /\ r.job.avail_in = 0
               /\ r.result = "RS_BLOCKED" => ~r.job.eof_in
               /\ r.result = "RS_INPUT_ENDED" => r.job.eof_in /\ Len(input) < job.cursor + len
               /\ job.cursor \in Nat /\ job.cursor <= Len(input) /\ Len(input) \in Nat
               /\ job.asserts
  <1> DEFINE r == Read(job, len)
             k == r.job
  <1>1. JobOK(job) /\ job.asserts
    BY DEF LoadsigInv, LoadsigTypeOK
  <1>2. /\ Work(job, k) /\ SameOutput(job, k) /\ (job.asserts => k.asserts)
        /\ r.result \in {"RS_DONE", "RS_INPUT_ENDED", "RS_BLOCKED"}
        /\ k.cursor = IF r.result = "RS_DONE" THEN job.cursor + len ELSE job.cursor
        /\ r.result = "RS_INPUT_ENDED" => job.eof_in
        /\ r.result = "RS_BLOCKED" => ~job.eof_in /\ k.avail_in = 0
        /\ r.result = "RS_DONE" => job.cursor + len <= Len(input)
    BY <1>1, ReadFacts
  <1>3. r.result # "RS_DONE" => k.avail_in = 0 /\ rs_scoop_avail(job) < len
    BY <1>1, ReadShort
  <1>4. k.eof_in = job.eof_in
    BY <1>2 DEF Work
  <1>5. /\ job.cursor \in Nat /\ job.scoop_avail \in Nat /\ job.avail_in \in Nat
        /\ Len(input) \in Nat /\ job.cursor + job.scoop_avail + job.avail_in <= Len(input)
    BY <1>1, LengthFacts DEF JobOK
  <1>6. r.result = "RS_INPUT_ENDED" => Len(input) < job.cursor + len
    <2> SUFFICES ASSUME r.result = "RS_INPUT_ENDED"
                 PROVE  Len(input) < job.cursor + len
      OBVIOUS
    <2>1. job.cursor + job.scoop_avail + job.avail_in = Len(input)
      BY <1>2 DEF LoadsigInv, EofIsTrue
    <2>2. job.scoop_avail + job.avail_in < len
      BY <1>3 DEF rs_scoop_avail
    <2> HIDE DEF r
    <2> QED
      BY <1>5, <2>1, <2>2
  <1>7. job.cursor <= Len(input)
    BY <1>5
  <1> HIDE DEF r
  <1> QED
    BY <1>1, <1>2, <1>3, <1>4, <1>5, <1>6, <1>7 DEF r

\* A signature file consists of bytes, too.
LEMMA SignatureBytes ==
    ASSUME NEW s \in Sources
    PROVE  SignatureOf(s.basis, s.args) \in Seq(Nat)
  <1>1. Summable(s.basis) /\ ArgsOK(s.args)
    BY LoadsigAssumption
  <1>2. CASE rs_sig_args(-1, s.args).result = "RS_DONE"
    <2>1. BlockCount(s.basis, rs_sig_args(-1, s.args).block_len) \in Nat
      BY <1>1, <1>2, PartsFacts
    <2>2. 0 \in 0 .. BlockCount(s.basis, rs_sig_args(-1, s.args).block_len)
      BY <2>1
    <2> QED
      BY <1>1, <1>2, <2>2, PartsGrow
  <1>3. CASE rs_sig_args(-1, s.args).result # "RS_DONE"
    <2>1. SignatureOf(s.basis, s.args) = <<>>
      BY <1>3 DEF SignatureOf
    <2> QED
      BY <2>1, EmptySeq
  <1> QED
    BY <1>2, <1>3

\* A fresh job has read nothing.
LEMMA LoadsigInit == Init => LoadsigInv
  <1> SUFFICES ASSUME Init
               PROVE  LoadsigInv
    OBVIOUS
  <1>1. input \in Seq(Nat) /\ EngineInit("rs_loadsig_s_magic") /\ sig_fsize \in Int
    <2>1. \A s \in Sources : SignatureOf(s.basis, s.args) \in Seq(Nat)
      BY SignatureBytes
    <2> QED
      BY <2>1, LoadsigAssumption DEF Init
  <1>2. /\ JobOK(job) /\ job.cursor = 0 /\ job.scoop_avail = 0 /\ job.avail_in = 0
        /\ job.eof_in = FALSE /\ job.write_buf = <<>> /\ job.copy_len = 0 /\ job.asserts
        /\ statefn = "rs_loadsig_s_magic" /\ pc = "caller" /\ result = "RS_RUNNING"
    BY <1>1, EngineInitFacts
  <1>3. /\ sig_blocks = 0 /\ sig.size = 0 /\ sig.block_sigs = <<>>
        /\ DOMAIN sig = {"magic", "block_len", "strong_sum_len", "size", "block_sigs"}
    BY DEF Init
  <1>4. BlocksSoFar
    <2>1. BlockTotal(input) \in Nat /\ Loaded(input, 0) = <<>>
      BY <1>1, FileFacts, LoadedFacts
    <2>2. 0 \in 0 .. BlockTotal(input)
      BY <2>1
    <2> QED
      BY <1>3, <2>1, <2>2 DEF BlocksSoFar
  <1>5. LoadsigTypeOK /\ EofIsTrue /\ NoOutput /\ InTurn
    BY <1>1, <1>2 DEF LoadsigTypeOK, EofIsTrue, NoOutput, InTurn, Over
  <1>6. HeaderSoFar /\ AfterHeader /\ BlockAhead /\ AtEnd /\ Answered
    BY <1>2, <1>3 DEF HeaderSoFar, AfterHeader, BlockAhead, AtEnd, Answered
  <1> QED
    BY <1>2, <1>4, <1>5, <1>6 DEF LoadsigInv

\* The caller brings some more of the file, or says that there is none.
LEMMA LoadsigCallIter ==
    ASSUME LoadsigInv, Caller(CallIter)
    PROVE  LoadsigInv' /\ input' = input /\ ~Over
  <1>1. PICK n \in 0 .. Len(input), e \in BOOLEAN, m \in 0 .. MaxOut : Iter(n, e, m)
    BY DEF Caller, CallIter
  <1>2. UNCHANGED <<headerVars, weak_sig, sig, sig_blocks>>
    BY DEF Caller
  <1>3. /\ JobOK(job) /\ Call(n, e, m) /\ result \in {"RS_RUNNING", "RS_BLOCKED"}
        /\ n > 0 => ~job.eof_in
        /\ IF job.eof_in THEN e ELSE e => job.cursor + rs_scoop_avail(job) + n = Len(input)
    BY <1>1 DEF Iter, LoadsigInv, LoadsigTypeOK
  <1>4. /\ job.cursor \in Nat /\ job.scoop_avail \in Nat /\ job.avail_in \in Nat
        /\ Len(input) \in Nat /\ MaxOut \in Nat
    BY <1>3, LengthFacts, JobAssumption DEF JobOK
  <1>5. n \in Nat /\ m \in Nat /\ n \in Int /\ job.avail_in + n \in Nat
    BY <1>4
  <1>6. job.cursor + job.scoop_avail + job.avail_in + n <= Len(input)
    <2>1. job.cursor + (job.scoop_avail + job.avail_in) + n <= Len(input)
      BY <1>1 DEF Iter, rs_scoop_avail
    <2> QED
      BY <1>4, <1>5, <2>1
  <1>7. /\ JobOK(job') /\ job'.cursor = job.cursor /\ job'.scoop_avail = job.scoop_avail
        /\ job'.avail_in = job.avail_in + n /\ job'.eof_in = e
        /\ job'.write_buf = job.write_buf
        /\ job'.copy_len = job.copy_len /\ job'.asserts = job.asserts
        /\ pc' = "work" /\ UNCHANGED <<input, statefn, result>>
    BY <1>3, <1>5, <1>6, CallFacts
  <1>8. JobOK(job)'
    BY <1>7 DEF JobOK
  <1>9. ~Over /\ ~Over'
    BY <1>3, <1>7 DEF Over
  <1>10. LoadsigTypeOK' /\ NoOutput' /\ InTurn' /\ job'.asserts /\ Answered'
    BY <1>2, <1>7, <1>8, <1>9
       DEF LoadsigInv, LoadsigTypeOK, NoOutput, InTurn, Answered, headerVars
  <1>11. HeaderSoFar' /\ BlocksSoFar' /\ AfterHeader' /\ BlockAhead'
    BY <1>2, <1>7, <1>9
       DEF LoadsigInv, HeaderSoFar, BlocksSoFar, AfterHeader, BlockAhead, headerVars
  <1>12. EofIsTrue'
    <2> SUFFICES ASSUME e
                 PROVE  job'.cursor + job'.scoop_avail + job'.avail_in = Len(input)
      BY <1>7 DEF EofIsTrue
    <2>1. job.eof_in => n = 0 /\ job.cursor + job.scoop_avail + job.avail_in = Len(input)
      BY <1>3, <1>5 DEF LoadsigInv, EofIsTrue
    <2>2. ~job.eof_in => job.cursor + (job.scoop_avail + job.avail_in) + n = Len(input)
      BY <1>3 DEF rs_scoop_avail
    <2> QED
      BY <1>4, <1>5, <1>7, <2>1, <2>2, SMTT(40)
  <1>13. AtEnd'
    <2> SUFFICES ASSUME statefn = "NULL"
                 PROVE  /\ sig_blocks = BlockTotal(input) /\ FileVerdict(input) = "RS_DONE"
                        /\ e /\ job'.avail_in = 0
      BY <1>2, <1>7 DEF AtEnd
    <2>1. /\ sig_blocks = BlockTotal(input) /\ FileVerdict(input) = "RS_DONE"
          /\ job.eof_in /\ job.avail_in = 0
      BY DEF LoadsigInv, AtEnd
    <2>2. e /\ n = 0
      BY <1>3, <1>5, <2>1
    <2> QED
      BY <1>7, <2>1, <2>2
  <1> QED
    BY <1>7, <1>9, <1>10, <1>11, <1>12, <1>13 DEF LoadsigInv

\* The head of the loop of rs_job_work: there is nothing in the tube, so it goes on
\* to the state function, or ends the job when there is none.
LEMMA LoadsigCatchup ==
    ASSUME LoadsigInv, Caller(Catchup)
    PROVE  LoadsigInv' /\ input' = input /\ ~Over /\ sig_blocks' = sig_blocks
  <1> DEFINE c == rs_tube_catchup(job)
             k == c.job
  <1>1. pc = "work" /\ UNCHANGED <<headerVars, weak_sig, sig, sig_blocks, statefn>>
    BY DEF Caller, Catchup
  <1>2. JobOK(job) /\ job.copy_len = 0 /\ job.write_buf = <<>> /\ job.asserts /\ ~Over
    BY <1>1 DEF LoadsigInv, LoadsigTypeOK, NoOutput, InTurn
  <1>3. /\ Work(job, k) /\ k.asserts = job.asserts
        /\ SameInput(job, k) /\ k.eof_in = job.eof_in /\ k.copy_len = 0
        /\ k.write_buf = <<>> /\ c.result = "RS_DONE"
    <2>1. /\ Work(job, k) /\ k.asserts = job.asserts
          /\ SameInput(job, k) /\ k.eof_in = job.eof_in /\ k.copy_len = 0
          /\ c.result = "RS_DONE" => k.write_buf = <<>>
          /\ c.result # "RS_DONE" =>
               c.result = "RS_BLOCKED" /\ k.write_buf # <<>> /\ k.avail_out = 0
      BY <1>2, CatchupPlain
    <2>2. k.write_buf = <<>>
      BY <1>2, CatchupFacts
    <2> HIDE DEF c
    <2> QED
      BY <2>1, <2>2
  <1>4. \/ statefn # "NULL" /\ job' = k /\ pc' = "statefn" /\ UNCHANGED <<input, result>>
        \/ statefn = "NULL" /\ Return(k, "RS_DONE")
    BY <1>3 DEF Caller, Catchup
  <1> HIDE DEF c
  <1>5. JobOK(k)
    BY <1>3 DEF Work
  <1>6. /\ Work(k, job') /\ SameOutput(k, job') /\ SameInput(k, job') /\ job'.asserts
        /\ input' = input
        /\ \/ pc' = "statefn" /\ statefn # "NULL" /\ result' = result
           \/ pc' = "caller" /\ result' = "RS_DONE" /\ statefn = "NULL"
    <2>1. CASE statefn = "NULL" /\ Return(k, "RS_DONE")
      <3>1. rs_tube_is_idle(k)
        BY <1>3 DEF rs_tube_is_idle
      <3>2. k.avail_in = 0
        BY <1>3, <2>1 DEF LoadsigInv, AtEnd, SameInput
      <3>3. result' = "RS_DONE"
        BY <2>1, <3>2, ReturnStands
      <3> QED
        BY <1>2, <1>3, <1>5, <2>1, <3>1, <3>3, ReturnFacts
    <2>2. CASE statefn # "NULL" /\ job' = k /\ pc' = "statefn" /\ UNCHANGED <<input, result>>
      BY <1>2, <1>3, <1>5, <2>2, WorkAddsUp DEF SameOutput, SameInput
    <2> QED
      BY <1>4, <2>1, <2>2
  <1>7. /\ JobOK(job') /\ SameInput(job, job') /\ job'.eof_in = job.eof_in /\ job'.copy_len = 0
        /\ job'.write_buf = <<>>
    BY <1>3, <1>6 DEF SameOutput, SameInput, Work
  <1>8. LoadsigTypeOK'
    <2>1. JobOK(job)'
      BY <1>6, <1>7 DEF JobOK
    <2> QED
      BY <1>1, <1>6, <2>1 DEF LoadsigInv, LoadsigTypeOK, headerVars
  <1>9. NoOutput' /\ InTurn'
    BY <1>1, <1>2, <1>6, <1>7 DEF NoOutput, InTurn, Over
  <1>10. EofIsTrue' /\ AtEnd'
    BY <1>1, <1>6, <1>7 DEF LoadsigInv, EofIsTrue, AtEnd, SameInput
  <1>11. BlocksSoFar' /\ AfterHeader'
    BY <1>1, <1>6 DEF LoadsigInv, BlocksSoFar, AfterHeader
  <1>12. HeaderSoFar' /\ BlockAhead'
    BY <1>1, <1>2, <1>6, <1>7 DEF LoadsigInv, HeaderSoFar, BlockAhead, SameInput, headerVars
  <1>13. Answered'
    BY <1>1, <1>6, <1>7 DEF LoadsigInv, Answered, AtEnd, SameInput
  <1> QED
    BY <1>1, <1>2, <1>6, <1>8, <1>9, <1>10, <1>11, <1>12, <1>13 DEF LoadsigInv

\* Nothing happens.
LEMMA LoadsigSame ==
    ASSUME LoadsigInv, UNCHANGED vars
    PROVE  LoadsigInv'
  <1>1. UNCHANGED <<engineVars, headerVars, weak_sig, sig, sig_blocks>>
    BY DEF vars
  <1>2. /\ input' = input /\ job' = job /\ statefn' = statefn /\ pc' = pc /\ result' = result
        /\ UNCHANGED <<sig_fsize, sig_magic, sig_block_len, weak_sig, sig, sig_blocks>>
    BY <1>1 DEF engineVars, headerVars
  <1>3. JobOK(job)'
    BY <1>2 DEF LoadsigInv, LoadsigTypeOK, JobOK
  <1>4. LoadsigTypeOK' /\ EofIsTrue' /\ NoOutput' /\ InTurn' /\ Answered' /\ job'.asserts
    BY <1>2, <1>3 DEF LoadsigInv, LoadsigTypeOK, EofIsTrue, NoOutput, InTurn, Answered, Over
  <1>5. HeaderSoFar' /\ BlocksSoFar' /\ AfterHeader' /\ BlockAhead' /\ AtEnd'
    BY <1>2 DEF LoadsigInv, HeaderSoFar, BlocksSoFar, AfterHeader, BlockAhead, AtEnd, Over
  <1> QED
    BY <1>4, <1>5 DEF LoadsigInv

\* A header that is refused has no blocks behind it, and its verdict is the file's.
LEMMA LoadsigRefused ==
    ASSUME LoadsigInv, HeaderMeaning(input).result # "RS_DONE"
    PROVE  sig_blocks = BlockTotal(input) /\ FileVerdict(input) = HeaderMeaning(input).result
  <1>1. input \in Seq(Nat) /\ sig_blocks \in 0 .. BlockTotal(input)
    BY DEF LoadsigInv, LoadsigTypeOK, BlocksSoFar
  <1>2. BlockTotal(input) = 0 /\ FileVerdict(input) = HeaderMeaning(input).result
    BY <1>1, FileFacts
  <1> QED
    BY <1>1, <1>2

\* The first field.
LEMMA LoadsigMagic ==
    ASSUME LoadsigInv, rs_loadsig_s_magic
    PROVE  LoadsigInv' /\ input' = input /\ ~Over /\ sig_blocks' = sig_blocks
  <1> DEFINE r == Read(job, 4)
             h == HeaderMeaning(input)
  <1>1. /\ pc = "statefn" /\ statefn = "rs_loadsig_s_magic"
        /\ UNCHANGED <<sig_fsize, sig_block_len, sig_strong_len, weak_sig, sig, sig_blocks>>
        /\ \/ r.result # "RS_DONE" /\ Finish(r.job, statefn, r.result) /\ UNCHANGED sig_magic
           \/ /\ r.result = "RS_DONE" /\ sig_magic' = Number
              /\ Finish(r.job, "rs_loadsig_s_blocklen", "RS_RUNNING")
    BY DEF rs_loadsig_s_magic, Running
  <1>2. /\ Work(job, r.job) /\ SameOutput(job, r.job) /\ r.job.asserts
        /\ r.result \in {"RS_DONE", "RS_INPUT_ENDED", "RS_BLOCKED"}
        /\ r.result = "RS_DONE" => r.job.cursor = job.cursor + 4
        /\ r.result # "RS_DONE" => r.job.cursor = job.cursor /\ r.job.avail_in = 0
        /\ r.result = "RS_BLOCKED" => ~r.job.eof_in
        /\ r.result = "RS_INPUT_ENDED" => Len(input) < job.cursor + 4
        /\ Len(input) \in Nat
    BY LoadsigReads
  <1>3. input \in Seq(Nat) /\ job.cursor = 0 /\ sig_blocks = 0
    BY <1>1 DEF LoadsigInv, LoadsigTypeOK, InTurn, HeaderSoFar
  <1> HIDE DEF r
  <1>4. CASE r.result = "RS_BLOCKED"
    <2>1. Finish(r.job, statefn, "RS_BLOCKED") /\ UNCHANGED <<headerVars, weak_sig>>
      BY <1>1, <1>4 DEF headerVars
    <2> QED
      BY <1>1, <1>2, <1>4, <2>1, LoadsigEnds
  <1>5. CASE r.result = "RS_INPUT_ENDED"
    <2>1. Len(input) < 8
      BY <1>2, <1>3, <1>5
    <2>2. h.result = "RS_INPUT_ENDED"
      BY <1>3, <2>1, HeaderCases
    <2>3. sig_blocks = BlockTotal(input) /\ FileVerdict(input) = "RS_INPUT_ENDED"
      BY <2>2, LoadsigRefused
    <2>4. Finish(r.job, statefn, "RS_INPUT_ENDED")
      BY <1>1, <1>5
    <2> QED
      BY <1>1, <1>2, <2>3, <2>4, LoadsigEnds
  <1>6. CASE r.result = "RS_DONE"
    <2>1. sig_magic' = Number /\ Finish(r.job, "rs_loadsig_s_blocklen", "RS_RUNNING")
      BY <1>1, <1>6
    <2>2. /\ LoadsigTypeOK' /\ EofIsTrue' /\ NoOutput' /\ InTurn' /\ Answered' /\ job'.asserts
          /\ input' = input /\ ~Over /\ job' = r.job /\ statefn' = "rs_loadsig_s_blocklen"
      BY <1>1, <1>2, <2>1, LoadsigGoes
    <2>3. Number = Field(input, 1)
      BY <1>3, FieldFacts DEF Number, NextBytes
    <2>4. job'.cursor = 4
      BY <1>2, <1>3, <1>6, <2>2
    <2>5. HeaderSoFar' /\ AfterHeader' /\ BlockAhead' /\ AtEnd'
      BY <1>1, <1>3, <2>1, <2>2, <2>3, <2>4 DEF HeaderSoFar, AfterHeader, BlockAhead, AtEnd
    <2>6. BlocksSoFar'
      BY <1>1, <2>2 DEF LoadsigInv, BlocksSoFar
    <2> QED
      BY <1>1, <2>2, <2>5, <2>6 DEF LoadsigInv
  <1> QED
    BY <1>2, <1>4, <1>5, <1>6

\* The second field, which must not be less than 1.
LEMMA LoadsigBlocklen ==
    ASSUME LoadsigInv, rs_loadsig_s_blocklen
    PROVE  LoadsigInv' /\ input' = input /\ ~Over /\ sig_blocks' = sig_blocks
  <1> DEFINE r == Read(job, 4)
             h == HeaderMeaning(input)
  <1>1. /\ pc = "statefn" /\ statefn = "rs_loadsig_s_blocklen"
        /\ UNCHANGED <<sig_fsize, sig_magic, sig_strong_len, weak_sig, sig, sig_blocks>>
        /\ \/ r.result # "RS_DONE" /\ Finish(r.job, statefn, r.result) /\ UNCHANGED sig_block_len
           \/ r.result = "RS_DONE" /\ Number < 1 /\ Finish(r.job, statefn, "RS_CORRUPT")
           \/ /\ r.result = "RS_DONE" /\ Number >= 1 /\ sig_block_len' = Number
              /\ Finish(r.job, "rs_loadsig_s_stronglen", "RS_RUNNING")
    BY DEF rs_loadsig_s_blocklen, Running
  <1>2. /\ Work(job, r.job) /\ SameOutput(job, r.job) /\ r.job.asserts
        /\ r.result \in {"RS_DONE", "RS_INPUT_ENDED", "RS_BLOCKED"}
        /\ r.result = "RS_DONE" => r.job.cursor = job.cursor + 4 /\ job.cursor + 4 <= Len(input)
        /\ r.result # "RS_DONE" => r.job.cursor = job.cursor /\ r.job.avail_in = 0
        /\ r.result = "RS_BLOCKED" => ~r.job.eof_in
        /\ r.result = "RS_INPUT_ENDED" => Len(input) < job.cursor + 4
        /\ Len(input) \in Nat
    BY LoadsigReads
  <1>3. input \in Seq(Nat) /\ job.cursor = 4 /\ sig_magic = Field(input, 1) /\ sig_blocks = 0
    BY <1>1 DEF LoadsigInv, LoadsigTypeOK, InTurn, HeaderSoFar
  <1>4. Number = Field(input, 2)
    BY <1>3, FieldFacts DEF Number, NextBytes
  <1> HIDE DEF r
  <1>5. CASE r.result = "RS_BLOCKED"
    <2>1. Finish(r.job, statefn, "RS_BLOCKED") /\ UNCHANGED <<headerVars, weak_sig>>
      BY <1>1, <1>5 DEF headerVars
    <2> QED
      BY <1>1, <1>2, <1>5, <2>1, LoadsigEnds
  <1>6. CASE r.result = "RS_INPUT_ENDED"
    <2>1. Len(input) < 8
      BY <1>2, <1>3, <1>6
    <2>2. h.result = "RS_INPUT_ENDED"
      BY <1>3, <2>1, HeaderCases
    <2>3. sig_blocks = BlockTotal(input) /\ FileVerdict(input) = "RS_INPUT_ENDED"
      BY <2>2, LoadsigRefused
    <2>4. Finish(r.job, statefn, "RS_INPUT_ENDED")
      BY <1>1, <1>6
    <2> QED
      BY <1>1, <1>2, <2>3, <2>4, LoadsigEnds
  <1>7. CASE r.result = "RS_DONE" /\ Number < 1
    <2>1. Finish(r.job, statefn, "RS_CORRUPT")
      <3>1. Len(input) >= 8
        BY <1>2, <1>3, <1>7
      <3>2. Number \in Int
        BY <1>3, <1>4, <3>1, FieldFacts
      <3> QED
        BY <1>1, <1>7, <3>2
    <2>2. Len(input) >= 8 /\ Field(input, 2) < 1
      BY <1>2, <1>3, <1>4, <1>7
    <2>3. h.result = "RS_CORRUPT"
      BY <1>3, <2>2, HeaderCases
    <2>4. sig_blocks = BlockTotal(input) /\ FileVerdict(input) = "RS_CORRUPT"
      BY <2>3, LoadsigRefused
    <2> QED
      BY <1>1, <1>2, <2>1, <2>4, LoadsigEnds
  <1>8. CASE r.result = "RS_DONE" /\ ~(Number < 1)
    <2>1. /\ sig_block_len' = Number /\ Number >= 1
          /\ Finish(r.job, "rs_loadsig_s_stronglen", "RS_RUNNING")
      BY <1>1, <1>8
    <2>2. /\ LoadsigTypeOK' /\ EofIsTrue' /\ NoOutput' /\ InTurn' /\ Answered' /\ job'.asserts
          /\ input' = input /\ ~Over /\ job' = r.job /\ statefn' = "rs_loadsig_s_stronglen"
      BY <1>1, <1>2, <2>1, LoadsigGoes
    <2>3. job'.cursor = 8
      BY <1>2, <1>3, <1>8, <2>2
    <2>4. HeaderSoFar' /\ AfterHeader' /\ BlockAhead' /\ AtEnd'
      BY <1>1, <1>3, <1>4, <2>1, <2>2, <2>3 DEF HeaderSoFar, AfterHeader, BlockAhead, AtEnd
    <2>5. BlocksSoFar'
      BY <1>1, <2>2 DEF LoadsigInv, BlocksSoFar
    <2> QED
      BY <1>1, <2>2, <2>4, <2>5 DEF LoadsigInv
  <1> QED
    BY <1>2, <1>5, <1>6, <1>7, <1>8

\* The third field, and the verdict on the header: the signature made of a good one
\* passes rs_signature_check whatever size of the file was announced.
LEMMA LoadsigStronglen ==
    ASSUME LoadsigInv, rs_loadsig_s_stronglen
    PROVE  LoadsigInv' /\ input' = input /\ ~Over /\ sig_blocks' = sig_blocks
  <1> DEFINE r == Read(job, 4)
             h == HeaderMeaning(input)
             x == [magic |-> sig_magic, block_len |-> sig_block_len, strong_len |-> Number]
             a == rs_sig_args(-1, x)
             new == rs_signature_init(a, sig_fsize)
             j == Assert_(r.job, SignatureOK(new))
             implausible == Number < 0 \/ Number > RS_MAX_STRONG_SUM_LENGTH
  <1>1. /\ pc = "statefn" /\ statefn = "rs_loadsig_s_stronglen"
        /\ UNCHANGED <<sig_fsize, sig_magic, sig_block_len, weak_sig, sig_blocks>>
        /\ \/ /\ r.result # "RS_DONE" /\ Finish(r.job, statefn, r.result)
              /\ UNCHANGED <<sig_strong_len, sig>>
           \/ /\ r.result = "RS_DONE" /\ implausible /\ Finish(r.job, statefn, "RS_CORRUPT")
              /\ UNCHANGED sig
           \/ /\ r.result = "RS_DONE" /\ ~implausible
              /\ IF a.result # "RS_DONE"
                   THEN Finish(r.job, statefn, a.result) /\ UNCHANGED sig
                   ELSE sig' = new /\ Finish(j, "rs_loadsig_s_weak", "RS_RUNNING")
    BY DEF rs_loadsig_s_stronglen, Running
  <1>2. /\ Work(job, r.job) /\ SameOutput(job, r.job) /\ r.job.asserts
        /\ r.result \in {"RS_DONE", "RS_INPUT_ENDED", "RS_BLOCKED"}
        /\ r.result = "RS_DONE" => r.job.cursor = job.cursor + 4 /\ job.cursor + 4 <= Len(input)
        /\ r.result # "RS_DONE" => r.job.cursor = job.cursor /\ r.job.avail_in = 0
        /\ r.result = "RS_BLOCKED" => ~r.job.eof_in
        /\ r.result = "RS_INPUT_ENDED" => Len(input) < job.cursor + 4
        /\ Len(input) \in Nat /\ job.cursor <= Len(input)
    BY LoadsigReads
  <1>3. /\ input \in Seq(Nat) /\ job.cursor = 8 /\ sig_magic = Field(input, 1)
        /\ sig_block_len = Field(input, 2) /\ Field(input, 2) >= 1 /\ sig_blocks = 0
        /\ sig_fsize \in Int
    BY <1>1 DEF LoadsigInv, LoadsigTypeOK, InTurn, HeaderSoFar
  <1>4. Number = Field(input, 3)
    BY <1>3, FieldFacts DEF Number, NextBytes
  <1>5. Len(input) >= 8 /\ (r.result = "RS_DONE" => Len(input) >= 12)
    BY <1>2, <1>3
  <1>6. Len(input) >= 12 => Number \in Int
    BY <1>3, <1>4, FieldFacts
  <1> HIDE DEF r
  <1>7. CASE r.result = "RS_BLOCKED"
    <2>1. Finish(r.job, statefn, "RS_BLOCKED") /\ UNCHANGED <<headerVars, weak_sig, sig>>
      BY <1>1, <1>7 DEF headerVars
    <2> QED
      BY <1>1, <1>2, <1>7, <2>1, LoadsigEnds
  <1>8. CASE r.result = "RS_INPUT_ENDED"
    <2>1. Len(input) < 12
      BY <1>2, <1>3, <1>8
    <2>2. h.result = "RS_INPUT_ENDED"
      BY <1>3, <1>5, <2>1, HeaderCases
    <2>3. sig_blocks = BlockTotal(input) /\ FileVerdict(input) = "RS_INPUT_ENDED"
      BY <2>2, LoadsigRefused
    <2>4. Finish(r.job, statefn, "RS_INPUT_ENDED") /\ UNCHANGED sig
      BY <1>1, <1>8
    <2> QED
      BY <1>1, <1>2, <2>3, <2>4, LoadsigEnds
  <1>9. CASE r.result = "RS_DONE" /\ implausible
    <2>1. Finish(r.job, statefn, "RS_CORRUPT") /\ UNCHANGED sig
      BY <1>1, <1>9
    <2>2. Field(input, 3) \notin 0 .. RS_MAX_STRONG_SUM_LENGTH
      BY <1>4, <1>5, <1>6, <1>9, SigArgsAssumption
    <2>3. h.result = "RS_CORRUPT"
      BY <1>3, <1>5, <1>9, <2>2, HeaderCases
    <2>4. sig_blocks = BlockTotal(input) /\ FileVerdict(input) = "RS_CORRUPT"
      BY <2>3, LoadsigRefused
    <2> QED
      BY <1>1, <1>2, <2>1, <2>4, LoadsigEnds
  <1>10. CASE r.result = "RS_DONE" /\ ~implausible
    <2>1. IF a.result # "RS_DONE"
            THEN Finish(r.job, statefn, a.result) /\ UNCHANGED sig
            ELSE sig' = new /\ Finish(j, "rs_loadsig_s_weak", "RS_RUNNING")
      BY <1>1, <1>10
    <2>2. Field(input, 3) \in 0 .. RS_MAX_STRONG_SUM_LENGTH
      BY <1>4, <1>5, <1>6, <1>10, SigArgsAssumption
    <2>3. a = rs_sig_args(-1, [magic |-> Field(input, 1), block_len |-> Field(input, 2),
                               strong_len |-> Field(input, 3)])
      BY <1>3, <1>4
    <2> HIDE DEF a, implausible
    <2>4. /\ h.result = a.result /\ h.magic = a.magic /\ h.strong_len = a.strong_len
          /\ a.result \in {"RS_BAD_MAGIC", "RS_PARAM_ERROR", "RS_DONE"}
          /\ a.strong_len \in Nat \ {0}
          /\ a.result = "RS_DONE" => rs_sig_args_check(a.magic, a.block_len, a.strong_len)
      BY <1>3, <1>5, <1>10, <2>2, <2>3, HeaderCases
    <2>5. CASE a.result # "RS_DONE"
      <3>1. sig_blocks = BlockTotal(input) /\ FileVerdict(input) = a.result
        BY <2>4, <2>5, LoadsigRefused
      <3>2. Finish(r.job, statefn, a.result) /\ UNCHANGED sig
        BY <2>1, <2>5
      <3>3. a.result \notin {"RS_RUNNING", "RS_DONE", "RS_BLOCKED"}
        BY <2>4, <2>5
      <3> QED
        BY <1>1, <1>2, <3>1, <3>2, <3>3, LoadsigEnds
    <2>6. CASE a.result = "RS_DONE"
      <3>1. sig' = new /\ Finish(j, "rs_loadsig_s_weak", "RS_RUNNING")
        BY <2>1, <2>6
      <3>2. /\ new.magic = a.magic /\ new.block_len = a.block_len
            /\ new.strong_sum_len = a.strong_len /\ new.block_sigs = <<>>
            /\ DOMAIN new = {"magic", "block_len", "strong_sum_len", "size", "block_sigs"}
            /\ new.size = IF sig_fsize < 12 THEN 0 ELSE (sig_fsize - 12) \div (4 + a.strong_len)
        BY DEF rs_signature_init
      <3> HIDE DEF new
      <3>3. new.size \in Nat
        <4>1. CASE sig_fsize < 12
          BY <3>2, <4>1
        <4>2. CASE ~(sig_fsize < 12)
          <5>1. sig_fsize - 12 \in Nat /\ 4 + a.strong_len \in Nat \ {0}
            BY <1>3, <2>4, <4>2
          <5>2. (sig_fsize - 12) \div (4 + a.strong_len) \in Nat
            BY <5>1, DivFacts
          <5> QED
            BY <3>2, <4>2, <5>2
        <4> QED
          BY <4>1, <4>2
      <3>4. SignatureOK(new)
        <4>1. Len(<<>>) <= new.size
          BY <3>3
        <4> QED
          BY <2>4, <2>6, <3>2, <4>1 DEF SignatureOK
      <3>5. Work(job, j) /\ SameOutput(job, j) /\ SameInput(r.job, j) /\ j.asserts
        <4>1. JobOK(r.job) /\ JobOK(job)
          BY <1>2 DEF Work, LoadsigInv, LoadsigTypeOK
        <4>2. Work(r.job, j) /\ SameOutput(r.job, j) /\ SameInput(r.job, j) /\ j.asserts
          BY <1>2, <3>4, <4>1, AssertFacts
        <4>3. Work(job, j)
          BY <1>2, <4>1, <4>2, WorkAddsUp
        <4> QED
          BY <1>2, <4>2, <4>3 DEF SameOutput
      <3> HIDE DEF j
      <3>6. /\ LoadsigTypeOK' /\ EofIsTrue' /\ NoOutput' /\ InTurn' /\ Answered' /\ job'.asserts
            /\ input' = input /\ ~Over /\ job' = j /\ statefn' = "rs_loadsig_s_weak"
        BY <1>1, <3>1, <3>5, LoadsigGoes
      <3>7. job'.cursor = 12
        BY <1>2, <1>3, <1>10, <3>5, <3>6 DEF SameInput
      <3>8. HeaderSoFar' /\ AtEnd'
        BY <3>6 DEF HeaderSoFar, AtEnd
      <3>9. AfterHeader'
        <4>1. a.block_len = ParamsIn(input).block_len
          BY <2>3 DEF ParamsIn
        <4> QED
          BY <2>4, <2>6, <3>1, <3>2, <3>6, <4>1 DEF AfterHeader
      <3>10. BlockAhead'
        <4>1. BlockSize(input) \in Nat
          BY <2>4 DEF BlockSize
        <4>2. 12 + 0 * BlockSize(input) = 12
          BY <4>1
        <4> QED
          BY <1>1, <1>3, <3>6, <3>7, <4>2 DEF BlockAhead
      <3>11. BlocksSoFar'
        <4>1. Loaded(input, 0) = <<>>
          BY <1>3, LoadedFacts
        <4>2. sig_blocks' \in 0 .. BlockTotal(input)
          BY <1>1 DEF LoadsigInv, BlocksSoFar
        <4>3. 0 <= new.size
          BY <3>3
        <4> QED
          BY <1>1, <1>3, <3>1, <3>2, <3>3, <3>6, <4>1, <4>2, <4>3 DEF BlocksSoFar
      <3> QED
        BY <1>1, <3>6, <3>8, <3>9, <3>10, <3>11 DEF LoadsigInv
    <2> QED
      BY <2>5, <2>6
  <1> QED
    BY <1>2, <1>7, <1>8, <1>9, <1>10

\* The position of a block, and what a file that ends before or in it means.
LEMMA BlockPlace ==
    ASSUME NEW file \in Seq(Nat), HeaderMeaning(file).result = "RS_DONE", NEW n \in Nat,
           n <= BlockTotal(file)
    PROVE  LET place == 12 + n * BlockSize(file)
               len == HeaderMeaning(file).strong_len
           IN  /\ place \in Nat /\ len \in Nat /\ BlockSize(file) = 4 + len
               /\ 12 + (n + 1) * BlockSize(file) = place + 4 + len
               /\ Len(file) < place + 4 => n = BlockTotal(file) /\ FileVerdict(file) = "RS_DONE"
               /\ place + 4 <= Len(file) /\ Len(file) < place + 4 + len =>
                    n = BlockTotal(file) /\ FileVerdict(file) = "RS_INPUT_ENDED"
               /\ place + 4 + len <= Len(file) => n + 1 <= BlockTotal(file)
  <1> DEFINE size == BlockSize(file)
             total == BlockTotal(file)
             len == HeaderMeaning(file).strong_len
             L == Len(file)
             v == FileVerdict(file)
             ns == n * size
  <1>1. /\ total \in Nat /\ L \in Nat
        /\ len \in Nat \ {0} /\ size = 4 + len
        /\ \A k \in Nat : k * size \in Nat /\ (k + 1) * size = k * size + size
        /\ \A k \in Nat : 12 + k * size <= L <=> k <= total
        /\ v = IF L < 12 + total * size + 4 THEN "RS_DONE" ELSE "RS_INPUT_ENDED"
    BY FileFacts
  <1> HIDE DEF size, total, len, L, v
  <1>2. ns \in Nat /\ (n + 1) * size = ns + size /\ n + 1 \in Nat
    BY <1>1
  <1>3. 12 + (n + 1) * size <= L <=> n + 1 <= total
    BY <1>1, <1>2
  <1>4. n = total => v = IF L < 12 + ns + 4 THEN "RS_DONE" ELSE "RS_INPUT_ENDED"
    BY <1>1
  <1>5. n <= total
    BY DEF total
  <1> HIDE DEF ns
  <1>6. 12 + (n + 1) * size = 12 + ns + 4 + len
    BY <1>1, <1>2
  <1>7. 12 + ns + 4 + len <= L <=> n + 1 <= total
    BY <1>3, <1>6
  <1>8. /\ L < 12 + ns + 4 => n = total /\ v = "RS_DONE"
        /\ 12 + ns + 4 <= L /\ L < 12 + ns + 4 + len => n = total /\ v = "RS_INPUT_ENDED"
    BY <1>1, <1>2, <1>4, <1>5, <1>7
  <1>9. 12 + ns \in Nat /\ len \in Nat
    BY <1>1, <1>2
  <1> QED
    BY <1>1, <1>6, <1>7, <1>8, <1>9 DEF size, total, len, L, v, ns

\* A weak sum, or the end of the file.
LEMMA LoadsigWeak ==
    ASSUME LoadsigInv, rs_loadsig_s_weak
    PROVE  LoadsigInv' /\ input' = input /\ ~Over /\ sig_blocks' = sig_blocks
  <1> DEFINE r == Read(job, 4)
             n == sig_blocks
             place == 12 + n * BlockSize(input)
             res == IF r.result = "RS_INPUT_ENDED" THEN "RS_DONE" ELSE r.result
  <1>1. /\ pc = "statefn" /\ statefn = "rs_loadsig_s_weak"
        /\ UNCHANGED <<headerVars, sig, sig_blocks>>
        /\ \/ r.result # "RS_DONE" /\ Finish(r.job, statefn, res) /\ UNCHANGED weak_sig
           \/ /\ r.result = "RS_DONE" /\ weak_sig' = Number % Radix ^ 4
              /\ Finish(r.job, "rs_loadsig_s_strong", "RS_RUNNING")
    BY DEF rs_loadsig_s_weak, Running
  <1>2. /\ Work(job, r.job) /\ SameOutput(job, r.job) /\ r.job.asserts
        /\ r.result \in {"RS_DONE", "RS_INPUT_ENDED", "RS_BLOCKED"}
        /\ r.result = "RS_DONE" => r.job.cursor = job.cursor + 4 /\ job.cursor + 4 <= Len(input)
        /\ r.result # "RS_DONE" => r.job.cursor = job.cursor /\ r.job.avail_in = 0
        /\ r.result = "RS_BLOCKED" => ~r.job.eof_in
        /\ r.result = "RS_INPUT_ENDED" => r.job.eof_in /\ Len(input) < job.cursor + 4
    BY LoadsigReads
  <1>3. /\ input \in Seq(Nat) /\ job.cursor = place /\ HeaderMeaning(input).result = "RS_DONE"
        /\ n \in 0 .. BlockTotal(input) /\ ~Over
    BY <1>1 DEF LoadsigInv, LoadsigTypeOK, InTurn, BlockAhead, AfterHeader, BlocksSoFar
  <1>4. n \in Nat /\ n <= BlockTotal(input) /\ sig_fsize' = sig_fsize
    <2>1. BlockTotal(input) \in Nat
      BY <1>3, FileFacts
    <2> QED
      BY <1>1, <1>3, <2>1 DEF headerVars
  <1>5. /\ place \in Nat
        /\ Len(input) < place + 4 =>
             n = BlockTotal(input) /\ FileVerdict(input) = "RS_DONE"
    BY <1>3, <1>4, BlockPlace
  <1> HIDE DEF r, place
  <1>6. CASE r.result = "RS_BLOCKED"
    <2>1. Finish(r.job, statefn, "RS_BLOCKED") /\ UNCHANGED weak_sig
      BY <1>1, <1>6
    <2> QED
      BY <1>1, <1>2, <1>4, <1>6, <2>1, LoadsigEnds
  <1>7. CASE r.result = "RS_INPUT_ENDED"
    <2>1. Finish(r.job, "rs_loadsig_s_weak", "RS_DONE")
      BY <1>1, <1>7
    <2>2. n = BlockTotal(input) /\ FileVerdict(input) = "RS_DONE"
      BY <1>2, <1>3, <1>5, <1>7
    <2>3. /\ LoadsigTypeOK' /\ EofIsTrue' /\ NoOutput' /\ InTurn' /\ Answered' /\ job'.asserts
          /\ input' = input /\ ~Over /\ job' = r.job /\ statefn' = "NULL"
      BY <1>1, <1>2, <1>4, <2>1, LoadsigGoes
    <2>4. HeaderSoFar' /\ BlockAhead'
      BY <2>3 DEF HeaderSoFar, BlockAhead
    <2>5. AtEnd'
      BY <1>1, <1>2, <1>7, <2>2, <2>3 DEF AtEnd
    <2>6. BlocksSoFar' /\ AfterHeader'
      BY <1>1, <2>3 DEF LoadsigInv, BlocksSoFar, AfterHeader
    <2> QED
      BY <1>1, <2>3, <2>4, <2>5, <2>6 DEF LoadsigInv
  <1>8. CASE r.result = "RS_DONE"
    <2>1. /\ weak_sig' = Number % Radix ^ 4
          /\ Finish(r.job, "rs_loadsig_s_strong", "RS_RUNNING")
      BY <1>1, <1>8
    <2>2. /\ LoadsigTypeOK' /\ EofIsTrue' /\ NoOutput' /\ InTurn' /\ Answered' /\ job'.asserts
          /\ input' = input /\ ~Over /\ job' = r.job /\ statefn' = "rs_loadsig_s_strong"
      BY <1>1, <1>2, <1>4, <2>1, LoadsigGoes
    <2>3. weak_sig' = WeakAt(input, n + 1)
      <3> DEFINE bytes == SubSeq(input, place + 1, place + 4)
      <3>1. bytes \in Seq(Nat)
        <4>1. place + 4 <= Len(input) /\ 4 \in Nat
          BY <1>2, <1>3, <1>8
        <4> QED
          BY <1>3, <1>5, <4>1, PieceFacts
      <3>2. Number = N4Value(bytes)
        BY <1>3 DEF Number, NextBytes
      <3>3. WeakAt(input, n + 1) = Shifted(bytes) % Radix ^ 4
        <4>1. (n + 1) - 1 = n
          BY <1>4
        <4> QED
          BY <4>1 DEF WeakAt, place
      <3> HIDE DEF bytes
      <3> QED
        BY <2>1, <3>1, <3>2, <3>3, N4Facts
    <2>4. job'.cursor = place + 4
      BY <1>2, <1>3, <1>8, <2>2
    <2>5. HeaderSoFar' /\ AtEnd'
      BY <2>2 DEF HeaderSoFar, AtEnd
    <2>6. BlocksSoFar' /\ AfterHeader'
      BY <1>1, <2>2 DEF LoadsigInv, BlocksSoFar, AfterHeader
    <2>7. BlockAhead'
      BY <1>1, <2>2, <2>3, <2>4 DEF BlockAhead, place
    <2> QED
      BY <1>1, <2>2, <2>5, <2>6, <2>7 DEF LoadsigInv
  <1> QED
    BY <1>2, <1>6, <1>7, <1>8

\* What rs_signature_add_block leaves behind: the new block is in the array, which
\* is large enough for it.
LEMMA AddBlockFacts ==
    ASSUME NEW s, NEW weak, NEW strong, NEW n \in Nat,
           DOMAIN s = {"magic", "block_len", "strong_sum_len", "size", "block_sigs"},
           s.size \in Nat, Len(s.block_sigs) = n, n <= s.size
    PROVE  LET t == rs_signature_add_block(s, weak, strong)
           IN  /\ DOMAIN t = DOMAIN s /\ t.magic = s.magic /\ t.block_len = s.block_len
               /\ t.strong_sum_len = s.strong_sum_len
               /\ t.size \in Nat /\ n + 1 <= t.size
               /\ t.block_sigs = Append(s.block_sigs, [weak_sum |-> Mixed(s.magic, weak),
                                                       strong_sum |-> strong])
  <1> DEFINE t == rs_signature_add_block(s, weak, strong)
             full == Len(s.block_sigs) = s.size
             m == IF ~full THEN s.size ELSE IF s.size > 0 THEN s.size * 2 ELSE FirstBlocks
             e == [weak_sum |-> Mixed(s.magic, weak), strong_sum |-> strong]
             b == Append(s.block_sigs, e)
  <1>1. t = [s EXCEPT !.size = m, !.block_sigs = b]
    BY DEF rs_signature_add_block, Mixed
  <1>2. m \in Nat /\ n + 1 <= m
    <2>1. FirstBlocks \in Nat /\ FirstBlocks >= 1
      BY LoadsigAssumption
    <2>2. full <=> n = s.size
      OBVIOUS
    <2> HIDE DEF full
    <2> QED
      BY <2>1, <2>2
  <1> HIDE DEF m, b, t
  <1>3. /\ DOMAIN t = DOMAIN s /\ t.magic = s.magic /\ t.block_len = s.block_len
        /\ t.strong_sum_len = s.strong_sum_len /\ t.size = m /\ t.block_sigs = b
    BY <1>1
  <1> QED
    BY <1>2, <1>3 DEF t, b

\* A strong sum, which completes a block.
LEMMA LoadsigStrong ==
    ASSUME LoadsigInv, rs_loadsig_s_strong
    PROVE  LoadsigInv' /\ input' = input /\ ~Over /\ sig_blocks' \in {sig_blocks, sig_blocks + 1}
  <1> DEFINE len == sig.strong_sum_len
             r == Read(job, len)
             n == sig_blocks
             size == BlockSize(input)
             place == 12 + n * size
             strong == NextBytes(job, len)
             new == rs_signature_add_block(sig, weak_sig, strong)
             j == Assert_(r.job, SignatureOK(sig))
             total == BlockTotal(input)
  <1>1. /\ pc = "statefn" /\ statefn = "rs_loadsig_s_strong" /\ UNCHANGED <<headerVars, weak_sig>>
        /\ \/ r.result # "RS_DONE" /\ Finish(r.job, statefn, r.result) /\ UNCHANGED <<sig, sig_blocks>>
           \/ /\ r.result = "RS_DONE" /\ sig' = new /\ sig_blocks' = sig_blocks + 1
              /\ Finish(j, "rs_loadsig_s_weak", "RS_RUNNING")
    BY DEF rs_loadsig_s_strong, Running
  <1>2. /\ input \in Seq(Nat) /\ job.cursor = place + 4
        /\ HeaderMeaning(input).result = "RS_DONE" /\ len = HeaderMeaning(input).strong_len
        /\ n \in 0 .. total /\ ~Over /\ weak_sig = WeakAt(input, n + 1)
        /\ sig.magic = HeaderMeaning(input).magic /\ sig.block_len = ParamsIn(input).block_len
        /\ rs_sig_args_check(sig.magic, sig.block_len, sig.strong_sum_len)
        /\ DOMAIN sig = {"magic", "block_len", "strong_sum_len", "size", "block_sigs"}
        /\ sig.block_sigs = Loaded(input, n) /\ sig.size \in Nat /\ n <= sig.size
    BY <1>1 DEF LoadsigInv, LoadsigTypeOK, InTurn, BlockAhead, AfterHeader, BlocksSoFar
  <1>3. n \in Nat /\ n <= total /\ sig_fsize' = sig_fsize /\ total \in Nat
    <2>1. total \in Nat
      BY <1>2, FileFacts
    <2> HIDE DEF total
    <2> QED
      BY <1>1, <1>2, <2>1 DEF headerVars
  <1>4. /\ place \in Nat /\ len \in Nat /\ size = 4 + len
        /\ 12 + (n + 1) * size = place + 4 + len
        /\ place + 4 <= Len(input) /\ Len(input) < place + 4 + len =>
             n = total /\ FileVerdict(input) = "RS_INPUT_ENDED"
        /\ place + 4 + len <= Len(input) => n + 1 <= total
    BY <1>2, <1>3, BlockPlace
  <1>5. /\ Work(job, r.job) /\ SameOutput(job, r.job) /\ r.job.asserts
        /\ r.result \in {"RS_DONE", "RS_INPUT_ENDED", "RS_BLOCKED"}
        /\ r.result = "RS_DONE" => r.job.cursor = job.cursor + len /\ job.cursor + len <= Len(input)
        /\ r.result # "RS_DONE" => r.job.cursor = job.cursor /\ r.job.avail_in = 0
        /\ r.result = "RS_BLOCKED" => ~r.job.eof_in
        /\ r.result = "RS_INPUT_ENDED" => r.job.eof_in /\ Len(input) < job.cursor + len
        /\ job.cursor <= Len(input)
    BY <1>4, LoadsigReads
  <1> HIDE DEF r, place, size, total
  <1>6. CASE r.result = "RS_BLOCKED"
    <2>1. Finish(r.job, statefn, "RS_BLOCKED") /\ UNCHANGED <<sig, sig_blocks>>
      BY <1>1, <1>6
    <2> QED
      BY <1>1, <1>3, <1>5, <1>6, <2>1, LoadsigEnds
  <1>7. CASE r.result = "RS_INPUT_ENDED"
    <2>1. Finish(r.job, statefn, "RS_INPUT_ENDED") /\ UNCHANGED <<sig, sig_blocks>>
      BY <1>1, <1>7
    <2>2. n = BlockTotal(input) /\ FileVerdict(input) = "RS_INPUT_ENDED"
      BY <1>2, <1>4, <1>5, <1>7 DEF total
    <2> QED
      BY <1>1, <1>3, <1>5, <2>1, <2>2, LoadsigEnds
  <1>8. CASE r.result = "RS_DONE"
    <2>1. sig' = new /\ sig_blocks' = n + 1 /\ Finish(j, "rs_loadsig_s_weak", "RS_RUNNING")
      BY <1>1, <1>8
    <2>2. /\ Len(Loaded(input, n)) = n
          /\ Append(Loaded(input, n), Entry(input, n + 1)) = Loaded(input, n + 1)
      BY <1>2, <1>3, LoadedFacts
    <2>3. SignatureOK(sig)
      BY <1>2, <2>2 DEF SignatureOK
    <2>4. Work(job, j) /\ SameOutput(job, j) /\ SameInput(r.job, j) /\ j.asserts
      <3>1. JobOK(r.job) /\ JobOK(job)
        BY <1>5 DEF Work, LoadsigInv, LoadsigTypeOK
      <3>2. Work(r.job, j) /\ SameOutput(r.job, j) /\ SameInput(r.job, j) /\ j.asserts
        BY <1>5, <2>3, <3>1, AssertFacts
      <3>3. Work(job, j)
        BY <1>5, <3>1, <3>2, WorkAddsUp
      <3> QED
        BY <1>5, <3>2, <3>3 DEF SameOutput
    <2> HIDE DEF j
    <2>5. /\ LoadsigTypeOK' /\ EofIsTrue' /\ NoOutput' /\ InTurn' /\ Answered' /\ job'.asserts
          /\ input' = input /\ ~Over /\ job' = j /\ statefn' = "rs_loadsig_s_weak"
      BY <1>1, <1>3, <2>1, <2>4, LoadsigGoes
    <2>6. Entry(input, n + 1)
            = [weak_sum |-> Mixed(sig.magic, weak_sig), strong_sum |-> strong]
      <3>1. StrongAt(input, n + 1) = strong
        <4>1. (n + 1) - 1 = n
          BY <1>3
        <4>2. 12 + n * size + 5 = job.cursor + 1 /\ 12 + (n + 1) * size = job.cursor + len
          BY <1>2, <1>4 DEF place
        <4> QED
          BY <4>1, <4>2 DEF StrongAt, NextBytes, size
      <3> QED
        BY <1>2, <3>1 DEF Entry
    <2>7. /\ DOMAIN new = DOMAIN sig /\ new.magic = sig.magic /\ new.block_len = sig.block_len
          /\ new.strong_sum_len = sig.strong_sum_len
          /\ new.size \in Nat /\ n + 1 <= new.size
          /\ new.block_sigs = Append(sig.block_sigs, [weak_sum |-> Mixed(sig.magic, weak_sig),
                                                      strong_sum |-> strong])
      BY <1>2, <1>3, <2>2, AddBlockFacts, SMTT(40)
    <2> HIDE DEF new, strong
    <2>8. new.block_sigs = Loaded(input, n + 1)
      BY <1>2, <2>2, <2>6, <2>7
    <2>9. n + 1 \in 0 .. BlockTotal(input)
      <3>1. n + 1 <= total
        BY <1>2, <1>4, <1>5, <1>8
      <3> QED
        BY <1>3, <3>1 DEF total
    <2>10. BlocksSoFar'
      BY <1>2, <2>1, <2>5, <2>7, <2>8, <2>9 DEF BlocksSoFar
    <2>11. HeaderSoFar' /\ AtEnd'
      BY <2>5 DEF HeaderSoFar, AtEnd
    <2>12. AfterHeader'
      BY <1>2, <2>1, <2>5, <2>7 DEF AfterHeader
    <2>13. BlockAhead'
      <3>1. job'.cursor = place + 4 + len
        BY <1>2, <1>5, <1>8, <2>4, <2>5 DEF SameInput
      <3> QED
        BY <1>4, <2>1, <2>5, <3>1 DEF BlockAhead, size
    <2> QED
      BY <2>1, <2>5, <2>10, <2>11, <2>12, <2>13 DEF LoadsigInv
  <1> QED
    BY <1>5, <1>6, <1>7, <1>8

\* The invariant holds throughout, with or without fairness.
LEMMA LoadsigAlways == Init /\ [][Next]_vars => []LoadsigInv
  <1>1. Init => LoadsigInv
    BY LoadsigInit
  <1>2. LoadsigInv /\ [Next]_vars => LoadsigInv'
    <2> SUFFICES ASSUME LoadsigInv, [Next]_vars
                 PROVE  LoadsigInv'
      OBVIOUS
    <2>1. CASE Caller(CallIter)
      BY <2>1, LoadsigCallIter
    <2>2. CASE rs_loadsig_s_magic
      BY <2>2, LoadsigMagic
    <2>3. CASE rs_loadsig_s_blocklen
      BY <2>3, LoadsigBlocklen
    <2>4. CASE rs_loadsig_s_stronglen
      BY <2>4, LoadsigStronglen
    <2>5. CASE rs_loadsig_s_weak
      BY <2>5, LoadsigWeak
    <2>6. CASE rs_loadsig_s_strong
      BY <2>6, LoadsigStrong
    <2>7. CASE Caller(Catchup)
      BY <2>7, LoadsigCatchup
    <2>8. CASE UNCHANGED vars
      BY <2>8, LoadsigSame
    <2> QED
      BY <2>1, <2>2, <2>3, <2>4, <2>5, <2>6, <2>7, <2>8 DEF Next, Step, Stopped
  <1> QED
    BY <1>1, <1>2, PTL

\* Whatever the file says and however it is cut into pieces, no assertion of the
\* loadsig job fails: the parameters of a loaded signature are ones that
\* rs_sig_args_check is content with, and the array of blocks is never too small,
\* however wrong the announced size of the file was.
THEOREM LoadsigAssertions == Spec => []AssertionsHold
  <1>1. LoadsigInv => AssertionsHold
    <2> SUFFICES ASSUME LoadsigInv
                 PROVE  AssertionsHold
      OBVIOUS
    <2>1. /\ input \in Seq(Nat) /\ job.asserts /\ sig_blocks \in 0 .. BlockTotal(input)
          /\ sig.block_sigs = Loaded(input, sig_blocks) /\ sig_blocks <= sig.size
      BY DEF LoadsigInv, LoadsigTypeOK, BlocksSoFar
    <2>2. sig_blocks \in Nat
      BY <2>1, FileFacts
    <2>3. Len(sig.block_sigs) = sig_blocks
      BY <2>1, <2>2, LoadedFacts
    <2> QED
      BY <2>1, <2>3 DEF AssertionsHold
  <1> QED
    BY <1>1, LoadsigAlways, PTL DEF Spec

-----------------------------------------------------------------------------
(* The job implements module Transducer.                                   *)

\* The blocks in memory are the first blocks of the file, all of them when the
\* caller is told so, and the answers are ones that the contract allows.
LoadsigAnswers ==
    /\ Whole!IsPrefixOf(sig.block_sigs, BlocksIn(input))
    /\ Answer(Len(sig.block_sigs)).result # "RS_RUNNING" =>
         MayAnswer(LoadsigPromise(input), Answer(Len(sig.block_sigs)))
    /\ Over => result = FileVerdict(input) /\ sig.block_sigs = BlocksIn(input)

\* The invariant says as much as the caller is promised.
LEMMA LoadsigAnswersHold == LoadsigInv => LoadsigAnswers
  <1> SUFFICES ASSUME LoadsigInv
               PROVE  LoadsigAnswers
    OBVIOUS
  <1> DEFINE n == sig_blocks
             total == BlockTotal(input)
             P == LoadsigPromise(input)
             put == Len(sig.block_sigs)
             A == Answer(put)
             B == BlocksIn(input)
  <1>1. /\ JobOK(job) /\ input \in Seq(Nat) /\ n \in 0 .. total
        /\ sig.block_sigs = Loaded(input, n)
    BY DEF LoadsigInv, LoadsigTypeOK, BlocksSoFar
  <1>2. total \in Nat
    BY <1>1, FileFacts
  <1> HIDE DEF total
  <1>3. n \in Nat /\ n <= total
    BY <1>1, <1>2
  <1>4. B = Loaded(input, total)
    BY <1>1, LoadedFacts DEF total
  <1>5. Whole!IsPrefixOf(sig.block_sigs, B) /\ put = n /\ Len(B) = total
    BY <1>1, <1>2, <1>3, <1>4, LoadedFacts
  <1>6. n = total => sig.block_sigs = B
    BY <1>1, <1>4
  <1>7. /\ P.target = Len(B) /\ P.verdict = FileVerdict(input) /\ P.need = Len(input)
        /\ P.to_eof /\ ~P.writes /\ ~P.ends_writing /\ P.leaves = 0
    BY DEF LoadsigPromise
  <1>8. pc = "caller" /\ result # "RS_RUNNING" =>
          /\ A.result = result /\ A.taken = job.cursor + job.scoop_avail /\ A.put = put
          /\ A.avail_in = job.avail_in /\ A.eof_in = job.eof_in /\ A.avail_out = job.avail_out
    <2> HIDE DEF put
    <2> QED
      BY DEF Answer
  <1>9. ~(pc = "caller" /\ result # "RS_RUNNING") => A.result = "RS_RUNNING"
    BY DEF Answer, NoAnswer
  <1>10. Over => pc = "caller" /\ result # "RS_RUNNING" /\ result # "RS_BLOCKED"
    BY DEF LoadsigInv, InTurn, Over
  <1>11. pc = "caller" /\ result # "RS_RUNNING" =>
           \/ result = "RS_BLOCKED" /\ job.avail_in = 0 /\ ~job.eof_in
           \/ /\ result = FileVerdict(input) /\ n = total
              /\ result = "RS_DONE" => job.eof_in /\ job.cursor + job.scoop_avail = Len(input)
    <2> SUFFICES ASSUME pc = "caller", result # "RS_RUNNING", result = "RS_DONE"
                 PROVE  job.eof_in /\ job.avail_in = 0 =>
                          job.cursor + job.scoop_avail = Len(input)
      BY DEF LoadsigInv, Answered, total
    <2>1. job.cursor \in Nat /\ job.scoop_avail \in Nat
      BY <1>1 DEF JobOK
    <2>2. job.eof_in => job.cursor + job.scoop_avail + job.avail_in = Len(input)
      BY DEF LoadsigInv, EofIsTrue
    <2> QED
      BY <2>1, <2>2
  <1> HIDE DEF P, A, put, B
  <1>12. A.result # "RS_RUNNING" => MayAnswer(P, A)
    <2> SUFFICES ASSUME pc = "caller", result # "RS_RUNNING"
                 PROVE  MayAnswer(P, A)
      BY <1>9
    <2>1. A.put <= P.target
      BY <1>3, <1>5, <1>7, <1>8
    <2>2. CASE result = "RS_BLOCKED" /\ job.avail_in = 0 /\ ~job.eof_in
      BY <1>7, <1>8, <2>1, <2>2 DEF MayAnswer, Blocked
    <2>3. CASE /\ result = FileVerdict(input) /\ n = total
               /\ result = "RS_DONE" => job.eof_in /\ job.cursor + job.scoop_avail = Len(input)
      BY <1>5, <1>7, <1>8, <2>1, <2>3 DEF MayAnswer, Completed
    <2> QED
      BY <1>11, <2>2, <2>3
  <1>13. Over => result = FileVerdict(input) /\ sig.block_sigs = B
    BY <1>6, <1>10, <1>11
  <1> QED
    BY <1>5, <1>12, <1>13 DEF LoadsigAnswers, P, A, put, B

\* Module Transducer means the same contract.
LEMMA SameContract ==
    /\ Whole!NoAnswer = NoAnswer
    /\ \A p, a : Whole!MayAnswer(p, a) = MayAnswer(p, a)
  BY DEF Whole!NoAnswer, NoAnswer, Whole!MayAnswer, MayAnswer, Whole!Blocked, Blocked,
         Whole!Completed, Completed

\* Each step is one of the transducer's, or none.
LEMMA LoadsigStep ==
    ASSUME LoadsigInv, LoadsigInv', LoadsigAnswers', [Next]_vars
    PROVE  [Whole!Next]_(Whole!vars)
  <1> DEFINE A == Answer(Len(sig.block_sigs))
  <1>1. CASE UNCHANGED vars
    BY <1>1 DEF vars, engineVars, Whole!vars, Verdict, Over, Answer
  <1>2. ASSUME input' = input, ~Over, sig_blocks' \in {sig_blocks, sig_blocks + 1}
        PROVE  Whole!Next
    <2>1. Verdict = "RS_RUNNING"
      BY <1>2 DEF Verdict
    <2>2. /\ sig.block_sigs = Loaded(input, sig_blocks) /\ sig_blocks \in 0 .. BlockTotal(input)
          /\ input \in Seq(Nat)
      BY DEF LoadsigInv, BlocksSoFar, LoadsigTypeOK
    <2>3. sig'.block_sigs = Loaded(input, sig_blocks')
      BY <1>2 DEF LoadsigInv, BlocksSoFar
    <2>4. Whole!IsPrefixOf(sig.block_sigs, sig'.block_sigs)
      <3>1. sig_blocks \in Nat
        BY <2>2, FileFacts
      <3>2. PICK m : m = sig_blocks'
        OBVIOUS
      <3>3. m \in Nat /\ sig_blocks <= m
        BY <1>2, <3>1, <3>2
      <3>4. Whole!IsPrefixOf(Loaded(input, sig_blocks), Loaded(input, m))
        BY <2>2, <3>1, <3>3, LoadedFacts
      <3> QED
        BY <2>2, <2>3, <3>2, <3>4
    <2>5. Whole!IsPrefixOf(sig'.block_sigs, BlocksIn(input))
      BY <1>2 DEF LoadsigAnswers
    <2>6. A'.result # "RS_RUNNING" => MayAnswer(LoadsigPromise(input), A')
      BY <1>2 DEF LoadsigAnswers
    <2>7. \/ Verdict' = "RS_RUNNING"
          \/ Verdict' = LoadsigPromise(input).verdict /\ sig'.block_sigs = BlocksIn(input)
      BY <1>2 DEF LoadsigAnswers, Verdict, LoadsigPromise
    <2>8. NoAnswer.result = "RS_RUNNING"
      BY DEF NoAnswer
    <2>9. PICK x : x = A'
      OBVIOUS
    <2>10. x.result # Whole!NoAnswer.result => Whole!MayAnswer(LoadsigPromise(input), x)
      BY <2>6, <2>8, <2>9, SameContract
    <2>11. A'.result # Whole!NoAnswer.result => Whole!MayAnswer(LoadsigPromise(input), A')
      BY <2>9, <2>10
    <2> QED
      BY <1>2, <2>1, <2>4, <2>5, <2>7, <2>11 DEF Whole!Next
  <1>3. CASE Caller(CallIter)
    <2>1. sig_blocks' = sig_blocks
      BY <1>3 DEF Caller
    <2> QED
      BY <1>2, <1>3, <2>1, LoadsigCallIter
  <1>4. CASE Step
    <2>1. input' = input /\ ~Over /\ sig_blocks' \in {sig_blocks, sig_blocks + 1}
      BY <1>4, LoadsigMagic, LoadsigBlocklen, LoadsigStronglen, LoadsigWeak, LoadsigStrong,
         LoadsigCatchup DEF Step
    <2> QED
      BY <1>2, <2>1
  <1> QED
    BY <1>1, <1>3, <1>4 DEF Next, Stopped

\* The loadsig job implements module Transducer: the blocks in memory and the
\* verdict are those of the file as a whole, whether it is cut in a header field,
\* between the two sums of a block or inside a strong sum; the job is blocked only
\* while it has taken all the input there is, and it is done only after eof_in.
THEOREM LoadsigRefinement == Spec => ImplementsTransducer
  <1>1. Init => Whole!Init
    <2> SUFFICES ASSUME Init
                 PROVE  Whole!Init
      OBVIOUS
    <2>1. sig.block_sigs = <<>> /\ pc = "caller" /\ result = "RS_RUNNING"
      BY DEF Init, EngineInit
    <2> QED
      BY <2>1, SameContract DEF Whole!Init, Verdict, Over, Answer
  <1>2. LoadsigInv /\ LoadsigInv' /\ LoadsigAnswers' /\ [Next]_vars
          => [Whole!Next]_(Whole!vars)
    BY LoadsigStep
  <1>3. LoadsigInv => LoadsigAnswers
    BY LoadsigAnswersHold
  <1>4. Spec => Init /\ [][Next]_vars
    BY DEF Spec
  <1> QED
    BY <1>1, <1>2, <1>3, <1>4, LoadsigAlways, PTL DEF ImplementsTransducer, Whole!Spec

-----------------------------------------------------------------------------
(* The file that mksum writes, read back.                                  *)

\* A number that was written in four bytes is read again.
LEMMA FourBytesBack ==
    ASSUME NEW v \in Nat, v < Radix ^ 4
    PROVE  /\ Shifted(Netint(v, 4)) % Radix ^ 4 = v
           /\ v < Radix ^ 4 \div 2 => N4Value(Netint(v, 4)) = v
  <1>1. \A n \in 0 .. 4 : Radix ^ n \in Nat \ {0}
    BY NetintAssumption
  <1>2. \A n \in 0 .. 4 - 1 : Radix ^ (n + 1) = Radix * Radix ^ n
    <2>1. 4 - 1 = 3
      OBVIOUS
    <2> QED
      BY <2>1, NetintPowers
  <1>3. Netint(v, 4) \in Seq(Nat) /\ Len(Netint(v, 4)) = 4
    BY NetintFacts
  <1>4. Shifted(Netint(v, 4)) = v
    BY <1>1, <1>2, <1>3, NetintBack
  <1>5. PICK m : m = Radix ^ 4
    OBVIOUS
  <1>6. m \in Nat \ {0} /\ v < m
    BY <1>1, <1>5
  <1>7. v % m = v
    BY <1>6
  <1>8. v < m \div 2 => ~(v >= m \div 2)
    BY <1>6
  <1> QED
    BY <1>4, <1>5, <1>7, <1>8 DEF N4Value

\* What stands first.
LEMMA PieceFirst ==
    ASSUME NEW s \in Seq(Nat), NEW u \in Seq(Nat), NEW d, d = s \o u
    PROVE  SubSeq(d, 0 + 1, 0 + Len(s)) = s
  <1> DEFINE n == Len(s)
             r == SubSeq(d, 0 + 1, 0 + n)
  <1>1. n \in Nat /\ Len(u) \in Nat
    BY LenProperties
  <1>2. /\ d \in Seq(Nat) /\ Len(d) = n + Len(u)
        /\ \A i \in 1 .. n + Len(u) : d[i] = IF i <= n THEN s[i] ELSE u[i - n]
    BY ConcatProperties
  <1> HIDE DEF n
  <1>3. 0 + n <= Len(d)
    BY <1>1, <1>2
  <1>4. r \in Seq(Nat) /\ Len(r) = n /\ \A i \in 1 .. n : r[i] = d[0 + i]
    BY <1>1, <1>2, <1>3, PieceFacts
  <1>5. ASSUME NEW i \in 1 .. n
        PROVE  d[0 + i] = s[i]
    <2>1. i \in 1 .. n + Len(u) /\ i <= n /\ 0 + i = i
      BY <1>1
    <2> QED
      BY <1>2, <2>1
  <1>6. \A i \in 1 .. Len(r) : r[i] = s[i]
    BY <1>4, <1>5
  <1> HIDE DEF r
  <1>7. r = s
    BY <1>4, <1>6, SeqEqual DEF n
  <1> QED
    BY <1>7 DEF r, n

\* What stands between two sequences.
LEMMA PieceBetween ==
    ASSUME NEW s \in Seq(Nat), NEW t \in Seq(Nat), NEW u \in Seq(Nat), NEW d, d = (s \o t) \o u
    PROVE  SubSeq(d, Len(s) + 1, Len(s) + Len(t)) = t
  <1> DEFINE m == Len(s)
             n == Len(t)
             r == SubSeq(d, m + 1, m + n)
  <1>1. m \in Nat /\ n \in Nat /\ Len(u) \in Nat
    BY LenProperties
  <1>2. /\ s \o t \in Seq(Nat) /\ Len(s \o t) = m + n
        /\ \A i \in 1 .. m + n : (s \o t)[i] = IF i <= m THEN s[i] ELSE t[i - m]
    BY ConcatProperties
  <1>3. /\ d \in Seq(Nat) /\ Len(d) = (m + n) + Len(u)
        /\ \A i \in 1 .. (m + n) + Len(u) : d[i] = IF i <= m + n THEN (s \o t)[i] ELSE u[i - (m + n)]
    BY <1>2, ConcatProperties
  <1> HIDE DEF m, n
  <1>4. m + n <= Len(d)
    BY <1>1, <1>3
  <1>5. r \in Seq(Nat) /\ Len(r) = n /\ \A i \in 1 .. n : r[i] = d[m + i]
    BY <1>1, <1>3, <1>4, PieceFacts
  <1>6. ASSUME NEW i \in 1 .. n
        PROVE  d[m + i] = t[i]
    <2>1. m + i \in 1 .. m + n /\ m + i \in 1 .. (m + n) + Len(u) /\ ~(m + i <= m) /\ (m + i) - m = i
          /\ m + i <= m + n
      BY <1>1
    <2> QED
      BY <1>2, <1>3, <2>1
  <1>7. \A i \in 1 .. Len(r) : r[i] = t[i]
    BY <1>5, <1>6
  <1> HIDE DEF r
  <1>8. r = t
    BY <1>5, <1>7, SeqEqual DEF n
  <1> QED
    BY <1>8 DEF r, m, n

\* The three numbers in the header.
LEMMA HeaderPieces ==
    ASSUME NEW a, a.magic \in Int, a.block_len \in Int, a.strong_len \in Int
    PROVE  /\ HeaderOf(a) \in Seq(Nat) /\ Len(HeaderOf(a)) = 12
           /\ \A u \in Seq(Nat) :
                LET d == HeaderOf(a) \o u
                IN  /\ SubSeq(d, 0 + 1, 0 + 4) = Netint(a.magic, 4)
                    /\ SubSeq(d, 4 + 1, 4 + 4) = Netint(a.block_len, 4)
                    /\ SubSeq(d, 8 + 1, 8 + 4) = Netint(a.strong_len, 4)
  <1> DEFINE n1 == Netint(a.magic, 4)
             n2 == Netint(a.block_len, 4)
             n3 == Netint(a.strong_len, 4)
  <1>1. n1 \in Seq(Nat) /\ n2 \in Seq(Nat) /\ n3 \in Seq(Nat) /\ Len(n1) = 4 /\ Len(n2) = 4 /\ Len(n3) = 4
    BY NetintFacts
  <1>2. HeaderOf(a) = (n1 \o n2) \o n3
    BY DEF HeaderOf
  <1> HIDE DEF n1, n2, n3
  <1>3. n1 \o n2 \in Seq(Nat) /\ Len(n1 \o n2) = 8
    <2>1. n1 \o n2 \in Seq(Nat) /\ Len(n1 \o n2) = Len(n1) + Len(n2)
      BY <1>1, ConcatProperties
    <2> QED
      BY <1>1, <2>1
  <1>4. (n1 \o n2) \o n3 \in Seq(Nat) /\ Len((n1 \o n2) \o n3) = 12
    BY <1>1, <1>3, ConcatProperties
  <1>5. ASSUME NEW u \in Seq(Nat), NEW d, d = HeaderOf(a) \o u
        PROVE  /\ SubSeq(d, 0 + 1, 0 + 4) = n1 /\ SubSeq(d, 4 + 1, 4 + 4) = n2
               /\ SubSeq(d, 8 + 1, 8 + 4) = n3
    <2>1. d = ((n1 \o n2) \o n3) \o u
      BY <1>2, <1>5
    <2>2. n3 \o u \in Seq(Nat)
      BY <1>1, ConcatProperties
    <2>3. n2 \o (n3 \o u) \in Seq(Nat)
      BY <1>1, <2>2, ConcatProperties
    <2>4. d = (n1 \o n2) \o (n3 \o u)
      BY <1>1, <1>3, <2>1, ConcatBytes
    <2>5. d = n1 \o (n2 \o (n3 \o u))
      BY <1>1, <2>2, <2>4, ConcatBytes
    <2>6. SubSeq(d, 0 + 1, 0 + 4) = n1
      <3>1. SubSeq(d, 0 + 1, 0 + Len(n1)) = n1
        BY <1>1, <2>3, <2>5, PieceFirst
      <3> QED
        BY <1>1, <3>1
    <2>7. SubSeq(d, 4 + 1, 4 + 4) = n2
      <3>1. SubSeq(d, Len(n1) + 1, Len(n1) + Len(n2)) = n2
        BY <1>1, <2>2, <2>4, PieceBetween
      <3> QED
        BY <1>1, <3>1
    <2>8. SubSeq(d, 8 + 1, 8 + 4) = n3
      <3>1. SubSeq(d, Len(n1 \o n2) + 1, Len(n1 \o n2) + Len(n3)) = n3
        BY <1>1, <1>3, <2>1, PieceBetween
      <3> QED
        BY <1>1, <1>3, <3>1
    <2> QED
      BY <2>6, <2>7, <2>8
  <1> QED
    BY <1>2, <1>4, <1>5 DEF n1, n2, n3

\* How long the file is after k blocks.
LEMMA PartsLength ==
    ASSUME NEW basis, Summable(basis), NEW x, ArgsOK(x), rs_sig_args(-1, x).result = "RS_DONE"
    PROVE  LET a == rs_sig_args(-1, x)
           IN  \A k \in 0 .. BlockCount(basis, a.block_len) :
                 Len(PartsOf(basis, x)[k]) = 12 + k * (4 + a.strong_len)
  <1> DEFINE a == rs_sig_args(-1, x)
             q == BlockCount(basis, a.block_len)
             p == PartsOf(basis, x)
             len == 4 + a.strong_len
             sums(k) == SumsOf(a, NextBlock(basis, a.block_len, k))
             T == {k \in 0 .. q : Len(p[k]) = 12 + k * len}
  <1>1. /\ p[0] = HeaderOf(a) /\ \A k \in 1 .. q : p[k] = p[k - 1] \o sums(k - 1)
        /\ \A k \in 0 .. q : p[k] \in Seq(Nat)
        /\ q \in Nat
    BY PartsFacts
  <1>2. /\ a.magic \in Int /\ a.block_len \in Nat \ {0} /\ a.strong_len \in Nat \ {0}
        /\ a.strong_len <= RS_MAX_STRONG_SUM_LENGTH
    BY SigArgsFacts DEF ArgsOK
  <1> HIDE DEF a
  <1>3. len \in Nat
    BY <1>2
  <1>4. ASSUME NEW k \in Nat, k < q
        PROVE  sums(k) \in Seq(Nat) /\ Len(sums(k)) = len
    <2> DEFINE m == k * a.block_len + 1
               n == Lesser((k + 1) * a.block_len, Len(basis))
               block == SubSeq(basis, m, n)
               weak == Netint(rs_calc_weak_sum(rs_signature_weaksum_kind(a.magic), block), 4)
               strong == StrongPart(a.magic, a.strong_len, block)
    <2>1. m \in 1 .. Len(basis) /\ n \in 1 .. Len(basis) /\ m <= n
      BY <1>2, <1>4, NextBlockFacts
    <2> HIDE DEF m, n
    <2>2. /\ weak \in Seq(Nat) /\ Len(weak) = 4 /\ strong \in Seq(Nat) /\ Len(strong) = a.strong_len
          /\ SumsOf(a, block) \in Seq(Nat) /\ SumsOf(a, block) = weak \o strong
      BY <1>2, <2>1, SumsFacts
    <2>3. sums(k) = SumsOf(a, block)
      BY DEF NextBlock, m, n
    <2> HIDE DEF weak, strong, block, sums
    <2>4. Len(weak \o strong) = Len(weak) + Len(strong)
      BY <2>2, ConcatProperties
    <2> QED
      BY <2>2, <2>3, <2>4
  <1> HIDE DEF q, p, sums, len
  <1>5. 0 \in T
    <2>1. Len(HeaderOf(a)) = 12
      BY <1>2, HeaderPieces
    <2>2. 12 + 0 * len = 12 /\ 0 \in 0 .. q
      BY <1>1, <1>3
    <2>3. Len(p[0]) = 12 + 0 * len
      BY <1>1, <2>1, <2>2
    <2> QED
      BY <2>2, <2>3
  <1>6. ASSUME NEW i \in 1 .. q, i - 1 \in T
        PROVE  i \in T
    <2>1. i - 1 \in Nat /\ i - 1 < q /\ i \in 0 .. q /\ i \in Nat
      BY <1>1
    <2>2. p[i] = p[i - 1] \o sums(i - 1) /\ p[i - 1] \in Seq(Nat)
      BY <1>1, <1>6
    <2>3. sums(i - 1) \in Seq(Nat) /\ Len(sums(i - 1)) = len
      BY <1>4, <2>1
    <2>4. Len(p[i]) = Len(p[i - 1]) + len
      BY <2>2, <2>3, ConcatProperties
    <2>5. Len(p[i - 1]) = 12 + (i - 1) * len
      BY <1>6
    <2>6. (i - 1) * len + len = i * len /\ (i - 1) * len \in Nat
      BY <1>3, <2>1
    <2>7. Len(p[i]) = 12 + i * len
      BY <1>3, <2>4, <2>5, <2>6
    <2> QED
      BY <2>1, <2>7
  <1>7. \A i \in 0 .. q : i \in T
    <2> HIDE DEF T
    <2> QED
      BY <1>1, <1>5, <1>6, CountUp
  <1> QED
    BY <1>7 DEF a, q, p, len

\* Where the numbers and sums stand in the file.
LEMMA SignaturePieces ==
    ASSUME NEW basis, Summable(basis), NEW x, ArgsOK(x), rs_sig_args(-1, x).result = "RS_DONE"
    PROVE  LET a == rs_sig_args(-1, x)
               q == BlockCount(basis, a.block_len)
               S == SignatureOf(basis, x)
               kind == rs_signature_weaksum_kind(a.magic)
           IN  /\ S \in Seq(Nat) /\ q \in Nat /\ Len(S) = 12 + q * (4 + a.strong_len)
               /\ SubSeq(S, 0 + 1, 0 + 4) = Netint(a.magic, 4)
               /\ SubSeq(S, 4 + 1, 4 + 4) = Netint(a.block_len, 4)
               /\ SubSeq(S, 8 + 1, 8 + 4) = Netint(a.strong_len, 4)
               /\ \A k \in Nat : k < q =>
                    LET place == 12 + k * (4 + a.strong_len)
                        block == NextBlock(basis, a.block_len, k)
                    IN  /\ block \in Seq(Nat)
                        /\ SubSeq(S, place + 1, place + 4) = Netint(rs_calc_weak_sum(kind, block), 4)
                        /\ SubSeq(S, (place + 4) + 1, (place + 4) + a.strong_len)
                             = StrongPart(a.magic, a.strong_len, block)
  <1> DEFINE a == rs_sig_args(-1, x)
             q == BlockCount(basis, a.block_len)
             p == PartsOf(basis, x)
             S == SignatureOf(basis, x)
             kind == rs_signature_weaksum_kind(a.magic)
             len == 4 + a.strong_len
             next(k) == NextBlock(basis, a.block_len, k)
  <1>1. /\ p[0] = HeaderOf(a) /\ \A k \in 1 .. q : p[k] = p[k - 1] \o SumsOf(a, next(k - 1))
        /\ \A k \in 0 .. q : p[k] \in Seq(Nat)
        /\ q \in Nat /\ S = p[q]
    BY PartsFacts
  <1>2. /\ a.magic \in Int /\ a.block_len \in Nat \ {0} /\ a.strong_len \in Nat \ {0}
        /\ a.strong_len <= RS_MAX_STRONG_SUM_LENGTH
    BY SigArgsFacts DEF ArgsOK
  <1>3. \A k \in 0 .. q : Len(p[k]) = 12 + k * len
    BY PartsLength
  <1>4. \A k \in 0 .. q : Starts(p[k], S)
    BY PartsGrow
  <1> HIDE DEF a
  <1>5. len \in Nat
    BY <1>2
  <1>6. ASSUME NEW k \in Nat, k < q
        PROVE  LET place == 12 + k * len
                   block == next(k)
               IN  /\ block \in Seq(Nat)
                   /\ SubSeq(S, place + 1, place + 4) = Netint(rs_calc_weak_sum(kind, block), 4)
                   /\ SubSeq(S, (place + 4) + 1, (place + 4) + a.strong_len)
                        = StrongPart(a.magic, a.strong_len, block)
    <2> DEFINE m == k * a.block_len + 1
               n == Lesser((k + 1) * a.block_len, Len(basis))
               block == SubSeq(basis, m, n)
               weak == Netint(rs_calc_weak_sum(kind, block), 4)
               strong == StrongPart(a.magic, a.strong_len, block)
               place == 12 + k * len
    <2>1. m \in 1 .. Len(basis) /\ n \in 1 .. Len(basis) /\ m <= n
      BY <1>2, <1>6, NextBlockFacts
    <2>2. next(k) = block
      BY DEF NextBlock
    <2> HIDE DEF m, n
    <2>3. block \in Seq(Nat)
      <3>1. basis \in Seq(Nat)
        BY DEF Summable
      <3>2. \A i \in m .. n : basis[i] \in Nat
        BY <2>1, <3>1, LenProperties
      <3>3. m \in Int /\ n \in Int
        BY <2>1
      <3> QED
        BY <3>2, <3>3, SubSeqProperties
    <2>4. /\ weak \in Seq(Nat) /\ Len(weak) = 4 /\ strong \in Seq(Nat) /\ Len(strong) = a.strong_len
          /\ SumsOf(a, block) = weak \o strong
      BY <1>2, <2>1, SumsFacts
    <2> HIDE DEF block, weak, strong, next
    <2>5. k + 1 \in 1 .. q /\ k + 1 \in 0 .. q /\ k \in 0 .. q /\ (k + 1) - 1 = k
      BY <1>1, <1>6
    <2> HIDE DEF p, S, q, len
    <2>6. p[k + 1] = p[k] \o (weak \o strong) /\ p[k] \in Seq(Nat) /\ Len(p[k]) = place
      <3>1. p[k + 1] = p[(k + 1) - 1] \o SumsOf(a, next((k + 1) - 1))
        BY <1>1, <2>5
      <3> QED
        BY <1>1, <1>3, <2>2, <2>4, <2>5, <3>1
    <2>7. PICK u \in Seq(Nat) : S = p[k + 1] \o u
      BY <1>4, <2>5 DEF Starts
    <2>8. p[k] \o weak \in Seq(Nat) /\ Len(p[k] \o weak) = place + 4 /\ strong \o u \in Seq(Nat)
      <3>1. p[k] \o weak \in Seq(Nat) /\ Len(p[k] \o weak) = Len(p[k]) + Len(weak)
        BY <2>4, <2>6, ConcatProperties
      <3>2. strong \o u \in Seq(Nat)
        BY <2>4, ConcatProperties
      <3> QED
        BY <2>4, <2>6, <3>1, <3>2
    <2>9. p[k + 1] = (p[k] \o weak) \o strong
      BY <2>4, <2>6, ConcatBytes
    <2>10. S = ((p[k] \o weak) \o strong) \o u
      BY <2>7, <2>9
    <2>11. S = (p[k] \o weak) \o (strong \o u)
      BY <2>4, <2>8, <2>10, ConcatBytes
    <2> HIDE DEF place
    <2>12. SubSeq(S, Len(p[k]) + 1, Len(p[k]) + Len(weak)) = weak
      BY <2>4, <2>6, <2>8, <2>11, PieceBetween
    <2>13. SubSeq(S, Len(p[k] \o weak) + 1, Len(p[k] \o weak) + Len(strong)) = strong
      BY <2>4, <2>8, <2>10, PieceBetween
    <2>14. /\ SubSeq(S, place + 1, place + 4) = weak
           /\ SubSeq(S, (place + 4) + 1, (place + 4) + a.strong_len) = strong
      BY <2>4, <2>6, <2>8, <2>12, <2>13
    <2> QED
      BY <2>2, <2>3, <2>14 DEF place, weak, strong
  <1>7. /\ SubSeq(S, 0 + 1, 0 + 4) = Netint(a.magic, 4)
        /\ SubSeq(S, 4 + 1, 4 + 4) = Netint(a.block_len, 4)
        /\ SubSeq(S, 8 + 1, 8 + 4) = Netint(a.strong_len, 4)
    <2>1. 0 \in 0 .. q
      BY <1>1
    <2> HIDE DEF p, S, q
    <2>2. PICK u \in Seq(Nat) : S = HeaderOf(a) \o u
      BY <1>1, <1>4, <2>1 DEF Starts
    <2>3. a.magic \in Int /\ a.block_len \in Int /\ a.strong_len \in Int
      BY <1>2
    <2>4. /\ SubSeq(HeaderOf(a) \o u, 0 + 1, 0 + 4) = Netint(a.magic, 4)
          /\ SubSeq(HeaderOf(a) \o u, 4 + 1, 4 + 4) = Netint(a.block_len, 4)
          /\ SubSeq(HeaderOf(a) \o u, 8 + 1, 8 + 4) = Netint(a.strong_len, 4)
      BY <2>3, HeaderPieces
    <2> QED
      BY <2>2, <2>4
  <1>8. S \in Seq(Nat) /\ Len(S) = 12 + q * len
    <2>1. q \in 0 .. q
      BY <1>1
    <2> HIDE DEF p, S, q, len
    <2> QED
      BY <1>1, <1>3, <2>1
  <1> HIDE DEF S, q, next, kind
  <1> QED
    BY <1>1, <1>6, <1>7, <1>8 DEF a, q, S, kind, next

\* The parameters that a file is made with, given again, are accepted as they are.
LEMMA ParamsStand ==
    ASSUME NEW x, ArgsOK(x), rs_sig_args(-1, x).result = "RS_DONE"
    PROVE  LET a == rs_sig_args(-1, x)
               b == rs_sig_args(-1, [magic |-> a.magic, block_len |-> a.block_len,
                                     strong_len |-> a.strong_len])
           IN  /\ b.magic = a.magic /\ b.block_len = a.block_len /\ b.strong_len = a.strong_len
               /\ b.result = "RS_DONE"
  <1> DEFINE a == rs_sig_args(-1, x)
             y == [magic |-> a.magic, block_len |-> a.block_len, strong_len |-> a.strong_len]
             b == rs_sig_args(-1, y)
             max == IF a.magic \in MD4Magics THEN RS_MD4_SUM_LENGTH ELSE RS_BLAKE2_SUM_LENGTH
  <1>1. /\ a.magic \in Int /\ a.block_len \in Nat \ {0} /\ a.strong_len \in Nat \ {0}
        /\ rs_sig_args_check(a.magic, a.block_len, a.strong_len)
    BY SigArgsFacts DEF ArgsOK
  <1>2. a.magic # 0 \/ a.magic = RS_RK_BLAKE2_SIG_MAGIC
    BY DEF rs_sig_args
  <1>3. a.magic \in MD4Magics \cup Blake2Magics
    BY <1>1 DEF rs_sig_args_check
  <1>4. a.strong_len <= max
    <2>1. a.result = "RS_DONE"
      OBVIOUS
    <2>2. /\ RS_DEFAULT_MIN_STRONG_LEN \in Nat
          /\ \A len \in {RS_MD4_SUM_LENGTH, RS_BLAKE2_SUM_LENGTH} :
               len \in Nat /\ RS_DEFAULT_MIN_STRONG_LEN <= len
      BY SigArgsAssumption
    <2>3. CASE x.strong_len = 0
      <3>1. a.strong_len = max
        BY <2>3 DEF rs_sig_args
      <3> QED
        BY <2>2, <3>1
    <2>4. CASE x.strong_len = -1
      <3>1. a.strong_len = RS_DEFAULT_MIN_STRONG_LEN
        BY <2>4 DEF rs_sig_args, MinStrongLen
      <3> QED
        BY <2>2, <3>1
    <2>5. CASE x.strong_len \notin {0, -1}
      <3>1. a.strong_len = x.strong_len /\ ~(x.strong_len > max)
        BY <2>1, <2>5 DEF rs_sig_args
      <3> QED
        BY <2>2, <3>1 DEF ArgsOK
    <2> QED
      BY <2>3, <2>4, <2>5
  <1>5. y.magic = a.magic /\ y.block_len = a.block_len /\ y.strong_len = a.strong_len
    OBVIOUS
  <1> HIDE DEF a, y
  <1>6. b.magic = a.magic
    BY <1>2, <1>5 DEF rs_sig_args
  <1>7. b.block_len = a.block_len /\ b.strong_len = a.strong_len
    BY <1>1, <1>5 DEF rs_sig_args
  <1>8. b.result = "RS_DONE"
    <2>1. b.result = IF b.magic \notin MD4Magics \cup Blake2Magics THEN "RS_BAD_MAGIC"
                     ELSE IF y.strong_len \notin {0, -1} /\ ~(-1 >= 0 /\ y.strong_len < MinStrongLen(-1, b.block_len))
                               /\ y.strong_len > (IF b.magic \in MD4Magics THEN RS_MD4_SUM_LENGTH ELSE RS_BLAKE2_SUM_LENGTH)
                          THEN "RS_PARAM_ERROR"
                     ELSE "RS_DONE"
      BY DEF rs_sig_args
    <2>2. ~(a.strong_len > max)
      <3>1. max \in Nat
        BY SigArgsAssumption
      <3> QED
        BY <1>1, <1>4, <3>1
    <2> QED
      BY <1>3, <1>5, <1>6, <2>1, <2>2
  <1> QED
    BY <1>6, <1>7, <1>8 DEF a, y

\* What the file means is what it was made of.
LEMMA SignatureMeans ==
    ASSUME NEW s \in Sources, rs_sig_args(-1, s.args).result = "RS_DONE"
    PROVE  LET a == rs_sig_args(-1, s.args)
               S == SignatureOf(s.basis, s.args)
               blocks == BlocksOf(s.basis, a.block_len)
               kind == rs_signature_weaksum_kind(a.magic)
           IN  /\ ParamsIn(S).block_len = a.block_len
               /\ BlockTotal(S) = Len(blocks) /\ Len(blocks) \in Nat
               /\ \A k \in 1 .. Len(blocks) :
                    /\ Entry(S, k).weak_sum = Mixed(a.magic, rs_calc_weak_sum(kind, blocks[k]))
                    /\ Entry(S, k).strong_sum = StrongPart(a.magic, a.strong_len, blocks[k])
  <1> DEFINE basis == s.basis
             x == s.args
             a == rs_sig_args(-1, x)
             S == SignatureOf(basis, x)
             blocks == BlocksOf(basis, a.block_len)
             kind == rs_signature_weaksum_kind(a.magic)
             q == BlockCount(basis, a.block_len)
             len == 4 + a.strong_len
             h == HeaderMeaning(S)
             M == Radix ^ 4
  <1>1. Summable(basis) /\ ArgsOK(x) /\ \A v \in {a.magic, a.block_len, a.strong_len} : 0 <= v /\ v < M \div 2
    BY LoadsigAssumption
  <1>2. M \in Nat \ {0}
    BY NetintAssumption
  <1>3. /\ a.magic \in Nat /\ a.block_len \in Nat \ {0} /\ a.strong_len \in Nat \ {0}
        /\ a.strong_len <= RS_MAX_STRONG_SUM_LENGTH
    BY <1>1, SigArgsFacts DEF ArgsOK
  <1>4. /\ S \in Seq(Nat) /\ q \in Nat /\ Len(S) = 12 + q * len
        /\ SubSeq(S, 0 + 1, 0 + 4) = Netint(a.magic, 4)
        /\ SubSeq(S, 4 + 1, 4 + 4) = Netint(a.block_len, 4)
        /\ SubSeq(S, 8 + 1, 8 + 4) = Netint(a.strong_len, 4)
        /\ \A k \in Nat : k < q =>
             LET place == 12 + k * len
                 block == NextBlock(basis, a.block_len, k)
             IN  /\ block \in Seq(Nat)
                 /\ SubSeq(S, place + 1, place + 4) = Netint(rs_calc_weak_sum(kind, block), 4)
                 /\ SubSeq(S, (place + 4) + 1, (place + 4) + a.strong_len)
                      = StrongPart(a.magic, a.strong_len, block)
    BY <1>1, SignaturePieces
  <1>5. Len(blocks) = q /\ \A k \in 1 .. q : blocks[k] = NextBlock(basis, a.block_len, k - 1)
    BY <1>1, <1>3, BlocksFacts DEF Summable
  <1>6. /\ Field(S, 1) = a.magic /\ Field(S, 2) = a.block_len /\ Field(S, 3) = a.strong_len
    <2>1. \A v \in {a.magic, a.block_len, a.strong_len} : v \in Nat /\ v < M \div 2 /\ v < M
      <3> HIDE DEF M, a
      <3>1. \A v \in Nat : v < M \div 2 => v < M
        BY <1>2
      <3> QED
        BY <1>1, <1>3, <3>1
    <2>2. \A v \in {a.magic, a.block_len, a.strong_len} : N4Value(Netint(v, 4)) = v
      BY <2>1, FourBytesBack
    <2>3. /\ Field(S, 1) = N4Value(SubSeq(S, 0 + 1, 0 + 4))
          /\ Field(S, 2) = N4Value(SubSeq(S, 4 + 1, 4 + 4))
          /\ Field(S, 3) = N4Value(SubSeq(S, 8 + 1, 8 + 4))
      BY <1>4, FieldFacts
    <2> QED
      BY <1>4, <2>2, <2>3
  <1>7. /\ ParamsIn(S).magic = a.magic /\ ParamsIn(S).block_len = a.block_len
        /\ ParamsIn(S).strong_len = a.strong_len /\ ParamsIn(S).result = "RS_DONE"
    BY <1>1, <1>6, ParamsStand DEF ParamsIn
  <1> HIDE DEF a, S, q, M
  <1>8. len \in Nat \ {0} /\ q * len \in Nat /\ (q + 1) * len = q * len + len
    <2>1. len \in Nat \ {0}
      BY <1>3
    <2> HIDE DEF len
    <2> QED
      BY <1>4, <2>1
  <1>9. Len(S) >= 12 /\ Len(S) >= 8 /\ Field(S, 2) >= 1 /\ Field(S, 3) \in 0 .. RS_MAX_STRONG_SUM_LENGTH
    <2>1. RS_MAX_STRONG_SUM_LENGTH \in Nat
      BY SigArgsAssumption
    <2>2. PICK n \in Nat : Len(S) = 12 + n
      BY <1>4, <1>8
    <2>3. Len(S) >= 12 /\ Len(S) >= 8
      BY <2>2
    <2>4. Field(S, 2) >= 1
      BY <1>3, <1>6
    <2>5. Field(S, 3) \in 0 .. RS_MAX_STRONG_SUM_LENGTH
      BY <1>3, <1>6, <2>1
    <2> QED
      BY <2>3, <2>4, <2>5
  <1>10. h.result = "RS_DONE" /\ h.magic = a.magic /\ h.strong_len = a.strong_len
    <2> HIDE DEF h
    <2>1. h.result = ParamsIn(S).result /\ h.magic = ParamsIn(S).magic
          /\ h.strong_len = ParamsIn(S).strong_len
      BY <1>4, <1>9, HeaderCases DEF ParamsIn, h
    <2> QED
      BY <1>7, <2>1
  <1>11. BlockSize(S) = len
    BY <1>10 DEF BlockSize
  <1> HIDE DEF h, len
  <1>12. BlockTotal(S) = q
    <2>0. S \in Seq(Nat) /\ q \in Nat /\ Len(S) = 12 + q * len
      BY <1>4
    <2>1. /\ BlockTotal(S) \in Nat
          /\ \A k \in Nat : 12 + k * len <= Len(S) <=> k <= BlockTotal(S)
      BY <1>10, <1>11, <2>0, FileFacts DEF h
    <2>2. PICK n \in Nat, t \in Nat : n = q * len /\ t = BlockTotal(S)
      BY <1>8, <2>1
    <2>3. 12 + q * len <= Len(S) /\ ~(12 + (q + 1) * len <= Len(S))
      <3>1. (q + 1) * len = n + len /\ Len(S) = 12 + n /\ q * len = n
        BY <1>8, <2>0, <2>2
      <3>2. ~(12 + (n + len) <= 12 + n) /\ 12 + n <= 12 + n
        BY <1>8
      <3> QED
        BY <3>1, <3>2
    <2>4. q + 1 \in Nat
      BY <2>0
    <2>5. q <= t /\ ~(q + 1 <= t)
      BY <2>0, <2>1, <2>2, <2>3, <2>4, Zenon
    <2>6. q = t
      BY <2>0, <2>5
    <2> QED
      BY <2>2, <2>6
  <1>13. ASSUME NEW k \in 1 .. q
         PROVE  /\ Entry(S, k).weak_sum = Mixed(a.magic, rs_calc_weak_sum(kind, blocks[k]))
                /\ Entry(S, k).strong_sum = StrongPart(a.magic, a.strong_len, blocks[k])
    <2> DEFINE place == 12 + (k - 1) * len
               block == blocks[k]
               weak == rs_calc_weak_sum(kind, block)
    <2>1. k - 1 \in Nat /\ k - 1 < q /\ k \in Nat
      <3>1. q \in Nat
        BY <1>4, Zenon
      <3> HIDE DEF q
      <3> QED
        BY <3>1
    <2>2. block = NextBlock(basis, a.block_len, k - 1)
      BY <1>5
    <2>3. /\ block \in Seq(Nat)
          /\ SubSeq(S, place + 1, place + 4) = Netint(weak, 4)
          /\ SubSeq(S, (place + 4) + 1, (place + 4) + a.strong_len)
               = StrongPart(a.magic, a.strong_len, block)
      BY <1>4, <2>1, <2>2
    <2>4. weak \in Nat /\ weak < M
      <3>1. weak < RollMod * RollMod \/ weak < RkMod
        BY <2>3, WeakSumNumber
      <3>2. weak \in Nat
        BY <2>3, WeakSumNumber
      <3>3. RollMod * RollMod \in Nat /\ RkMod \in Nat /\ RollMod * RollMod <= M /\ RkMod <= M
        BY WeaksumAssumption, LoadsigAssumption DEF M
      <3> HIDE DEF weak
      <3> QED
        BY <1>2, <3>1, <3>2, <3>3
    <2> HIDE DEF weak, block, blocks, kind
    <2>5. place \in Nat /\ 12 + k * len = (place + 4) + a.strong_len /\ place + 5 = (place + 4) + 1
      <3>1. (k - 1) * len + len = k * len /\ (k - 1) * len \in Nat
        BY <1>8, <2>1
      <3>2. len = 4 + a.strong_len
        BY DEF len
      <3> QED
        BY <1>3, <3>1, <3>2
    <2>6. WeakAt(S, k) = weak
      <3>1. WeakAt(S, k) = Shifted(SubSeq(S, place + 1, place + 4)) % Radix ^ 4
        BY <1>11 DEF WeakAt
      <3>2. Shifted(Netint(weak, 4)) % Radix ^ 4 = weak
        BY <2>4, FourBytesBack DEF M
      <3> QED
        BY <2>3, <3>1, <3>2
    <2>7. StrongAt(S, k) = StrongPart(a.magic, a.strong_len, block)
      <3>1. StrongAt(S, k) = SubSeq(S, place + 5, 12 + k * len)
        BY <1>11 DEF StrongAt
      <3> QED
        BY <2>3, <2>5, <3>1
    <2>8. /\ Entry(S, k).weak_sum = Mixed(h.magic, WeakAt(S, k))
          /\ Entry(S, k).strong_sum = StrongAt(S, k)
      BY DEF Entry, h
    <2> QED
      BY <1>10, <2>6, <2>7, <2>8 DEF weak, block
  <1> HIDE DEF blocks, kind
  <1> QED
    BY <1>4, <1>5, <1>7, <1>12, <1>13 DEF a, S, blocks, kind

\* The digest that the delta job looks up for a block is the weak sum written for
\* it, mixed as the loaded one is.
LEMMA DigestIsMixed ==
    ASSUME NEW magic, NEW block
    PROVE  LET kind == rs_signature_weaksum_kind(magic)
           IN  weaksum_digest(weaksum_update(weaksum_init(kind), block))
                 = Mixed(magic, rs_calc_weak_sum(kind, block))
  <1> DEFINE kind == rs_signature_weaksum_kind(magic)
  <1>1. CASE kind = "RS_ROLLSUM"
    <2>1. weaksum_init(kind) = RollsumInit /\ RollsumInit.kind = "RS_ROLLSUM"
      BY <1>1 DEF weaksum_init, RollsumInit
    <2>2. weaksum_update(RollsumInit, block) = RollsumUpdate(RollsumInit, block)
      BY <2>1 DEF weaksum_update
    <2>3. RollsumUpdate(RollsumInit, block).kind = "RS_ROLLSUM"
      BY DEF RollsumUpdate, RollsumInit
    <2> QED
      BY <1>1, <2>1, <2>2, <2>3 DEF weaksum_digest, Mixed, rs_calc_weak_sum
  <1>2. CASE kind # "RS_ROLLSUM"
    <2>1. weaksum_init(kind) = rabinkarp_init /\ rabinkarp_init.kind # "RS_ROLLSUM"
      BY <1>2 DEF weaksum_init, rabinkarp_init
    <2>2. weaksum_update(rabinkarp_init, block) = rabinkarp_update(rabinkarp_init, block)
      BY <2>1 DEF weaksum_update
    <2>3. rabinkarp_update(rabinkarp_init, block).kind # "RS_ROLLSUM"
      BY DEF rabinkarp_update, rabinkarp_init
    <2> QED
      BY <1>2, <2>1, <2>2, <2>3 DEF weaksum_digest, Mixed, rs_calc_weak_sum
  <1> QED
    BY <1>1, <1>2

\* LoadedSignatureFindsBlocks (Loadsig.tla): what the loadsig job makes of the file
\* that mksum writes for a basis has, for each block, the strong sum and the digest
\* that the delta job computes when it meets the block (rs_sig_do_block of mksum.c,
\* rs_signature_add_block and rs_signature_find_match of sumset.c).
THEOREM LoadsigFindsBlocks == Spec => []LoadedSignatureFindsBlocks
  <1>1. LoadsigInv => LoadedSignatureFindsBlocks
    <2> SUFFICES ASSUME LoadsigInv, result = "RS_DONE", NEW s \in Sources,
                        input = SignatureOf(s.basis, s.args)
                 PROVE  LET a == rs_sig_args(-1, s.args)
                            blocks == BlocksOf(s.basis, a.block_len)
                            kind == rs_signature_weaksum_kind(a.magic)
                        IN  /\ sig.block_len = a.block_len
                            /\ Len(sig.block_sigs) = Len(blocks)
                            /\ \A k \in 1 .. Len(blocks) :
                                 /\ sig.block_sigs[k].weak_sum
                                      = weaksum_digest(weaksum_update(weaksum_init(kind), blocks[k]))
                                 /\ sig.block_sigs[k].strong_sum
                                      = StrongPart(a.magic, a.strong_len, blocks[k])
      BY DEF LoadedSignatureFindsBlocks
    <2> DEFINE a == rs_sig_args(-1, s.args)
               blocks == BlocksOf(s.basis, a.block_len)
               kind == rs_signature_weaksum_kind(a.magic)
    <2>1. /\ pc = "caller" /\ sig_blocks = BlockTotal(input) /\ statefn = "NULL"
          /\ FileVerdict(input) = "RS_DONE"
      BY DEF LoadsigInv, InTurn, Over, Answered
    <2>2. /\ sig.block_sigs = Loaded(input, BlockTotal(input)) /\ input \in Seq(Nat)
          /\ HeaderMeaning(input).result = "RS_DONE" /\ sig.block_len = ParamsIn(input).block_len
      BY <2>1 DEF LoadsigInv, LoadsigTypeOK, BlocksSoFar, AfterHeader
    <2>3. a.result = "RS_DONE"
      <3> SUFFICES ASSUME a.result # "RS_DONE"
                   PROVE  FALSE
        OBVIOUS
      <3>1. input = <<>>
        BY DEF SignatureOf
      <3>2. Len(input) < 8
        BY <3>1
      <3> QED
        BY <2>2, <3>2, HeaderCases
    <2>4. /\ ParamsIn(input).block_len = a.block_len
          /\ BlockTotal(input) = Len(blocks) /\ Len(blocks) \in Nat
          /\ \A k \in 1 .. Len(blocks) :
               /\ Entry(input, k).weak_sum = Mixed(a.magic, rs_calc_weak_sum(kind, blocks[k]))
               /\ Entry(input, k).strong_sum = StrongPart(a.magic, a.strong_len, blocks[k])
      BY <2>3, SignatureMeans
    <2>5. \A k \in 1 .. Len(blocks) :
            weaksum_digest(weaksum_update(weaksum_init(kind), blocks[k]))
              = Mixed(a.magic, rs_calc_weak_sum(kind, blocks[k]))
      BY DigestIsMixed
    <2> HIDE DEF a, blocks, kind
    <2>6. Len(sig.block_sigs) = Len(blocks)
      BY <2>2, <2>4, LoadedFacts
    <2>7. \A k \in 1 .. Len(blocks) : sig.block_sigs[k] = Entry(input, k)
      BY <2>2, <2>4 DEF Loaded
    <2> QED
      BY <2>2, <2>4, <2>5, <2>6, <2>7 DEF a, blocks, kind
  <1> QED
    BY <1>1, LoadsigAlways, PTL DEF Spec

=============================================================================

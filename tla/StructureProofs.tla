-------------------------- MODULE StructureProofs ---------------------------
(***************************************************************************)
(* The library's two data structures: the scoop, through which the jobs    *)
(* read, and the hash table, in which the delta job finds the blocks of a  *)
(* signature.                                                              *)
(*                                                                         *)
(* The scoop keeps its data intact and implements the byte stream, for     *)
(* every stream length, every sequence of request sizes, every way of      *)
(* cutting the stream into input buffers and every set of allocation       *)
(* sizes.  The scoop operations are functions of a record, so what each of *)
(* them preserves is stated of the record first (ScoopOK); the invariance  *)
(* and refinement proofs then only combine these lemmas.                   *)
(*                                                                         *)
(* The hash table finds what a search through the list of the blocks would *)
(* find, for every list and every width of the hashes, and no probe of it  *)
(* goes on for ever.  Again a well-formed table is defined first           *)
(* (TableOK), and each operation of hashtable.h is shown to keep it so.    *)
(***************************************************************************)
EXTENDS Scoop, Sumset, FiniteSetTheorems, WellFoundedInduction, NaturalsInduction, TLAPS

-----------------------------------------------------------------------------
(* scoop.c                                                                 *)


Fields == {"scoop_buf", "scoop_alloc", "scoop_next", "scoop_avail", "next_in", "avail_in"}

\* A well-formed scoop with intact data: TypeOK, ScoopIntegrity and StreamBound
\* as far as they are about the scoop record.
Shape(s) == DOMAIN s = Fields /\ s = [f \in Fields |-> s[f]]
Numbers(s) ==
    /\ s.scoop_alloc \in Nat /\ s.scoop_next \in Nat /\ s.scoop_avail \in Nat
    /\ s.next_in \in Nat /\ s.avail_in \in Nat
    /\ s.next_in + s.avail_in <= StreamLen
    /\ s.scoop_next + s.scoop_avail <= s.scoop_alloc
    /\ s.scoop_avail <= s.next_in
Buffer(s) == s.scoop_buf \in [0 .. s.scoop_alloc - 1 -> Byte \cup {Junk}]
Content(s) ==
    \A i \in 0 .. s.scoop_avail - 1 :
        s.scoop_buf[s.scoop_next + i] = s.next_in - s.scoop_avail + i
ScoopOK(s) == Shape(s) /\ Numbers(s) /\ Buffer(s) /\ Content(s)

\* The cursor of the byte stream.
Cursor(s) == s.next_in - s.scoop_avail

-----------------------------------------------------------------------------
\* The allocation chosen for a request is large enough (scoop.c, the loop
\* that doubles newsize).
LEMMA NewSizeFits ==
    ASSUME NEW len \in 0 .. MaxRead
    PROVE  NewSize(len) \in Nat /\ NewSize(len) >= len
<1>1. \E size \in ScoopSizes :
        size >= len /\ \A t \in ScoopSizes : t >= len => size <= t
  BY SizesAssumption
<1>2. NewSize(len) \in ScoopSizes /\ NewSize(len) >= len
  BY <1>1 DEF NewSize
<1> QED
  BY <1>2, SizesAssumption

\* The bounds as the proofs below use them.
LEMMA Bounds == StreamLen \in Nat /\ MaxRead \in Nat /\ 1 <= MaxRead /\ StreamLen <= MaxRead
  BY SizesAssumption

\* Making room keeps the data and leaves place for len bytes at scoop_next
\* (scoop.c, resize or move).
LEMMA RoomOK ==
    ASSUME NEW s, ScoopOK(s), NEW len \in 0 .. MaxRead, s.scoop_avail < len
    PROVE  /\ ScoopOK(Room(s, len))
           /\ Room(s, len).scoop_next + len <= Room(s, len).scoop_alloc
           /\ Room(s, len).scoop_avail = s.scoop_avail
           /\ Room(s, len).next_in = s.next_in
           /\ Room(s, len).avail_in = s.avail_in
<1> DEFINE r == Room(s, len)
<1>s. Shape(s) /\ Numbers(s) /\ Buffer(s) /\ Content(s) /\ len \in Nat
  BY Bounds DEF ScoopOK
<1>1. CASE s.scoop_alloc < len
  <2> DEFINE buf == [k \in 0 .. NewSize(len) - 1 |->
                        IF k < s.scoop_avail THEN s.scoop_buf[s.scoop_next + k] ELSE Junk]
  <2>1. r = [s EXCEPT !.scoop_alloc = NewSize(len), !.scoop_next = 0, !.scoop_buf = buf]
    BY <1>1 DEF Room
  <2> HIDE DEF r, buf
  <2>2. /\ Shape(r)
        /\ r.scoop_alloc = NewSize(len) /\ r.scoop_next = 0 /\ r.scoop_buf = buf
        /\ r.scoop_avail = s.scoop_avail
        /\ r.next_in = s.next_in /\ r.avail_in = s.avail_in
    BY <1>s, <2>1 DEF Shape, Fields
  <2>3. NewSize(len) \in Nat /\ NewSize(len) >= len
    BY NewSizeFits
  <2>4. Numbers(r)
    BY <1>s, <1>1, <2>2, <2>3 DEF Numbers
  <2>5. Buffer(r)
    <3>1. ASSUME NEW k \in 0 .. NewSize(len) - 1, k < s.scoop_avail
          PROVE  s.scoop_buf[s.scoop_next + k] \in Byte \cup {Junk}
      <4>1. s.scoop_next + k \in 0 .. s.scoop_alloc - 1
        BY <1>s, <2>3, <3>1 DEF Numbers
      <4> QED
        BY <1>s, <4>1 DEF Buffer
    <3>2. buf \in [0 .. NewSize(len) - 1 -> Byte \cup {Junk}]
      BY <3>1 DEF buf
    <3> QED
      BY <2>2, <3>2 DEF Buffer
  <2>6. Content(r)
    <3>1. ASSUME NEW i \in 0 .. s.scoop_avail - 1
          PROVE  buf[0 + i] = s.next_in - s.scoop_avail + i
      <4>1. i \in 0 .. NewSize(len) - 1 /\ i < s.scoop_avail /\ 0 + i = i
        BY <1>s, <1>1, <2>3 DEF Numbers
      <4> QED
        BY <1>s, <4>1 DEF Content, buf
    <3> QED
      BY <2>2, <3>1 DEF Content
  <2> QED
    BY <1>s, <2>2, <2>3, <2>4, <2>5, <2>6 DEF r, ScoopOK
<1>2. CASE ~(s.scoop_alloc < len) /\ s.scoop_alloc < s.scoop_next + len
  <2> DEFINE buf == [k \in 0 .. s.scoop_alloc - 1 |->
                        IF k < s.scoop_avail THEN s.scoop_buf[s.scoop_next + k] ELSE s.scoop_buf[k]]
  <2>1. r = [s EXCEPT !.scoop_next = 0, !.scoop_buf = buf]
    BY <1>2 DEF Room
  <2> HIDE DEF r, buf
  <2>2. /\ Shape(r)
        /\ r.scoop_alloc = s.scoop_alloc /\ r.scoop_next = 0 /\ r.scoop_buf = buf
        /\ r.scoop_avail = s.scoop_avail
        /\ r.next_in = s.next_in /\ r.avail_in = s.avail_in
    BY <1>s, <2>1 DEF Shape, Fields
  <2>4. Numbers(r) /\ len <= r.scoop_alloc
    BY <1>s, <1>2, <2>2 DEF Numbers
  <2>5. Buffer(r)
    <3>1. ASSUME NEW k \in 0 .. s.scoop_alloc - 1, k < s.scoop_avail
          PROVE  s.scoop_buf[s.scoop_next + k] \in Byte \cup {Junk}
      <4>1. s.scoop_next + k \in 0 .. s.scoop_alloc - 1
        BY <1>s, <3>1 DEF Numbers
      <4> QED
        BY <1>s, <4>1 DEF Buffer
    <3>2. ASSUME NEW k \in 0 .. s.scoop_alloc - 1
          PROVE  s.scoop_buf[k] \in Byte \cup {Junk}
      BY <1>s DEF Buffer
    <3>3. buf \in [0 .. s.scoop_alloc - 1 -> Byte \cup {Junk}]
      BY <3>1, <3>2 DEF buf
    <3> QED
      BY <2>2, <3>3 DEF Buffer
  <2>6. Content(r)
    <3>1. ASSUME NEW i \in 0 .. s.scoop_avail - 1
          PROVE  buf[0 + i] = s.next_in - s.scoop_avail + i
      <4>1. i \in 0 .. s.scoop_alloc - 1 /\ i < s.scoop_avail /\ 0 + i = i
        BY <1>s, <1>2 DEF Numbers
      <4> QED
        BY <1>s, <4>1 DEF Content, buf
    <3> QED
      BY <2>2, <3>1 DEF Content
  <2> QED
    BY <1>s, <2>2, <2>4, <2>5, <2>6 DEF r, ScoopOK
<1>3. CASE ~(s.scoop_alloc < len) /\ ~(s.scoop_alloc < s.scoop_next + len)
  BY <1>s, <1>3 DEF Room, Numbers
<1> QED
  BY <1>1, <1>2, <1>3

\* Appending input to the scoop keeps the data and the order of the bytes.
LEMMA TakeOK ==
    ASSUME NEW s, ScoopOK(s), NEW n \in 0 .. s.avail_in,
           s.scoop_next + s.scoop_avail + n <= s.scoop_alloc
    PROVE  /\ ScoopOK(Take(s, n))
           /\ Take(s, n).scoop_avail = s.scoop_avail + n
           /\ Take(s, n).next_in = s.next_in + n
           /\ Take(s, n).avail_in = s.avail_in - n
           /\ Take(s, n).scoop_next = s.scoop_next
<1> DEFINE r == Take(s, n)
           end == s.scoop_next + s.scoop_avail
           buf == [k \in 0 .. s.scoop_alloc - 1 |->
                     IF end <= k /\ k < end + n
                       THEN s.next_in + (k - end) ELSE s.scoop_buf[k]]
<1>s. Shape(s) /\ Numbers(s) /\ Buffer(s) /\ Content(s)
  BY DEF ScoopOK
<1>n. n \in Nat /\ n <= s.avail_in /\ end \in Nat /\ end + n <= s.scoop_alloc
  BY <1>s DEF Numbers
<1>1. r = [s EXCEPT !.scoop_buf = buf, !.scoop_avail = s.scoop_avail + n,
                    !.next_in = s.next_in + n, !.avail_in = s.avail_in - n]
  BY DEF Take
<1> HIDE DEF r, buf
<1>2. /\ Shape(r) /\ r.scoop_buf = buf
      /\ r.scoop_alloc = s.scoop_alloc /\ r.scoop_next = s.scoop_next
      /\ r.scoop_avail = s.scoop_avail + n
      /\ r.next_in = s.next_in + n /\ r.avail_in = s.avail_in - n
  BY <1>s, <1>1 DEF Shape, Fields
<1>3. Numbers(r)
  BY <1>s, <1>n, <1>2 DEF Numbers
<1>4. Buffer(r)
  <2>1. ASSUME NEW k \in 0 .. s.scoop_alloc - 1, end <= k, k < end + n
        PROVE  s.next_in + (k - end) \in Byte
    BY <1>s, <1>n, <2>1, Bounds DEF Numbers, Byte
  <2>2. ASSUME NEW k \in 0 .. s.scoop_alloc - 1
        PROVE  s.scoop_buf[k] \in Byte \cup {Junk}
    BY <1>s DEF Buffer
  <2>3. buf \in [0 .. s.scoop_alloc - 1 -> Byte \cup {Junk}]
    BY <2>1, <2>2 DEF buf
  <2> QED
    BY <1>2, <2>3 DEF Buffer
<1>5. Content(r)
  <2>1. ASSUME NEW i \in 0 .. (s.scoop_avail + n) - 1
        PROVE  buf[s.scoop_next + i] = (s.next_in + n) - (s.scoop_avail + n) + i
    <3>1. s.scoop_next + i \in 0 .. s.scoop_alloc - 1
      BY <1>s, <1>n DEF Numbers
    <3>2. CASE i < s.scoop_avail
      <4>1. i \in 0 .. s.scoop_avail - 1 /\ ~(end <= s.scoop_next + i)
        BY <1>s, <3>2 DEF Numbers
      <4>2. buf[s.scoop_next + i] = s.next_in - s.scoop_avail + i
        BY <1>s, <3>1, <4>1 DEF Content, buf
      <4> QED
        BY <1>s, <1>n, <4>2 DEF Numbers
    <3>3. CASE ~(i < s.scoop_avail)
      <4>1. end <= s.scoop_next + i /\ s.scoop_next + i < end + n
        BY <1>s, <1>n, <3>3 DEF Numbers
      <4>2. buf[s.scoop_next + i] = s.next_in + ((s.scoop_next + i) - end)
        BY <3>1, <4>1 DEF buf
      <4> QED
        BY <1>s, <1>n, <4>2 DEF Numbers
    <3> QED
      BY <3>2, <3>3
  <2> QED
    BY <1>2, <2>1 DEF Content
<1> QED
  BY <1>2, <1>3, <1>4, <1>5 DEF r, ScoopOK

\* Stepping over bytes that lie in one place moves the cursor by that many
\* (scoop.c, rs_scoop_advance).
LEMMA AdvanceOK ==
    ASSUME NEW s, ScoopOK(s), NEW n \in 0 .. rs_scoop_len(s)
    PROVE  /\ ScoopOK(rs_scoop_advance(s, n))
           /\ Cursor(rs_scoop_advance(s, n)) = Cursor(s) + n
           /\ rs_scoop_avail(rs_scoop_advance(s, n)) = rs_scoop_avail(s) - n
           /\ rs_scoop_advance(s, n).next_in + rs_scoop_advance(s, n).avail_in
                = s.next_in + s.avail_in
           /\ rs_scoop_advance(s, n).scoop_buf = s.scoop_buf
           /\ s.scoop_avail > 0 =>
                /\ rs_scoop_advance(s, n).scoop_next = s.scoop_next + n
                /\ rs_scoop_advance(s, n).scoop_avail = s.scoop_avail - n
                /\ rs_scoop_advance(s, n).next_in = s.next_in
                /\ rs_scoop_advance(s, n).avail_in = s.avail_in
           /\ s.scoop_avail = 0 =>
                /\ rs_scoop_advance(s, n).scoop_avail = 0
                /\ rs_scoop_advance(s, n).next_in = s.next_in + n
                /\ rs_scoop_advance(s, n).avail_in = s.avail_in - n
<1> DEFINE r == rs_scoop_advance(s, n)
<1>s. Shape(s) /\ Numbers(s) /\ Buffer(s) /\ Content(s)
  BY DEF ScoopOK
<1>1. CASE s.scoop_avail > 0
  <2>1. r = [s EXCEPT !.scoop_avail = s.scoop_avail - n, !.scoop_next = s.scoop_next + n]
    BY <1>1 DEF rs_scoop_advance
  <2> HIDE DEF r
  <2>2. /\ Shape(r) /\ r.scoop_alloc = s.scoop_alloc /\ r.scoop_buf = s.scoop_buf
        /\ r.scoop_next = s.scoop_next + n /\ r.scoop_avail = s.scoop_avail - n
        /\ r.next_in = s.next_in /\ r.avail_in = s.avail_in
    BY <1>s, <2>1 DEF Shape, Fields
  <2>3. n \in Nat /\ n <= s.scoop_avail
    BY <1>s, <1>1 DEF rs_scoop_len, Numbers
  <2>4. Numbers(r)
    BY <1>s, <2>2, <2>3 DEF Numbers
  <2>5. Content(r)
    <3>1. ASSUME NEW i \in 0 .. (s.scoop_avail - n) - 1
          PROVE  s.scoop_buf[(s.scoop_next + n) + i] = s.next_in - (s.scoop_avail - n) + i
      <4>1. n + i \in 0 .. s.scoop_avail - 1
        BY <1>s, <2>3 DEF Numbers
      <4>2. s.scoop_buf[s.scoop_next + (n + i)] = s.next_in - s.scoop_avail + (n + i)
        BY <1>s, <4>1 DEF Content
      <4>3. /\ s.scoop_next + (n + i) = (s.scoop_next + n) + i
            /\ s.next_in - s.scoop_avail + (n + i) = s.next_in - (s.scoop_avail - n) + i
        BY <1>s, <2>3 DEF Numbers
      <4> QED
        BY <4>2, <4>3
    <3> QED
      BY <2>2, <3>1 DEF Content
  <2>6. ScoopOK(r)
    BY <1>s, <2>2, <2>4, <2>5 DEF ScoopOK, Buffer
  <2>7. Cursor(r) = Cursor(s) + n /\ rs_scoop_avail(r) = rs_scoop_avail(s) - n
    BY <1>s, <2>2, <2>3 DEF Cursor, rs_scoop_avail, Numbers
  <2> QED
    BY <1>1, <2>2, <2>6, <2>7 DEF r
<1>2. CASE s.scoop_avail = 0
  <2>1. r = [s EXCEPT !.avail_in = s.avail_in - n, !.next_in = s.next_in + n]
    BY <1>2 DEF rs_scoop_advance
  <2> HIDE DEF r
  <2>2. /\ Shape(r) /\ r.scoop_alloc = s.scoop_alloc /\ r.scoop_buf = s.scoop_buf
        /\ r.scoop_next = s.scoop_next /\ r.scoop_avail = 0
        /\ r.next_in = s.next_in + n /\ r.avail_in = s.avail_in - n
    BY <1>s, <1>2, <2>1 DEF Shape, Fields
  <2>3. n \in Nat /\ n <= s.avail_in
    BY <1>s, <1>2 DEF rs_scoop_len, Numbers
  <2>4. Numbers(r) /\ r.next_in + r.avail_in = s.next_in + s.avail_in
    BY <1>s, <1>2, <2>2, <2>3 DEF Numbers
  <2>5. Content(r)
    BY <2>2 DEF Content
  <2>6. ScoopOK(r)
    BY <1>s, <2>2, <2>4, <2>5 DEF ScoopOK, Buffer
  <2>7. Cursor(r) = Cursor(s) + n /\ rs_scoop_avail(r) = rs_scoop_avail(s) - n
    BY <1>s, <1>2, <2>2, <2>3 DEF Cursor, rs_scoop_avail, Numbers
  <2> QED
    BY <1>2, <2>2, <2>4, <2>6, <2>7 DEF r
<1> QED
  BY <1>s, <1>1, <1>2 DEF Numbers

\* Looking ahead moves nothing as far as the stream is concerned, succeeds
\* exactly when the caller has handed over enough, and then leaves len bytes in
\* one place (scoop.c, rs_scoop_readahead and rs_scoop_input).
LEMMA ReadaheadOK ==
    ASSUME NEW s, ScoopOK(s), NEW len \in 0 .. MaxRead
    PROVE  /\ ScoopOK(rs_scoop_readahead(s, len))
           /\ Cursor(rs_scoop_readahead(s, len)) = Cursor(s)
           /\ rs_scoop_avail(rs_scoop_readahead(s, len)) = rs_scoop_avail(s)
           /\ rs_scoop_readahead(s, len).next_in + rs_scoop_readahead(s, len).avail_in
                = s.next_in + s.avail_in
           /\ Enough(s, len) <=> rs_scoop_avail(s) >= len
           /\ Direct(s, len) => rs_scoop_readahead(s, len) = s
           /\ Enough(s, len) /\ ~Direct(s, len) =>
                rs_scoop_readahead(s, len).scoop_avail >= len
<1> DEFINE r == rs_scoop_readahead(s, len)
<1>0. /\ s.scoop_avail \in Nat /\ s.avail_in \in Nat /\ s.next_in \in Nat /\ len \in Nat
  BY Bounds DEF ScoopOK, Numbers
<1>1. CASE ~Direct(s, len) /\ s.scoop_avail < len /\ s.avail_in > 0
  <2> DEFINE q == Room(s, len)
             n == Least(len - s.scoop_avail, s.avail_in)
  <2>1. r = Take(q, n)
    BY <1>1 DEF rs_scoop_readahead, rs_scoop_input
  <2>2. /\ ScoopOK(q) /\ q.scoop_next + len <= q.scoop_alloc
        /\ q.scoop_avail = s.scoop_avail
        /\ q.next_in = s.next_in /\ q.avail_in = s.avail_in
    BY <1>1, RoomOK
  <2>3. n \in 0 .. q.avail_in /\ n <= len - s.scoop_avail
        /\ (n = len - s.scoop_avail \/ n = s.avail_in)
    BY <1>0, <1>1, <2>2 DEF Least
  <2>4. q.scoop_next \in Nat /\ q.scoop_alloc \in Nat
    BY <2>2 DEF ScoopOK, Numbers
  <2> HIDE DEF q, n
  <2>5. q.scoop_next + q.scoop_avail + n <= q.scoop_alloc
    BY <1>0, <2>2, <2>3, <2>4
  <2>6. /\ ScoopOK(Take(q, n))
        /\ Take(q, n).scoop_avail = q.scoop_avail + n
        /\ Take(q, n).next_in = q.next_in + n
        /\ Take(q, n).avail_in = q.avail_in - n
    BY <2>2, <2>3, <2>5, TakeOK
  <2> HIDE DEF r
  <2>7. /\ r.scoop_avail = s.scoop_avail + n /\ r.next_in = s.next_in + n
        /\ r.avail_in = s.avail_in - n
    BY <2>1, <2>2, <2>6
  <2>8. r.scoop_avail >= len <=> s.scoop_avail + s.avail_in >= len
    BY <1>0, <2>2, <2>3, <2>7
  <2>9. /\ Cursor(r) = Cursor(s) /\ rs_scoop_avail(r) = rs_scoop_avail(s)
        /\ r.next_in + r.avail_in = s.next_in + s.avail_in
    BY <1>0, <2>2, <2>3, <2>7 DEF Cursor, rs_scoop_avail
  <2>10. Enough(s, len) <=> r.scoop_avail >= len
    BY <1>1 DEF Enough, r
  <2> QED
    BY <1>1, <2>1, <2>6, <2>8, <2>9, <2>10 DEF r, rs_scoop_avail
<1>2. CASE ~(~Direct(s, len) /\ s.scoop_avail < len /\ s.avail_in > 0)
  <2>1. r = s
    BY <1>2 DEF rs_scoop_readahead
  <2>2. Enough(s, len) <=> rs_scoop_avail(s) >= len
    BY <1>0, <1>2, <2>1 DEF Enough, Direct, rs_scoop_avail
  <2>3. Enough(s, len) /\ ~Direct(s, len) => s.scoop_avail >= len
    BY <2>1 DEF Enough
  <2> QED
    BY <2>1, <2>2, <2>3
<1> QED
  BY <1>1, <1>2

\* A pointer returned by rs_scoop_readahead shows the bytes at the cursor.
LEMMA PointerShows ==
    ASSUME NEW s, ScoopOK(s), NEW len \in 0 .. MaxRead, Enough(s, len)
    PROVE  /\ Pointer(s, len) \in [src : {"scoop", "input"}, off : Nat, len : Nat]
           /\ Pointer(s, len).len = len
           /\ \A i \in 0 .. len - 1 :
                (IF Pointer(s, len).src = "scoop"
                   THEN rs_scoop_readahead(s, len).scoop_buf[Pointer(s, len).off + i]
                   ELSE Pointer(s, len).off + i) = Cursor(s) + i
<1> DEFINE r == rs_scoop_readahead(s, len)
           p == Pointer(s, len)
<1>s. Numbers(s) /\ len \in Nat
  BY Bounds DEF ScoopOK
<1>1. CASE Direct(s, len)
  <2>1. p = [src |-> "input", off |-> s.next_in, len |-> len]
    BY <1>1 DEF Pointer
  <2>2. s.scoop_avail = 0 /\ Cursor(s) = s.next_in
    BY <1>s, <1>1 DEF Direct, Cursor, Numbers
  <2> HIDE DEF p
  <2>3. p.src = "input" /\ p.off = s.next_in /\ p.len = len
        /\ p \in [src : {"scoop", "input"}, off : Nat, len : Nat]
    BY <1>s, <2>1 DEF Numbers
  <2> QED
    BY <2>2, <2>3 DEF p
<1>2. CASE ~Direct(s, len)
  <2>1. p = [src |-> "scoop", off |-> r.scoop_next, len |-> len]
    BY <1>2 DEF Pointer
  <2>2. ScoopOK(r) /\ Cursor(r) = Cursor(s) /\ r.scoop_avail >= len
    BY <1>2, ReadaheadOK
  <2>3. Numbers(r) /\ Content(r)
    BY <2>2 DEF ScoopOK
  <2> HIDE DEF r, p
  <2>4. p.src = "scoop" /\ p.off = r.scoop_next /\ p.len = len
        /\ p \in [src : {"scoop", "input"}, off : Nat, len : Nat]
    BY <1>s, <2>1, <2>3 DEF Numbers
  <2>5. ASSUME NEW i \in 0 .. len - 1
        PROVE  r.scoop_buf[r.scoop_next + i] = Cursor(s) + i
    <3>1. i \in 0 .. r.scoop_avail - 1
      BY <1>s, <2>2, <2>3 DEF Numbers
    <3> QED
      BY <2>2, <2>3, <3>1 DEF Content, Cursor
  <2> QED
    BY <2>4, <2>5 DEF r, p
<1> QED
  BY <1>1, <1>2

-----------------------------------------------------------------------------
Results == {"RS_RUNNING", "RS_DONE", "RS_BLOCKED", "RS_INPUT_ENDED"}
Pointers == [src : {"scoop", "input"}, off : Nat, len : Nat]

\* The inductive invariant IInv of Scoop, with its parts grouped by what they
\* are about: the scoop, the caller, the pointer.
Inv ==
    /\ ScoopOK(scoop)
    /\ eof_in \in BOOLEAN
    /\ eof_in => scoop.next_in + scoop.avail_in = StreamLen
    /\ result \in Results /\ ptr \in Pointers /\ peek \in Nat
    /\ PointerAtFront

\* The invariant contains everything that is claimed.
LEMMA InvImplies == Inv => TypeOK /\ ScoopIntegrity /\ PeekContiguous
<1> SUFFICES ASSUME Inv PROVE TypeOK /\ ScoopIntegrity /\ PeekContiguous
  OBVIOUS
<1>1. Shape(scoop) /\ Numbers(scoop) /\ Buffer(scoop) /\ Content(scoop)
  BY DEF Inv, ScoopOK
<1>2. scoop \in [scoop_buf : [0 .. scoop.scoop_alloc - 1 -> Byte \cup {Junk}],
                scoop_alloc : Nat, scoop_next : Nat, scoop_avail : Nat,
                next_in : Nat, avail_in : Nat]
  BY <1>1 DEF Shape, Fields, Numbers, Buffer
<1>3. TypeOK
  BY <1>2 DEF TypeOK, Inv, Results, Pointers
<1>4. ScoopIntegrity
  BY <1>1 DEF ScoopIntegrity, Numbers, Content
<1>5. PeekContiguous
  BY <1>1 DEF PeekContiguous, PointerAtFront, Inv, rs_scoop_len, Numbers
<1> QED
  BY <1>3, <1>4, <1>5

\* An empty pointer shows nothing, in the scoop as in the stream.
LEMMA NothingShown ==
    /\ NoPointer \in Pointers /\ NoPointer.len = 0
    /\ ptr = NoPointer => View = Stream!Bytes(0, 0)
    /\ ptr' = NoPointer => View' = Stream!Bytes(0, 0)
<1>1. NoPointer \in Pointers /\ NoPointer.len = 0
  BY DEF NoPointer, Pointers
<1>2. 0 .. 0 - 1 = {}
  OBVIOUS
<1>3. Stream!Bytes(0, 0) = [i \in {} |-> 0 + i]
  BY <1>2 DEF Stream!Bytes
<1>4. ptr = NoPointer => View = [i \in {} |-> 0 + i]
  BY <1>1, <1>2 DEF View
<1>5. ptr' = NoPointer => View' = [i \in {} |-> 0 + i]
  BY <1>1, <1>2 DEF View
<1> QED
  BY <1>1, <1>3, <1>4, <1>5

\* The initial state satisfies the invariant and is initial for the stream.
LEMMA InitOK == Init => Inv /\ Stream!Init
<1> SUFFICES ASSUME Init PROVE Inv /\ Stream!Init
  OBVIOUS
<1>1. scoop = [scoop_buf |-> [k \in {} |-> Junk], scoop_alloc |-> 0, scoop_next |-> 0,
               scoop_avail |-> 0, next_in |-> 0, avail_in |-> 0]
  BY DEF Init
<1>2. Shape(scoop)
  BY <1>1 DEF Shape, Fields
<1>3. Numbers(scoop)
  BY <1>1, Bounds DEF Numbers
<1>4. Buffer(scoop) /\ Content(scoop)
  BY <1>1 DEF Buffer, Content
<1>e. eof_in \in BOOLEAN /\ ~eof_in
  BY DEF Init
<1>p. /\ result \in Results /\ ptr \in Pointers /\ peek \in Nat
      /\ PointerAtFront
  BY NothingShown DEF Init, Results, PointerAtFront
<1>5. Inv
  BY <1>2, <1>3, <1>4, <1>e, <1>p DEF Inv, ScoopOK
<1>6. scoop.next_in - scoop.scoop_avail = 0 /\ rs_scoop_avail(scoop) = 0
  BY <1>1 DEF rs_scoop_avail
<1>7. sent = Stream!Bytes(0, 0)
  <2>1. 0 .. 0 - 1 = {}
    OBVIOUS
  <2>2. Stream!Bytes(0, 0) = [i \in {} |-> 0 + i]
    BY <2>1 DEF Stream!Bytes
  <2> QED
    BY <2>2 DEF Init
<1> QED
  BY <1>5, <1>6, <1>7, NothingShown DEF Init, Stream!Init

\* Handing over bytes keeps the scoop intact: only the caller's buffer grows.
LEMMA SupplyOK ==
    ASSUME Inv, NEW n \in 0 .. StreamLen, NEW e \in BOOLEAN, Supply(n, e)
    PROVE  Inv' /\ Stream!Supply(n, e)
<1>s. Shape(scoop) /\ Numbers(scoop) /\ Buffer(scoop) /\ Content(scoop)
  BY DEF Inv, ScoopOK
<1>1. /\ ~eof_in /\ scoop.next_in + scoop.avail_in + n <= StreamLen
      /\ e => scoop.next_in + scoop.avail_in + n = StreamLen
      /\ scoop' = [scoop EXCEPT !.avail_in = scoop.avail_in + n]
      /\ eof_in' = e /\ ptr' = NoPointer /\ peek' = 0
      /\ result' = result /\ sent' = sent
  BY DEF Supply
<1>n. n \in Nat
  BY Bounds
<1>2. /\ Shape(scoop') /\ scoop'.scoop_alloc = scoop.scoop_alloc
      /\ scoop'.scoop_buf = scoop.scoop_buf /\ scoop'.scoop_next = scoop.scoop_next
      /\ scoop'.scoop_avail = scoop.scoop_avail /\ scoop'.next_in = scoop.next_in
      /\ scoop'.avail_in = scoop.avail_in + n
  BY <1>s, <1>1 DEF Shape, Fields
<1>3. Numbers(scoop')
  BY <1>s, <1>n, <1>1, <1>2 DEF Numbers
<1>4. ScoopOK(scoop')
  BY <1>s, <1>2, <1>3 DEF ScoopOK, Buffer, Content
<1>5. eof_in' => scoop'.next_in + scoop'.avail_in = StreamLen
  BY <1>s, <1>n, <1>1, <1>2 DEF Numbers
<1>6. Inv'
  BY <1>1, <1>4, <1>5, NothingShown DEF Inv, PointerAtFront
<1>7. /\ scoop'.next_in - scoop'.scoop_avail = scoop.next_in - scoop.scoop_avail
      /\ rs_scoop_avail(scoop') = rs_scoop_avail(scoop) + n
      /\ (scoop.next_in - scoop.scoop_avail) + rs_scoop_avail(scoop) + n
           = scoop.next_in + scoop.avail_in + n
  BY <1>s, <1>n, <1>2 DEF rs_scoop_avail, Numbers
<1>8. View' = Stream!Bytes(0, 0)
  BY <1>1, NothingShown
<1>9. rs_scoop_avail(scoop)' = rs_scoop_avail(scoop')
  BY DEF rs_scoop_avail
<1> QED
  BY <1>1, <1>6, <1>7, <1>8, <1>9 DEF Stream!Supply

\* What the two kinds of read have in common: the answer and the pointer of
\* rs_scoop_readahead are those of the stream.
LEMMA AnswerOK ==
    ASSUME Inv, NEW len \in 0 .. MaxRead
    PROVE  /\ Answer(scoop, len) = Stream!Answer(len)
           /\ Answer(scoop, len) \in Results
           /\ Pointer(scoop, len) \in Pointers
           /\ ~Enough(scoop, len) => Pointer(scoop, len) = NoPointer
<1>1. ScoopOK(scoop)
  BY DEF Inv
<1>2. Enough(scoop, len) <=> rs_scoop_avail(scoop) >= len
  BY <1>1, ReadaheadOK
<1>3. Answer(scoop, len) = Stream!Answer(len) /\ Answer(scoop, len) \in Results
  BY <1>2 DEF Answer, Stream!Answer, Results
<1>4. Enough(scoop, len) => Pointer(scoop, len) \in Pointers
  BY <1>1, PointerShows DEF Pointers
<1>5. ~Enough(scoop, len) => Pointer(scoop, len) = NoPointer
  BY DEF Pointer, Enough
<1> QED
  BY <1>3, <1>4, <1>5, NothingShown

\* The bytes shown after a successful rs_scoop_readahead, provided that the
\* memory of the scoop is as it left it.
LEMMA ViewOK ==
    ASSUME Inv, NEW len \in 0 .. MaxRead, Enough(scoop, len),
           ptr' = Pointer(scoop, len),
           scoop'.scoop_buf = rs_scoop_readahead(scoop, len).scoop_buf
    PROVE  View' = Stream!Bytes(scoop.next_in - scoop.scoop_avail, len)
<1>1. /\ ptr'.len = len
      /\ \A i \in 0 .. len - 1 :
           (IF ptr'.src = "scoop" THEN scoop'.scoop_buf[ptr'.off + i] ELSE ptr'.off + i)
             = Cursor(scoop) + i
  BY PointerShows DEF Inv
<1>2. View' = [i \in 0 .. len - 1 |->
                IF ptr'.src = "scoop" THEN scoop'.scoop_buf[ptr'.off + i] ELSE ptr'.off + i]
  BY <1>1 DEF View
<1>3. View' = [i \in 0 .. len - 1 |-> Cursor(scoop) + i]
  BY <1>1, <1>2
<1> QED
  BY <1>3 DEF Stream!Bytes, Cursor

\* rs_scoop_readahead.
LEMMA ReadaheadStep ==
    ASSUME Inv, NEW len \in 0 .. MaxRead, Readahead(len)
    PROVE  Inv' /\ Stream!Readahead(len)
<1> DEFINE r == rs_scoop_readahead(scoop, len)
<1>1. /\ scoop' = r /\ result' = Answer(scoop, len) /\ ptr' = Pointer(scoop, len)
      /\ peek' = ptr'.len /\ eof_in' = eof_in /\ sent' = sent
  BY DEF Readahead
<1>2. ScoopOK(scoop) /\ Numbers(scoop) /\ len \in Nat
  BY Bounds DEF Inv, ScoopOK
<1>3. /\ ScoopOK(r) /\ Cursor(r) = Cursor(scoop)
      /\ rs_scoop_avail(r) = rs_scoop_avail(scoop)
      /\ r.next_in + r.avail_in = scoop.next_in + scoop.avail_in
      /\ Enough(scoop, len) <=> rs_scoop_avail(scoop) >= len
      /\ Direct(scoop, len) => r = scoop
      /\ Enough(scoop, len) /\ ~Direct(scoop, len) => r.scoop_avail >= len
  BY <1>2, ReadaheadOK
<1> HIDE DEF r
<1>4. /\ Answer(scoop, len) = Stream!Answer(len) /\ Answer(scoop, len) \in Results
      /\ Pointer(scoop, len) \in Pointers
      /\ ~Enough(scoop, len) => Pointer(scoop, len) = NoPointer
  BY AnswerOK
<1>5. PointerAtFront'
  <2>1. CASE Direct(scoop, len)
    <3>1. ptr' = [src |-> "input", off |-> scoop.next_in, len |-> len]
      BY <1>1, <2>1 DEF Pointer
    <3>2. scoop' = scoop
      BY <1>1, <1>3, <2>1
    <3> QED
      BY <1>1, <2>1, <3>1, <3>2 DEF PointerAtFront, Direct
  <2>2. CASE Enough(scoop, len) /\ ~Direct(scoop, len)
    <3>1. ptr' = [src |-> "scoop", off |-> scoop'.scoop_next, len |-> len]
      BY <1>1, <2>2 DEF Pointer, r
    <3>2. len <= scoop'.scoop_avail
      BY <1>1, <1>2, <1>3, <2>2 DEF ScoopOK, Numbers
    <3> QED
      BY <1>1, <3>1, <3>2 DEF PointerAtFront
  <2>3. CASE ~Enough(scoop, len)
    BY <1>1, <1>4, <2>3, NothingShown DEF PointerAtFront
  <2> QED
    BY <2>1, <2>2, <2>3
<1>6. Inv'
  BY <1>1, <1>3, <1>4, <1>5 DEF Inv, Pointers
<1>7. Enough(scoop, len) => View' = Stream!Bytes(scoop.next_in - scoop.scoop_avail, len)
  BY <1>1, ViewOK DEF r
<1>8. Enough(scoop, len) => ptr'.len = len
  BY <1>1, <1>2, PointerShows
<1>9. ~Enough(scoop, len) => View' = Stream!Bytes(0, 0) /\ ptr'.len = 0
  BY <1>1, <1>4, NothingShown
<1>10. /\ scoop'.next_in - scoop'.scoop_avail = scoop.next_in - scoop.scoop_avail
       /\ rs_scoop_avail(scoop)' = rs_scoop_avail(scoop)
  BY <1>1, <1>3 DEF Cursor, rs_scoop_avail
<1> QED
  BY <1>1, <1>3, <1>4, <1>6, <1>7, <1>8, <1>9, <1>10 DEF Stream!Readahead

\* rs_scoop_read.
LEMMA ReadStep ==
    ASSUME Inv, NEW len \in 0 .. MaxRead, Read(len)
    PROVE  Inv' /\ Stream!Read(len)
<1> DEFINE r == rs_scoop_readahead(scoop, len)
           a == rs_scoop_advance(r, len)
<1>1. /\ scoop' = IF Enough(scoop, len) THEN a ELSE r
      /\ result' = Answer(scoop, len) /\ ptr' = Pointer(scoop, len)
      /\ peek' = 0 /\ eof_in' = eof_in /\ sent' = sent
  BY DEF Read
<1>2. ScoopOK(scoop) /\ Numbers(scoop) /\ len \in Nat
  BY Bounds DEF Inv, ScoopOK
<1>3. /\ ScoopOK(r) /\ Cursor(r) = Cursor(scoop)
      /\ rs_scoop_avail(r) = rs_scoop_avail(scoop)
      /\ r.next_in + r.avail_in = scoop.next_in + scoop.avail_in
      /\ Enough(scoop, len) <=> rs_scoop_avail(scoop) >= len
      /\ Direct(scoop, len) => r = scoop
      /\ Enough(scoop, len) /\ ~Direct(scoop, len) => r.scoop_avail >= len
  BY <1>2, ReadaheadOK
<1>4. /\ Answer(scoop, len) = Stream!Answer(len) /\ Answer(scoop, len) \in Results
      /\ Pointer(scoop, len) \in Pointers
      /\ ~Enough(scoop, len) => Pointer(scoop, len) = NoPointer
  BY AnswerOK
<1> HIDE DEF r
<1>5. PointerAtFront'
  BY <1>1 DEF PointerAtFront
<1>6. CASE Enough(scoop, len)
  <2>1. len \in 0 .. rs_scoop_len(r)
    <3>1. CASE Direct(scoop, len)
      BY <1>2, <1>3, <3>1 DEF Direct, rs_scoop_len, Numbers
    <3>2. CASE ~Direct(scoop, len)
      <4>1. r.scoop_avail \in Nat /\ r.avail_in \in Nat /\ r.scoop_avail >= len
        BY <1>3, <1>6, <3>2 DEF ScoopOK, Numbers
      <4>2. CASE len = 0
        BY <4>1, <4>2 DEF rs_scoop_len
      <4>3. CASE len > 0
        BY <1>2, <4>1, <4>3 DEF rs_scoop_len
      <4> QED
        BY <1>2, <4>2, <4>3
    <3> QED
      BY <3>1, <3>2
  <2>2. /\ ScoopOK(a) /\ Cursor(a) = Cursor(r) + len
        /\ rs_scoop_avail(a) = rs_scoop_avail(r) - len
        /\ a.next_in + a.avail_in = r.next_in + r.avail_in
        /\ a.scoop_buf = r.scoop_buf
    BY <1>3, <2>1, AdvanceOK
  <2> HIDE DEF a
  <2>3. scoop' = a
    BY <1>1, <1>6
  <2>4. Inv'
    BY <1>1, <1>3, <1>4, <1>5, <2>2, <2>3 DEF Inv
  <2>5. View' = Stream!Bytes(scoop.next_in - scoop.scoop_avail, len)
    BY <1>1, <1>6, <2>2, <2>3, ViewOK DEF r
  <2>6. /\ scoop'.next_in - scoop'.scoop_avail = (scoop.next_in - scoop.scoop_avail) + len
        /\ rs_scoop_avail(scoop)' = rs_scoop_avail(scoop) - len
    BY <1>3, <2>2, <2>3 DEF Cursor, rs_scoop_avail
  <2> QED
    BY <1>1, <1>3, <1>4, <1>6, <2>4, <2>5, <2>6 DEF Stream!Read
<1>7. CASE ~Enough(scoop, len)
  <2>1. scoop' = r
    BY <1>1, <1>7
  <2>2. Inv'
    BY <1>1, <1>3, <1>4, <1>5, <2>1 DEF Inv
  <2>3. View' = Stream!Bytes(0, 0)
    BY <1>1, <1>4, <1>7, NothingShown
  <2>4. /\ scoop'.next_in - scoop'.scoop_avail = scoop.next_in - scoop.scoop_avail
        /\ rs_scoop_avail(scoop)' = rs_scoop_avail(scoop)
    BY <1>3, <2>1 DEF Cursor, rs_scoop_avail
  <2> QED
    BY <1>1, <1>3, <1>4, <1>7, <2>2, <2>3, <2>4 DEF Stream!Read
<1> QED
  BY <1>6, <1>7

\* rs_scoop_read_rest reads everything there is; with nothing there it answers
\* as a request for one byte would.
LEMMA ReadRestStep ==
    ASSUME Inv, ReadRest
    PROVE  Inv' /\ \E len \in 0 .. MaxRead : Stream!Read(len)
<1>1. ScoopOK(scoop) /\ Numbers(scoop)
  BY DEF Inv, ScoopOK
<1>2. CASE rs_scoop_avail(scoop) > 0 /\ Read(rs_scoop_avail(scoop))
  <2>1. rs_scoop_avail(scoop) \in 0 .. MaxRead
    BY <1>1, Bounds DEF rs_scoop_avail, Numbers
  <2> QED
    BY <1>2, <2>1, ReadStep
<1>3. CASE /\ rs_scoop_avail(scoop) = 0
           /\ result' = IF eof_in THEN "RS_INPUT_ENDED" ELSE "RS_BLOCKED"
           /\ ptr' = NoPointer /\ peek' = 0
           /\ UNCHANGED <<scoop, eof_in, sent>>
  <2>1. result' \in Results /\ result' = Stream!Answer(1)
    BY <1>3 DEF Results, Stream!Answer
  <2>2. PointerAtFront'
    BY <1>3 DEF PointerAtFront
  <2>3. Inv'
    BY <1>1, <1>3, <2>1, <2>2, NothingShown DEF Inv
  <2>4. View' = Stream!Bytes(0, 0)
    BY <1>3, NothingShown
  <2>5. rs_scoop_avail(scoop)' = rs_scoop_avail(scoop) /\ ~(rs_scoop_avail(scoop) >= 1)
    BY <1>3 DEF rs_scoop_avail
  <2>6. Stream!Read(1)
    BY <1>3, <2>1, <2>4, <2>5 DEF Stream!Read
  <2>7. 1 \in 0 .. MaxRead
    BY Bounds
  <2> QED
    BY <2>3, <2>6, <2>7
<1> QED
  BY <1>2, <1>3 DEF ReadRest

\* The pointer moved along with rs_scoop_advance still points to the front and
\* shows the bytes that are left.
LEMMA PointerMoves ==
    ASSUME Inv, NEW n \in Nat, 0 < n, n <= peek,
           scoop' = rs_scoop_advance(scoop, n),
           ptr' = [ptr EXCEPT !.off = ptr.off + n, !.len = ptr.len - n],
           peek' = peek - n
    PROVE  /\ n <= rs_scoop_len(scoop)
           /\ ptr' \in Pointers /\ peek' \in Nat /\ PointerAtFront'
           /\ View' = Stream!Bytes((scoop.next_in - scoop.scoop_avail) + n, peek - n)
<1>1. ScoopOK(scoop) /\ Numbers(scoop) /\ Content(scoop) /\ ptr \in Pointers /\ peek \in Nat
  BY DEF Inv, ScoopOK
<1>2. /\ ptr.len = peek
      /\ \/ ptr.src = "scoop" /\ ptr.off = scoop.scoop_next /\ peek <= scoop.scoop_avail
         \/ ptr.src = "input" /\ ptr.off = scoop.next_in /\ scoop.scoop_avail = 0
            /\ peek <= scoop.avail_in
  BY <1>1 DEF Inv, PointerAtFront
<1>3. n \in 0 .. rs_scoop_len(scoop)
  <2>1. n <= scoop.scoop_avail \/ (scoop.scoop_avail = 0 /\ n <= scoop.avail_in)
    BY <1>1, <1>2 DEF Numbers
  <2>2. scoop.scoop_avail \in Nat /\ scoop.avail_in \in Nat
    BY <1>1 DEF Numbers
  <2> QED
    BY <2>1, <2>2 DEF rs_scoop_len
<1>4. /\ scoop'.scoop_buf = scoop.scoop_buf
      /\ scoop.scoop_avail > 0 =>
           /\ scoop'.scoop_next = scoop.scoop_next + n
           /\ scoop'.scoop_avail = scoop.scoop_avail - n
      /\ scoop.scoop_avail = 0 =>
           /\ scoop'.scoop_avail = 0 /\ scoop'.next_in = scoop.next_in + n
           /\ scoop'.avail_in = scoop.avail_in - n
  BY <1>1, <1>3, AdvanceOK
<1>5. /\ ptr'.src = ptr.src /\ ptr'.off = ptr.off + n /\ ptr'.len = peek - n
      /\ ptr' \in Pointers /\ peek' \in Nat
  <2>1. peek - n \in Nat
    BY <1>1
  <2>2. ptr.off \in Nat /\ ptr.off + n \in Nat
    BY <1>1 DEF Pointers
  <2>3. ptr' = [src |-> ptr.src, off |-> ptr.off + n, len |-> peek - n] /\ ptr.src \in {"scoop", "input"}
    <3>1. ptr = [src |-> ptr.src, off |-> ptr.off, len |-> ptr.len]
          /\ ptr.src \in {"scoop", "input"}
      BY <1>1 DEF Pointers
    <3> QED
      BY <1>2, <3>1
  <2>4. ptr'.src = ptr.src /\ ptr'.off = ptr.off + n /\ ptr'.len = peek - n
    BY ONLY <2>3
  <2>5. [src |-> ptr.src, off |-> ptr.off + n, len |-> peek - n] \in Pointers
    BY ONLY <2>1, <2>2, <2>3 DEF Pointers
  <2>6. ptr' \in Pointers
    BY <2>3, <2>5, Zenon
  <2> QED
    BY <2>1, <2>4, <2>6
<1>6. PointerAtFront'
  BY <1>1, <1>2, <1>4, <1>5 DEF PointerAtFront, Numbers
<1>7. View' = [i \in 0 .. (peek - n) - 1 |->
                IF ptr.src = "scoop" THEN scoop.scoop_buf[(ptr.off + n) + i]
                                     ELSE (ptr.off + n) + i]
  BY <1>4, <1>5 DEF View
<1>8. ASSUME NEW i \in 0 .. (peek - n) - 1
      PROVE  (IF ptr.src = "scoop" THEN scoop.scoop_buf[(ptr.off + n) + i]
                                   ELSE (ptr.off + n) + i)
              = ((scoop.next_in - scoop.scoop_avail) + n) + i
  <2>1. CASE ptr.src = "scoop" /\ ptr.off = scoop.scoop_next /\ peek <= scoop.scoop_avail
    <3>1. n + i \in 0 .. scoop.scoop_avail - 1
      BY <1>1, <2>1 DEF Numbers
    <3>2. scoop.scoop_buf[scoop.scoop_next + (n + i)]
            = scoop.next_in - scoop.scoop_avail + (n + i)
      BY <1>1, <3>1 DEF Content
    <3>3. /\ scoop.scoop_next + (n + i) = (ptr.off + n) + i
          /\ scoop.next_in - scoop.scoop_avail + (n + i)
               = ((scoop.next_in - scoop.scoop_avail) + n) + i
      BY <1>1, <2>1 DEF Numbers
    <3> QED
      BY <2>1, <3>2, <3>3
  <2>2. CASE /\ ptr.src = "input" /\ ptr.off = scoop.next_in /\ scoop.scoop_avail = 0
             /\ peek <= scoop.avail_in
    BY <1>1, <2>2 DEF Numbers
  <2> QED
    BY <1>2, <2>1, <2>2
<1>9. View' = [i \in 0 .. (peek - n) - 1 |-> ((scoop.next_in - scoop.scoop_avail) + n) + i]
  BY <1>7, <1>8
<1> QED
  BY <1>3, <1>5, <1>6, <1>9 DEF Stream!Bytes

\* rs_scoop_advance, by a state function that has looked ahead.
LEMMA AdvanceStep ==
    ASSUME Inv, NEW n \in 1 .. StreamLen, Advance(n)
    PROVE  Inv' /\ Stream!Advance(n)
<1>1. /\ n <= peek /\ scoop' = rs_scoop_advance(scoop, n)
      /\ ptr' = [ptr EXCEPT !.off = ptr.off + n, !.len = ptr.len - n]
      /\ peek' = peek - n /\ eof_in' = eof_in /\ result' = result /\ sent' = sent
  BY DEF Advance
<1>2. n \in Nat /\ 0 < n
  BY Bounds
<1>3. /\ n <= rs_scoop_len(scoop)
      /\ ptr' \in Pointers /\ peek' \in Nat /\ PointerAtFront'
      /\ View' = Stream!Bytes((scoop.next_in - scoop.scoop_avail) + n, peek - n)
  BY <1>1, <1>2, PointerMoves
<1>4. ScoopOK(scoop) /\ Numbers(scoop)
  BY DEF Inv, ScoopOK
<1>5. n \in 0 .. rs_scoop_len(scoop)
  BY <1>2, <1>3, <1>4 DEF rs_scoop_len, Numbers
<1>6. /\ ScoopOK(scoop') /\ Cursor(scoop') = Cursor(scoop) + n
      /\ rs_scoop_avail(scoop') = rs_scoop_avail(scoop) - n
      /\ scoop'.next_in + scoop'.avail_in = scoop.next_in + scoop.avail_in
  BY <1>1, <1>4, <1>5, AdvanceOK
<1>7. Inv'
  BY <1>1, <1>3, <1>6 DEF Inv
<1>8. rs_scoop_avail(scoop)' = rs_scoop_avail(scoop')
  BY DEF rs_scoop_avail
<1> QED
  BY <1>1, <1>3, <1>6, <1>7, <1>8 DEF Stream!Advance, Cursor

\* Copying through the scoop and then the caller's buffer.
LEMMA CopyThroughStep ==
    ASSUME Inv, NEW n \in 1 .. StreamLen, CopyThrough(n)
    PROVE  Inv' /\ Stream!CopyThrough(n)
<1> DEFINE first == Least(n, rs_scoop_len(scoop))
           s == rs_scoop_advance(scoop, first)
           t == IF n > first THEN rs_scoop_advance(s, n - first) ELSE s
<1>1. /\ n <= rs_scoop_avail(scoop) /\ scoop' = t
      /\ sent' = [i \in 0 .. n - 1 |->
                    IF scoop.scoop_avail > 0 /\ i < first
                      THEN scoop.scoop_buf[scoop.scoop_next + i]
                    ELSE IF scoop.scoop_avail > 0 THEN s.next_in + (i - first)
                    ELSE scoop.next_in + i]
      /\ IF n <= peek
           THEN peek' = peek - n /\ ptr' = [ptr EXCEPT !.off = ptr.off + n, !.len = ptr.len - n]
           ELSE peek' = 0 /\ ptr' = NoPointer
      /\ eof_in' = eof_in /\ result' = result
  BY DEF CopyThrough
<1>a. n <= scoop.scoop_avail + scoop.avail_in
  BY <1>1 DEF rs_scoop_avail
<1>2. n \in Nat /\ 0 < n
  BY Bounds
<1>3. ScoopOK(scoop) /\ Numbers(scoop) /\ Content(scoop)
  BY DEF Inv, ScoopOK
<1>4. first \in 0 .. rs_scoop_len(scoop) /\ first <= n
      /\ (first = n \/ first = rs_scoop_len(scoop))
  BY <1>2, <1>3 DEF Least, rs_scoop_len, Numbers
<1> HIDE DEF first
<1>5. /\ ScoopOK(s) /\ Cursor(s) = Cursor(scoop) + first
      /\ rs_scoop_avail(s) = rs_scoop_avail(scoop) - first
      /\ s.next_in + s.avail_in = scoop.next_in + scoop.avail_in
      /\ s.scoop_buf = scoop.scoop_buf
      /\ scoop.scoop_avail > 0 => /\ s.scoop_avail = scoop.scoop_avail - first
                                  /\ s.next_in = scoop.next_in
                                  /\ s.avail_in = scoop.avail_in
      /\ scoop.scoop_avail = 0 => s.scoop_avail = 0
  BY <1>3, <1>4, AdvanceOK
<1> HIDE DEF s
<1>6. /\ ScoopOK(t) /\ Cursor(t) = Cursor(scoop) + n
      /\ rs_scoop_avail(t) = rs_scoop_avail(scoop) - n
      /\ t.next_in + t.avail_in = scoop.next_in + scoop.avail_in
  <2>n. Numbers(s) /\ first \in Nat
    BY <1>3, <1>4, <1>5 DEF ScoopOK, rs_scoop_len, Numbers
  <2>1. CASE n > first
    <3>1. first = scoop.scoop_avail /\ scoop.scoop_avail > 0
      BY <1>a, <1>2, <1>3, <1>4, <2>1 DEF rs_scoop_len, Numbers
    <3>a. s.scoop_avail = 0 /\ s.avail_in = scoop.avail_in
      BY <1>3, <1>5, <3>1 DEF Numbers
    <3>b. n - first \in Nat /\ n - first <= scoop.avail_in
      BY <1>a, <1>2, <1>3, <2>1, <2>n, <3>1 DEF Numbers
    <3>2. s.scoop_avail = 0 /\ n - first \in 0 .. rs_scoop_len(s)
      BY <1>3, <3>a, <3>b DEF rs_scoop_len, Numbers
    <3>3. /\ ScoopOK(t) /\ Cursor(t) = Cursor(s) + (n - first)
          /\ rs_scoop_avail(t) = rs_scoop_avail(s) - (n - first)
          /\ t.next_in + t.avail_in = s.next_in + s.avail_in
      BY <1>5, <2>1, <3>2, AdvanceOK
    <3> HIDE DEF t
    <3> QED
      BY <1>2, <1>3, <1>5, <2>n, <3>3 DEF Cursor, rs_scoop_avail, Numbers
  <2>2. CASE ~(n > first)
    <3>1. first = n /\ t = s
      BY <1>2, <1>4, <2>2, <2>n
    <3> HIDE DEF t
    <3> QED
      BY <1>5, <3>1
  <2> QED
    BY <2>1, <2>2
<1>7. n <= peek => /\ scoop' = rs_scoop_advance(scoop, n)
                   /\ ptr' \in Pointers /\ peek' \in Nat /\ PointerAtFront'
                   /\ View' = Stream!Bytes((scoop.next_in - scoop.scoop_avail) + n, peek - n)
  <2>1. SUFFICES ASSUME n <= peek
        PROVE  /\ scoop' = rs_scoop_advance(scoop, n)
               /\ ptr' \in Pointers /\ peek' \in Nat /\ PointerAtFront'
               /\ View' = Stream!Bytes((scoop.next_in - scoop.scoop_avail) + n, peek - n)
    OBVIOUS
  <2>2. peek \in Nat /\ n <= rs_scoop_len(scoop) /\ rs_scoop_len(scoop) \in Nat
    BY <1>2, <1>3, <2>1 DEF Inv, PointerAtFront, rs_scoop_len, Numbers
  <2>3. first = n
    BY <1>2, <1>4, <2>2
  <2>4. scoop' = rs_scoop_advance(scoop, n)
    BY <1>1, <1>2, <2>3 DEF s
  <2> HIDE DEF t
  <2> QED
    BY <1>1, <1>2, <2>1, <2>4, PointerMoves
<1> HIDE DEF t
<1>8. ~(n <= peek) => /\ ptr' \in Pointers /\ peek' \in Nat /\ PointerAtFront'
                      /\ View' = Stream!Bytes(0, 0)
  BY <1>1, NothingShown DEF PointerAtFront
<1>9. Inv'
  BY <1>1, <1>6, <1>7, <1>8 DEF Inv
<1>10. sent' = Stream!Bytes(scoop.next_in - scoop.scoop_avail, n)
  <2>n. first \in Nat
    BY <1>3, <1>4 DEF rs_scoop_len, Numbers
  <2>1. ASSUME NEW i \in 0 .. n - 1
        PROVE  (IF scoop.scoop_avail > 0 /\ i < first
                  THEN scoop.scoop_buf[scoop.scoop_next + i]
                ELSE IF scoop.scoop_avail > 0 THEN s.next_in + (i - first)
                ELSE scoop.next_in + i) = (scoop.next_in - scoop.scoop_avail) + i
    <3>1. CASE scoop.scoop_avail > 0 /\ i < first
      <4>1. i \in 0 .. scoop.scoop_avail - 1
        BY <1>2, <1>3, <1>4, <2>n, <3>1 DEF rs_scoop_len, Numbers
      <4>2. scoop.scoop_buf[scoop.scoop_next + i] = scoop.next_in - scoop.scoop_avail + i
        BY <1>3, <4>1 DEF Content
      <4> QED
        BY <3>1, <4>2
    <3>2. CASE scoop.scoop_avail > 0 /\ ~(i < first)
      <4>1. first = scoop.scoop_avail
        BY <1>2, <1>3, <1>4, <2>n, <3>2 DEF rs_scoop_len, Numbers
      <4>2. s.next_in = scoop.next_in
        BY <1>5, <3>2
      <4> QED
        BY <1>2, <1>3, <2>n, <3>2, <4>1, <4>2 DEF Numbers
    <3>3. CASE scoop.scoop_avail = 0
      BY <1>2, <1>3, <3>3 DEF Numbers
    <3> QED
      BY <1>3, <3>1, <3>2, <3>3 DEF Numbers
  <2>2. sent' = [i \in 0 .. n - 1 |-> (scoop.next_in - scoop.scoop_avail) + i]
    BY <1>1, <2>1
  <2> QED
    BY <2>2 DEF Stream!Bytes
<1>11. /\ scoop'.next_in - scoop'.scoop_avail = (scoop.next_in - scoop.scoop_avail) + n
       /\ rs_scoop_avail(scoop)' = rs_scoop_avail(scoop) - n
  BY <1>1, <1>6 DEF Cursor, rs_scoop_avail
<1> QED
  BY <1>1, <1>7, <1>8, <1>9, <1>10, <1>11 DEF Stream!CopyThrough

-----------------------------------------------------------------------------
\* Every step preserves the invariant and is a step of the stream.
LEMMA StepOK == Inv /\ [Next]_vars => Inv' /\ [Stream!Next]_(Stream!vars)
<1> SUFFICES ASSUME Inv, [Next]_vars PROVE Inv' /\ [Stream!Next]_(Stream!vars)
  OBVIOUS
<1>1. CASE \E n \in 0 .. StreamLen, e \in BOOLEAN : Supply(n, e)
  BY <1>1, SupplyOK DEF Stream!Next
<1>2. CASE \E len \in 0 .. MaxRead : Readahead(len)
  BY <1>2, ReadaheadStep DEF Stream!Next
<1>3. CASE \E len \in 0 .. MaxRead : Read(len)
  BY <1>3, ReadStep DEF Stream!Next
<1>4. CASE ReadRest
  BY <1>4, ReadRestStep DEF Stream!Next
<1>5. CASE \E n \in 1 .. StreamLen : Advance(n)
  BY <1>5, AdvanceStep DEF Stream!Next
<1>6. CASE \E n \in 1 .. StreamLen : CopyThrough(n)
  BY <1>6, CopyThroughStep DEF Stream!Next
<1>7. CASE UNCHANGED vars
  <2>1. scoop' = scoop /\ eof_in' = eof_in /\ result' = result
        /\ ptr' = ptr /\ peek' = peek /\ sent' = sent
    BY <1>7 DEF vars
  <2>2. Inv'
    BY <2>1 DEF Inv, PointerAtFront
  <2>3. UNCHANGED Stream!vars
    BY <2>1 DEF Stream!vars, View, rs_scoop_avail
  <2> QED
    BY <2>2, <2>3
<1> QED
  BY <1>1, <1>2, <1>3, <1>4, <1>5, <1>6, <1>7 DEF Next

\* The inductive invariant holds in every behaviour.
LEMMA Invariance == Spec => []Inv
<1>1. Init => Inv
  BY InitOK
<1>2. Inv /\ [Next]_vars => Inv'
  BY StepOK
<1> QED
  BY <1>1, <1>2, PTL DEF Spec

\* Every field of the scoop keeps its type, whatever the caller and the state
\* functions do (scoop.c, scoop.h).
THEOREM TypeCorrect == Spec => []TypeOK
<1>1. Inv => TypeOK
  BY InvImplies
<1> QED
  BY <1>1, Invariance, PTL

\* The data in the scoop stays inside the allocation and is the part of the
\* stream that precedes the caller's next byte: no resize, move or append of
\* rs_scoop_input loses, repeats or overwrites a byte.
THEOREM ScoopIntact == Spec => []ScoopIntegrity
<1>1. Inv => ScoopIntegrity
  BY InvImplies
<1> QED
  BY <1>1, Invariance, PTL

\* Bytes looked at are in one place, so the assertions of rs_scoop_advance
\* never fail.
THEOREM NeverAMixture == Spec => []PeekContiguous
<1>1. Inv => PeekContiguous
  BY InvImplies
<1> QED
  BY <1>1, Invariance, PTL

\* The scoop implements the byte stream: whatever the sizes of the caller's
\* buffers and of the requests, each byte is seen once and in order.
THEOREM Refinement == Spec => ImplementsByteStream
<1>1. Init => Stream!Init
  BY InitOK
<1>2. Inv /\ [Next]_vars => [Stream!Next]_(Stream!vars)
  BY StepOK
<1> QED
  BY <1>1, <1>2, Invariance, PTL DEF Spec, Stream!Spec, ImplementsByteStream

-----------------------------------------------------------------------------
(* hashtable.h: probing.  In a table of 2^b buckets, steps r < s that come *)
(* to the same bucket would make (s - r) * (s + r + 1) divisible by        *)
(* 2^(b + 1); one of the factors is odd, so that 2^(b + 1) divides the     *)
(* other, which is smaller.  Hence 2^b steps come by every bucket.         *)

\* The least number principle, which makes up for induction.
LEMMA LeastNumber ==
    ASSUME NEW T, T \subseteq Nat, T # {}
    PROVE  \E x \in T : \A y \in T : x <= y
  <1>1. PICK x \in T : \A y \in T : ~(<<y, x>> \in OpToRel(<, Nat))
    BY NatLessThanWellFounded, WFMin
  <1>2. \A y \in T : ~(y < x)
    BY <1>1 DEF OpToRel
  <1> QED
    BY <1>2

\* The powers of two are positive numbers.
LEMMA PowerType ==
    ASSUME NEW b \in 0 .. HashBits + 1
    PROVE  2 ^ b \in Nat \ {0}
  <1> DEFINE Bad == {c \in 0 .. HashBits + 1 : 2 ^ c \notin Nat \ {0}}
  <1>0. HashBits \in Nat
    BY HashAssumption
  <1>1. Bad = {}
    <2> SUFFICES ASSUME Bad # {}
                 PROVE  FALSE
      OBVIOUS
    <2>1. PICK c \in Bad : \A d \in Bad : c <= d
      <3>1. Bad \subseteq Nat
        BY <1>0
      <3> HIDE DEF Bad
      <3> QED
        BY <3>1, LeastNumber
    <2>2. c \in 0 .. HashBits + 1 /\ 2 ^ c \notin Nat \ {0}
      BY <2>1
    <2>3. c # 0
      <3>1. c = 0 => 2 ^ c = 1
        BY HashPowers
      <3> QED
        BY <2>2, <3>1
    <2>4. c - 1 \in 0 .. HashBits /\ ~(c <= c - 1)
      BY <1>0, <2>2, <2>3
    <2>5. c - 1 \notin Bad
      <3> HIDE DEF Bad
      <3> QED
        BY <2>1, <2>4
    <2>6. 2 ^ (c - 1) \in Nat \ {0}
      BY <1>0, <2>4, <2>5
    <2>7. 2 ^ c = 2 * 2 ^ (c - 1)
      <3>1. 2 ^ ((c - 1) + 1) = 2 * 2 ^ (c - 1)
        BY <2>4, HashPowers
      <3>2. (c - 1) + 1 = c
        BY <1>0, <2>2
      <3> QED
        BY <3>1, <3>2
    <2>8. \A p \in Nat \ {0} : 2 * p \in Nat \ {0}
      OBVIOUS
    <2> QED
      BY <2>2, <2>6, <2>7, <2>8
  <1> QED
    BY <1>1

Divides(d, n) == \E q \in Nat : n = d * q
Odd(n) == \E y \in Nat : n = 2 * y + 1

\* A power of two that divides a product of which one factor is odd divides the
\* other factor.
LEMMA OddFactor ==
    ASSUME NEW b \in 0 .. HashBits + 1, NEW x \in Nat, NEW odd \in Nat,
           Odd(odd), Divides(2 ^ b, x * odd)
    PROVE  Divides(2 ^ b, x)
  <1> DEFINE Factor(c) ==
               \A u, v, n \in Nat : u * (2 * v + 1) = 2 ^ c * n => \E q \in Nat : u = 2 ^ c * q
             Bad == {c \in 0 .. HashBits + 1 : ~Factor(c)}
  <1>0. HashBits \in Nat
    BY HashAssumption
  <1>1. Bad = {}
    <2> SUFFICES ASSUME Bad # {}
                 PROVE  FALSE
      OBVIOUS
    <2>1. PICK c \in Bad : \A d \in Bad : c <= d
      <3>1. Bad \subseteq Nat
        BY <1>0
      <3> HIDE DEF Bad
      <3> QED
        BY <3>1, LeastNumber
    <2>2. c \in 0 .. HashBits + 1 /\ ~Factor(c)
      BY <2>1
    <2>3. PICK u, v, n \in Nat : /\ u * (2 * v + 1) = 2 ^ c * n
                                 /\ ~\E q \in Nat : u = 2 ^ c * q
      BY <2>2
    <2>4. c # 0
      <3> SUFFICES ASSUME c = 0
                   PROVE  FALSE
        OBVIOUS
      <3>1. u = 2 ^ c * u
        BY HashPowers
      <3> QED
        BY <2>3, <3>1
    <2>5. c - 1 \in 0 .. HashBits /\ ~(c <= c - 1)
      BY <1>0, <2>2, <2>4
    <2>6. Factor(c - 1)
      <3>1. c - 1 \notin Bad
        <4> HIDE DEF Bad
        <4> QED
          BY <2>1, <2>5
      <3>2. c - 1 \in 0 .. HashBits + 1
        BY <1>0, <2>5
      <3> QED
        BY <3>1, <3>2
    <2> DEFINE p == 2 ^ (c - 1)
    <2>7. 2 ^ c = 2 * p /\ p \in Nat
      <3>1. 2 ^ ((c - 1) + 1) = 2 * 2 ^ (c - 1)
        BY <2>5, HashPowers
      <3>2. (c - 1) + 1 = c
        BY <1>0, <2>2
      <3>3. c - 1 \in 0 .. HashBits + 1
        BY <1>0, <2>5
      <3> QED
        BY <3>1, <3>2, <3>3, PowerType
    <2>8. Factor(c - 1) <=>
            \A u1, v1, n1 \in Nat : u1 * (2 * v1 + 1) = p * n1 => \E q \in Nat : u1 = p * q
      OBVIOUS
    <2> HIDE DEF p, Factor
    <2>9. PICK w \in Nat : u = 2 * w
      <3>1. u * (2 * v + 1) = 2 * (u * v) + u
        OBVIOUS
      <3>2. (2 * p) * n = 2 * (p * n)
        BY <2>7
      <3>3. u * v \in Nat /\ p * n \in Nat
        BY <2>7
      <3>4. u = 2 * (p * n - u * v)
        BY <2>3, <2>7, <3>1, <3>2, <3>3
      <3>5. \A a, d \in Nat : u = 2 * (a - d) => a - d \in Nat
        OBVIOUS
      <3> QED
        BY <3>3, <3>4, <3>5
    <2>10. w * (2 * v + 1) = p * n
      <3>1. (2 * w) * (2 * v + 1) = 2 * (w * (2 * v + 1)) /\ (2 * p) * n = 2 * (p * n)
        BY <2>7
      <3>2. w * (2 * v + 1) \in Nat /\ p * n \in Nat
        BY <2>7
      <3> QED
        BY <2>3, <2>7, <2>9, <3>1, <3>2
    <2>11. PICK q \in Nat : w = p * q
      BY <2>6, <2>8, <2>10
    <2>12. u = (2 * p) * q
      BY <2>7, <2>9, <2>11
    <2> QED
      BY <2>3, <2>7, <2>12
  <1>2. Factor(b)
    BY <1>1
  <1>3. PICK y \in Nat : odd = 2 * y + 1
    BY DEF Odd
  <1>4. PICK k \in Nat : x * (2 * y + 1) = 2 ^ b * k
    BY <1>3 DEF Divides
  <1>5. \E q \in Nat : x = 2 ^ b * q
    BY <1>2, <1>4, Zenon
  <1> QED
    BY <1>5, Zenon DEF Divides

\* The steps add up to the triangular numbers.
LEMMA Triangular ==
    ASSUME NEW s \in Nat
    PROVE  (s * (s + 1)) \div 2 \in Nat /\ 2 * ((s * (s + 1)) \div 2) = s * (s + 1)
  <1>1. \A a \in Nat : (2 * a) \div 2 = a
    OBVIOUS
  <1>2. PICK m \in Nat : s = 2 * m \/ s = 2 * m + 1
    <2>1. s \div 2 \in Nat /\ (s = 2 * (s \div 2) \/ s = 2 * (s \div 2) + 1)
      OBVIOUS
    <2> QED
      BY <2>1
  <1>3. \E a \in Nat : s * (s + 1) = 2 * a
    <2>1. CASE s = 2 * m
      <3>1. s * (s + 1) = 2 * (m * (s + 1)) /\ m * (s + 1) \in Nat
        BY <2>1
      <3> QED
        BY <3>1
    <2>2. CASE s = 2 * m + 1
      <3>1. s * (s + 1) = s * (2 * (m + 1))
        BY <2>2
      <3>2. s * (2 * (m + 1)) = 2 * (s * (m + 1)) /\ s * (m + 1) \in Nat
        OBVIOUS
      <3> QED
        BY <3>1, <3>2
    <2> QED
      BY <1>2, <2>1, <2>2
  <1> QED
    BY <1>1, <1>3

\* Two numbers with the same remainder differ by a multiple.
LEMMA SameRemainder ==
    ASSUME NEW a \in Nat, NEW c \in Nat, NEW n \in Nat \ {0}, c <= a, a % n = c % n
    PROVE  \E k \in Nat : a = c + n * k
  <1>1. /\ a = n * (a \div n) + (a % n) /\ a \div n \in Nat
        /\ c = n * (c \div n) + (c % n) /\ c \div n \in Nat
    OBVIOUS
  <1> DEFINE d == a \div n
             e == c \div n
             f == a % n
  <1>2. a = n * d + f /\ c = n * e + f /\ d \in Nat /\ e \in Nat /\ f \in Nat
    BY <1>1
  <1> HIDE DEF d, e, f
  <1>3. e <= d
    <2>1. d < e => \E g \in Nat : e = d + 1 + g
      <3>1. d < e => e - (d + 1) \in Nat /\ e = d + 1 + (e - (d + 1))
        BY <1>2
      <3> QED
        BY <3>1
    <2>2. ASSUME NEW g \in Nat, e = d + 1 + g
          PROVE  FALSE
      <3>1. n * e = n * d + n + n * g /\ n * d \in Nat /\ n * g \in Nat
        BY <1>2, <2>2
      <3> QED
        BY <1>2, <3>1
    <2> QED
      BY <1>2, <2>1, <2>2
  <1>4. d - e \in Nat /\ a = c + n * (d - e)
    <2>1. n * (d - e) = n * d - n * e
      BY <1>2
    <2> QED
      BY <1>2, <1>3, <2>1
  <1> QED
    BY <1>4

\* In a table of a power of two buckets, no bucket is probed twice within as many
\* steps as there are buckets.
LEMMA ProbesDistinct ==
    ASSUME NEW b \in 1 .. HashBits, NEW h \in Nat, NEW r \in Nat, NEW s \in Nat,
           r < s, s < 2 ^ b,
           (h + (r * (r + 1)) \div 2) % 2 ^ b = (h + (s * (s + 1)) \div 2) % 2 ^ b
    PROVE  FALSE
  <1> DEFINE n == 2 ^ b
             u == (r * (r + 1)) \div 2
             v == (s * (s + 1)) \div 2
             x == s - r
             z == s + r + 1
  <1>1. n \in Nat \ {0} /\ 2 ^ (b + 1) = 2 * n
    <2>1. b \in 0 .. HashBits /\ b \in 0 .. HashBits + 1
      BY HashAssumption
    <2> QED
      BY <2>1, PowerType, HashPowers
  <1>2. u \in Nat /\ v \in Nat /\ 2 * u = r * (r + 1) /\ 2 * v = s * (s + 1)
    BY Triangular
  <1>3. x \in Nat \ {0} /\ z \in Nat \ {0} /\ x < n /\ z < 2 * n /\ x + z = 2 * s + 1
    BY <1>1
  <1>4. x * z = 2 * v - 2 * u
    <2>1. x * z = s * (s + 1) - r * (r + 1)
      OBVIOUS
    <2> QED
      BY <1>2, <2>1
  <1>5. (h + u) % n = (h + v) % n
    OBVIOUS
  <1> HIDE DEF n, u, v
  <1>6. u <= v
    <2>1. x * z \in Nat
      BY <1>3
    <2> QED
      BY <1>2, <1>4, <2>1
  <1>7. PICK k \in Nat : h + v = (h + u) + n * k
    <2>1. h + u \in Nat /\ h + v \in Nat /\ h + u <= h + v
      BY <1>2, <1>6
    <2> QED
      BY <1>1, <1>5, <2>1, SameRemainder
  <1>8. x * z = 2 ^ (b + 1) * k
    <2>1. n * k \in Nat /\ (2 * n) * k = 2 * (n * k)
      BY <1>1
    <2>2. v = u + n * k
      BY <1>2, <1>7, <2>1
    <2>3. x * z = 2 * (n * k)
      BY <1>2, <1>4, <2>1, <2>2
    <2> QED
      BY <1>1, <2>1, <2>3
  <1>9. Divides(2 ^ (b + 1), x * z) /\ Divides(2 ^ (b + 1), z * x)
    <2>1. x * z = z * x
      OBVIOUS
    <2> QED
      BY <1>8, <2>1 DEF Divides
  <1>10. b + 1 \in 0 .. HashBits + 1
    BY HashAssumption
  <1> HIDE DEF x, z
  <1>11. Odd(x) \/ Odd(z)
    <2>1. /\ x \div 2 \in Nat /\ (x = 2 * (x \div 2) + 1 \/ x = 2 * (x \div 2))
          /\ z \div 2 \in Nat /\ (z = 2 * (z \div 2) + 1 \/ z = 2 * (z \div 2))
      BY <1>3
    <2>2. ~(x = 2 * (x \div 2) /\ z = 2 * (z \div 2))
      BY <1>3, <2>1
    <2> QED
      BY <2>1, <2>2 DEF Odd
  <1>12. Divides(2 ^ (b + 1), x) \/ Divides(2 ^ (b + 1), z)
    BY <1>3, <1>9, <1>10, <1>11, OddFactor
  <1>13. PICK w \in {x, z}, q \in Nat : w = (2 * n) * q
    BY <1>1, <1>12 DEF Divides
  <1>14. w \in Nat \ {0} /\ w < 2 * n
    BY <1>1, <1>3
  <1>15. q # 0
    BY <1>1, <1>13, <1>14
  <1>16. PICK g \in Nat : q = g + 1
    <2>1. q - 1 \in Nat /\ q = (q - 1) + 1
      BY <1>15
    <2> QED
      BY <2>1
  <1>17. (2 * n) * (g + 1) = (2 * n) * g + 2 * n /\ (2 * n) * g \in Nat
    BY <1>1
  <1> QED
    BY <1>1, <1>13, <1>14, <1>16, <1>17

-----------------------------------------------------------------------------
(* The operations of hashtable.h on a well-formed table.                   *)

Buckets(tab) == 0 .. tab.size - 1
Used(tab) == {k \in Buckets(tab) : tab.etable[k] # 0}
Hashes == 1 .. UINT_MAX

\* The parts of a table have their types, its size is a power of two, and a bucket
\* is empty in both of its arrays or in none.
TableType(tab) ==
    /\ tab = [size |-> tab.size, count |-> tab.count, bshift |-> tab.bshift,
              kbloom |-> tab.kbloom, ktable |-> tab.ktable, etable |-> tab.etable]
    /\ \E b \in 1 .. HashBits : tab.size = 2 ^ b
    /\ tab.ktable \in [Buckets(tab) -> Hashes \cup {0}]
    /\ tab.etable \in [Buckets(tab) -> Nat]
    /\ \A k \in Buckets(tab) : tab.ktable[k] = 0 <=> tab.etable[k] = 0

\* The count is right, and there is an empty bucket.
Counted(tab) == tab.count = Cardinality(Used(tab)) /\ tab.count < tab.size

\* The filter lets the hashes of all the entries pass.
Filtered(tab) == \A k \in Used(tab) : hashtable_getbloom(tab, tab.ktable[k])

\* No entry is in two buckets.
Single(tab) == \A j, k \in Used(tab) : tab.etable[j] = tab.etable[k] => j = k

\* Every entry stands where a probe for its hash comes by before it meets an empty
\* bucket, and after all the earlier entries with the same hash.
OnPath(tab, k, s) ==
    /\ Probe(tab, tab.ktable[k], s) = k
    /\ \A r \in 0 .. s - 1 :
         LET j == Probe(tab, tab.ktable[k], r)
         IN  j \in Used(tab) /\ (tab.ktable[j] = tab.ktable[k] => tab.etable[j] < tab.etable[k])
Placed(tab) == \A k \in Used(tab) : \E s \in 0 .. 2 * tab.size - 1 : OnPath(tab, k, s)

TableOK(tab) == TableType(tab) /\ Counted(tab) /\ Filtered(tab) /\ Single(tab) /\ Placed(tab)

\* The size is a positive number.
LEMMA SizeType ==
    ASSUME NEW tab, TableType(tab)
    PROVE  tab.size \in Nat \ {0}
  <1>1. PICK b \in 1 .. HashBits : tab.size = 2 ^ b
    BY DEF TableType
  <1>2. b \in 0 .. HashBits + 1
    BY HashAssumption
  <1> QED
    BY <1>1, <1>2, PowerType

\* A probe stays within the table.
LEMMA ProbeType ==
    ASSUME NEW tab, TableType(tab), NEW h \in Nat, NEW s \in Nat
    PROVE  Probe(tab, h, s) \in Buckets(tab)
  <1>1. tab.size \in Nat \ {0}
    BY SizeType
  <1>2. (s * (s + 1)) \div 2 \in Nat
    BY Triangular
  <1>3. h + (s * (s + 1)) \div 2 \in Nat
    BY <1>2
  <1>4. \A a \in Nat, n \in Nat \ {0} : a % n \in 0 .. n - 1
    OBVIOUS
  <1> QED
    BY <1>1, <1>3, <1>4 DEF Probe, Buckets

\* Triangular probing comes by every bucket.
LEMMA EveryBucketProbed ==
    ASSUME NEW tab, TableType(tab), NEW h \in Nat, NEW k \in Buckets(tab)
    PROVE  \E s \in Buckets(tab) : Probe(tab, h, s) = k
  <1>1. PICK b \in 1 .. HashBits : tab.size = 2 ^ b
    BY DEF TableType
  <1> DEFINE f == [s \in Buckets(tab) |-> Probe(tab, h, s)]
  <1>2. tab.size \in Nat \ {0}
    BY SizeType
  <1>3. Buckets(tab) \subseteq Nat /\ \A s \in Buckets(tab) : s < tab.size
    BY <1>2 DEF Buckets
  <1>4. f \in [Buckets(tab) -> Buckets(tab)]
    BY <1>3, ProbeType
  <1>5. \A r, s \in Buckets(tab) : r < s => Probe(tab, h, r) # Probe(tab, h, s)
    BY <1>1, <1>3, ProbesDistinct DEF Probe
  <1>6. \A r, s \in Buckets(tab) : f[r] = f[s] => r = s
    <2>1. \A r, s \in Nat : r < s \/ s < r \/ r = s
      OBVIOUS
    <2> SUFFICES ASSUME NEW r \in Buckets(tab), NEW s \in Buckets(tab), f[r] = f[s]
                 PROVE  r = s
      OBVIOUS
    <2>2. Probe(tab, h, r) = Probe(tab, h, s)
      OBVIOUS
    <2>3. r \in Nat /\ s \in Nat /\ ~(r < s) /\ ~(s < r)
      BY <1>3, <1>5, <2>2, ZenonT(30)
    <2> HIDE DEF f
    <2> QED
      BY <2>3, SMT
  <1>7. f \in Injection(Buckets(tab), Buckets(tab))
    BY <1>4, <1>6 DEF Injection, IsInjective
  <1>8. IsFiniteSet(Buckets(tab))
    <2>1. 0 \in Int /\ tab.size - 1 \in Int
      BY <1>2
    <2>2. IsFiniteSet(0 .. tab.size - 1)
      BY <2>1, FS_Interval, Zenon
    <2> QED
      BY <2>2, Zenon DEF Buckets
  <1>9. f \in Surjection(Buckets(tab), Buckets(tab))
    BY <1>7, <1>8, FS_Injection
  <1> QED
    BY <1>9 DEF Surjection

\* The used buckets can be counted; if they are fewer than the size of the table,
\* one is empty.
LEMMA UsedFinite ==
    ASSUME NEW tab, TableType(tab)
    PROVE  /\ IsFiniteSet(Used(tab)) /\ Cardinality(Used(tab)) \in Nat
           /\ Cardinality(Used(tab)) < tab.size => \E k \in Buckets(tab) : tab.etable[k] = 0
  <1>1. tab.size \in Nat \ {0}
    BY SizeType
  <1>2. IsFiniteSet(Buckets(tab)) /\ Cardinality(Buckets(tab)) = tab.size
    <2>1. tab.size - 1 \in Int /\ ~(0 > tab.size - 1) /\ (tab.size - 1) - 0 + 1 = tab.size
      BY <1>1
    <2>2. IsFiniteSet(0 .. tab.size - 1)
      BY <2>1, FS_Interval
    <2>3. \A b \in Int : Cardinality(0 .. b) = IF 0 > b THEN 0 ELSE b - 0 + 1
      <3>1. 0 \in Int
        OBVIOUS
      <3> QED
        BY <3>1, FS_Interval, Zenon
    <2> QED
      BY <2>1, <2>2, <2>3 DEF Buckets
  <1>3. Used(tab) \in SUBSET Buckets(tab)
    BY DEF Used
  <1>4. IsFiniteSet(Used(tab))
    BY <1>2, <1>3, FS_Subset
  <1>5. Cardinality(Used(tab)) \in Nat
    BY <1>4, FS_CardinalityType
  <1>6. (\A k \in Buckets(tab) : tab.etable[k] # 0) => Used(tab) = Buckets(tab)
    BY DEF Used
  <1> QED
    BY <1>1, <1>2, <1>4, <1>5, <1>6

\* A probe ends.
LEMMA ProbesMeetEmpty ==
    ASSUME NEW tab, TableType(tab), Counted(tab), NEW h \in Nat
    PROVE  ProbeEnds(tab, h)
  <1>1. tab.size \in Nat \ {0}
    BY SizeType
  <1>2. PICK k \in Buckets(tab) : tab.etable[k] = 0
    BY UsedFinite DEF Counted
  <1>3. PICK s \in Buckets(tab) : Probe(tab, h, s) = k
    BY EveryBucketProbed
  <1>4. s \in 0 .. 2 * tab.size - 1
    BY <1>1 DEF Buckets
  <1>5. tab.ktable[k] = 0
    BY <1>2 DEF TableType
  <1> QED
    BY <1>3, <1>4, <1>5 DEF ProbeEnds

\* The number of steps of a probe.
LEMMA EmptyAtFacts ==
    ASSUME NEW tab, TableType(tab), Counted(tab), NEW h \in Nat
    PROVE  /\ EmptyAt(tab, h) \in 0 .. 2 * tab.size - 1
           /\ EmptyAt(tab, h) \in Nat
           /\ tab.ktable[Probe(tab, h, EmptyAt(tab, h))] = 0
           /\ \A r \in 0 .. EmptyAt(tab, h) - 1 : tab.ktable[Probe(tab, h, r)] # 0
  <1> DEFINE Steps == 0 .. 2 * tab.size - 1
             Ends == {s \in Steps : tab.ktable[Probe(tab, h, s)] = 0}
  <1>1. tab.size \in Nat \ {0}
    BY SizeType
  <1>2. Ends \subseteq Nat
    BY <1>1
  <1>3. Ends # {}
    BY ProbesMeetEmpty DEF ProbeEnds
  <1>4. PICK s \in Ends : \A r \in Ends : s <= r
    <2> HIDE DEF Ends
    <2> QED
      BY <1>2, <1>3, LeastNumber
  <1>5. \A r \in 0 .. s - 1 : tab.ktable[Probe(tab, h, r)] # 0
    <2> SUFFICES ASSUME NEW r \in 0 .. s - 1, tab.ktable[Probe(tab, h, r)] = 0
                 PROVE  FALSE
      OBVIOUS
    <2>1. r \in Steps /\ ~(s <= r)
      BY <1>1
    <2> QED
      BY <1>4, <2>1
  <1>6. \E e \in Steps : /\ tab.ktable[Probe(tab, h, e)] = 0
                         /\ \A r \in 0 .. e - 1 : tab.ktable[Probe(tab, h, r)] # 0
    BY <1>5
  <1>7. Steps \subseteq Nat
    BY <1>1
  <1> QED
    BY <1>6, <1>7 DEF EmptyAt

\* The hashes are positive numbers.
LEMMA WordFacts ==
    /\ UINT_MAX \in Nat \ {0}
    /\ \A h \in 0 .. UINT_MAX : nozero(h) \in Hashes
    /\ Hashes \subseteq Nat \ {0}
  <1>1. HashBits \in 0 .. HashBits + 1 /\ HashBits - 1 \in 0 .. HashBits /\ HashBits - 1 \in 0 .. HashBits + 1
        /\ (HashBits - 1) + 1 = HashBits
    BY HashAssumption
  <1>2. 2 ^ (HashBits - 1) \in Nat \ {0}
    BY <1>1, PowerType
  <1>3. 2 ^ ((HashBits - 1) + 1) = 2 * 2 ^ (HashBits - 1)
    BY <1>1, HashPowers
  <1>4. 2 ^ HashBits = 2 * 2 ^ (HashBits - 1)
    BY <1>1, <1>3
  <1>5. UINT_MAX \in Nat \ {0}
    BY <1>2, <1>4 DEF UINT_MAX
  <1> QED
    BY <1>5 DEF nozero, Hashes

\* A new table is empty, and larger than what it was asked for.
LEMMA NewTable ==
    ASSUME NEW n \in Nat, Wanted(n) <= 2 ^ HashBits
    PROVE  /\ TableOK(hashtable_new(n))
           /\ Used(hashtable_new(n)) = {}
           /\ hashtable_new(n).count = 0 /\ n < hashtable_new(n).size
  <1> DEFINE Large == {b \in 1 .. HashBits : 2 ^ b >= Wanted(n)}
  <1>1. Wanted(n) \in Nat /\ n < Wanted(n)
    <2>1. (n * 10) \div 7 \in Nat /\ (n * 10) \div 7 >= n
      OBVIOUS
    <2> QED
      BY <2>1 DEF Wanted, HASHTABLE_LOADFACTOR_NUM, HASHTABLE_LOADFACTOR_DEN
  <1>2. HashBits \in Nat /\ HashBits \in 1 .. HashBits
    BY HashAssumption
  <1>3. \A b \in 1 .. HashBits : b \in 0 .. HashBits + 1 /\ 2 ^ b \in Nat \ {0}
    <2>1. \A b \in 1 .. HashBits : b \in 0 .. HashBits + 1
      BY <1>2
    <2> QED
      BY <2>1, PowerType
  <1>4. PICK b \in Large : \A c \in Large : b <= c
    <2>1. Large \subseteq Nat
      OBVIOUS
    <2>2. Large # {}
      <3>1. 2 ^ HashBits >= Wanted(n)
        BY <1>1, <1>2, <1>3
      <3> QED
        BY <1>2, <3>1
    <2> HIDE DEF Large
    <2> QED
      BY <2>1, <2>2, LeastNumber
  <1>5. \A c \in 1 .. b - 1 : 2 ^ c < Wanted(n)
    <2> SUFFICES ASSUME NEW c \in 1 .. b - 1
                 PROVE  2 ^ c < Wanted(n)
      OBVIOUS
    <2>1. c \in 1 .. HashBits /\ ~(b <= c)
      BY <1>2
    <2>2. c \notin Large
      <3> HIDE DEF Large
      <3> QED
        BY <1>4, <2>1
    <2>3. 2 ^ c \in Nat
      BY <1>3, <2>1
    <2> QED
      BY <1>1, <2>1, <2>2, <2>3
  <1> DEFINE bits2 == CHOOSE a \in 1 .. HashBits :
                        /\ 2 ^ a >= Wanted(n)
                        /\ \A c \in 1 .. a - 1 : 2 ^ c < Wanted(n)
  <1>6. bits2 \in 1 .. HashBits /\ 2 ^ bits2 >= Wanted(n)
    <2>1. \E a \in 1 .. HashBits : 2 ^ a >= Wanted(n) /\ \A c \in 1 .. a - 1 : 2 ^ c < Wanted(n)
      BY <1>4, <1>5
    <2> QED
      BY <2>1
  <1> DEFINE tab == hashtable_new(n)
  <1>7. tab = [size |-> 2 ^ bits2, count |-> 0, bshift |-> HashBits - bits2,
               kbloom |-> {},
               ktable |-> [i \in 0 .. 2 ^ bits2 - 1 |-> 0],
               etable |-> [i \in 0 .. 2 ^ bits2 - 1 |-> 0]]
    BY DEF hashtable_new
  <1> HIDE DEF bits2, tab
  <1>8. PICK m \in Nat \ {0} : m = 2 ^ bits2 /\ m >= Wanted(n)
    BY <1>3, <1>6
  <1>9. /\ tab.size = m /\ tab.count = 0 /\ tab.kbloom = {}
        /\ tab.ktable = [i \in 0 .. m - 1 |-> 0] /\ tab.etable = [i \in 0 .. m - 1 |-> 0]
    BY <1>7, <1>8
  <1>10. Used(tab) = {}
    BY <1>9 DEF Used, Buckets
  <1>11. TableType(tab)
    <2>1. tab = [size |-> tab.size, count |-> tab.count, bshift |-> tab.bshift,
                 kbloom |-> tab.kbloom, ktable |-> tab.ktable, etable |-> tab.etable]
      BY <1>7
    <2>2. \E a \in 1 .. HashBits : tab.size = 2 ^ a
      BY <1>6, <1>8, <1>9
    <2>3. /\ tab.ktable \in [Buckets(tab) -> Hashes \cup {0}]
          /\ tab.etable \in [Buckets(tab) -> Nat]
          /\ \A k \in Buckets(tab) : tab.ktable[k] = 0 <=> tab.etable[k] = 0
      BY <1>9 DEF Buckets
    <2> QED
      BY <2>1, <2>2, <2>3 DEF TableType
  <1>12. Counted(tab)
    BY <1>9, <1>10, FS_EmptySet DEF Counted
  <1>13. Filtered(tab) /\ Single(tab) /\ Placed(tab)
    BY <1>10 DEF Filtered, Single, Placed
  <1>14. n < tab.size
    BY <1>1, <1>8, <1>9
  <1> QED
    BY <1>9, <1>10, <1>11, <1>12, <1>13, <1>14 DEF TableOK, tab

\* A table that is not full takes the entry into an empty bucket and leaves the
\* others alone.
Added(tab, he, e, new, i) ==
    /\ i \in Buckets(tab) \ Used(tab)
    /\ new.size = tab.size /\ new.count = tab.count + 1 /\ Used(new) = Used(tab) \cup {i}
    /\ new.etable[i] = e /\ new.ktable[i] = he
    /\ \A k \in Used(tab) : new.etable[k] = tab.etable[k] /\ new.ktable[k] = tab.ktable[k]

\* hashtable_add keeps the table well-formed.
LEMMA AddKeeps ==
    ASSUME NEW tab, TableOK(tab), NEW he \in Hashes, NEW e \in Nat \ {0},
           \A k \in Used(tab) : tab.etable[k] < e, tab.count + 1 # tab.size
    PROVE  /\ TableOK(hashtable_add(tab, he, e))
           /\ \E i : Added(tab, he, e, hashtable_add(tab, he, e), i)
  <1> DEFINE b == hashtable_setbloom(tab, he)
             s == EmptyAt(b, he)
             i == Probe(b, he, s)
             new == hashtable_add(tab, he, e)
  <1>0. he \in Nat \ {0}
    BY WordFacts
  <1>1. /\ TableType(tab) /\ Counted(tab) /\ Filtered(tab) /\ Single(tab) /\ Placed(tab)
        /\ tab.size \in Nat \ {0} /\ tab.count \in Nat
    BY SizeType, UsedFinite DEF TableOK, Counted
  <1>2. b = [size |-> tab.size, count |-> tab.count, bshift |-> tab.bshift,
             kbloom |-> tab.kbloom \cup {he \div 2 ^ tab.bshift},
             ktable |-> tab.ktable, etable |-> tab.etable]
    <2>1. tab = [size |-> tab.size, count |-> tab.count, bshift |-> tab.bshift,
                 kbloom |-> tab.kbloom, ktable |-> tab.ktable, etable |-> tab.etable]
      BY <1>1 DEF TableType
    <2>2. PICK size, count, bshift, kbloom, ktable, etable :
            tab = [size |-> size, count |-> count, bshift |-> bshift,
                   kbloom |-> kbloom, ktable |-> ktable, etable |-> etable]
      BY <2>1, Zenon
    <2>3. PICK x : x = he \div 2 ^ tab.bshift
      OBVIOUS
    <2>4. b = [tab EXCEPT !.kbloom = @ \cup {x}]
      BY <2>3 DEF hashtable_setbloom
    <2> HIDE DEF b
    <2>5. b = [size |-> size, count |-> count, bshift |-> bshift,
               kbloom |-> kbloom \cup {x}, ktable |-> ktable, etable |-> etable]
      BY <2>2, <2>4
    <2> QED
      BY <2>2, <2>3, <2>5
  <1> HIDE DEF b
  <1>3. /\ b.size = tab.size /\ b.count = tab.count /\ b.bshift = tab.bshift
        /\ b.ktable = tab.ktable /\ b.etable = tab.etable
        /\ b.kbloom = tab.kbloom \cup {he \div 2 ^ tab.bshift}
    BY <1>2
  <1>4. Buckets(b) = Buckets(tab) /\ Used(b) = Used(tab)
    BY <1>3 DEF Buckets, Used
  <1>5. TableType(b) /\ Counted(b)
    <2>1. b = [size |-> b.size, count |-> b.count, bshift |-> b.bshift,
               kbloom |-> b.kbloom, ktable |-> b.ktable, etable |-> b.etable]
      BY <1>2
    <2>2. TableType(b)
      BY <1>1, <1>3, <1>4, <2>1 DEF TableType
    <2>3. Counted(b)
      BY <1>1, <1>3, <1>4 DEF Counted
    <2> QED
      BY <2>2, <2>3
  <1>6. /\ s \in 0 .. 2 * tab.size - 1 /\ s \in Nat
        /\ tab.ktable[i] = 0
        /\ \A r \in 0 .. s - 1 : tab.ktable[Probe(b, he, r)] # 0
    BY <1>0, <1>3, <1>5, EmptyAtFacts
  <1>7. \A h, r : Probe(b, h, r) = Probe(tab, h, r)
    BY <1>3 DEF Probe
  <1>8. i \in Buckets(tab)
    BY <1>0, <1>4, <1>5, <1>6, ProbeType
  <1>9. i = Probe(tab, he, s)
    BY <1>7
  <1>10. new = [size |-> tab.size, count |-> tab.count + 1, bshift |-> tab.bshift,
                kbloom |-> tab.kbloom \cup {he \div 2 ^ tab.bshift},
                ktable |-> [tab.ktable EXCEPT ![i] = he],
                etable |-> [tab.etable EXCEPT ![i] = e]]
    <2>1. new = [b EXCEPT !.count = @ + 1, !.ktable[i] = he, !.etable[i] = e]
      BY DEF hashtable_add, b
    <2> HIDE DEF i, new
    <2> QED
      BY <1>2, <2>1
  <1> HIDE DEF s, i, new
  <1>11. /\ new.size = tab.size /\ new.count = tab.count + 1 /\ new.bshift = tab.bshift
         /\ new.kbloom = tab.kbloom \cup {he \div 2 ^ tab.bshift}
         /\ new.ktable = [tab.ktable EXCEPT ![i] = he]
         /\ new.etable = [tab.etable EXCEPT ![i] = e]
    BY <1>10
  <1>12. Buckets(new) = Buckets(tab)
    BY <1>11 DEF Buckets
  <1>13. /\ tab.ktable \in [Buckets(tab) -> Hashes \cup {0}]
         /\ tab.etable \in [Buckets(tab) -> Nat]
         /\ \A k \in Buckets(tab) : tab.ktable[k] = 0 <=> tab.etable[k] = 0
    BY <1>1 DEF TableType
  <1>14. i \notin Used(tab)
    BY <1>6, <1>8, <1>13 DEF Used
  <1>15. /\ new.etable[i] = e /\ new.ktable[i] = he
         /\ \A k \in Buckets(tab) \ {i} : new.etable[k] = tab.etable[k] /\ new.ktable[k] = tab.ktable[k]
    BY <1>8, <1>11, <1>13
  <1>16. Used(new) = Used(tab) \cup {i}
    BY <1>8, <1>12, <1>15 DEF Used
  <1>17. Used(tab) \subseteq Buckets(tab) \ {i}
    BY <1>14 DEF Used
  <1>18. TableType(new)
    <2>1. new = [size |-> new.size, count |-> new.count, bshift |-> new.bshift,
                 kbloom |-> new.kbloom, ktable |-> new.ktable, etable |-> new.etable]
      BY <1>10
    <2>2. \E a \in 1 .. HashBits : new.size = 2 ^ a
      BY <1>1, <1>11 DEF TableType
    <2>3. new.ktable \in [Buckets(new) -> Hashes \cup {0}] /\ new.etable \in [Buckets(new) -> Nat]
      BY <1>8, <1>11, <1>12, <1>13
    <2>4. \A k \in Buckets(new) : new.ktable[k] = 0 <=> new.etable[k] = 0
      BY <1>0, <1>12, <1>13, <1>15
    <2> QED
      BY <2>1, <2>2, <2>3, <2>4 DEF TableType
  <1>19. Counted(new)
    <2>1. Cardinality(Used(new)) = Cardinality(Used(tab)) + 1
      BY <1>1, <1>14, <1>16, UsedFinite, FS_AddElement
    <2> QED
      BY <1>1, <1>11, <2>1 DEF Counted
  <1>20. Filtered(new)
    BY <1>1, <1>11, <1>15, <1>16, <1>17 DEF Filtered, hashtable_getbloom
  <1>21. Single(new)
    <2>1. \A k \in Used(tab) : new.etable[k] # e
      <3>1. \A k \in Used(tab) : tab.etable[k] \in Nat /\ tab.etable[k] < e
        BY <1>13 DEF Used
      <3> QED
        BY <1>15, <1>17, <3>1
    <2> QED
      BY <1>1, <1>15, <1>16, <1>17, <2>1 DEF Single
  <1>22. Placed(new)
    <2> SUFFICES ASSUME NEW k \in Used(new)
                 PROVE  \E r \in 0 .. 2 * new.size - 1 : OnPath(new, k, r)
      BY DEF Placed
    <2>1. \A h, r : Probe(new, h, r) = Probe(tab, h, r)
      BY <1>11 DEF Probe
    <2>2. CASE k = i
      <3>1. ASSUME NEW r \in 0 .. s - 1, NEW j, j = Probe(tab, he, r)
            PROVE  j \in Used(tab) /\ tab.etable[j] < e
        <4>1. j \in Buckets(tab) /\ tab.ktable[j] # 0
          BY <1>0, <1>1, <1>6, <1>7, <3>1, ProbeType
        <4> QED
          BY <1>13, <4>1 DEF Used
      <3>2. OnPath(new, i, s)
        BY <1>9, <1>15, <1>16, <1>17, <2>1, <3>1 DEF OnPath
      <3> QED
        BY <1>6, <1>11, <2>2, <3>2
    <2>3. CASE k # i
      <3>1. k \in Used(tab)
        BY <1>16, <2>3
      <3>2. PICK r \in 0 .. 2 * tab.size - 1 : OnPath(tab, k, r)
        BY <1>1, <3>1 DEF Placed
      <3>3. OnPath(new, k, r)
        BY <1>15, <1>16, <1>17, <2>1, <3>1, <3>2 DEF OnPath
      <3> QED
        BY <1>11, <3>3
    <2> QED
      BY <2>2, <2>3
  <1>23. Added(tab, he, e, new, i)
    BY <1>8, <1>11, <1>14, <1>15, <1>16, <1>17 DEF Added
  <1>24. TableOK(new)
    BY <1>18, <1>19, <1>20, <1>21, <1>22 DEF TableOK
  <1> QED
    BY <1>23, <1>24 DEF new

\* The buckets of the entries that a lookup may find.
Candidates(tab, hm, matching) ==
    {k \in Used(tab) : tab.ktable[k] = hm /\ tab.etable[k] \in matching}

\* A lookup finds the earliest of them.
LEMMA FindFacts ==
    ASSUME NEW tab, TableOK(tab), NEW hm \in Hashes, NEW matching
    PROVE  LET S == Candidates(tab, hm, matching)
           IN  /\ S = {} => hashtable_find(tab, hm, matching) = 0
               /\ \A k \in S : (\A j \in S : tab.etable[k] <= tab.etable[j])
                                 => hashtable_find(tab, hm, matching) = tab.etable[k]
  <1> DEFINE S == Candidates(tab, hm, matching)
             n == EmptyAt(tab, hm)
             hits == {s \in 0 .. n - 1 :
                        /\ tab.ktable[Probe(tab, hm, s)] = hm
                        /\ tab.etable[Probe(tab, hm, s)] \in matching}
             hit == CHOOSE s \in hits : \A r \in hits : s <= r
  <1>0. hm \in Nat \ {0}
    BY WordFacts
  <1>1. /\ TableType(tab) /\ Counted(tab) /\ Filtered(tab) /\ Placed(tab)
        /\ tab.size \in Nat \ {0}
        /\ \A k \in Buckets(tab) : tab.ktable[k] = 0 <=> tab.etable[k] = 0
        /\ tab.etable \in [Buckets(tab) -> Nat]
    BY SizeType DEF TableOK, TableType
  <1>2. n \in Nat /\ tab.ktable[Probe(tab, hm, n)] = 0
    BY <1>0, <1>1, EmptyAtFacts
  <1>3. hashtable_find(tab, hm, matching) =
          IF ~hashtable_getbloom(tab, hm) \/ hits = {} THEN 0 ELSE tab.etable[Probe(tab, hm, hit)]
    BY DEF hashtable_find
  <1> HIDE DEF n
  <1>4. ASSUME NEW s \in hits
        PROVE  Probe(tab, hm, s) \in S
    <2>1. s \in Nat
      BY <1>2
    <2>2. Probe(tab, hm, s) \in Buckets(tab)
      BY <1>0, <1>1, <2>1, ProbeType
    <2> QED
      BY <1>0, <1>1, <2>2 DEF Candidates, Used
  <1>5. S = {} => hashtable_find(tab, hm, matching) = 0
    <2>1. S = {} => hits = {}
      BY <1>4
    <2> QED
      BY <1>3, <2>1
  <1>6. ASSUME NEW k \in S, \A j \in S : tab.etable[k] <= tab.etable[j]
        PROVE  hashtable_find(tab, hm, matching) = tab.etable[k]
    <2>1. k \in Used(tab) /\ k \in Buckets(tab) /\ tab.ktable[k] = hm /\ tab.etable[k] \in matching
      BY <1>6 DEF Candidates, Used
    <2>2. PICK s \in 0 .. 2 * tab.size - 1 : OnPath(tab, k, s)
      BY <1>1, <2>1 DEF Placed
    <2>3. s \in Nat
      BY <1>1
    <2>4. Probe(tab, hm, s) = k
      BY <2>1, <2>2 DEF OnPath
    <2>5. \A r \in 0 .. s - 1 : /\ Probe(tab, hm, r) \in Used(tab)
                                /\ tab.ktable[Probe(tab, hm, r)] = hm =>
                                     tab.etable[Probe(tab, hm, r)] < tab.etable[k]
      BY <2>1, <2>2 DEF OnPath
    <2>6. s < n
      <3> SUFFICES ASSUME ~(s < n)
                   PROVE  FALSE
        OBVIOUS
      <3>1. n = s \/ n \in 0 .. s - 1
        BY <1>2, <2>3
      <3>2. Probe(tab, hm, n) \in Used(tab)
        BY <2>1, <2>4, <2>5, <3>1
      <3> QED
        BY <1>1, <1>2, <3>2 DEF Used
    <2>7. s \in hits
      BY <1>2, <2>1, <2>3, <2>4, <2>6
    <2>8. \E r \in hits : \A q \in hits : r <= q
      <3>1. hits \subseteq Nat
        BY <1>2
      <3> HIDE DEF hits
      <3> QED
        BY <2>7, <3>1, LeastNumber
    <2>9. hit \in hits /\ \A q \in hits : hit <= q
      <3> HIDE DEF hits
      <3> QED
        BY <2>8
    <2> HIDE DEF hit
    <2>10. hit = s
      <3> SUFFICES ASSUME hit # s
                   PROVE  FALSE
        OBVIOUS
      <3>1. hit \in Nat /\ hit <= s
        BY <1>2, <2>7, <2>9
      <3>2. hit \in 0 .. s - 1
        BY <2>3, <3>1
      <3>3. Probe(tab, hm, hit) \in S /\ tab.ktable[Probe(tab, hm, hit)] = hm
        BY <1>4, <2>9
      <3>4. tab.etable[Probe(tab, hm, hit)] < tab.etable[k] /\ tab.etable[k] <= tab.etable[Probe(tab, hm, hit)]
        BY <1>6, <2>5, <3>2, <3>3
      <3>5. Probe(tab, hm, hit) \in Buckets(tab)
        BY <3>3 DEF Candidates, Used
      <3>6. tab.etable[k] \in Nat /\ tab.etable[Probe(tab, hm, hit)] \in Nat
        BY <1>1, <2>1, <3>5
      <3> QED
        BY <3>4, <3>6
    <2>11. hashtable_getbloom(tab, hm)
      BY <1>1, <2>1 DEF Filtered
    <2> QED
      BY <1>3, <2>4, <2>7, <2>10, <2>11
  <1> QED
    BY <1>5, <1>6

\* hashtable_next goes on to the next used bucket.
LEMMA NextFacts ==
    ASSUME NEW tab, TableType(tab), NEW i \in 0 .. tab.size
    PROVE  LET next == hashtable_next(tab, i)
           IN  \/ /\ next = [e |-> 0, i |-> tab.size]
                  /\ \A k \in Used(tab) : k < i
               \/ \E k \in Used(tab) : /\ next = [e |-> tab.etable[k], i |-> k + 1] /\ i <= k
                                       /\ \A m \in Used(tab) : i <= m => k <= m
  <1> DEFINE full == {k \in i .. tab.size - 1 : tab.etable[k] # 0}
             first == CHOOSE k \in full : \A m \in full : k <= m
  <1>1. tab.size \in Nat \ {0} /\ i \in Nat
    BY SizeType
  <1>2. full = {k \in Used(tab) : i <= k}
    BY <1>1 DEF Used, Buckets
  <1>3. Used(tab) \subseteq Nat
    BY <1>1 DEF Used, Buckets
  <1>4. hashtable_next(tab, i) =
          IF full = {} THEN [e |-> 0, i |-> tab.size] ELSE [e |-> tab.etable[first], i |-> first + 1]
    BY DEF hashtable_next
  <1> HIDE DEF full
  <1>5. CASE full = {}
    <2>1. \A k \in Used(tab) : k < i
      BY <1>1, <1>2, <1>3, <1>5
    <2> QED
      BY <1>4, <1>5, <2>1
  <1>6. CASE full # {}
    <2>1. \E k \in full : \A m \in full : k <= m
      BY <1>2, <1>3, <1>6, LeastNumber
    <2>2. first \in full /\ \A m \in full : first <= m
      BY <2>1
    <2> HIDE DEF first
    <2> QED
      BY <1>2, <1>4, <1>6, <2>2
  <1> QED
    BY <1>5, <1>6

-----------------------------------------------------------------------------
(* sumset.c: the index.                                                    *)

IndexType ==
    /\ blocks \in Seq(Block(Words)) /\ entered \in 0 .. Len(blocks)
    /\ phase \in {"new", "build", "ready", "fill"}
    /\ phase = "new" => entered = 0 /\ Len(blocks) <= MaxBlocks
    /\ phase = "fill" => entered = Len(blocks)

\* What is in the table, under which hash, and that there is room for the rest.
Indexed ==
    /\ TableOK(hashtable)
    /\ {hashtable.etable[k] : k \in Used(hashtable)} = Held
    /\ \A k \in Used(hashtable) : hashtable.ktable[k] = KEY_HASH(blocks[hashtable.etable[k]])
    /\ phase # "fill" => hashtable.count <= entered
    /\ phase \in {"build", "ready"} => Len(blocks) < hashtable.size

\* The loop lp with the entries seen has gone over the buckets before its index.
Passed(tab, i) == {k \in Used(tab) : k < i}
LoopType(tab, lp, ph) ==
    /\ lp = [e |-> lp.e, i |-> lp.i]
    /\ lp.e \in Nat /\ lp.i \in -1 .. tab.size
    /\ lp.i = -1 => lp.e = 0
    /\ lp.i # -1 => ph \in {"ready", "fill"} /\ (lp.e = 0 => lp.i = tab.size)
Seen(tab, i, seen) ==
    /\ seen \in Seq(Nat)
    /\ Len(seen) = Cardinality(Passed(tab, i))
    /\ {seen[n] : n \in 1 .. Len(seen)} = {tab.etable[k] : k \in Passed(tab, i)}
    /\ \A m, n \in 1 .. Len(seen) : seen[m] = seen[n] => m = n
Visiting ==
    /\ LoopType(hashtable, loop, phase) /\ Seen(hashtable, loop.i, visited)
    /\ loop.i = -1 => visited = <<>>

IndexInv == IndexType /\ Indexed /\ Visiting

\* The first of some blocks.
LEMMA FirstFacts ==
    ASSUME NEW S, S \subseteq Nat
    PROVE  /\ S = {} => First(S) = 0
           /\ S # {} => First(S) \in S /\ \A m \in S : First(S) <= m
  <1>1. S # {} => \E k \in S : \A m \in S : k <= m
    BY LeastNumber
  <1> QED
    BY <1>1 DEF First

\* The least element is the only one.
LEMMA FirstIs ==
    ASSUME NEW S, S \subseteq Nat, NEW k \in S, \A m \in S : k <= m
    PROVE  First(S) = k
  <1>1. First(S) \in S /\ First(S) <= k
    BY FirstFacts
  <1>2. k <= First(S) /\ First(S) \in Nat /\ k \in Nat
    BY <1>1
  <1> QED
    BY <1>1, <1>2

\* A lookup in the table is a search through the blocks.
LEMMA FindIsFirst ==
    ASSUME IndexType, Indexed, NEW h \in Hashes, NEW strong
    PROVE  hashtable_find(hashtable, h, Matching(strong)) = First(Same(h, strong))
  <1> DEFINE C == Candidates(hashtable, h, Matching(strong))
             S == Same(h, strong)
  <1>0. Len(blocks) \in Nat /\ entered \in Nat /\ entered <= Len(blocks) /\ S \subseteq Nat /\ S \subseteq 1 .. entered
    BY DEF IndexType, Same
  <1>1. Held \subseteq 1 .. entered
    BY DEF Held
  <1>2. ASSUME NEW k \in C
        PROVE  hashtable.etable[k] \in S
    <2>1. k \in Used(hashtable) /\ hashtable.ktable[k] = h /\ hashtable.etable[k] \in Matching(strong)
      BY DEF Candidates
    <2>2. hashtable.etable[k] \in 1 .. entered
      BY <1>1, <2>1 DEF Indexed
    <2> QED
      BY <2>1, <2>2 DEF Indexed, Matching, Same
  <1>3. CASE S = {}
    <2>1. C = {}
      BY <1>2, <1>3
    <2>2. hashtable_find(hashtable, h, Matching(strong)) = 0
      BY <2>1, FindFacts DEF Indexed
    <2> QED
      BY <1>0, <1>3, <2>2, FirstFacts
  <1>4. CASE S # {}
    <2> DEFINE f == First(S)
    <2>1. f \in S /\ \A m \in S : f <= m
      BY <1>0, <1>4, FirstFacts
    <2> HIDE DEF f
    <2>2. f \in 1 .. entered /\ KEY_HASH(blocks[f]) = h /\ blocks[f].strong_sum = strong
      BY <2>1 DEF Same
    <2>3. f \in Held
      BY <2>2 DEF Held, f
    <2>4. PICK k \in Used(hashtable) : hashtable.etable[k] = f
      BY <2>3 DEF Indexed
    <2>5. f \in Matching(strong)
      BY <1>0, <2>2 DEF Matching
    <2>6. k \in C
      BY <2>2, <2>4, <2>5 DEF Indexed, Candidates
    <2>7. \A j \in C : hashtable.etable[k] <= hashtable.etable[j]
      BY <1>2, <2>1, <2>4
    <2>8. hashtable_find(hashtable, h, Matching(strong)) = hashtable.etable[k]
      BY <2>6, <2>7, FindFacts DEF Indexed
    <2> QED
      BY <2>4, <2>8 DEF f
  <1> QED
    BY <1>3, <1>4

\* The hash of a block is not zero.
LEMMA HashOfBlock ==
    ASSUME NEW b \in Block(Words)
    PROVE  KEY_HASH(b) \in Hashes
  <1>1. b.weak_sum \in 0 .. UINT_MAX
    BY DEF Block, Words
  <1> QED
    BY <1>1, WordFacts DEF KEY_HASH

\* One more block of the signature: it is the first with its sums, or else one
\* before it is.
LEMMA HeldGrows ==
    ASSUME IndexType, phase = "build", phase' = phase, blocks' = blocks,
           entered < Len(blocks), entered' = entered + 1
    PROVE  LET b == blocks[entered + 1]
           IN  Held' = IF Same(KEY_HASH(b), b.strong_sum) = {} THEN Held \cup {entered + 1} ELSE Held
  <1> DEFINE n == entered + 1
             h(k) == KEY_HASH(blocks[k])
             st(k) == blocks[k].strong_sum
             Old(k) == Same(h(k), st(k))
             New(k) == {m \in 1 .. n : h(m) = h(k) /\ st(m) = st(k)}
  <1>0. entered \in Nat
    BY DEF IndexType
  <1>1. Held' = {k \in 1 .. n : First(New(k)) = k}
    <2>1. (Held)' = {k \in 1 .. n : First((Same(KEY_HASH(blocks[k]), blocks[k].strong_sum))') = k}
      BY DEF Held, First
    <2> QED
      BY <2>1 DEF Same
  <1>2. Held = {k \in 1 .. entered : First(Old(k)) = k}
    BY DEF Held
  <1>3. ASSUME NEW k \in 1 .. entered
        PROVE  First(New(k)) = First(Old(k))
    <2>1. Old(k) \subseteq Nat /\ New(k) \subseteq Nat /\ Old(k) \subseteq New(k) /\ k \in Old(k)
      BY <1>0 DEF Same
    <2>2. First(Old(k)) \in Old(k) /\ \A m \in Old(k) : First(Old(k)) <= m
      BY <2>1, FirstFacts
    <2>3. \A m \in New(k) : m \in Old(k) \/ m = n
      BY <1>0 DEF Same
    <2>4. First(Old(k)) \in 1 .. entered
      BY <2>2 DEF Same
    <2>5. \A m \in New(k) : First(Old(k)) <= m
      BY <1>0, <2>2, <2>3, <2>4
    <2> HIDE DEF New, Old
    <2> QED
      BY <2>1, <2>2, <2>5, FirstIs
  <1>4. First(New(n)) = n <=> Old(n) = {}
    <2>1. Old(n) \subseteq Nat /\ New(n) \subseteq Nat /\ n \in New(n) /\ New(n) = Old(n) \cup {n}
      BY <1>0 DEF Same
    <2>2. CASE Old(n) = {}
      <3>1. \A m \in New(n) : n <= m
        BY <1>0, <2>1, <2>2
      <3> HIDE DEF New, Old
      <3> QED
        BY <2>1, <2>2, <3>1, FirstIs
    <2>3. CASE Old(n) # {}
      <3>1. PICK m \in Old(n) : TRUE
        BY <2>3
      <3>2. m \in 1 .. entered /\ m \in New(n)
        BY <2>1, <3>1 DEF Same
      <3>3. First(New(n)) <= m
        <4> HIDE DEF New, Old
        <4> QED
          BY <2>1, <3>2, FirstFacts
      <3> QED
        BY <1>0, <2>3, <3>2, <3>3
    <2> QED
      BY <2>2, <2>3
  <1>5. 1 .. n = (1 .. entered) \cup {n} /\ n \notin 1 .. entered
    BY <1>0
  <1> HIDE DEF New, Old, n
  <1>6. Held' = IF Old(n) = {} THEN Held \cup {n} ELSE Held
    BY <1>1, <1>2, <1>3, <1>4, <1>5
  <1> QED
    BY <1>6 DEF Old, n

\* No bucket is before the first.
LEMMA NothingSeen ==
    ASSUME NEW tab, TableType(tab)
    PROVE  Seen(tab, -1, <<>>) /\ Seen(tab, 0, <<>>)
  <1>1. tab.size \in Nat \ {0}
    BY SizeType
  <1>2. Used(tab) \subseteq Nat
    BY <1>1 DEF Used, Buckets
  <1>3. Passed(tab, -1) = {} /\ Passed(tab, 0) = {}
    BY <1>2 DEF Passed
  <1>4. Cardinality({}) = 0
    BY FS_EmptySet
  <1> QED
    BY <1>3, <1>4 DEF Seen

\* The invariant holds of the initial states.
LEMMA IndexInit == SumsetInit => IndexInv
  <1> SUFFICES ASSUME SumsetInit
               PROVE  IndexInv
    OBVIOUS
  <1>1. entered = 0 /\ loop = [e |-> 0, i |-> -1] /\ visited = <<>>
    BY DEF SumsetInit
  <1>2. PICK n \in Nat : Wanted(n) <= 2 ^ HashBits /\ hashtable = hashtable_new(n)
    <2>1. CASE hashtable = hashtable_new(0)
      <3>1. 0 \in (0 .. MaxBlocks) \cup Requests
        BY SumsetAssumption
      <3> QED
        BY <2>1, <3>1, SumsetAssumption
    <2>2. CASE \E n \in Requests : hashtable = hashtable_new(n)
      BY <2>2, SumsetAssumption
    <2> QED
      BY <2>1, <2>2 DEF SumsetInit
  <1>3. TableOK(hashtable) /\ Used(hashtable) = {} /\ hashtable.count = 0
    BY <1>2, NewTable
  <1>4. IndexType
    <2>1. CASE phase = "new"
      <3>1. PICK m \in 0 .. MaxBlocks : blocks \in [1 .. m -> Block(WeakSums)]
        BY <2>1 DEF SumsetInit
      <3>2. m \in Nat /\ m <= MaxBlocks
        BY SumsetAssumption
      <3>3. Block(WeakSums) \subseteq Block(Words)
        BY SumsetAssumption DEF Block, Words
      <3>4. blocks \in Seq(Block(Words)) /\ Len(blocks) = m
        <4>1. blocks \in [1 .. m -> Block(Words)]
          BY <3>1, <3>3
        <4> QED
          BY <3>2, <4>1
      <3> QED
        BY <1>1, <2>1, <3>2, <3>4 DEF IndexType
    <2>2. CASE phase = "fill"
      <3>1. blocks = <<>>
        BY <2>2 DEF SumsetInit
      <3> QED
        BY <1>1, <2>2, <3>1 DEF IndexType
    <2> QED
      BY <2>1, <2>2 DEF SumsetInit
  <1>5. Held = {}
    BY <1>1 DEF Held
  <1>6. Indexed
    BY <1>1, <1>3, <1>5 DEF Indexed, SumsetInit
  <1>7. Visiting
    <2>1. hashtable.size \in Nat \ {0}
      BY <1>3, SizeType DEF TableOK
    <2>2. LoopType(hashtable, loop, phase)
      BY <1>1, <2>1 DEF LoopType
    <2> QED
      BY <1>1, <1>3, <2>2, NothingSeen DEF Visiting, TableOK
  <1> QED
    BY <1>4, <1>6, <1>7 DEF IndexInv

\* As long as the table and the loop stay as they are, so does what the loop has
\* done.
LEMMA VisitingStays ==
    ASSUME Visiting, UNCHANGED <<hashtable, loop, visited>>,
           phase \in {"ready", "fill"} => phase' \in {"ready", "fill"}
    PROVE  Visiting'
  <1>1. LoopType(hashtable, loop, phase')
    BY DEF Visiting, LoopType
  <1>2. Seen(hashtable, loop.i, visited)
    BY DEF Visiting
  <1> QED
    BY <1>1, <1>2 DEF Visiting

\* Before the loop there is nothing to it.
LEMMA VisitingBefore ==
    ASSUME Visiting, loop.i = -1, UNCHANGED <<loop, visited>>, TableOK(hashtable')
    PROVE  Visiting'
  <1>1. TableType(hashtable')
    BY DEF TableOK
  <1>2. hashtable'.size \in Nat \ {0}
    BY <1>1, SizeType
  <1>3. LoopType(hashtable', loop, phase')
    BY <1>2 DEF Visiting, LoopType
  <1>4. visited = <<>>
    BY DEF Visiting
  <1>5. Seen(hashtable', -1, <<>>)
    BY <1>1, NothingSeen
  <1> QED
    BY <1>3, <1>4, <1>5 DEF Visiting

\* rs_build_hash_table allocates the table, with room for all the blocks.
LEMMA BuildNewKeeps == IndexInv /\ BuildNew => IndexInv'
  <1> SUFFICES ASSUME IndexInv, BuildNew
               PROVE  IndexInv'
    OBVIOUS
  <1>1. IndexType /\ Indexed /\ Visiting
    BY DEF IndexInv
  <1>2. /\ phase = "new" /\ hashtable' = hashtable_new(Len(blocks)) /\ phase' = "build"
        /\ entered' = 0 /\ UNCHANGED <<blocks, loop, visited>>
    BY DEF BuildNew
  <1>3. Len(blocks) \in Nat /\ Len(blocks) \in (0 .. MaxBlocks) \cup Requests
    BY <1>1, <1>2, SumsetAssumption DEF IndexType
  <1>4. /\ TableOK(hashtable') /\ Used(hashtable') = {}
        /\ hashtable'.count = 0 /\ Len(blocks) < hashtable'.size
    BY <1>2, <1>3, NewTable, SumsetAssumption
  <1>5. IndexType'
    BY <1>1, <1>2, <1>3 DEF IndexType
  <1>6. Held' = {}
    BY <1>2 DEF Held
  <1>7. Indexed'
    <2>1. {hashtable'.etable[k] : k \in Used(hashtable')} = {}
      BY <1>4
    <2> QED
      BY <1>2, <1>4, <1>6, <2>1 DEF Indexed
  <1>8. loop.i = -1
    BY <1>1, <1>2 DEF Visiting, LoopType
  <1>9. Visiting'
    BY <1>1, <1>2, <1>4, <1>8, VisitingBefore
  <1> QED
    BY <1>5, <1>7, <1>9 DEF IndexInv

\* Entering one more block into the table.
LEMMA EntryAdded ==
    ASSUME IndexType, Indexed, NEW n, n = entered + 1, NEW h \in Hashes,
           hashtable.count + 1 # hashtable.size,
           hashtable' = hashtable_add(hashtable, h, n)
    PROVE  /\ TableOK(hashtable') /\ hashtable'.size = hashtable.size
           /\ hashtable'.count = hashtable.count + 1
           /\ {hashtable'.etable[k] : k \in Used(hashtable')} = Held \cup {n}
           /\ \A k \in Used(hashtable') :
                \/ hashtable'.etable[k] = n /\ hashtable'.ktable[k] = h
                \/ /\ hashtable'.etable[k] \in 1 .. entered
                   /\ hashtable'.ktable[k] = KEY_HASH(blocks[hashtable'.etable[k]])
  <1>1. entered \in Nat /\ n \in Nat \ {0}
    BY DEF IndexType
  <1>2. \A k \in Used(hashtable) : hashtable.etable[k] \in 1 .. entered
    BY DEF Indexed, Held
  <1>3. \A k \in Used(hashtable) : hashtable.etable[k] < n
    BY <1>1, <1>2
  <1>4. TableOK(hashtable)
    BY DEF Indexed
  <1>5. TableOK(hashtable') /\ \E i : Added(hashtable, h, n, hashtable', i)
    BY <1>1, <1>3, <1>4, AddKeeps
  <1>6. PICK i : Added(hashtable, h, n, hashtable', i)
    BY <1>5
  <1>7. /\ hashtable'.size = hashtable.size /\ hashtable'.count = hashtable.count + 1
        /\ Used(hashtable') = Used(hashtable) \cup {i}
        /\ hashtable'.etable[i] = n /\ hashtable'.ktable[i] = h
        /\ \A k \in Used(hashtable) : hashtable'.etable[k] = hashtable.etable[k]
                                      /\ hashtable'.ktable[k] = hashtable.ktable[k]
    BY <1>6 DEF Added
  <1>8. {hashtable'.etable[k] : k \in Used(hashtable')} = Held \cup {n}
    <2>1. {hashtable.etable[k] : k \in Used(hashtable)} = Held
      BY DEF Indexed
    <2> QED
      BY <1>7, <2>1
  <1>9. \A k \in Used(hashtable) : hashtable.ktable[k] = KEY_HASH(blocks[hashtable.etable[k]])
    BY DEF Indexed
  <1> QED
    BY <1>2, <1>5, <1>7, <1>8, <1>9

\* It enters a block, unless one with the same sums is found.
LEMMA BuildBlockKeeps == IndexInv /\ BuildBlock => IndexInv'
  <1> SUFFICES ASSUME IndexInv, BuildBlock
               PROVE  IndexInv'
    OBVIOUS
  <1> DEFINE n == entered + 1
             b == blocks[n]
             h == KEY_HASH(b)
             S == Same(h, b.strong_sum)
             find == hashtable_find(hashtable, h, Matching(b.strong_sum))
  <1>1. IndexType /\ Indexed /\ Visiting
    BY DEF IndexInv
  <1>2. /\ phase = "build" /\ entered < Len(blocks) /\ entered' = n
        /\ UNCHANGED <<blocks, phase, loop, visited>>
        /\ hashtable' = IF find = 0 THEN hashtable_add(hashtable, h, n) ELSE hashtable
    BY DEF BuildBlock
  <1>3. /\ entered \in Nat /\ Len(blocks) \in Nat /\ n \in 1 .. Len(blocks) /\ b \in Block(Words)
        /\ hashtable.count \in Nat /\ hashtable.size \in Nat
    <2>1. TableType(hashtable) /\ Counted(hashtable)
      BY <1>1 DEF Indexed, TableOK
    <2>2. hashtable.count \in Nat /\ hashtable.size \in Nat
      BY <2>1, UsedFinite, SizeType DEF Counted
    <2>3. entered \in Nat /\ Len(blocks) \in Nat
      BY <1>1 DEF IndexType
    <2>4. n \in 1 .. Len(blocks)
      BY <1>2, <2>3
    <2> QED
      BY <1>1, <2>2, <2>3, <2>4 DEF IndexType
  <1>4. h \in Hashes
    BY <1>3, HashOfBlock
  <1>5. find = First(S)
    BY <1>1, <1>4, FindIsFirst
  <1>6. find = 0 <=> S = {}
    <2>1. S \subseteq Nat /\ 0 \notin S
      BY <1>3 DEF Same
    <2> HIDE DEF S, find
    <2> QED
      BY <1>5, <2>1, FirstFacts
  <1>7. Held' = IF S = {} THEN Held \cup {n} ELSE Held
    BY <1>1, <1>2, HeldGrows
  <1>8. hashtable.count <= entered /\ Len(blocks) < hashtable.size
    BY <1>1, <1>2 DEF Indexed
  <1>9. loop.i = -1
    BY <1>1, <1>2 DEF Visiting, LoopType
  <1>10. IndexType'
    BY <1>1, <1>2, <1>3 DEF IndexType
  <1> HIDE DEF S, find
  <1>11. Indexed'
    <2>1. CASE find = 0
      <3>1. hashtable.count + 1 # hashtable.size
        BY <1>2, <1>3, <1>8
      <3>2. hashtable' = hashtable_add(hashtable, h, n)
        BY <1>2, <2>1
      <3> HIDE DEF h
      <3>3. /\ TableOK(hashtable') /\ hashtable'.size = hashtable.size
            /\ hashtable'.count = hashtable.count + 1
            /\ {hashtable'.etable[k] : k \in Used(hashtable')} = Held \cup {n}
            /\ \A k \in Used(hashtable') :
                 \/ hashtable'.etable[k] = n /\ hashtable'.ktable[k] = h
                 \/ /\ hashtable'.etable[k] \in 1 .. entered
                    /\ hashtable'.ktable[k] = KEY_HASH(blocks[hashtable'.etable[k]])
        BY <1>1, <1>4, <3>1, <3>2, EntryAdded
      <3>4. Held' = Held \cup {n}
        BY <1>6, <1>7, <2>1
      <3>5. \A k \in Used(hashtable') : hashtable'.ktable[k] = KEY_HASH(blocks'[hashtable'.etable[k]])
        BY <1>2, <3>3 DEF h
      <3>6. hashtable'.count <= entered' /\ Len(blocks') < hashtable'.size
        BY <1>2, <1>3, <1>8, <3>3
      <3> QED
        BY <1>2, <3>3, <3>4, <3>5, <3>6 DEF Indexed
    <2>2. CASE find # 0
      <3>1. hashtable' = hashtable /\ Held' = Held
        BY <1>2, <1>6, <1>7, <2>2
      <3>2. hashtable.count <= entered'
        BY <1>2, <1>3, <1>8
      <3> QED
        BY <1>1, <1>2, <1>8, <3>1, <3>2 DEF Indexed
    <2> QED
      BY <2>1, <2>2
  <1>12. TableOK(hashtable')
    BY <1>11 DEF Indexed
  <1>13. Visiting'
    BY <1>1, <1>2, <1>9, <1>12, VisitingBefore
  <1> QED
    BY <1>10, <1>11, <1>13 DEF IndexInv

\* It has entered all the blocks.
LEMMA BuildDoneKeeps == IndexInv /\ BuildDone => IndexInv'
  <1> SUFFICES ASSUME IndexInv, BuildDone
               PROVE  IndexInv'
    OBVIOUS
  <1>1. /\ phase = "build" /\ phase' = "ready"
        /\ UNCHANGED <<blocks, hashtable, entered, loop, visited>>
    BY DEF BuildDone
  <1>2. Held' = Held
    BY <1>1 DEF Held, Same, First
  <1>3. IndexType' /\ Indexed'
    BY <1>1, <1>2 DEF IndexInv, IndexType, Indexed
  <1>4. Visiting'
    BY <1>1, VisitingStays DEF IndexInv
  <1> QED
    BY <1>3, <1>4 DEF IndexInv

\* The other client adds a block, or is refused.
LEMMA FillKeeps ==
    ASSUME IndexInv, NEW b \in Block(FillWeakSums), Fill(b)
    PROVE  IndexInv'
  <1> DEFINE n == entered + 1
             h == KEY_HASH(b)
             after == hashtable_add(hashtable, h, Len(blocks) + 1)
  <1>1. IndexType /\ Indexed /\ Visiting
    BY DEF IndexInv
  <1>2. /\ phase = "fill" /\ loop.i = -1 /\ hashtable' = after
        /\ blocks' = IF after = hashtable THEN blocks ELSE Append(blocks, b)
        /\ entered' = Len(blocks') /\ UNCHANGED <<phase, loop, visited>>
    BY DEF Fill
  <1>3. entered \in Nat /\ entered = Len(blocks) /\ blocks \in Seq(Block(Words)) /\ n = Len(blocks) + 1
    BY <1>1, <1>2 DEF IndexType
  <1>4. b \in Block(Words)
    BY SumsetAssumption DEF Block, Words
  <1>5. h \in Hashes
    BY <1>4, HashOfBlock
  <1>6. CASE hashtable.count + 1 = hashtable.size
    <2>1. hashtable' = hashtable /\ blocks' = blocks /\ entered' = entered
      BY <1>2, <1>3, <1>6 DEF hashtable_add
    <2>2. Held' = Held
      BY <1>2, <2>1 DEF Held
    <2>3. IndexType' /\ Indexed'
      BY <1>1, <1>2, <2>1, <2>2 DEF IndexType, Indexed
    <2>4. Visiting'
      BY <1>1, <1>2, <2>1, VisitingStays
    <2> QED
      BY <2>3, <2>4 DEF IndexInv
  <1>7. CASE hashtable.count + 1 # hashtable.size
    <2> HIDE DEF h
    <2>1. hashtable' = hashtable_add(hashtable, h, n)
      BY <1>2, <1>3
    <2>2. /\ TableOK(hashtable') /\ hashtable'.size = hashtable.size
          /\ hashtable'.count = hashtable.count + 1
          /\ {hashtable'.etable[k] : k \in Used(hashtable')} = Held \cup {n}
          /\ \A k \in Used(hashtable') :
               \/ hashtable'.etable[k] = n /\ hashtable'.ktable[k] = h
               \/ /\ hashtable'.etable[k] \in 1 .. entered
                  /\ hashtable'.ktable[k] = KEY_HASH(blocks[hashtable'.etable[k]])
      BY <1>1, <1>5, <1>7, <2>1, EntryAdded
    <2>3. hashtable' # hashtable
      <3>1. TableType(hashtable) /\ Counted(hashtable)
        BY <1>1 DEF Indexed, TableOK
      <3>2. hashtable.count \in Nat
        BY <3>1, UsedFinite DEF Counted
      <3> QED
        BY <2>2, <3>2
    <2>4. blocks' = Append(blocks, b)
      BY <1>2, <2>3
    <2>5. /\ blocks' \in Seq(Block(Words)) /\ Len(blocks') = n /\ blocks'[n] = b
          /\ \A k \in 1 .. entered : blocks'[k] = blocks[k]
      BY <1>3, <1>4, <2>4
    <2>6. IndexType'
      BY <1>1, <1>2, <1>3, <2>5 DEF IndexType
    <2>7. Held' = Held \cup {n}
      <3>1. Held' = 1 .. n /\ Held = 1 .. entered
        BY <1>2, <2>5 DEF Held
      <3> QED
        BY <1>3, <3>1
    <2>8. \A k \in Used(hashtable') : hashtable'.ktable[k] = KEY_HASH(blocks'[hashtable'.etable[k]])
      BY <2>2, <2>5 DEF h
    <2>9. Indexed'
      BY <1>2, <2>2, <2>7, <2>8 DEF Indexed
    <2>10. Visiting'
      BY <1>1, <1>2, <2>2, VisitingBefore
    <2> QED
      BY <2>6, <2>9, <2>10 DEF IndexInv
  <1> QED
    BY <1>6, <1>7

\* One more call of hashtable_next from index i on.
LEMMA SeenGrows ==
    ASSUME NEW tab, TableOK(tab), NEW i \in 0 .. tab.size, NEW seen, Seen(tab, i, seen),
           NEW next, next = hashtable_next(tab, i), NEW ph \in {"ready", "fill"}
    PROVE  /\ LoopType(tab, next, ph) /\ next.i # -1
           /\ Seen(tab, next.i, IF next.e = 0 THEN seen ELSE Append(seen, next.e))
  <1>1. /\ TableType(tab) /\ Single(tab) /\ tab.size \in Nat \ {0} /\ i \in Nat
        /\ tab.etable \in [Buckets(tab) -> Nat]
    BY SizeType DEF TableOK, TableType
  <1>2. \A k \in Used(tab) : /\ k \in Nat /\ k < tab.size /\ k \in Buckets(tab)
                             /\ tab.etable[k] \in Nat \ {0}
    BY <1>1 DEF Used, Buckets
  <1>3. /\ seen \in Seq(Nat) /\ Len(seen) = Cardinality(Passed(tab, i))
        /\ {seen[n] : n \in 1 .. Len(seen)} = {tab.etable[k] : k \in Passed(tab, i)}
        /\ \A m, n \in 1 .. Len(seen) : seen[m] = seen[n] => m = n
    BY DEF Seen
  <1>4. CASE next = [e |-> 0, i |-> tab.size] /\ \A k \in Used(tab) : k < i
    <2>1. LoopType(tab, next, ph) /\ next.i = tab.size /\ next.e = 0 /\ next.i # -1
      BY <1>1, <1>4 DEF LoopType
    <2>2. Passed(tab, tab.size) = Passed(tab, i)
      BY <1>2, <1>4 DEF Passed
    <2>3. Seen(tab, tab.size, seen)
      BY <2>2 DEF Seen
    <2> QED
      BY <2>1, <2>3
  <1>5. ASSUME NEW k \in Used(tab), next = [e |-> tab.etable[k], i |-> k + 1], i <= k,
               \A m \in Used(tab) : i <= m => k <= m
        PROVE  /\ LoopType(tab, next, ph) /\ next.i # -1 /\ next.e # 0
               /\ Seen(tab, next.i, Append(seen, next.e))
    <2> DEFINE e == tab.etable[k]
               more == Append(seen, e)
               P == Passed(tab, i)
    <2>1. k \in Nat /\ k < tab.size /\ e \in Nat \ {0}
      BY <1>2
    <2>2. LoopType(tab, next, ph) /\ next.i = k + 1 /\ next.e = e /\ next.i # -1
      BY <1>1, <1>5, <2>1 DEF LoopType
    <2>3. Passed(tab, k + 1) = P \cup {k} /\ k \notin P
      <3>1. \A m \in Used(tab) : m < k + 1 <=> m < i \/ m = k
        <4> SUFFICES ASSUME NEW m \in Used(tab)
                     PROVE  m < k + 1 <=> m < i \/ m = k
          OBVIOUS
        <4>1. m \in Nat /\ (i <= m => k <= m)
          BY <1>2, <1>5
        <4> QED
          BY <1>1, <1>5, <2>1, <4>1
      <3>2. ~(k < i)
        BY <1>1, <1>5, <2>1
      <3> QED
        BY <3>1, <3>2 DEF Passed
    <2>4. Cardinality(P \cup {k}) = Cardinality(P) + 1
      <3>1. IsFiniteSet(Used(tab)) /\ P \in SUBSET Used(tab)
        BY <1>1, UsedFinite DEF Passed
      <3>2. IsFiniteSet(P)
        BY <3>1, FS_Subset
      <3> QED
        BY <2>3, <3>2, FS_AddElement
    <2>5. e \notin {tab.etable[m] : m \in P}
      <3>1. \A m \in P : m \in Used(tab) /\ m # k
        BY <2>3 DEF Passed
      <3> QED
        BY <1>1, <3>1 DEF Single
    <2>6. /\ more \in Seq(Nat) /\ Len(more) = Len(seen) + 1 /\ Len(seen) \in Nat
          /\ more[Len(seen) + 1] = e /\ \A n \in 1 .. Len(seen) : more[n] = seen[n]
      BY <1>3, <2>1
    <2> HIDE DEF e, more, P
    <2>7. 1 .. Len(more) = (1 .. Len(seen)) \cup {Len(seen) + 1}
      BY <2>6
    <2>8. {more[n] : n \in 1 .. Len(more)} = {seen[n] : n \in 1 .. Len(seen)} \cup {e}
      <3> DEFINE D == 1 .. Len(seen)
                 l == Len(seen) + 1
      <3>1. /\ 1 .. Len(more) = D \cup {l} /\ more[l] = e /\ \A n \in D : more[n] = seen[n]
        BY <2>6, <2>7
      <3> HIDE DEF D, l
      <3>2. {more[n] : n \in D \cup {l}} = {seen[n] : n \in D} \cup {e}
        BY <3>1
      <3> QED
        BY <3>1, <3>2 DEF D
    <2>9. {tab.etable[m] : m \in P \cup {k}} = {tab.etable[m] : m \in P} \cup {e}
      BY DEF e
    <2>10. \A n \in 1 .. Len(seen) : seen[n] # e
      BY <1>3, <2>5 DEF P
    <2>11. \A m, n \in 1 .. Len(more) : more[m] = more[n] => m = n
      BY <1>3, <2>6, <2>7, <2>10
    <2>12. Seen(tab, k + 1, more)
      BY <1>3, <2>3, <2>4, <2>6, <2>8, <2>9, <2>11 DEF Seen, P
    <2> QED
      BY <2>1, <2>2, <2>12 DEF more
  <1> QED
    BY <1>1, <1>4, <1>5, NextFacts

\* hashtable_next goes on to the next entry.
LEMMA VisitKeeps ==
    ASSUME IndexInv, phase \in {"ready", "fill"}, NEW i \in 0 .. hashtable.size,
           Seen(hashtable, i, visited), Visit(hashtable_next(hashtable, i))
    PROVE  IndexInv'
  <1> DEFINE next == hashtable_next(hashtable, i)
  <1>1. /\ loop' = next /\ visited' = IF next.e = 0 THEN visited ELSE Append(visited, next.e)
        /\ UNCHANGED <<blocks, hashtable, phase, entered>>
    BY DEF Visit
  <1>2. /\ LoopType(hashtable, next, phase) /\ next.i # -1
        /\ Seen(hashtable, next.i, IF next.e = 0 THEN visited ELSE Append(visited, next.e))
    BY SeenGrows DEF IndexInv, Indexed
  <1> HIDE DEF next
  <1>3. Visiting'
    BY <1>1, <1>2 DEF Visiting
  <1>4. Held' = Held
    BY <1>1 DEF Held, Same, First
  <1>5. IndexType' /\ Indexed'
    BY <1>1, <1>4 DEF IndexInv, IndexType, Indexed
  <1> QED
    BY <1>3, <1>5 DEF IndexInv

\* The steps one by one.
LEMMA IndexNext == IndexInv /\ [SumsetNext]_sumset_vars => IndexInv'
  <1> SUFFICES ASSUME IndexInv, [SumsetNext]_sumset_vars
               PROVE  IndexInv'
    OBVIOUS
  <1>0. IndexType /\ Indexed /\ Visiting /\ TableType(hashtable) /\ hashtable.size \in Nat \ {0}
    BY SizeType DEF IndexInv, Indexed, TableOK
  <1>1. CASE BuildNew
    BY <1>1, BuildNewKeeps
  <1>2. CASE BuildBlock
    BY <1>2, BuildBlockKeeps
  <1>3. CASE BuildDone
    BY <1>3, BuildDoneKeeps
  <1>4. CASE \E b \in Block(FillWeakSums) : Fill(b)
    BY <1>4, FillKeeps
  <1>5. CASE VisitFirst
    <2>1. visited = <<>> /\ phase \in {"ready", "fill"} /\ Visit(hashtable_next(hashtable, 0))
      BY <1>0, <1>5 DEF VisitFirst, Visiting, hashtable_iter
    <2>2. Seen(hashtable, 0, visited) /\ 0 \in 0 .. hashtable.size
      BY <1>0, <2>1, NothingSeen
    <2> QED
      BY <2>1, <2>2, VisitKeeps
  <1>6. CASE VisitNext
    <2>1. /\ loop.i \in 0 .. hashtable.size /\ phase \in {"ready", "fill"}
          /\ Visit(hashtable_next(hashtable, loop.i)) /\ Seen(hashtable, loop.i, visited)
      BY <1>0, <1>6 DEF VisitNext, Visiting, LoopType
    <2> QED
      BY <2>1, VisitKeeps
  <1>7. CASE UNCHANGED sumset_vars
    <2>1. Held' = Held
      BY <1>7 DEF Held, Same, First, sumset_vars
    <2> QED
      BY <1>0, <1>7, <2>1 DEF IndexInv, IndexType, Indexed, Visiting, sumset_vars
  <1> QED
    BY <1>1, <1>2, <1>3, <1>4, <1>5, <1>6, <1>7 DEF SumsetNext

\* The invariant of the index.
LEMMA IndexInvariant == SumsetSpec => []IndexInv
  <1>1. SumsetInit => IndexInv
    BY IndexInit
  <1>2. IndexInv /\ [SumsetNext]_sumset_vars => IndexInv'
    BY IndexNext
  <1> QED
    BY <1>1, <1>2, PTL DEF SumsetSpec

\* Every probe of the table ends: the loop of hashtable_find and hashtable_add
\* meets an empty bucket from every hash (hashtable.h, _for_probe), because the
\* triangular steps come by every bucket of a power of two and hashtable_add never
\* fills the last one.
THEOREM IndexProbesEnd == SumsetSpec => []ProbesEnd
  <1>1. IndexInv => ProbesEnd
    <2> SUFFICES ASSUME IndexInv, NEW h \in Words \ {0}
                 PROVE  ProbeEnds(hashtable, h)
      BY DEF ProbesEnd
    <2>1. h \in Nat
      BY WordFacts DEF Words
    <2> QED
      BY <2>1, ProbesMeetEmpty DEF IndexInv, Indexed, TableOK
  <1> QED
    BY <1>1, IndexInvariant, PTL

\* rs_signature_find_match finds the first block with the weak and the strong sum
\* among those entered, and nothing if there is none (sumset.c), however the
\* hashes collide.
THEOREM IndexFindsFirst == SumsetSpec => []MatchIsFirstBlock
  <1>1. IndexInv => MatchIsFirstBlock
    <2> SUFFICES ASSUME IndexInv, NEW w \in Words, NEW s \in StrongSums
                 PROVE  rs_signature_find_match(w, s) = Lookup(w, s)
      BY DEF MatchIsFirstBlock
    <2>1. nozero(w) \in Hashes
      BY WordFacts DEF Words
    <2>2. hashtable_find(hashtable, nozero(w), Matching(s)) = First(Same(nozero(w), s))
      BY <2>1, FindIsFirst DEF IndexInv
    <2> QED
      BY <2>2 DEF rs_signature_find_match, Lookup
  <1> QED
    BY <1>1, IndexInvariant, PTL

\* A loop with hashtable_iter and hashtable_next visits every entry of the table
\* once, and these are the first blocks with each pair of sums: no block was
\* refused when the index was built (sumset.c, rs_build_hash_table).
THEOREM IndexComplete == SumsetSpec => []EntriesDistinct
  <1>1. IndexInv => EntriesDistinct
    <2> SUFFICES ASSUME IndexInv
                 PROVE  EntriesDistinct
      OBVIOUS
    <2>1. /\ Indexed /\ TableType(hashtable) /\ Counted(hashtable) /\ hashtable.size \in Nat \ {0}
          /\ LoopType(hashtable, loop, phase) /\ Seen(hashtable, loop.i, visited)
      BY SizeType DEF IndexInv, Indexed, TableOK, Visiting
    <2>2. \A m, n \in 1 .. Len(visited) : visited[m] = visited[n] => m = n
      BY <2>1 DEF Seen
    <2>3. ASSUME LoopEnded
          PROVE  /\ Len(visited) = hashtable.count
                 /\ {visited[n] : n \in 1 .. Len(visited)} = Held
      <3>1. loop.i = hashtable.size
        BY <2>1, <2>3 DEF LoopEnded, LoopType
      <3>2. \A k \in Used(hashtable) : k < hashtable.size
        BY <2>1 DEF Used, Buckets
      <3>3. Passed(hashtable, loop.i) = Used(hashtable)
        BY <3>1, <3>2 DEF Passed
      <3> QED
        BY <2>1, <3>3 DEF Seen, Counted, Indexed
    <2> QED
      BY <2>2, <2>3 DEF EntriesDistinct
  <1> QED
    BY <1>1, IndexInvariant, PTL

=============================================================================

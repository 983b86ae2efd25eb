------------------------------- MODULE Stream -------------------------------
(***************************************************************************)
(* The streaming example (src/examples/stream): a client that sends the    *)
(* signature of its file to a server, and the server that answers with the *)
(* delta to its own, newer file, which the client applies.  Each of the    *)
(* four jobs is driven by a loop that fills an input buffer from a file or *)
(* from the socket, calls rs_job_iter and empties the output buffer.       *)
(*                                                                         *)
(* A byte is its position in its stream: the basis, the signature, the new *)
(* file or the delta.  The jobs are known by their promises (module        *)
(* Contract).  The socket is a sequence of items on its way to a process:  *)
(* headers and bytes, a bounded number of them.  A header has two bytes.   *)
(* If they are transferred one at a time, both programs take the second    *)
(* from, or put it to, the wrong address (&header + n_bytes counts in      *)
(* headers).  From then on all that is known of a header is that it gives  *)
(* no length above BUFFER_SIZE, its twelve bits.                           *)
(***************************************************************************)
EXTENDS Sequences, FiniteSets, Contract

CONSTANTS
    BUFFER_SIZE,    \* 4095: the longest payload, half the size of in_buf
    WireRoom,       \* what the socket holds in one direction
    Tasks,          \* the files: their sizes, [basis, blocks, sig, delta, new],
                    \* use_io_stream, whether the basis exists, and what may fail
    MaxFaults       \* bound on the number of failures

ASSUME StreamAssumption ==
    /\ BUFFER_SIZE \in Nat \ {0} /\ WireRoom \in Nat \ {0}
    /\ MaxFaults \in Nat
    /\ \A t \in Tasks : /\ {t.basis, t.blocks, t.sig, t.delta, t.new} \subseteq Nat
                        /\ t.sig > 0 /\ t.delta > 0
                        /\ {t.use_io_stream, t.exists} \subseteq BOOLEAN
                        /\ t.fails \subseteq {"connect", "bind", "accept", "open", "fread",
                                              "fwrite", "short fwrite", "socket", "split header",
                                              "basis", "fclose", "rename"}

VARIABLES
    task,           \* a member of Tasks
    proc,           \* for each process: the function fn that it is in, and the
                    \* place at in it; rs_buffers_t; the job's progress (taken,
                    \* put, res); recv_message's and send_message's len and
                    \* n_bytes; the FILE read from (pos, ferror)
    in_buf,         \* the static input buffers
    wire,           \* the items on their way to each process
    files,          \* the client's file ("absent", "old", "replaced"), and what
                    \* has been written to the new one
    faults          \* what has failed so far

vars == <<task, proc, in_buf, wire, files, faults>>

Procs == {"client", "server"}
Peer(p) == IF p = "client" THEN "server" ELSE "client"
Unused == -1

Smaller(a, b) == IF a <= b THEN a ELSE b

\* A process at the start of a function, with zeroed rs_buffers_t.
Enter(fn, at) ==
    [fn |-> fn, at |-> at, next_in |-> 0, avail_in |-> 0, eof_in |-> FALSE, out_buf |-> <<>>,
     taken |-> 0, put |-> 0, res |-> "RS_BLOCKED", len |-> 0, n_bytes |-> 0,
     pos |-> 0, ferror |-> FALSE]

Init ==
    /\ task \in Tasks
    /\ proc = [client |-> Enter("connect_to_server", "connect"),
               server |-> Enter("accept_connection", "bind")]
    /\ in_buf = [p \in Procs |-> [k \in 0 .. 2 * BUFFER_SIZE - 1 |-> Unused]]
    /\ wire = [p \in Procs |-> <<>>]
    /\ files = [fname |-> IF task.exists THEN "old" ELSE "absent", fname_new |-> <<>>]
    /\ faults = {}

-----------------------------------------------------------------------------
(* The jobs and the files                                                  *)

Sending == {"send_signature", "send_delta"}
Receiving == {"recv_signature", "recv_delta_and_patch_file"}

SourceLen(fn) ==
    CASE fn = "send_signature" -> task.basis
      [] fn = "recv_signature" -> task.sig
      [] fn = "send_delta" -> task.new
      [] fn = "recv_delta_and_patch_file" -> task.delta

TargetLen(fn) ==
    CASE fn = "send_signature" -> task.sig
      [] fn = "recv_signature" -> task.blocks
      [] fn = "send_delta" -> task.delta
      [] fn = "recv_delta_and_patch_file" -> task.new

\* rs_sig_begin, rs_loadsig_begin, rs_delta_begin and rs_patch_begin: the
\* promises that modules Mksum, Loadsig, Delta and Patch are shown to keep.  The
\* delta job leaves no input either: in_buf is smaller than MAX_DELTA_CMD (64K),
\* so that the job never scans it directly.
Promise(fn) ==
    [target |-> TargetLen(fn), verdict |-> "RS_DONE", need |-> SourceLen(fn),
     to_eof |-> fn # "recv_delta_and_patch_file", writes |-> fn # "recv_signature",
     ends_writing |-> fn = "send_delta", leaves |-> 0]

Goes(p, r) == proc' = [proc EXCEPT ![p] = r]

Fails(f) == f \in task.fails /\ Cardinality(faults) < MaxFaults /\ faults' = faults \cup {f}
Exits(p, status) == Goes(p, [proc[p] EXCEPT !.fn = "exit", !.at = status])
Gone(p) == proc[p].fn = "exit"

\* One of the two bytes of a header has been transferred without the other; and
\* it happens, which counts as one failure however often it does.
Split == "split header" \in faults
Splits == (Split /\ UNCHANGED faults) \/ Fails("split header")

-----------------------------------------------------------------------------
(* Connecting                                                              *)

\* accept_connection up to listen.
Listen ==
    /\ proc["server"].fn = "accept_connection" /\ proc["server"].at = "bind"
    /\ \/ Goes("server", [proc["server"] EXCEPT !.at = "accept"]) /\ UNCHANGED faults
       \/ Fails("bind") /\ Exits("server", "EXIT_FAILURE")
    /\ UNCHANGED <<task, in_buf, wire, files>>

\* connect_to_server: refused unless the server listens.
Connect ==
    /\ proc["client"].fn = "connect_to_server"
    /\ \/ proc["server"].at = "accept"
          /\ Goes("client", Enter("send_signature", "open")) /\ UNCHANGED faults
       \/ /\ Fails("connect") \/ (Gone("server") /\ UNCHANGED faults)
          /\ Exits("client", "EXIT_FAILURE")
    /\ UNCHANGED <<task, in_buf, wire, files>>

\* The rest of accept_connection.  The length that accept is given is not
\* initialized, so it may refuse.
Accept ==
    /\ proc["server"].at = "accept" /\ proc["client"].fn # "connect_to_server"
    /\ \/ Goes("server", Enter("recv_signature", "fill")) /\ UNCHANGED faults
       \/ Fails("accept") /\ Exits("server", "EXIT_FAILURE")
    /\ UNCHANGED <<task, in_buf, wire, files>>

\* The start of send_signature, send_delta and recv_delta_and_patch_file: the
\* client's file is created if it is not there (with permissions that the code
\* leaves open), the new one is truncated.  What may fail is opening, the index
\* of the signature, or the name of the new file.
Open(p) ==
    /\ proc[p].at = "open"
    /\ files' = CASE proc[p].fn = "send_signature" /\ ~task.use_io_stream
                          -> [files EXCEPT !.fname = "old"]
                  [] proc[p].fn = "recv_delta_and_patch_file" -> [files EXCEPT !.fname_new = <<>>]
                  [] OTHER -> files
    /\ \/ Goes(p, [proc[p] EXCEPT !.at = "fill"]) /\ UNCHANGED faults
       \/ Fails("open") /\ Exits(p, "RS_IO_ERROR")
    /\ UNCHANGED <<task, in_buf, wire>>

-----------------------------------------------------------------------------
(* Filling the input buffer                                                *)

\* Mutant: a message is received whenever in_buf is not full.
FillBelowLax(fn) == 2 * BUFFER_SIZE

\* The loops read more while avail_in is below this: sizeof(in_buf) for a file,
\* and what leaves room for a whole message.
FillBelow(fn) ==
    CASE fn \in Sending -> 2 * BUFFER_SIZE
      [] fn = "recv_signature" -> BUFFER_SIZE + 1
      [] OTHER -> BUFFER_SIZE

MayFill(p) == ~proc[p].eof_in /\ proc[p].avail_in < FillBelow(proc[p].fn)

\* in_buf with what is left in it at the front, and bytes put at an offset.
Moved(p) ==
    [k \in DOMAIN in_buf[p] |->
        IF k < proc[p].avail_in THEN in_buf[p][proc[p].next_in + k] ELSE in_buf[p][k]]
Stored(buf, at, bytes) ==
    [k \in DOMAIN buf |-> IF at <= k /\ k < at + Len(bytes) THEN bytes[k - at + 1] ELSE buf[k]]

\* Full, or at the end.
FillNothing(p) ==
    /\ proc[p].at = "fill" /\ ~MayFill(p)
    /\ Goes(p, [proc[p] EXCEPT !.at = "iter"])
    /\ UNCHANGED <<task, in_buf, wire, files, faults>>

\* What fread may read: all there is room for, or less at the end of the file or
\* because of an error.
FillFromFile(p) ==
    /\ proc[p].fn \in Sending /\ proc[p].at = "fill" /\ MayFill(p)
    /\ LET s == proc[p]
           most == Smaller(2 * BUFFER_SIZE - s.avail_in, SourceLen(s.fn) - s.pos)
           Reads(n, failed) ==
             /\ in_buf' = [in_buf EXCEPT ![p] =
                              Stored(Moved(p), s.avail_in, [k \in 1 .. n |-> s.pos + k])]
             /\ IF n = 0 /\ (s.ferror \/ failed) THEN Exits(p, "EXIT_FAILURE")
                ELSE Goes(p, [s EXCEPT !.at = "iter", !.next_in = 0, !.avail_in = @ + n,
                                       !.pos = @ + n, !.eof_in = n = 0,
                                       !.ferror = @ \/ failed])
       IN  \/ Reads(most, FALSE) /\ UNCHANGED faults
           \/ Fails("fread") /\ \E n \in 0 .. most : Reads(n, TRUE)
    /\ UNCHANGED <<task, wire, files>>

\* Receiving a message into the rest of in_buf.
RecvStart(p) ==
    /\ proc[p].fn \in Receiving /\ proc[p].at = "fill" /\ MayFill(p)
    /\ in_buf' = [in_buf EXCEPT ![p] = Moved(p)]
    /\ Goes(p, [proc[p] EXCEPT !.at = "recv_header", !.next_in = 0, !.n_bytes = 0])
    /\ UNCHANGED <<task, wire, files, faults>>

\* A header was read.
Headed(s, len, eof) ==
    [s EXCEPT !.at = IF len > 0 THEN "recv_payload" ELSE "iter", !.len = len, !.eof_in = eof]

\* recv_message reads a header ...
RecvHeader(p) ==
    /\ proc[p].at = "recv_header" /\ wire[p] # <<>>
    /\ LET h == Head(wire[p])
       IN  h.kind = "header" /\ Goes(p, Headed(proc[p], h.len, h.eof))
    /\ wire' = [wire EXCEPT ![p] = Tail(@)]
    /\ UNCHANGED <<task, in_buf, files, faults>>

\* A byte that belongs to no payload, and what one byte leaves on the wire: of a
\* header its second byte.
Stray == [kind |-> "byte", pos |-> Unused]
Shifted(w) == IF Head(w).kind = "header" THEN <<Stray>> \o Tail(w) ELSE Tail(w)

\* ... or only the first byte of it ...
RecvHeaderByte(p) ==
    /\ proc[p].at = "recv_header" /\ wire[p] # <<>> /\ Splits
    /\ wire' = [wire EXCEPT ![p] = Shifted(@)]
    /\ Goes(p, [proc[p] EXCEPT !.at = "recv_rest"])
    /\ UNCHANGED <<task, in_buf, files>>

\* ... and then a second one, which is stored behind header: the one in it was
\* never set.  What is overwritten may be n_bytes, so that yet another byte is
\* read, or what ends the process.  Two bytes that are taken for a header out of
\* step are as good as these.
RecvHeaderRest(p) ==
    /\ proc[p].at = "recv_rest" /\ wire[p] # <<>>
    /\ wire' = [wire EXCEPT ![p] = Shifted(@)]
    /\ \/ \E len \in 0 .. BUFFER_SIZE, eof \in BOOLEAN : Goes(p, Headed(proc[p], len, eof))
       \/ Goes(p, proc[p])
       \/ Exits(p, "SIGABRT")
    /\ UNCHANGED <<task, in_buf, files, faults>>

\* Mutant: what the first read of the payload gives is taken for all of it.
RecvPayloadOnce(p) ==
    /\ proc[p].at = "recv_payload" /\ wire[p] # <<>>
    /\ LET s == proc[p]
       IN  \E n \in 1 .. Smaller(s.len, Len(wire[p])) :
             /\ \A k \in 1 .. n : wire[p][k].kind = "byte"
             /\ in_buf' = [in_buf EXCEPT ![p] =
                             Stored(@, s.avail_in, [k \in 1 .. n |-> wire[p][k].pos])]
             /\ wire' = [wire EXCEPT ![p] = SubSeq(@, n + 1, Len(@))]
             /\ Goes(p, [s EXCEPT !.at = "iter", !.avail_in = @ + n])
    /\ UNCHANGED <<task, files, faults>>

\* n more bytes of the payload have come.
Paid(s, n) ==
    IF s.n_bytes + n < s.len THEN [s EXCEPT !.n_bytes = @ + n]
    ELSE [s EXCEPT !.at = "iter", !.avail_in = @ + s.len]

\* ... and then the payload, in as many pieces as it takes.
RecvPayload(p) ==
    /\ proc[p].at = "recv_payload" /\ wire[p] # <<>>
    /\ LET s == proc[p]
       IN  \E n \in 1 .. Smaller(s.len - s.n_bytes, Len(wire[p])) :
             /\ \A k \in 1 .. n : wire[p][k].kind = "byte"
             /\ in_buf' = [in_buf EXCEPT ![p] =
                             Stored(@, s.avail_in + s.n_bytes, [k \in 1 .. n |-> wire[p][k].pos])]
             /\ wire' = [wire EXCEPT ![p] = SubSeq(@, n + 1, Len(@))]
             /\ Goes(p, Paid(s, n))
    /\ UNCHANGED <<task, files, faults>>

\* Out of step, the first byte of a header is taken for one of the payload.
RecvStray(p) ==
    /\ proc[p].at = "recv_payload" /\ wire[p] # <<>> /\ Head(wire[p]).kind = "header"
    /\ LET s == proc[p]
       IN  /\ in_buf' = [in_buf EXCEPT ![p] = Stored(@, s.avail_in + s.n_bytes, <<Unused>>)]
           /\ Goes(p, Paid(s, 1))
    /\ wire' = [wire EXCEPT ![p] = Shifted(@)]
    /\ UNCHANGED <<task, files, faults>>

\* The socket fails.
RecvFails(p) ==
    /\ proc[p].at \in {"recv_header", "recv_rest", "recv_payload"}
    /\ Fails("socket") /\ Exits(p, "EXIT_FAILURE")
    /\ UNCHANGED <<task, in_buf, wire, files>>

\* The other side has gone: read returns 0, and recv_message tries again.
RecvNothing(p) ==
    /\ proc[p].at \in {"recv_header", "recv_rest", "recv_payload"}
    /\ wire[p] = <<>> /\ Gone(Peer(p))
    /\ UNCHANGED vars

-----------------------------------------------------------------------------
(* Running the job                                                         *)

\* Mutant: an empty last message is not sent.
OutputGoesEmptyLost(s) ==
    CASE s.fn \in Sending /\ s.out_buf # <<>> -> "send_header"
      [] s.fn = "recv_delta_and_patch_file" /\ s.out_buf # <<>> -> "fwrite"
      [] OTHER -> IF s.res = "RS_DONE" THEN "return" ELSE "fill"

\* What the loops do with the output buffer after a call.
OutputGoes(s) ==
    CASE s.fn \in Sending /\ (s.out_buf # <<>> \/ s.res = "RS_DONE") -> "send_header"
      [] s.fn = "recv_delta_and_patch_file" /\ s.out_buf # <<>> -> "fwrite"
      [] OTHER -> IF s.res = "RS_DONE" THEN "return" ELSE "fill"

\* The job's input does not come from the local file alone, but also from
\* messages that may have been misread.
Misled(fn) == Split /\ fn # "send_signature"

\* The next m bytes that the job puts out.
Output(s, m) == [k \in 1 .. m |-> IF Misled(s.fn) THEN Unused ELSE s.put + k]

\* Any answer that the job's promise allows; of a job that was misled, any answer
\* at all (but its output is bounded by the length it should have).
Iter(p) ==
    /\ proc[p].at = "iter"
    /\ LET s == proc[p]
           promise == Promise(s.fn)
           room == IF promise.writes THEN BUFFER_SIZE - Len(s.out_buf) ELSE 0
           most == Smaller(promise.target - s.put, IF promise.writes THEN room ELSE promise.target)
       IN  \E n \in 0 .. s.avail_in, m \in 0 .. most, r \in {"RS_BLOCKED", "RS_DONE"} :
             /\ \/ Misled(s.fn)
                \/ MayAnswer(promise,
                     [result |-> r, taken |-> s.taken + n, put |-> s.put + m,
                      avail_in |-> s.avail_in - n, eof_in |-> s.eof_in,
                      avail_out |-> IF promise.writes THEN room - m ELSE 0])
             /\ LET after == [s EXCEPT !.next_in = @ + n, !.avail_in = @ - n,
                                       !.taken = @ + n, !.put = @ + m, !.res = r,
                                       !.out_buf = IF promise.writes THEN @ \o Output(s, m) ELSE @]
                IN  Goes(p, [after EXCEPT !.at = OutputGoes(after)])
    /\ UNCHANGED <<task, in_buf, wire, files, faults>>

\* Mutant: the new file takes the place of the old one although the job failed.
IterFailsRenames(p) ==
    /\ proc[p].at = "iter" /\ proc[p].fn = "recv_delta_and_patch_file"
    /\ Fails("basis") /\ Goes(p, [proc[p] EXCEPT !.at = "return"])
    /\ UNCHANGED <<task, in_buf, wire, files>>

\* The patch job cannot read the basis, or a job refuses what was misread (or a
\* check of the stack has ended the process when recv_message returned).
IterFails(p) ==
    /\ proc[p].at = "iter"
    /\ \/ proc[p].fn = "recv_delta_and_patch_file" /\ Fails("basis")
       \/ proc[p].fn \in Receiving /\ Misled(proc[p].fn) /\ UNCHANGED faults
    /\ Exits(p, "EXIT_FAILURE")
    /\ UNCHANGED <<task, in_buf, wire, files>>

-----------------------------------------------------------------------------
(* Emptying the output buffer                                              *)

\* The end of the loop's body.
Drained(s) == [s EXCEPT !.out_buf = <<>>, !.at = IF s.res = "RS_DONE" THEN "return" ELSE "fill"]

\* Whether the socket takes more, and what comes after the header.
Writable(p) == ~Gone(Peer(p)) /\ Len(wire[Peer(p)]) < WireRoom
HeaderSent(s) ==
    IF s.out_buf = <<>> THEN Drained(s) ELSE [s EXCEPT !.at = "send_payload", !.n_bytes = 0]

\* send_message writes a header ...
SendHeader(p) ==
    /\ proc[p].at = "send_header" /\ Writable(p)
    /\ LET s == proc[p]
       IN  /\ wire' = [wire EXCEPT ![Peer(p)] =
                          Append(@, [kind |-> "header", len |-> Len(s.out_buf),
                                     eof |-> s.res = "RS_DONE"])]
           /\ Goes(p, HeaderSent(s))
    /\ UNCHANGED <<task, in_buf, files, faults>>

\* ... or its first byte, and then the one that lies behind header on the stack ...
SendHeaderByte(p) ==
    /\ proc[p].at = "send_header" /\ Writable(p) /\ Splits
    /\ wire' = [wire EXCEPT ![Peer(p)] = Append(@, Stray)]
    /\ Goes(p, [proc[p] EXCEPT !.at = "send_rest"])
    /\ UNCHANGED <<task, in_buf, files>>

SendHeaderRest(p) ==
    /\ proc[p].at = "send_rest" /\ Writable(p)
    /\ wire' = [wire EXCEPT ![Peer(p)] = Append(@, Stray)]
    /\ Goes(p, HeaderSent(proc[p]))
    /\ UNCHANGED <<task, in_buf, files, faults>>

\* ... and the payload, as much at a time as the socket takes.
SendPayload(p) ==
    /\ proc[p].at = "send_payload" /\ ~Gone(Peer(p))
    /\ LET s == proc[p]
       IN  \E n \in 1 .. Smaller(Len(s.out_buf) - s.n_bytes, WireRoom - Len(wire[Peer(p)])) :
             /\ wire' = [wire EXCEPT ![Peer(p)] =
                  @ \o [k \in 1 .. n |-> [kind |-> "byte", pos |-> s.out_buf[s.n_bytes + k]]]]
             /\ Goes(p, IF s.n_bytes + n < Len(s.out_buf) THEN [s EXCEPT !.n_bytes = @ + n]
                        ELSE Drained(s))
    /\ UNCHANGED <<task, in_buf, files, faults>>

\* The socket fails, or the other side has gone and the write is a broken pipe.
SendFails(p) ==
    /\ proc[p].at \in {"send_header", "send_rest", "send_payload"}
    /\ Fails("socket") \/ (Gone(Peer(p)) /\ UNCHANGED faults)
    /\ Exits(p, "EXIT_FAILURE")
    /\ UNCHANGED <<task, in_buf, wire, files>>

\* The client writes to the new file.  Only a write of nothing is noticed.
WriteNew ==
    /\ proc["client"].at = "fwrite"
    /\ LET s == proc["client"]
           Writes(n) == files' = [files EXCEPT !.fname_new = @ \o SubSeq(s.out_buf, 1, n)]
       IN  \/ Writes(Len(s.out_buf)) /\ Goes("client", Drained(s)) /\ UNCHANGED faults
           \/ /\ Fails("short fwrite")
              /\ \E n \in 1 .. Len(s.out_buf) - 1 : Writes(n)
              /\ Goes("client", Drained(s))
           \/ Fails("fwrite") /\ Exits("client", "EXIT_FAILURE") /\ UNCHANGED files
    /\ UNCHANGED <<task, in_buf, wire>>

-----------------------------------------------------------------------------
(* main: from one function to the next                                     *)

Return(p) ==
    /\ proc[p].at = "return" /\ proc[p].fn # "recv_delta_and_patch_file"
    /\ CASE proc[p].fn = "send_signature" -> Goes(p, Enter("recv_delta_and_patch_file", "open"))
         [] proc[p].fn = "recv_signature" -> Goes(p, Enter("send_delta", "open"))
         [] proc[p].fn = "send_delta" -> Exits(p, "EXIT_SUCCESS")
    /\ UNCHANGED <<task, in_buf, wire, files, faults>>

\* The end of recv_delta_and_patch_file: the new file is closed, and with it the
\* last of it is written, which nobody asks about, and takes the place of the old.
CloseNew ==
    /\ proc["client"].at = "return" /\ proc["client"].fn = "recv_delta_and_patch_file"
    /\ \/ UNCHANGED <<files, faults>>
       \/ /\ Fails("fclose")
          /\ \E n \in 0 .. Len(files.fname_new) - 1 :
                files' = [files EXCEPT !.fname_new = SubSeq(@, 1, n)]
    /\ IF task.use_io_stream THEN Exits("client", "EXIT_SUCCESS")
       ELSE Goes("client", [proc["client"] EXCEPT !.at = "rename"])
    /\ UNCHANGED <<task, in_buf, wire>>

Rename ==
    /\ proc["client"].at = "rename"
    /\ \/ /\ files' = [files EXCEPT !.fname = "replaced"]
          /\ Exits("client", "EXIT_SUCCESS") /\ UNCHANGED faults
       \/ Fails("rename") /\ Exits("client", "EXIT_FAILURE") /\ UNCHANGED files
    /\ UNCHANGED <<task, in_buf, wire>>

Step(p) ==
    \/ p = "server" /\ (Listen \/ Accept)
    \/ p = "client" /\ (Connect \/ WriteNew \/ CloseNew \/ Rename)
    \/ Open(p) \/ FillNothing(p) \/ FillFromFile(p)
    \/ RecvStart(p) \/ RecvHeader(p) \/ RecvHeaderByte(p) \/ RecvHeaderRest(p)
    \/ RecvPayload(p) \/ RecvStray(p) \/ RecvFails(p) \/ RecvNothing(p)
    \/ Iter(p) \/ IterFails(p)
    \/ SendHeader(p) \/ SendHeaderByte(p) \/ SendHeaderRest(p) \/ SendPayload(p) \/ SendFails(p)
    \/ Return(p)

\* Both have ended.  Out of step, they may also wait for each other for ever.
Stopped == ((\A p \in Procs : Gone(p)) \/ Split) /\ UNCHANGED vars

Next == (\E p \in Procs : Step(p)) \/ Stopped

\* Each process runs when it can.  Nothing has to fail: a process that waits for
\* the other one is not relieved by a failure of the socket.
Spec == Init /\ [][Next]_vars /\ \A p \in Procs : WF_vars(Step(p) /\ UNCHANGED faults)

-----------------------------------------------------------------------------
\* While a message is received in_buf has been moved, and n_bytes of the payload
\* lie behind what was left.
Held(p) == proc[p].avail_in + IF proc[p].at = "recv_payload" THEN proc[p].n_bytes ELSE 0
Expected(p) == proc[p].avail_in + IF proc[p].at = "recv_payload" THEN proc[p].len ELSE 0

\* Across both processes, the tails moved to the front and messages received in
\* pieces: in_buf never overflows, although a message as long as half of it may
\* come on top of what is left there, and not even when a header was split and
\* its length is a wrong one.  As long as none was, in_buf always holds the bytes
\* of the stream that follow the ones the job has taken, and the output buffer
\* holds what the job has put out and the loop has not passed on, once and in
\* order.
BuffersIntact ==
    \A p \in Procs : proc[p].fn \in Sending \cup Receiving =>
        LET s == proc[p]
        IN  /\ s.next_in + Expected(p) <= 2 * BUFFER_SIZE
            /\ ~Split =>
                 /\ \A k \in 0 .. Held(p) - 1 : in_buf[p][s.next_in + k] = s.taken + k + 1
                 /\ s.fn # "recv_signature" =>
                       s.out_buf = [k \in 1 .. Len(s.out_buf) |-> s.put - Len(s.out_buf) + k]

\* What is still to come of the message that p is receiving.
Missing(p) == IF proc[p].at = "recv_payload" THEN proc[p].len - proc[p].n_bytes ELSE 0

\* As long as no header was split, both sides agree on where messages begin and
\* end, whatever pieces the payloads come in: a process that reads a header
\* finds one, a payload is no longer than BUFFER_SIZE and no header comes in the
\* middle of it, nothing follows the message with the end-of-file flag, and a
\* job that has succeeded leaves nothing unread for the next one to take for its
\* own.
MessagesInStep ==
    ~Split => \A p \in {q \in Procs : ~Gone(q)} :
        LET w == wire[p]
            heads == {k \in 1 .. Len(w) : w[k].kind = "header"}
            next(k) == {m \in heads : m > k}
        IN  /\ \A k \in 1 .. Smaller(Missing(p), Len(w)) : k \notin heads
            /\ Missing(p) < Len(w) => Missing(p) + 1 \in heads
            /\ \A k \in heads : /\ w[k].len <= BUFFER_SIZE
                                /\ w[k].eof => next(k) = {}
                                /\ \A m \in next(k) : m > k + w[k].len
            /\ proc[p].fn \in Receiving /\ proc[p].at = "return" => w = <<>>

\* Whatever fails, and wherever the client stops, its file is the old one or the
\* whole new one: it is replaced only after all of the new file was written.
\* EXIT_SUCCESS means that it has been.  The exceptions are the failures that
\* the client does not look for, a write of less than it asked for and one that
\* happens when the file is closed, and a header that was split, after which the
\* client may take for the delta what is not.
FileOldOrComplete ==
    LET complete == files.fname_new = [k \in 1 .. task.new |-> k]
    IN  faults \cap {"short fwrite", "fclose", "split header"} = {} =>
            /\ files.fname = "replaced" => complete
            /\ proc["client"].fn = "exit" /\ proc["client"].at = "EXIT_SUCCESS" =>
                  complete /\ (task.use_io_stream \/ files.fname = "replaced")

\* If nothing fails, both processes succeed: no order of their steps and no size
\* of the socket's buffers makes each wait for the other.
Succeeds ==
    <>(\/ faults # {}
       \/ \A p \in Procs : Gone(p) /\ proc[p].at = "EXIT_SUCCESS")

=============================================================================

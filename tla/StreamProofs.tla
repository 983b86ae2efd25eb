---------------------------- MODULE StreamProofs ----------------------------
(***************************************************************************)
(* The streaming example, for all sizes of files, buffers and sockets and  *)
(* for any number of failures: the client's file is the old one or the     *)
(* whole new one, the buffers of both processes hold what they should, and *)
(* the two agree on where messages begin and end, as long as no header is  *)
(* split; and no buffer overflows even if one is.                          *)
(*                                                                         *)
(* The first part follows the client from the opening of the new file to   *)
(* its renaming: what is in the file and what is in the output buffer are  *)
(* together what the job has put out, and the client gets to the renaming  *)
(* only when the job has put out everything.                               *)
(*                                                                         *)
(* The second part adds what is on the wire. Each item leads from a point  *)
(* of the conversation to the next: the bytes that came before it, those   *)
(* missing in the message, and whether the message was the last. The first *)
(* point is where the receiver is, the last one where the sender is.       *)
(*                                                                         *)
(* The third part is about the sizes alone, and also holds out of step.    *)
(***************************************************************************)
EXTENDS Stream, SequenceTheorems, NaturalsInduction, WellFoundedInduction, TLAPS

Client == proc["client"]
Patching == Client.fn = "recv_delta_and_patch_file"

\* None of the failures that the client does not look for.
Noticed == faults \cap {"short fwrite", "fclose"} = {}

\* The first n bytes of a file.
Upto(n) == [k \in 1 .. n |-> k]

ProcFields == {"fn", "at", "next_in", "avail_in", "eof_in", "out_buf", "taken", "put", "res",
               "len", "n_bytes", "pos", "ferror"}

StreamTypeOK ==
    /\ task \in Tasks /\ DOMAIN proc = Procs /\ \A p \in Procs : DOMAIN proc[p] = ProcFields
    /\ DOMAIN files = {"fname", "fname_new"}

Statuses == {"EXIT_FAILURE", "EXIT_SUCCESS", "RS_IO_ERROR"}

\* The places at which a process may be in a function.
Place(p, fn, at) ==
    \/ fn = "exit" /\ at \in Statuses
    \/ p = "client" /\ fn = "connect_to_server" /\ at = "connect"
    \/ p = "server" /\ fn = "accept_connection" /\ at \in {"bind", "accept"}
    \/ /\ \/ p = "client" /\ fn = "send_signature"
          \/ p = "server" /\ fn = "send_delta"
       /\ at \in {"open", "fill", "iter", "send_header", "send_payload", "return"}
    \/ /\ p = "server" /\ fn = "recv_signature"
       /\ at \in {"fill", "recv_header", "recv_payload", "iter", "return"}
    \/ /\ p = "client" /\ fn = "recv_delta_and_patch_file"
       /\ at \in {"open", "fill", "recv_header", "recv_payload", "iter", "fwrite", "return", "rename"}

Places == \A p \in Procs : Place(p, proc[p].fn, proc[p].at)

\* The patch job and its output.
Patched ==
    Patching =>
        /\ Client.at = "open" => Client.put = 0 /\ Client.out_buf = <<>> /\ Client.res = "RS_BLOCKED"
        /\ Client.at # "fwrite" => Client.out_buf = <<>>
        /\ Client.res = "RS_DONE" => Client.put = task.new
        /\ Client.at \in {"return", "rename"} => Client.res = "RS_DONE"
        /\ Client.put \in Nat /\ Client.put <= task.new /\ Client.out_buf \in Seq(Nat)
        /\ Client.at = "rename" => ~task.use_io_stream
        /\ Noticed /\ Client.at # "open" =>
             files.fname_new \in Seq(Nat) /\ files.fname_new \o Client.out_buf = Upto(Client.put)

\* The file is replaced at the end, if at all.
Replaced ==
    /\ files.fname = "replaced" => Client.fn = "exit" /\ Client.at = "EXIT_SUCCESS"
    /\ Client.fn = "exit" /\ Client.at = "EXIT_SUCCESS" =>
         /\ task.use_io_stream \/ files.fname = "replaced"
         /\ Noticed => files.fname_new = Upto(task.new)

StreamInv == StreamTypeOK /\ Places /\ Patched /\ Replaced

-----------------------------------------------------------------------------
(* Steps.                                                                  *)

\* A step of p to r that has nothing to do with the new file.
Harmless(p, r) ==
    /\ Goes(p, r) /\ DOMAIN r = ProcFields /\ Place(p, r.fn, r.at)
    /\ task' = task /\ faults \subseteq faults'
    /\ DOMAIN files' = {"fname", "fname_new"} /\ files'.fname_new = files.fname_new
    /\ files'.fname = files.fname \/ (p = "client" /\ files'.fname = "old")
    /\ p = "client" =>
         /\ Client.fn # "exit" /\ ~(r.fn = "exit" /\ r.at = "EXIT_SUCCESS")
         /\ r.fn = "recv_delta_and_patch_file" =>
              \/ r.at = "open" /\ r.put = 0 /\ r.out_buf = <<>> /\ r.res = "RS_BLOCKED"
              \/ /\ Patching /\ r.out_buf = Client.out_buf /\ r.put = Client.put /\ r.res = Client.res
                 /\ r.at \notin {"open", "fwrite", "return", "rename"}
                 /\ Client.at \notin {"open", "fwrite"}

\* The other process stays where it is.
LEMMA GoesFacts ==
    ASSUME StreamTypeOK, NEW p \in Procs, NEW r, Goes(p, r)
    PROVE  DOMAIN proc' = Procs /\ proc'[p] = r /\ \A q \in Procs \ {p} : proc'[q] = proc[q]
  BY DEF StreamTypeOK, Goes

\* It breaks nothing.
LEMMA HarmlessStep ==
    ASSUME StreamInv, NEW p \in Procs, NEW r, Harmless(p, r)
    PROVE  StreamInv'
  <1>1. DOMAIN proc' = Procs /\ proc'[p] = r /\ \A q \in Procs \ {p} : proc'[q] = proc[q]
    BY GoesFacts DEF StreamInv, Harmless
  <1>2. StreamTypeOK'
    BY <1>1 DEF StreamInv, StreamTypeOK, Harmless
  <1>3. Places'
    BY <1>1 DEF StreamInv, Places, Harmless, Place
  <1>4. Noticed' => Noticed
    BY DEF Noticed, Harmless
  <1>5. CASE p = "server"
    <2>1. Client' = Client /\ Patching' = Patching /\ files'.fname = files.fname
      BY <1>1, <1>5 DEF Client, Patching, Harmless, Procs
    <2>2. Patched'
      BY <1>4, <2>1 DEF StreamInv, Patched, Harmless
    <2>3. Replaced'
      BY <1>4, <2>1 DEF StreamInv, Replaced, Harmless
    <2> QED
      BY <1>2, <1>3, <2>2, <2>3 DEF StreamInv
  <1>6. CASE p = "client"
    <2>1. Client' = r
      BY <1>1, <1>6 DEF Client
    <2>2. files.fname # "replaced" /\ files'.fname # "replaced"
      BY <1>6 DEF StreamInv, Replaced, Harmless
    <2>3. Replaced'
      BY <1>6, <2>1, <2>2 DEF Replaced, Harmless
    <2>4. Patched'
      <3> SUFFICES ASSUME Patching'
                   PROVE  Patched'
        BY DEF Patched
      <3>1. r.fn = "recv_delta_and_patch_file"
        BY <2>1 DEF Patching
      <3>2. CASE r.at = "open" /\ r.put = 0 /\ r.out_buf = <<>> /\ r.res = "RS_BLOCKED"
        <4>1. task.new \in Nat /\ task' = task
          BY StreamAssumption DEF StreamInv, StreamTypeOK, Harmless
        <4>2. <<>> \in Seq(Nat) /\ 0 \in Nat /\ 0 <= task.new
          BY <4>1
        <4> QED
          BY <2>1, <3>2, <4>1, <4>2 DEF Patched
      <3>3. CASE /\ Patching /\ r.out_buf = Client.out_buf /\ r.put = Client.put /\ r.res = Client.res
                 /\ r.at \notin {"open", "fwrite", "return", "rename"}
                 /\ Client.at \notin {"open", "fwrite"}
        BY <1>4, <2>1, <3>3 DEF StreamInv, Patched, Harmless
      <3> QED
        BY <1>6, <3>1, <3>2, <3>3 DEF Harmless
    <2> QED
      BY <1>2, <1>3, <2>3, <2>4 DEF StreamInv
  <1> QED
    BY <1>5, <1>6 DEF Procs

\* So a step at which p changes its place, among those of its function, and what
\* else is of no account here.
LEMMA Walks ==
    ASSUME StreamInv, NEW p \in Procs, NEW r, Goes(p, r), DOMAIN r = ProcFields,
           r.fn = proc[p].fn, Place(p, r.fn, r.at), r.fn # "exit",
           task' = task, files' = files, faults \subseteq faults',
           r.fn = "recv_delta_and_patch_file" =>
             /\ r.out_buf = proc[p].out_buf /\ r.put = proc[p].put /\ r.res = proc[p].res
             /\ r.at \notin {"open", "fwrite", "return", "rename"}
             /\ proc[p].at \notin {"open", "fwrite"}
    PROVE  StreamInv'
  <1>1. DOMAIN files' = {"fname", "fname_new"}
    BY DEF StreamInv, StreamTypeOK
  <1>2. Harmless(p, r)
    BY <1>1 DEF Harmless, Client, Patching
  <1> QED
    BY <1>2, HarmlessStep

\* A process gives up.
LEMMA GivesUp ==
    ASSUME StreamInv, NEW p \in Procs, NEW status \in {"EXIT_FAILURE", "RS_IO_ERROR"},
           Exits(p, status), ~Gone(p), task' = task, files' = files, faults \subseteq faults'
    PROVE  StreamInv'
  <1> DEFINE r == [proc[p] EXCEPT !.fn = "exit", !.at = status]
  <1>1. DOMAIN proc[p] = ProcFields
    BY DEF StreamInv, StreamTypeOK
  <1>2. DOMAIN r = ProcFields /\ r.fn = "exit" /\ r.at = status
    BY <1>1 DEF ProcFields
  <1>3. Goes(p, r)
    BY DEF Exits
  <1> HIDE DEF r
  <1>4. DOMAIN files' = {"fname", "fname_new"}
    BY DEF StreamInv, StreamTypeOK
  <1>5. Harmless(p, r)
    BY <1>2, <1>3, <1>4 DEF Harmless, Place, Statuses, Client, Gone
  <1> QED
    BY <1>5, HarmlessStep


\* What the steps below use of the invariant.
LEMMA WhereIs ==
    ASSUME StreamInv, NEW p \in Procs
    PROVE  /\ DOMAIN proc[p] = ProcFields /\ Place(p, proc[p].fn, proc[p].at)
           /\ DOMAIN files = {"fname", "fname_new"}
           /\ proc[p].at \notin Statuses => ~Gone(p)
  BY DEF StreamInv, StreamTypeOK, Places, Place, Gone, Statuses

\* accept_connection up to listen.
LEMMA ListenStep ==
    ASSUME StreamInv, Listen
    PROVE  StreamInv'
  <1>1. "server" \in Procs
    BY DEF Procs
  <1>2. DOMAIN proc["server"] = ProcFields /\ ~Gone("server") /\ task' = task /\ files' = files
    BY <1>1, WhereIs DEF Listen, Statuses
  <1>3. CASE Goes("server", [proc["server"] EXCEPT !.at = "accept"]) /\ UNCHANGED faults
    <2> DEFINE r == [proc["server"] EXCEPT !.at = "accept"]
    <2>1. DOMAIN r = ProcFields /\ r.fn = "accept_connection" /\ r.at = "accept"
      BY <1>2 DEF Listen, ProcFields
    <2>2. Goes("server", r) /\ proc["server"].fn = "accept_connection" /\ faults \subseteq faults'
      BY <1>3 DEF Listen
    <2> HIDE DEF r
    <2>3. Place("server", r.fn, r.at)
      BY <2>1 DEF Place
    <2> QED
      BY <1>1, <1>2, <2>1, <2>2, <2>3, Walks
  <1>4. CASE Fails("bind") /\ Exits("server", "EXIT_FAILURE")
    BY <1>1, <1>2, <1>4, GivesUp DEF Fails
  <1> QED
    BY <1>3, <1>4 DEF Listen

\* A process starts with the next function, at a place that does not matter here.
LEMMA Begins ==
    ASSUME StreamInv, NEW p \in Procs, NEW fn, NEW at,
           Goes(p, Enter(fn, at)), ~Gone(p), Place(p, fn, at), fn # "exit",
           fn = "recv_delta_and_patch_file" => at = "open",
           task' = task, files' = files, faults \subseteq faults'
    PROVE  StreamInv'
  <1> DEFINE r == Enter(fn, at)
  <1>1. DOMAIN r = ProcFields /\ r.fn = fn /\ r.at = at
        /\ r.put = 0 /\ r.out_buf = <<>> /\ r.res = "RS_BLOCKED"
    BY DEF Enter, ProcFields
  <1>2. Goes(p, r)
    OBVIOUS
  <1> HIDE DEF r
  <1>3. Harmless(p, r)
    BY <1>1, <1>2, WhereIs DEF Harmless, Client, Gone
  <1> QED
    BY <1>3, HarmlessStep

\* connect_to_server.
LEMMA ConnectStep ==
    ASSUME StreamInv, Connect
    PROVE  StreamInv'
  <1>1. "client" \in Procs
    BY DEF Procs
  <1>2. ~Gone("client") /\ task' = task /\ files' = files
    BY DEF Connect, Gone
  <1>3. CASE Goes("client", Enter("send_signature", "open")) /\ UNCHANGED faults
    <2>1. Place("client", "send_signature", "open")
      BY DEF Place
    <2> QED
      BY <1>1, <1>2, <1>3, <2>1, Begins
  <1>4. CASE Exits("client", "EXIT_FAILURE") /\ faults \subseteq faults'
    BY <1>1, <1>2, <1>4, GivesUp
  <1> QED
    BY <1>3, <1>4 DEF Connect, Fails

\* The rest of accept_connection.
LEMMA AcceptStep ==
    ASSUME StreamInv, Accept
    PROVE  StreamInv'
  <1>1. "server" \in Procs
    BY DEF Procs
  <1>2. ~Gone("server") /\ task' = task /\ files' = files
    BY <1>1, WhereIs DEF Accept, Statuses
  <1>3. CASE Goes("server", Enter("recv_signature", "fill")) /\ UNCHANGED faults
    <2>1. Place("server", "recv_signature", "fill")
      BY DEF Place
    <2> QED
      BY <1>1, <1>2, <1>3, <2>1, Begins
  <1>4. CASE Fails("accept") /\ Exits("server", "EXIT_FAILURE")
    BY <1>1, <1>2, <1>4, GivesUp DEF Fails
  <1> QED
    BY <1>3, <1>4 DEF Accept


-----------------------------------------------------------------------------
(* The loops.                                                              *)

Filling == {"fill", "recv_header", "recv_payload", "iter"}

\* A process that fills its input buffer, from file or socket, gets nowhere else.
LEMMA Fills ==
    ASSUME StreamInv, NEW p \in Procs, NEW r, Goes(p, r), DOMAIN r = ProcFields,
           r.fn = proc[p].fn, r.out_buf = proc[p].out_buf, r.put = proc[p].put, r.res = proc[p].res,
           proc[p].at \in Filling, r.at \in Filling,
           r.at \in {"recv_header", "recv_payload"} => r.fn \in Receiving,
           task' = task, files' = files, faults \subseteq faults'
    PROVE  StreamInv'
  <1>1. Place(p, proc[p].fn, proc[p].at)
    BY WhereIs
  <1>2. r.fn # "exit" /\ Place(p, r.fn, r.at)
    BY <1>1 DEF Place, Filling, Statuses, Receiving
  <1> QED
    BY <1>2, Walks DEF Filling

\* Full, or at the end.
LEMMA FillNothingStep ==
    ASSUME StreamInv, NEW p \in Procs, FillNothing(p)
    PROVE  StreamInv'
  <1> DEFINE r == [proc[p] EXCEPT !.at = "iter"]
  <1>1. DOMAIN r = ProcFields /\ r.fn = proc[p].fn /\ r.out_buf = proc[p].out_buf
        /\ r.put = proc[p].put /\ r.res = proc[p].res /\ r.at = "iter"
    BY WhereIs DEF ProcFields
  <1>2. Goes(p, r) /\ proc[p].at = "fill" /\ task' = task /\ files' = files /\ faults' = faults
    BY DEF FillNothing
  <1> HIDE DEF r
  <1> QED
    BY <1>1, <1>2, Fills DEF Filling

\* fread.
LEMMA FillFromFileStep ==
    ASSUME StreamInv, NEW p \in Procs, FillFromFile(p)
    PROVE  StreamInv'
  <1>1. proc[p].at = "fill" /\ task' = task /\ files' = files /\ faults \subseteq faults'
    BY DEF FillFromFile, Fails
  <1>2. DOMAIN proc[p] = ProcFields /\ ~Gone(p)
    BY <1>1, WhereIs DEF Statuses
  <1>3. ASSUME NEW n, NEW failed,
               Goes(p, [proc[p] EXCEPT !.at = "iter", !.next_in = 0, !.avail_in = @ + n,
                                       !.pos = @ + n, !.eof_in = n = 0, !.ferror = @ \/ failed])
        PROVE  StreamInv'
    <2> DEFINE r == [proc[p] EXCEPT !.at = "iter", !.next_in = 0, !.avail_in = @ + n,
                                    !.pos = @ + n, !.eof_in = n = 0, !.ferror = @ \/ failed]
    <2>1. DOMAIN r = ProcFields /\ r.fn = proc[p].fn /\ r.out_buf = proc[p].out_buf
          /\ r.put = proc[p].put /\ r.res = proc[p].res /\ r.at = "iter"
      BY <1>2 DEF ProcFields
    <2>2. Goes(p, r)
      BY <1>3
    <2> HIDE DEF r
    <2> QED
      BY <1>1, <2>1, <2>2, Fills DEF Filling
  <1>4. CASE Exits(p, "EXIT_FAILURE")
    BY <1>1, <1>2, <1>4, GivesUp
  <1> QED
    BY <1>3, <1>4 DEF FillFromFile

\* Receiving a message ...
LEMMA RecvStartStep ==
    ASSUME StreamInv, NEW p \in Procs, RecvStart(p)
    PROVE  StreamInv'
  <1> DEFINE r == [proc[p] EXCEPT !.at = "recv_header", !.next_in = 0, !.n_bytes = 0]
  <1>1. DOMAIN r = ProcFields /\ r.fn = proc[p].fn /\ r.out_buf = proc[p].out_buf
        /\ r.put = proc[p].put /\ r.res = proc[p].res /\ r.at = "recv_header"
    BY WhereIs DEF ProcFields
  <1>2. Goes(p, r) /\ proc[p].at = "fill" /\ proc[p].fn \in Receiving
        /\ task' = task /\ files' = files /\ faults' = faults
    BY DEF RecvStart
  <1> HIDE DEF r
  <1> QED
    BY <1>1, <1>2, Fills DEF Filling

\* ... which only the processes do that are to receive one ...
LEMMA RecvWhere ==
    ASSUME StreamInv, NEW p \in Procs, proc[p].at \in {"recv_header", "recv_payload"}
    PROVE  proc[p].fn \in Receiving /\ ~Gone(p)
  BY WhereIs DEF Place, Receiving, Statuses

\* ... its header ...
LEMMA RecvHeaderStep ==
    ASSUME StreamInv, NEW p \in Procs, RecvHeader(p)
    PROVE  StreamInv'
  <1> DEFINE h == Head(wire[p])
             r == [proc[p] EXCEPT !.at = IF h.len > 0 THEN "recv_payload" ELSE "iter",
                                  !.len = h.len, !.eof_in = h.eof]
  <1>1. DOMAIN r = ProcFields /\ r.fn = proc[p].fn /\ r.out_buf = proc[p].out_buf
        /\ r.put = proc[p].put /\ r.res = proc[p].res /\ r.at \in {"recv_payload", "iter"}
    BY WhereIs DEF ProcFields
  <1>2. Goes(p, r) /\ proc[p].at = "recv_header" /\ task' = task /\ files' = files /\ faults' = faults
    BY DEF RecvHeader, Headed
  <1>3. proc[p].fn \in Receiving
    BY <1>2, RecvWhere
  <1> HIDE DEF r
  <1> QED
    BY <1>1, <1>2, <1>3, Fills DEF Filling

\* ... and its payload.
LEMMA RecvPayloadStep ==
    ASSUME StreamInv, NEW p \in Procs, RecvPayload(p) \/ RecvStray(p)
    PROVE  StreamInv'
  <1>1. proc[p].at = "recv_payload" /\ task' = task /\ files' = files /\ faults' = faults
    BY DEF RecvPayload, RecvStray
  <1>2. PICK n : Goes(p, Paid(proc[p], n))
    BY DEF RecvPayload, RecvStray
  <1> DEFINE r == Paid(proc[p], n)
  <1>3. DOMAIN r = ProcFields /\ r.fn = proc[p].fn /\ r.out_buf = proc[p].out_buf
        /\ r.put = proc[p].put /\ r.res = proc[p].res /\ r.at \in {"recv_payload", "iter"}
    BY <1>1, WhereIs DEF ProcFields, Paid
  <1>4. proc[p].fn \in Receiving /\ Goes(p, r)
    BY <1>1, <1>2, RecvWhere
  <1> HIDE DEF r
  <1> QED
    BY <1>1, <1>3, <1>4, Fills DEF Filling

\* As long as no header is split, no process is between its bytes.
LEMMA SplitSteps ==
    ASSUME StreamInv, NEW p \in Procs, ~Split',
           RecvHeaderByte(p) \/ RecvHeaderRest(p) \/ SendHeaderByte(p) \/ SendHeaderRest(p)
    PROVE  FALSE
  <1>1. Place(p, proc[p].fn, proc[p].at)
    BY WhereIs
  <1>2. proc[p].at \notin {"recv_rest", "send_rest"}
    BY <1>1 DEF Place, Statuses
  <1>3. ~Splits
    BY DEF Splits, Split, Fails
  <1> QED
    BY <1>2, <1>3 DEF RecvHeaderByte, RecvHeaderRest, SendHeaderByte, SendHeaderRest

\* The socket or the job fails.
LEMMA Failures ==
    ASSUME StreamInv, NEW p \in Procs, RecvFails(p) \/ IterFails(p) \/ SendFails(p)
    PROVE  StreamInv'
  <1>1. ~Gone(p)
    BY WhereIs DEF RecvFails, IterFails, SendFails, Statuses
  <1>2. Exits(p, "EXIT_FAILURE") /\ task' = task /\ files' = files /\ faults \subseteq faults'
    BY DEF RecvFails, IterFails, SendFails, Fails
  <1> QED
    BY <1>1, <1>2, GivesUp


\* What send_message leaves of the output buffer.
LEMMA DrainedFacts ==
    ASSUME NEW s, DOMAIN s = ProcFields
    PROVE  /\ DOMAIN Drained(s) = ProcFields /\ Drained(s).fn = s.fn /\ Drained(s).out_buf = <<>>
           /\ Drained(s).put = s.put /\ Drained(s).res = s.res
           /\ Drained(s).at = IF s.res = "RS_DONE" THEN "return" ELSE "fill"
  BY DEF Drained, ProcFields

\* Only the processes that are to send something do it ...
LEMMA Sends ==
    ASSUME StreamInv, NEW p \in Procs, NEW r, Goes(p, r), DOMAIN r = ProcFields, r.fn = proc[p].fn,
           proc[p].at \in {"send_header", "send_payload"},
           r.at \in {"send_payload", "return", "fill"},
           task' = task, files' = files, faults \subseteq faults'
    PROVE  StreamInv'
  <1>1. Place(p, proc[p].fn, proc[p].at)
    BY WhereIs
  <1>2. Place(p, r.fn, r.at) /\ r.fn # "exit" /\ r.fn # "recv_delta_and_patch_file"
    BY <1>1 DEF Place, Statuses
  <1> QED
    BY <1>2, Walks

\* ... the header ...
LEMMA SendHeaderStep ==
    ASSUME StreamInv, NEW p \in Procs, SendHeader(p)
    PROVE  StreamInv'
  <1> DEFINE s == proc[p]
             r == IF s.out_buf = <<>> THEN Drained(s)
                  ELSE [s EXCEPT !.at = "send_payload", !.n_bytes = 0]
  <1>1. DOMAIN s = ProcFields
    BY WhereIs
  <1>2. DOMAIN r = ProcFields /\ r.fn = s.fn /\ r.at \in {"send_payload", "return", "fill"}
    BY <1>1, DrainedFacts DEF ProcFields
  <1>3. Goes(p, r) /\ s.at = "send_header" /\ task' = task /\ files' = files /\ faults' = faults
    BY DEF SendHeader, HeaderSent
  <1> HIDE DEF r
  <1> QED
    BY <1>2, <1>3, Sends

\* ... and the payload.
LEMMA SendPayloadStep ==
    ASSUME StreamInv, NEW p \in Procs, SendPayload(p)
    PROVE  StreamInv'
  <1>1. PICK n : Goes(p, IF proc[p].n_bytes + n < Len(proc[p].out_buf)
                         THEN [proc[p] EXCEPT !.n_bytes = @ + n] ELSE Drained(proc[p]))
    BY DEF SendPayload
  <1> DEFINE s == proc[p]
             r == IF s.n_bytes + n < Len(s.out_buf) THEN [s EXCEPT !.n_bytes = @ + n]
                  ELSE Drained(s)
  <1>2. DOMAIN s = ProcFields /\ s.at = "send_payload"
    BY WhereIs DEF SendPayload
  <1>3. DOMAIN r = ProcFields /\ r.fn = s.fn /\ r.at \in {"send_payload", "return", "fill"}
    BY <1>2, DrainedFacts DEF ProcFields
  <1>4. Goes(p, r) /\ task' = task /\ files' = files /\ faults' = faults
    BY <1>1 DEF SendPayload
  <1> HIDE DEF r
  <1> QED
    BY <1>2, <1>3, <1>4, Sends

\* From one function to the next.
LEMMA ReturnStep ==
    ASSUME StreamInv, NEW p \in Procs, Return(p)
    PROVE  StreamInv'
  <1>1. ~Gone(p) /\ Place(p, proc[p].fn, "return") /\ proc[p].at = "return"
    BY WhereIs DEF Return, Statuses
  <1>2. task' = task /\ files' = files /\ faults' = faults
    BY DEF Return
  <1>3. CASE p = "client"
    <2>1. proc[p].fn = "send_signature"
      BY <1>1, <1>3 DEF Place, Statuses, Return
    <2>2. Goes(p, Enter("recv_delta_and_patch_file", "open"))
      BY <2>1 DEF Return
    <2>3. Place(p, "recv_delta_and_patch_file", "open")
      BY <1>3 DEF Place
    <2> QED
      BY <1>1, <1>2, <2>2, <2>3, Begins
  <1>4. CASE p = "server" /\ proc[p].fn = "recv_signature"
    <2>1. Goes(p, Enter("send_delta", "open")) /\ Place(p, "send_delta", "open")
      BY <1>4 DEF Return, Place
    <2> QED
      BY <1>1, <1>2, <2>1, Begins
  <1>5. CASE p = "server" /\ proc[p].fn = "send_delta"
    <2> DEFINE r == [proc[p] EXCEPT !.fn = "exit", !.at = "EXIT_SUCCESS"]
    <2>1. DOMAIN r = ProcFields /\ r.fn = "exit" /\ r.at = "EXIT_SUCCESS"
      BY WhereIs DEF ProcFields
    <2>2. Goes(p, r)
      BY <1>5 DEF Return, Exits
    <2> HIDE DEF r
    <2>3. Harmless(p, r)
      BY <1>2, <1>5, <2>1, <2>2, WhereIs DEF Harmless, Place, Statuses
    <2> QED
      BY <2>3, HarmlessStep
  <1>6. p = "client" \/ (p = "server" /\ proc[p].fn \in {"recv_signature", "send_delta"})
    BY <1>1 DEF Place, Statuses, Procs
  <1> QED
    BY <1>3, <1>4, <1>5, <1>6


-----------------------------------------------------------------------------
(* The client patches.                                                     *)

\* A step within recv_delta_and_patch_file.
LEMMA Patches ==
    ASSUME StreamInv, Patching, NEW r, Goes("client", r), DOMAIN r = ProcFields,
           r.fn = "recv_delta_and_patch_file", Place("client", r.fn, r.at), r.at # "open",
           task' = task, DOMAIN files' = {"fname", "fname_new"}, files'.fname = files.fname,
           r.at # "fwrite" => r.out_buf = <<>>,
           r.res = "RS_DONE" => r.put = task.new,
           r.at \in {"return", "rename"} => r.res = "RS_DONE",
           r.put \in Nat, r.put <= task.new, r.out_buf \in Seq(Nat),
           r.at = "rename" => ~task.use_io_stream,
           Noticed' => files'.fname_new \in Seq(Nat) /\ files'.fname_new \o r.out_buf = Upto(r.put)
    PROVE  StreamInv'
  <1>1. "client" \in Procs
    BY DEF Procs
  <1>2. DOMAIN proc' = Procs /\ proc'["client"] = r /\ \A q \in Procs \ {"client"} : proc'[q] = proc[q]
    BY <1>1, GoesFacts DEF StreamInv
  <1>3. StreamTypeOK'
    BY <1>2 DEF StreamInv, StreamTypeOK
  <1>4. Places'
    BY <1>2 DEF StreamInv, Places
  <1>5. Client' = r
    BY <1>2 DEF Client
  <1>6. Replaced'
    BY <1>5 DEF StreamInv, Replaced, Patching
  <1>7. Patched'
    BY <1>5 DEF Patched
  <1> QED
    BY <1>3, <1>4, <1>6, <1>7 DEF StreamInv

\* Its end.
LEMMA Ends ==
    ASSUME StreamInv, Exits("client", "EXIT_SUCCESS"), task' = task,
           DOMAIN files' = {"fname", "fname_new"},
           task.use_io_stream \/ files'.fname = "replaced",
           Noticed' => files'.fname_new = Upto(task.new)
    PROVE  StreamInv'
  <1> DEFINE r == [proc["client"] EXCEPT !.fn = "exit", !.at = "EXIT_SUCCESS"]
  <1>1. "client" \in Procs /\ Goes("client", r)
    BY DEF Procs, Exits
  <1>2. DOMAIN r = ProcFields /\ r.fn = "exit" /\ r.at = "EXIT_SUCCESS"
    BY <1>1, WhereIs DEF ProcFields
  <1> HIDE DEF r
  <1>3. DOMAIN proc' = Procs /\ proc'["client"] = r /\ \A q \in Procs \ {"client"} : proc'[q] = proc[q]
    BY <1>1, GoesFacts DEF StreamInv
  <1>4. StreamTypeOK'
    BY <1>2, <1>3 DEF StreamInv, StreamTypeOK
  <1>5. Place("client", r.fn, r.at)
    BY <1>2 DEF Place, Statuses
  <1>6. Places'
    BY <1>3, <1>5 DEF StreamInv, Places
  <1>7. Client' = r
    BY <1>3 DEF Client
  <1>8. Replaced'
    BY <1>2, <1>7 DEF Replaced
  <1>9. Patched'
    BY <1>2, <1>7 DEF Patched, Patching
  <1> QED
    BY <1>4, <1>6, <1>8, <1>9 DEF StreamInv

\* Bytes one after the other.
LEMMA UptoFacts ==
    ASSUME NEW n \in Nat, NEW m \in Nat
    PROVE  /\ Upto(n) \in Seq(Nat) /\ Upto(0) = <<>>
           /\ [k \in 1 .. m |-> n + k] \in Seq(Nat) /\ Len([k \in 1 .. m |-> n + k]) = m
           /\ Upto(n) \o [k \in 1 .. m |-> n + k] = Upto(n + m)
  <1> DEFINE t == [k \in 1 .. m |-> n + k]
  <1>1. Upto(n) \in Seq(Nat) /\ Len(Upto(n)) = n
    BY DEF Upto
  <1>2. t \in Seq(Nat) /\ Len(t) = m
    OBVIOUS
  <1>3. Upto(n + m) \in Seq(Nat) /\ Len(Upto(n + m)) = n + m
    BY DEF Upto
  <1>4. Upto(0) = <<>>
    BY DEF Upto
  <1>5. Upto(n) \o t \in Seq(Nat) /\ Len(Upto(n) \o t) = n + m
    BY <1>1, <1>2
  <1>6. ASSUME NEW k \in 1 .. n + m
        PROVE  (Upto(n) \o t)[k] = Upto(n + m)[k]
    <2>1. CASE k <= n
      BY <1>1, <1>2, <2>1 DEF Upto
    <2>2. CASE k > n
      <3>1. (Upto(n) \o t)[k] = t[k - n]
        BY <1>1, <1>2, <2>2
      <3>2. k - n \in 1 .. m
        BY <2>2
      <3>3. t[k - n] = k
        BY <3>2
      <3>4. Upto(n + m)[k] = k
        BY DEF Upto
      <3> QED
        BY <3>1, <3>3, <3>4
    <2>3. k <= n \/ k > n
      OBVIOUS
    <2> QED
      BY <2>1, <2>2, <2>3
  <1>7. Upto(n) \o t = Upto(n + m)
    BY <1>3, <1>5, <1>6, SeqEqual
  <1> QED
    BY <1>1, <1>2, <1>4, <1>7


\* The start of a function.
LEMMA OpenStep ==
    ASSUME StreamInv, NEW p \in Procs, Open(p)
    PROVE  StreamInv'
  <1>1. proc[p].at = "open" /\ task' = task /\ faults \subseteq faults'
    BY DEF Open, Fails
  <1>2. ~Gone(p) /\ DOMAIN proc[p] = ProcFields /\ Place(p, proc[p].fn, proc[p].at)
        /\ DOMAIN files = {"fname", "fname_new"}
    BY <1>1, WhereIs DEF Statuses
  <1> DEFINE r == [proc[p] EXCEPT !.at = "fill"]
             e == [proc[p] EXCEPT !.fn = "exit", !.at = "RS_IO_ERROR"]
  <1>3. /\ DOMAIN r = ProcFields /\ r.fn = proc[p].fn /\ r.at = "fill" /\ r.out_buf = proc[p].out_buf
        /\ r.put = proc[p].put /\ r.res = proc[p].res
        /\ DOMAIN e = ProcFields /\ e.fn = "exit" /\ e.at = "RS_IO_ERROR"
    BY <1>2 DEF ProcFields
  <1>4. Goes(p, r) \/ Goes(p, e)
    BY DEF Open, Exits
  <1>5. Place(p, proc[p].fn, "fill") /\ Place(p, "exit", "RS_IO_ERROR")
    BY <1>1, <1>2 DEF Place, Statuses
  <1> HIDE DEF r, e
  <1>6. CASE proc[p].fn # "recv_delta_and_patch_file"
    <2>1. /\ DOMAIN files' = {"fname", "fname_new"} /\ files'.fname_new = files.fname_new
          /\ files'.fname = files.fname \/ (proc[p].fn = "send_signature" /\ files'.fname = "old")
      <3>1. CASE proc[p].fn = "send_signature" /\ ~task.use_io_stream
        <4>1. files' = [files EXCEPT !.fname = "old"]
          BY <3>1 DEF Open
        <4> QED
          BY <1>2, <3>1, <4>1
      <3>2. CASE ~(proc[p].fn = "send_signature" /\ ~task.use_io_stream)
        <4>1. files' = files
          BY <1>6, <3>2 DEF Open
        <4> QED
          BY <1>2, <4>1
      <3> QED
        BY <3>1, <3>2
    <2>2. proc[p].fn = "send_signature" => p = "client"
      BY <1>2 DEF Place
    <2>3. CASE Goes(p, r)
      <3>1. Harmless(p, r)
        BY <1>1, <1>2, <1>3, <1>5, <1>6, <2>1, <2>2, <2>3 DEF Harmless, Client, Gone
      <3> QED
        BY <3>1, HarmlessStep
    <2>4. CASE Goes(p, e)
      <3>1. Harmless(p, e)
        BY <1>1, <1>2, <1>3, <1>5, <1>6, <2>1, <2>2, <2>4 DEF Harmless, Client, Gone
      <3> QED
        BY <3>1, HarmlessStep
    <2> QED
      BY <1>4, <2>3, <2>4
  <1>7. CASE proc[p].fn = "recv_delta_and_patch_file"
    <2>1. p = "client" /\ Patching
      BY <1>2, <1>7 DEF Place, Client, Patching, Statuses
    <2>2. files' = [files EXCEPT !.fname_new = <<>>]
      BY <1>7 DEF Open
    <2>3. DOMAIN files' = {"fname", "fname_new"} /\ files'.fname_new = <<>> /\ files'.fname = files.fname
      BY <1>2, <2>2
    <2>4. CASE Goes(p, r)
      <3>1. Client.put = 0 /\ Client.out_buf = <<>> /\ Client.res = "RS_BLOCKED" /\ Client = proc[p]
        BY <1>1, <2>1 DEF StreamInv, Patched, Client
      <3>2. task.new \in Nat
        BY StreamAssumption DEF StreamInv, StreamTypeOK
      <3>3. 0 \in Nat /\ 0 <= task.new /\ <<>> \in Seq(Nat)
        BY <3>2
      <3>4. <<>> \o <<>> = Upto(0)
        BY UptoFacts, <3>3, ConcatEmptySeq
      <3> QED
        BY <1>1, <1>3, <1>5, <1>7, <2>1, <2>3, <2>4, <3>1, <3>3, <3>4, Patches
    <2>5. CASE Goes(p, e)
      <3>1. DOMAIN proc' = Procs /\ proc'[p] = e /\ \A q \in Procs \ {p} : proc'[q] = proc[q]
        BY <2>5, GoesFacts DEF StreamInv
      <3>2. Client' = e
        BY <2>1, <3>1 DEF Client
      <3>3. StreamTypeOK' /\ Places'
        BY <1>1, <1>3, <1>5, <2>3, <3>1 DEF StreamInv, StreamTypeOK, Places
      <3>4. Patched' /\ Replaced'
        BY <1>3, <2>1, <2>3, <3>2 DEF StreamInv, Patched, Patching, Replaced
      <3> QED
        BY <3>3, <3>4 DEF StreamInv
    <2> QED
      BY <1>4, <2>4, <2>5
  <1> QED
    BY <1>6, <1>7


\* The room for the job's output, and how much it may put.
RoomOf(s) == IF Promise(s.fn).writes THEN BUFFER_SIZE - Len(s.out_buf) ELSE 0
MostOf(s) ==
    Smaller(Promise(s.fn).target - s.put,
            IF Promise(s.fn).writes THEN RoomOf(s) ELSE Promise(s.fn).target)

\* What a call of rs_job_iter does to a process, if it takes n bytes and puts m.
Called(s, n, m, r) ==
    [s EXCEPT !.next_in = @ + n, !.avail_in = @ - n, !.taken = @ + n, !.put = @ + m, !.res = r,
              !.out_buf = IF Promise(s.fn).writes THEN @ \o [k \in 1 .. m |-> s.put + k] ELSE @]

\* The fields of it that matter, and where the loop goes on.
LEMMA CalledFacts ==
    ASSUME NEW s, DOMAIN s = ProcFields, NEW n, NEW m, NEW r
    PROVE  LET after == Called(s, n, m, r)
               t == [after EXCEPT !.at = OutputGoes(after)]
           IN  /\ DOMAIN t = ProcFields /\ t.fn = s.fn /\ t.put = s.put + m /\ t.res = r
               /\ t.out_buf = IF s.fn # "recv_signature" THEN s.out_buf \o [k \in 1 .. m |-> s.put + k]
                              ELSE s.out_buf
               /\ \/ t.at = "send_header" /\ s.fn \in Sending
                  \/ t.at = "fwrite" /\ s.fn = "recv_delta_and_patch_file" /\ t.out_buf # <<>>
                  \/ /\ s.fn = "recv_delta_and_patch_file" => t.out_buf = <<>>
                     /\ t.at = IF r = "RS_DONE" THEN "return" ELSE "fill"
  <1> DEFINE after == Called(s, n, m, r)
             at == OutputGoes(after)
             t == [after EXCEPT !.at = at]
  <1>1. Promise(s.fn).writes = (s.fn # "recv_signature")
    BY DEF Promise
  <1>2. /\ DOMAIN after = ProcFields /\ after.fn = s.fn /\ after.put = s.put + m /\ after.res = r
        /\ after.out_buf = IF s.fn # "recv_signature" THEN s.out_buf \o [k \in 1 .. m |-> s.put + k]
                           ELSE s.out_buf
    BY <1>1 DEF Called, ProcFields
  <1> HIDE DEF after
  <1>3. \/ at = "send_header" /\ s.fn \in Sending
        \/ at = "fwrite" /\ s.fn = "recv_delta_and_patch_file" /\ after.out_buf # <<>>
        \/ /\ s.fn = "recv_delta_and_patch_file" => after.out_buf = <<>>
           /\ at = IF r = "RS_DONE" THEN "return" ELSE "fill"
    BY <1>2 DEF OutputGoes
  <1> HIDE DEF at
  <1>4. DOMAIN t = ProcFields /\ t.fn = after.fn /\ t.put = after.put /\ t.res = after.res
        /\ t.out_buf = after.out_buf /\ t.at = at
    BY <1>2 DEF ProcFields
  <1> HIDE DEF t
  <1>5. /\ DOMAIN t = ProcFields /\ t.fn = s.fn /\ t.put = s.put + m /\ t.res = r
        /\ t.out_buf = IF s.fn # "recv_signature" THEN s.out_buf \o [k \in 1 .. m |-> s.put + k]
                       ELSE s.out_buf
        /\ \/ t.at = "send_header" /\ s.fn \in Sending
           \/ t.at = "fwrite" /\ s.fn = "recv_delta_and_patch_file" /\ t.out_buf # <<>>
           \/ /\ s.fn = "recv_delta_and_patch_file" => t.out_buf = <<>>
              /\ t.at = IF r = "RS_DONE" THEN "return" ELSE "fill"
    BY <1>2, <1>3, <1>4
  <1> QED
    BY <1>5 DEF t, at, after

\* An answer of rs_job_iter to a process at s.
Answer(s, n, m, r) ==
    [result |-> r, taken |-> s.taken + n, put |-> s.put + m,
     avail_in |-> s.avail_in - n, eof_in |-> s.eof_in,
     avail_out |-> IF Promise(s.fn).writes THEN RoomOf(s) - m ELSE 0]

\* Nobody is misled as long as no header is split.
LEMMA NotMisled ==
    ASSUME NEW p \in Procs, Iter(p), ~Split
    PROVE  \E n, m, r :
             /\ n \in 0 .. proc[p].avail_in /\ m \in 0 .. MostOf(proc[p])
             /\ r \in {"RS_BLOCKED", "RS_DONE"}
             /\ MayAnswer(Promise(proc[p].fn), Answer(proc[p], n, m, r))
             /\ Goes(p, [Called(proc[p], n, m, r) EXCEPT !.at = OutputGoes(Called(proc[p], n, m, r))])
  <1>1. ~Misled(proc[p].fn)
    BY DEF Misled
  <1>2. \A m : Output(proc[p], m) = [k \in 1 .. m |-> proc[p].put + k]
    BY <1>1 DEF Output
  <1> QED
    BY <1>1, <1>2, ZenonT(60) DEF Iter, Called, Answer, RoomOf, MostOf

\* rs_job_iter.
LEMMA IterStep ==
    ASSUME StreamInv, NEW p \in Procs, Iter(p), ~Split
    PROVE  StreamInv'
  <1> DEFINE s == proc[p]
             promise == Promise(s.fn)
  <1>1. s.at = "iter" /\ task' = task /\ files' = files /\ faults' = faults
    BY DEF Iter
  <1>2. DOMAIN s = ProcFields /\ Place(p, s.fn, "iter") /\ DOMAIN files = {"fname", "fname_new"}
    BY <1>1, WhereIs
  <1> DEFINE room == RoomOf(s)
             most == MostOf(s)
  <1>3. PICK n, m, r :
          /\ n \in 0 .. s.avail_in /\ m \in 0 .. most /\ r \in {"RS_BLOCKED", "RS_DONE"}
          /\ MayAnswer(promise, Answer(s, n, m, r))
          /\ Goes(p, [Called(s, n, m, r) EXCEPT !.at = OutputGoes(Called(s, n, m, r))])
    BY NotMisled
  <1>4. Answer(s, n, m, r).put = s.put + m /\ Answer(s, n, m, r).result = r /\ m \in Nat
    BY <1>3 DEF Answer
  <1> HIDE DEF most
  <1>5. /\ m \in Nat
        /\ s.put + m <= promise.target
        /\ r = "RS_DONE" => s.put + m = promise.target
        /\ Goes(p, [Called(s, n, m, r) EXCEPT !.at = OutputGoes(Called(s, n, m, r))])
    BY <1>3, <1>4 DEF MayAnswer, Completed
  <1> HIDE DEF room
  <1> DEFINE after == Called(s, n, m, r)
             t == [after EXCEPT !.at = OutputGoes(after)]
  <1>6. /\ DOMAIN t = ProcFields /\ t.fn = s.fn /\ t.put = s.put + m /\ t.res = r
        /\ t.out_buf = IF s.fn # "recv_signature" THEN s.out_buf \o [k \in 1 .. m |-> s.put + k]
                       ELSE s.out_buf
        /\ \/ t.at = "send_header" /\ s.fn \in Sending
           \/ t.at = "fwrite" /\ s.fn = "recv_delta_and_patch_file" /\ t.out_buf # <<>>
           \/ /\ s.fn = "recv_delta_and_patch_file" => t.out_buf = <<>>
              /\ t.at = IF r = "RS_DONE" THEN "return" ELSE "fill"
    BY <1>2, CalledFacts
  <1>7. Goes(p, t)
    BY <1>5
  <1> HIDE DEF t, after
  <1>8. CASE s.fn # "recv_delta_and_patch_file"
    <2>1. Place(p, t.fn, t.at) /\ t.fn # "exit"
      BY <1>2, <1>6, <1>8 DEF Place, Statuses, Sending
    <2> QED
      BY <1>1, <1>6, <1>7, <1>8, <2>1, Walks
  <1>9. CASE s.fn = "recv_delta_and_patch_file"
    <2>1. p = "client" /\ Patching /\ Client = s
      BY <1>2, <1>9 DEF Place, Client, Patching, Statuses
    <2>2. promise.target = task.new
      BY <1>9 DEF Promise, TargetLen
    <2>3. /\ s.out_buf = <<>> /\ s.put \in Nat
          /\ Noticed => files.fname_new \in Seq(Nat) /\ files.fname_new \o s.out_buf = Upto(s.put)
      BY <1>1, <2>1 DEF StreamInv, Patched
    <2> DEFINE bytes == [k \in 1 .. m |-> s.put + k]
    <2>4. bytes \in Seq(Nat) /\ Upto(s.put) \o bytes = Upto(s.put + m) /\ s.put + m \in Nat
      <3>1. s.put \in Nat /\ m \in Nat
        BY <1>5, <2>3
      <3>2. bytes \in Seq(Nat) /\ Upto(s.put) \o bytes = Upto(s.put + m)
        BY ONLY <3>1, UptoFacts, Zenon
      <3> QED
        BY <3>1, <3>2
    <2>5. t.out_buf = bytes
      BY <1>6, <1>9, <2>3, <2>4, ConcatEmptySeq
    <2>6. Noticed => files.fname_new = Upto(s.put)
      BY <2>3, ConcatEmptySeq
    <2> HIDE DEF bytes
    <2>7. Place("client", t.fn, t.at) /\ t.at \notin {"open", "rename"}
      BY <1>6, <1>9 DEF Place, Sending
    <2>8. t.at # "fwrite" => t.out_buf = <<>>
      BY <1>6, <1>9 DEF Sending
    <2>9. t.at = "return" => r = "RS_DONE"
      BY <1>6
    <2>10. Noticed' => files'.fname_new \in Seq(Nat) /\ files'.fname_new \o t.out_buf = Upto(t.put)
      BY <1>1, <1>6, <2>3, <2>4, <2>5, <2>6 DEF Noticed
    <2>11. /\ DOMAIN files' = {"fname", "fname_new"} /\ files'.fname = files.fname
           /\ t.put \in Nat /\ t.put <= task.new /\ t.out_buf \in Seq(Nat)
           /\ t.res = "RS_DONE" => t.put = task.new
      BY <1>1, <1>2, <1>5, <1>6, <2>2, <2>4, <2>5
    <2>12. Goes("client", t) /\ DOMAIN t = ProcFields /\ t.fn = "recv_delta_and_patch_file" /\ t.res = r
      BY <1>6, <1>7, <1>9, <2>1
    <2> HIDE DEF t
    <2> QED
      BY <1>1, <2>1, <2>7, <2>8, <2>9, <2>10, <2>11, <2>12, Patches
  <1> QED
    BY <1>8, <1>9


\* fwrite: all of it, or less and then nobody notices, or nothing.
LEMMA WriteNewStep ==
    ASSUME StreamInv, WriteNew
    PROVE  StreamInv'
  <1> DEFINE s == proc["client"]
             t == Drained(s)
  <1>1. s.at = "fwrite" /\ task' = task /\ "client" \in Procs
    BY DEF WriteNew, Procs
  <1>2. /\ DOMAIN s = ProcFields /\ Place("client", s.fn, s.at) /\ ~Gone("client")
        /\ DOMAIN files = {"fname", "fname_new"}
    BY <1>1, WhereIs DEF Statuses
  <1>3. s.fn = "recv_delta_and_patch_file" /\ Patching /\ Client = s
    BY <1>1, <1>2 DEF Place, Statuses, Patching, Client
  <1>4. /\ s.res = "RS_DONE" => s.put = task.new
        /\ s.put \in Nat /\ s.put <= task.new /\ s.out_buf \in Seq(Nat)
        /\ Noticed => files.fname_new \in Seq(Nat) /\ files.fname_new \o s.out_buf = Upto(s.put)
    BY <1>1, <1>3 DEF StreamInv, Patched
  <1>5. /\ DOMAIN t = ProcFields /\ t.fn = s.fn /\ t.out_buf = <<>> /\ t.put = s.put /\ t.res = s.res
        /\ t.at = IF s.res = "RS_DONE" THEN "return" ELSE "fill"
    BY <1>2, DrainedFacts
  <1> HIDE DEF t
  <1>6. Place("client", t.fn, t.at) /\ <<>> \in Seq(Nat)
    BY <1>3, <1>5 DEF Place
  <1>7. ASSUME Goes("client", t), DOMAIN files' = {"fname", "fname_new"}, files'.fname = files.fname,
               Noticed' => files'.fname_new \in Seq(Nat) /\ files'.fname_new = Upto(s.put)
        PROVE  StreamInv'
    <2>1. Noticed' => files'.fname_new \in Seq(Nat) /\ files'.fname_new \o t.out_buf = Upto(t.put)
      BY <1>5, <1>7, ConcatEmptySeq
    <2> QED
      BY <1>1, <1>3, <1>4, <1>5, <1>6, <1>7, <2>1, Patches
  <1>8. CASE /\ files' = [files EXCEPT !.fname_new = @ \o SubSeq(s.out_buf, 1, Len(s.out_buf))]
             /\ Goes("client", t) /\ UNCHANGED faults
    <2>1. /\ DOMAIN files' = {"fname", "fname_new"} /\ files'.fname = files.fname
          /\ files'.fname_new = files.fname_new \o SubSeq(s.out_buf, 1, Len(s.out_buf))
      BY <1>2, <1>8
    <2>2. SubSeq(s.out_buf, 1, Len(s.out_buf)) = s.out_buf
      BY <1>4, SubSeqFull
    <2>3. Noticed' => files'.fname_new = Upto(s.put) /\ Upto(s.put) \in Seq(Nat)
      BY <1>4, <1>8, <2>1, <2>2, UptoFacts DEF Noticed
    <2> QED
      BY <1>7, <1>8, <2>1, <2>3
  <1>9. ASSUME Fails("short fwrite"), Goes("client", t),
               NEW n, files' = [files EXCEPT !.fname_new = @ \o SubSeq(s.out_buf, 1, n)]
        PROVE  StreamInv'
    <2>1. ~Noticed'
      BY <1>9 DEF Fails, Noticed
    <2>2. DOMAIN files' = {"fname", "fname_new"} /\ files'.fname = files.fname
      BY <1>2, <1>9
    <2> QED
      BY <1>7, <1>9, <2>1, <2>2
  <1>10. CASE Fails("fwrite") /\ Exits("client", "EXIT_FAILURE") /\ UNCHANGED files
    BY <1>1, <1>2, <1>10, GivesUp DEF Fails
  <1> QED
    BY <1>8, <1>9, <1>10 DEF WriteNew, t

\* fclose, which may lose some of the file and then nobody notices.
LEMMA CloseNewStep ==
    ASSUME StreamInv, CloseNew
    PROVE  StreamInv'
  <1> DEFINE s == proc["client"]
             t == [s EXCEPT !.at = "rename"]
  <1>1. /\ s.at = "return" /\ s.fn = "recv_delta_and_patch_file" /\ task' = task /\ "client" \in Procs
        /\ Patching /\ Client = s
    BY DEF CloseNew, Procs, Patching, Client
  <1>2. DOMAIN s = ProcFields /\ DOMAIN files = {"fname", "fname_new"}
    BY <1>1, WhereIs
  <1>3. /\ s.res = "RS_DONE" /\ s.put = task.new /\ s.out_buf = <<>>
        /\ s.put \in Nat /\ s.put <= task.new
        /\ Noticed => files.fname_new \in Seq(Nat) /\ files.fname_new \o s.out_buf = Upto(s.put)
    BY <1>1 DEF StreamInv, Patched
  <1>4. Noticed => files.fname_new \in Seq(Nat) /\ files.fname_new = Upto(task.new)
    BY <1>3, ConcatEmptySeq
  <1>5. /\ DOMAIN files' = {"fname", "fname_new"} /\ files'.fname = files.fname
        /\ Noticed' => files'.fname_new \in Seq(Nat) /\ files'.fname_new = Upto(task.new)
    <2>1. CASE UNCHANGED <<files, faults>>
      BY <1>2, <1>4, <2>1 DEF Noticed
    <2>2. ASSUME Fails("fclose"), NEW n, files' = [files EXCEPT !.fname_new = SubSeq(@, 1, n)]
          PROVE  /\ DOMAIN files' = {"fname", "fname_new"} /\ files'.fname = files.fname
                 /\ Noticed' => files'.fname_new \in Seq(Nat) /\ files'.fname_new = Upto(task.new)
      <3>1. ~Noticed'
        BY <2>2 DEF Fails, Noticed
      <3> QED
        BY <1>2, <2>2, <3>1
    <2> QED
      BY <2>1, <2>2 DEF CloseNew
  <1>6. CASE task.use_io_stream
    BY <1>1, <1>5, <1>6, Ends DEF CloseNew
  <1>7. CASE ~task.use_io_stream
    <2>1. /\ DOMAIN t = ProcFields /\ t.fn = s.fn /\ t.at = "rename" /\ t.out_buf = s.out_buf
          /\ t.put = s.put /\ t.res = s.res
      BY <1>2 DEF ProcFields
    <2>2. Goes("client", t)
      BY <1>7 DEF CloseNew
    <2> HIDE DEF t
    <2>3. Place("client", t.fn, t.at) /\ <<>> \in Seq(Nat)
      BY <1>1, <2>1 DEF Place
    <2>4. Noticed' => files'.fname_new \in Seq(Nat) /\ files'.fname_new \o t.out_buf = Upto(t.put)
      BY <1>3, <1>5, <2>1, ConcatEmptySeq
    <2> QED
      BY <1>1, <1>3, <1>5, <1>7, <2>1, <2>2, <2>3, <2>4, Patches
  <1> QED
    BY <1>6, <1>7

\* The new file takes the place of the old.
LEMMA RenameStep ==
    ASSUME StreamInv, Rename
    PROVE  StreamInv'
  <1> DEFINE s == proc["client"]
  <1>1. s.at = "rename" /\ task' = task /\ "client" \in Procs
    BY DEF Rename, Procs
  <1>2. /\ DOMAIN s = ProcFields /\ Place("client", s.fn, s.at) /\ ~Gone("client")
        /\ DOMAIN files = {"fname", "fname_new"}
    BY <1>1, WhereIs DEF Statuses
  <1>3. s.fn = "recv_delta_and_patch_file" /\ Patching /\ Client = s
    BY <1>1, <1>2 DEF Place, Statuses, Patching, Client
  <1>4. /\ s.put = task.new /\ s.out_buf = <<>>
        /\ Noticed => files.fname_new \in Seq(Nat) /\ files.fname_new \o s.out_buf = Upto(s.put)
    BY <1>1, <1>3 DEF StreamInv, Patched
  <1>5. CASE /\ files' = [files EXCEPT !.fname = "replaced"]
             /\ Exits("client", "EXIT_SUCCESS") /\ UNCHANGED faults
    <2>1. /\ DOMAIN files' = {"fname", "fname_new"} /\ files'.fname = "replaced"
          /\ files'.fname_new = files.fname_new
      BY <1>2, <1>5
    <2>2. Noticed' => files'.fname_new = Upto(task.new)
      BY <1>4, <1>5, <2>1, ConcatEmptySeq DEF Noticed
    <2> QED
      BY <1>1, <1>5, <2>1, <2>2, Ends
  <1>6. CASE Fails("rename") /\ Exits("client", "EXIT_FAILURE") /\ UNCHANGED files
    BY <1>1, <1>2, <1>6, GivesUp DEF Fails
  <1> QED
    BY <1>5, <1>6 DEF Rename

-----------------------------------------------------------------------------
(* The theorem.                                                            *)

\* The processes start outside of the functions that matter.
LEMMA StreamInit == Init => StreamInv
  <1> SUFFICES ASSUME Init
               PROVE  StreamInv
    OBVIOUS
  <1> DEFINE c == Enter("connect_to_server", "connect")
             a == Enter("accept_connection", "bind")
  <1>1. /\ DOMAIN c = ProcFields /\ c.fn = "connect_to_server" /\ c.at = "connect"
        /\ DOMAIN a = ProcFields /\ a.fn = "accept_connection" /\ a.at = "bind"
    BY DEF Enter, ProcFields
  <1>2. proc = [client |-> c, server |-> a]
    BY DEF Init
  <1> HIDE DEF c, a
  <1>3. DOMAIN proc = Procs /\ proc["client"] = c /\ proc["server"] = a
    BY <1>2 DEF Procs
  <1>4. DOMAIN files = {"fname", "fname_new"} /\ files.fname # "replaced" /\ task \in Tasks
    BY DEF Init
  <1>5. StreamTypeOK
    BY <1>1, <1>3, <1>4 DEF StreamTypeOK, Procs
  <1>6. Place("client", c.fn, c.at) /\ Place("server", a.fn, a.at)
    BY <1>1 DEF Place
  <1>7. Places
    BY <1>3, <1>6 DEF Places, Procs
  <1>8. Patched /\ Replaced
    BY <1>1, <1>3, <1>4 DEF Patched, Replaced, Patching, Client
  <1> QED
    BY <1>5, <1>7, <1>8 DEF StreamInv

\* A step that changes nothing.
LEMMA StreamSame ==
    ASSUME StreamInv, UNCHANGED vars
    PROVE  StreamInv'
  BY DEF vars, StreamInv, StreamTypeOK, Places, Patched, Replaced, Patching, Client, Noticed

\* A header that was split is never forgotten.
LEMMA FaultsStay ==
    ASSUME [Next]_vars
    PROVE  ~Split' => ~Split
  <1>1. CASE UNCHANGED vars \/ Stopped
    BY <1>1 DEF vars, Stopped, Split
  <1>2. ASSUME NEW p \in Procs, Step(p)
        PROVE  faults \subseteq faults'
    <2>1. CASE Listen \/ Accept \/ Connect \/ WriteNew \/ CloseNew \/ Rename
      BY <2>1 DEF Listen, Accept, Connect, WriteNew, CloseNew, Rename, Fails
    <2>2. CASE Open(p) \/ FillNothing(p) \/ FillFromFile(p) \/ RecvStart(p) \/ Return(p)
      BY <2>2 DEF Open, FillNothing, FillFromFile, RecvStart, Return, Fails
    <2>3. CASE \/ RecvHeader(p) \/ RecvHeaderByte(p) \/ RecvHeaderRest(p) \/ RecvPayload(p)
               \/ RecvStray(p) \/ RecvFails(p) \/ RecvNothing(p)
      BY <2>3 DEF RecvHeader, RecvHeaderByte, RecvHeaderRest, RecvPayload, RecvStray, RecvFails,
                  RecvNothing, Fails, Splits, vars
    <2>4. CASE Iter(p) \/ IterFails(p)
      BY <2>4 DEF Iter, IterFails, Fails
    <2>5. CASE \/ SendHeader(p) \/ SendHeaderByte(p) \/ SendHeaderRest(p) \/ SendPayload(p)
               \/ SendFails(p)
      BY <2>5 DEF SendHeader, SendHeaderByte, SendHeaderRest, SendPayload, SendFails, Fails, Splits
    <2> QED
      BY <1>2, <2>1, <2>2, <2>3, <2>4, <2>5 DEF Step
  <1> QED
    BY <1>1, <1>2 DEF Next, Split

\* Every step of every process.
LEMMA StreamAlways == Spec => [](~Split => StreamInv)
  <1>1. ASSUME StreamInv, ~Split, ~Split', [Next]_vars
        PROVE  StreamInv'
    <2>1. CASE UNCHANGED vars
      BY <1>1, <2>1, StreamSame
    <2>2. CASE Stopped
      BY <1>1, <2>2, StreamSame DEF Stopped
    <2>3. ASSUME NEW p \in Procs, Step(p)
          PROVE  StreamInv'
      BY <1>1, <2>3, ListenStep, AcceptStep, ConnectStep, WriteNewStep, CloseNewStep, RenameStep,
         OpenStep, FillNothingStep, FillFromFileStep, RecvStartStep, RecvHeaderStep,
         RecvPayloadStep, SplitSteps, Failures, StreamSame, IterStep, SendHeaderStep,
         SendPayloadStep, ReturnStep DEF Step, RecvNothing
    <2> QED
      BY <1>1, <2>1, <2>2, <2>3 DEF Next
  <1>2. (~Split => StreamInv) /\ [Next]_vars => (~Split => StreamInv)'
    BY <1>1, FaultsStay
  <1> QED
    BY <1>2, StreamInit, PTL DEF Spec

\* The client's file is the old one or the whole new one, whatever fails and
\* wherever it stops, and EXIT_SUCCESS means that it has been replaced, unless
\* one of the two failures has happened that recv_delta_and_patch_file ignores,
\* or a header has been split.
THEOREM StreamFile == Spec => []FileOldOrComplete
  <1>1. (~Split => StreamInv) => FileOldOrComplete
    BY DEF StreamInv, Replaced, FileOldOrComplete, Client, Noticed, Upto, Split
  <1> QED
    BY <1>1, StreamAlways, PTL


-----------------------------------------------------------------------------
(* The buffers of both processes, and the socket between them.             *)
(*                                                                         *)
(* Whether in_buf holds the right bytes depends on what is on the wire,    *)
(* and that on what the sender has put out.  An item of the wire is right  *)
(* relative to the items before it: how many bytes came before, how many   *)
(* are missing in the message, and whether it was the last message.  So    *)
(* there have to be three functions f, g and e, which say that of each     *)
(* item, that start with what the receiver has, and that end with what the *)
(* sender has sent.                                                        *)

OutBufLen(s) == Len(s.out_buf)
HeldBy(s) == s.avail_in + IF s.at = "recv_payload" THEN s.n_bytes ELSE 0
ExpectedBy(s) == s.avail_in + IF s.at = "recv_payload" THEN s.len ELSE 0

ProcNumbers(s) ==
    /\ s.next_in \in Nat /\ s.avail_in \in Nat /\ s.taken \in Nat /\ s.put \in Nat
    /\ s.len \in Nat /\ s.n_bytes \in Nat /\ s.pos \in Nat
    /\ s.eof_in \in BOOLEAN /\ s.res \in {"RS_BLOCKED", "RS_DONE"} /\ s.out_buf \in Seq(Nat)

\* The input buffer b holds what follows the bytes that the job has taken.
InBuffer(s, b) ==
    /\ s.next_in + ExpectedBy(s) <= 2 * BUFFER_SIZE
    /\ \A k \in 0 .. HeldBy(s) - 1 : b[s.next_in + k] = s.taken + k + 1

\* n bytes of which the last is the one at put.
LastBytes(n, put) == [k \in 1 .. n |-> put - n + k]

\* The output buffer holds the last of what the job has put out.
OutBuffer(s) ==
    /\ OutBufLen(s) <= BUFFER_SIZE /\ OutBufLen(s) <= s.put /\ s.put <= TargetLen(s.fn)
    /\ s.out_buf = LastBytes(OutBufLen(s), s.put)
    /\ s.at \notin {"send_header", "send_payload", "fwrite"} => s.out_buf = <<>>

\* The job is done at the end of the loop, and not before.
JobState(s) ==
    /\ s.at \in {"open", "fill", "recv_header", "recv_payload", "iter"} => s.res = "RS_BLOCKED"
    /\ s.at \in {"return", "rename"} => s.res = "RS_DONE"
    /\ s.res = "RS_DONE" =>
         /\ s.put = TargetLen(s.fn)
         /\ s.fn \in Receiving => s.taken = SourceLen(s.fn)
         /\ s.fn = "recv_signature" => s.eof_in

\* send_delta never sends an empty message, and the last byte comes with the end.
SendState(s) ==
    s.fn \in Sending =>
        /\ s.pos = s.taken + s.avail_in /\ s.pos <= SourceLen(s.fn)
        /\ s.at = "send_payload" => s.n_bytes < OutBufLen(s)
        /\ s.fn = "send_delta" /\ s.res = "RS_BLOCKED" => s.put < task.delta
        /\ s.fn = "send_delta" /\ s.at = "send_header" => s.out_buf # <<>>

RecvState(s) ==
    s.fn \in Receiving =>
        /\ s.at = "recv_header" => s.next_in = 0 /\ s.n_bytes = 0 /\ s.avail_in <= BUFFER_SIZE
        /\ s.at = "recv_payload" => s.next_in = 0 /\ s.n_bytes < s.len

\* What a process knows by itself.
Local(s, b) ==
    s.fn \in Sending \cup Receiving =>
        ProcNumbers(s) /\ InBuffer(s, b) /\ OutBuffer(s) /\ JobState(s) /\ SendState(s) /\ RecvState(s)

\* What is to be sent to q in all.
Total(q) == IF q = "server" THEN task.sig ELSE task.delta

\* How far a receiver is: the bytes it has got, the ones missing in its message, and
\* whether this is the last one.
GotBy(s) ==
    IF s.fn \in Receiving THEN s.taken + HeldBy(s) ELSE IF s.fn = "send_delta" THEN task.sig ELSE 0
MissingBy(s) == IF s.at = "recv_payload" THEN s.len - s.n_bytes ELSE 0
EndedBy(s) == IF s.fn \in Receiving THEN s.eof_in ELSE s.fn = "send_delta"

\* How far a sender is.
SentBy(s) ==
    IF s.fn \in Sending THEN s.put - OutBufLen(s) + IF s.at = "send_payload" THEN s.n_bytes ELSE 0
    ELSE IF s.fn = "recv_delta_and_patch_file" THEN task.sig ELSE 0
OwedBy(s) == IF s.at = "send_payload" THEN OutBufLen(s) - s.n_bytes ELSE 0
SentEof(s) ==
    IF s.fn \in Sending THEN s.at \in {"send_payload", "return"} /\ s.res = "RS_DONE"
    ELSE s.fn = "recv_delta_and_patch_file"

\* Items of the wire, and what each does to the three values.
Items == [kind : {"header"}, len : Nat, eof : BOOLEAN] \cup [kind : {"byte"}, pos : Nat]
Item(x, a, b, c, a1, b1, c1) ==
    \/ x.kind = "byte" /\ x.pos = a + 1 /\ b > 0 /\ a1 = a + 1 /\ b1 = b - 1 /\ c1 = c
    \/ /\ x.kind = "header" /\ x.len \in Nat /\ x.len <= BUFFER_SIZE /\ b = 0 /\ ~c
       /\ a1 = a /\ b1 = x.len /\ c1 = x.eof

\* The values at one point of the wire to q: the last byte for the client comes in the
\* last message.
Point(q, a, b, c) ==
    /\ a \in Nat /\ b \in Nat /\ c \in BOOLEAN
    /\ a <= Total(q) /\ (q = "client" /\ a = Total(q) => c)

Trace(q, w, f, g, e) ==
    /\ DOMAIN f = 1 .. Len(w) + 1 /\ DOMAIN g = 1 .. Len(w) + 1 /\ DOMAIN e = 1 .. Len(w) + 1
    /\ \A i \in 1 .. Len(w) + 1 : Point(q, f[i], g[i], e[i])
    /\ \A i \in 1 .. Len(w) : Item(w[i], f[i], g[i], e[i], f[i + 1], g[i + 1], e[i + 1])

\* The wire w to q, from a sender that is at s2 to a receiver that is at s1.
LinkBy(q, w, s1, s2, f, g, e) ==
    /\ Trace(q, w, f, g, e)
    /\ f[1] = GotBy(s1) /\ g[1] = MissingBy(s1) /\ e[1] = EndedBy(s1)
    /\ s2.fn # "exit" =>
          /\ f[Len(w) + 1] = SentBy(s2) /\ g[Len(w) + 1] = OwedBy(s2)
          /\ e[Len(w) + 1] = SentEof(s2)
Link(q, w, s1, s2) == \E f, g, e : LinkBy(q, w, s1, s2, f, g, e)

MemoryOK ==
    /\ DOMAIN in_buf = Procs /\ \A p \in Procs : DOMAIN in_buf[p] = 0 .. 2 * BUFFER_SIZE - 1
    /\ DOMAIN wire = Procs /\ \A p \in Procs : wire[p] \in Seq(Items)

BufferInv ==
    /\ MemoryOK
    /\ \A p \in Procs : Local(proc[p], in_buf[p])
    /\ \A q \in Procs : ~Gone(q) => Link(q, wire[q], proc[q], proc[Peer(q)])

-----------------------------------------------------------------------------
(* Traces of the wire.                                                     *)

\* v is w without its first n items.
Dropped(w, n, v) == Len(v) = Len(w) - n /\ \A i \in 1 .. Len(v) : v[i] = w[n + i]

\* v has a trace that starts and ends as f, g and e do at i and at j.
Traced(q, v, f, g, e, i, j) ==
    \E f1, g1, e1 :
        /\ Trace(q, v, f1, g1, e1)
        /\ f1[1] = f[i] /\ g1[1] = g[i] /\ e1[1] = e[i]
        /\ f1[Len(v) + 1] = f[j] /\ g1[Len(v) + 1] = g[j] /\ e1[Len(v) + 1] = e[j]

\* Taking n items from the front.
LEMMA TraceFront ==
    ASSUME NEW q, NEW w, NEW f, NEW g, NEW e, Trace(q, w, f, g, e), Len(w) \in Nat,
           NEW n \in Nat, n <= Len(w), NEW v, Dropped(w, n, v)
    PROVE  Traced(q, v, f, g, e, n + 1, Len(w) + 1)
  <1> DEFINE l == Len(w)
             m == Len(v)
             f1 == [i \in 1 .. m + 1 |-> f[n + i]]
             g1 == [i \in 1 .. m + 1 |-> g[n + i]]
             e1 == [i \in 1 .. m + 1 |-> e[n + i]]
  <1>1. l \in Nat /\ m = l - n /\ m \in Nat
    BY DEF Dropped
  <1>2. \A i \in 1 .. l + 1 : Point(q, f[i], g[i], e[i])
    BY DEF Trace
  <1>3. \A i \in 1 .. l : Item(w[i], f[i], g[i], e[i], f[i + 1], g[i + 1], e[i + 1])
    BY DEF Trace
  <1>4. \A i \in 1 .. m : v[i] = w[n + i]
    BY DEF Dropped
  <1>0. Len(w) = l /\ Len(v) = m
    OBVIOUS
  <1> HIDE DEF l, m
  <1>5. ASSUME NEW i \in 1 .. m + 1
        PROVE  f1[i] = f[n + i] /\ g1[i] = g[n + i] /\ e1[i] = e[n + i] /\ n + i \in 1 .. l + 1
    BY <1>1
  <1>6. \A i \in 1 .. m + 1 : Point(q, f1[i], g1[i], e1[i])
    BY <1>2, <1>5
  <1>7. ASSUME NEW i \in 1 .. m
        PROVE  Item(v[i], f1[i], g1[i], e1[i], f1[i + 1], g1[i + 1], e1[i + 1])
    <2>1. i \in 1 .. m + 1 /\ i + 1 \in 1 .. m + 1 /\ n + i \in 1 .. l /\ n + (i + 1) = (n + i) + 1
      BY <1>1
    <2> HIDE DEF f1, g1, e1
    <2>2. Item(w[n + i], f[n + i], g[n + i], e[n + i], f[(n + i) + 1], g[(n + i) + 1], e[(n + i) + 1])
      BY <1>3, <2>1
    <2> QED
      BY <1>4, <1>5, <2>1, <2>2
  <1>8. Trace(q, v, f1, g1, e1)
    <2>1. DOMAIN f1 = 1 .. m + 1 /\ DOMAIN g1 = 1 .. m + 1 /\ DOMAIN e1 = 1 .. m + 1
      OBVIOUS
    <2> HIDE DEF f1, g1, e1
    <2> QED
      BY <1>0, <1>6, <1>7, <2>1 DEF Trace
  <1>9. /\ f1[1] = f[n + 1] /\ g1[1] = g[n + 1] /\ e1[1] = e[n + 1]
        /\ f1[m + 1] = f[l + 1] /\ g1[m + 1] = g[l + 1] /\ e1[m + 1] = e[l + 1]
    <2>1. 1 \in 1 .. m + 1 /\ m + 1 \in 1 .. m + 1 /\ n + (m + 1) = l + 1
      BY <1>1
    <2> HIDE DEF f1, g1, e1
    <2> QED
      BY <1>5, <2>1
  <1> HIDE DEF f1, g1, e1
  <1> QED
    BY <1>0, <1>8, <1>9 DEF Traced


\* v is w with n more items, and h1, h2 and h3 say what these do.
Extended(w, n, v) == Len(v) = Len(w) + n /\ \A i \in 1 .. Len(w) : v[i] = w[i]
Continues(q, w, n, v, h1, h2, h3) ==
    /\ \A i \in 1 .. n : Point(q, h1[i], h2[i], h3[i])
    /\ \A i \in 1 .. n : Item(v[Len(w) + i], h1[i - 1], h2[i - 1], h3[i - 1], h1[i], h2[i], h3[i])

\* v has a trace that starts as f, g and e do, and ends with a, b and c.
TracedTo(q, v, f, g, e, a, b, c) ==
    \E f1, g1, e1 :
        /\ Trace(q, v, f1, g1, e1)
        /\ f1[1] = f[1] /\ g1[1] = g[1] /\ e1[1] = e[1]
        /\ f1[Len(v) + 1] = a /\ g1[Len(v) + 1] = b /\ e1[Len(v) + 1] = c

\* Adding n items at the back.
LEMMA TraceBack ==
    ASSUME NEW q, NEW w, NEW f, NEW g, NEW e, Trace(q, w, f, g, e), Len(w) \in Nat,
           NEW n \in Nat, NEW v, Extended(w, n, v), NEW h1, NEW h2, NEW h3,
           h1[0] = f[Len(w) + 1] /\ h2[0] = g[Len(w) + 1] /\ h3[0] = e[Len(w) + 1],
           Continues(q, w, n, v, h1, h2, h3)
    PROVE  TracedTo(q, v, f, g, e, h1[n], h2[n], h3[n])
  <1> DEFINE l == Len(w)
             m == Len(v)
             f1 == [i \in 1 .. m + 1 |-> IF i <= l + 1 THEN f[i] ELSE h1[i - (l + 1)]]
             g1 == [i \in 1 .. m + 1 |-> IF i <= l + 1 THEN g[i] ELSE h2[i - (l + 1)]]
             e1 == [i \in 1 .. m + 1 |-> IF i <= l + 1 THEN e[i] ELSE h3[i - (l + 1)]]
  <1>0. Len(w) = l /\ Len(v) = m
    OBVIOUS
  <1>1. l \in Nat /\ m = l + n /\ m \in Nat
    BY DEF Extended
  <1>2. \A i \in 1 .. l + 1 : Point(q, f[i], g[i], e[i])
    BY DEF Trace
  <1>3. \A i \in 1 .. l : Item(w[i], f[i], g[i], e[i], f[i + 1], g[i + 1], e[i + 1])
    BY DEF Trace
  <1>4. /\ \A i \in 1 .. l : v[i] = w[i]
        /\ h1[0] = f[l + 1] /\ h2[0] = g[l + 1] /\ h3[0] = e[l + 1]
        /\ \A i \in 1 .. n : Item(v[l + i], h1[i - 1], h2[i - 1], h3[i - 1], h1[i], h2[i], h3[i])
        /\ \A i \in 1 .. n : Point(q, h1[i], h2[i], h3[i])
    BY DEF Extended, Continues
  <1> HIDE DEF l, m
  <1>5. ASSUME NEW i \in 1 .. l + 1
        PROVE  f1[i] = f[i] /\ g1[i] = g[i] /\ e1[i] = e[i] /\ i \in 1 .. m + 1
    BY <1>1
  <1>6. ASSUME NEW i \in 0 .. n
        PROVE  f1[l + 1 + i] = h1[i] /\ g1[l + 1 + i] = h2[i] /\ e1[l + 1 + i] = h3[i]
    <2>1. CASE i = 0
      <3>1. l + 1 + i = l + 1 /\ l + 1 \in 1 .. l + 1
        BY <1>1, <2>1
      <3>2. f1[l + 1] = f[l + 1] /\ g1[l + 1] = g[l + 1] /\ e1[l + 1] = e[l + 1]
        BY <3>1, <1>5
      <3> QED
        BY <1>4, <2>1, <3>1, <3>2
    <2>2. CASE i # 0
      <3>1. l + 1 + i \in 1 .. m + 1 /\ ~(l + 1 + i <= l + 1) /\ (l + 1 + i) - (l + 1) = i
        BY <1>1, <2>2
      <3> QED
        BY <3>1
    <2> QED
      BY <2>1, <2>2
  <1>7. DOMAIN f1 = 1 .. m + 1 /\ DOMAIN g1 = 1 .. m + 1 /\ DOMAIN e1 = 1 .. m + 1
    OBVIOUS
  <1> HIDE DEF f1, g1, e1
  <1>8. ASSUME NEW i \in 1 .. m + 1
        PROVE  Point(q, f1[i], g1[i], e1[i])
    <2>1. CASE i <= l + 1
      <3>1. i \in 1 .. l + 1
        BY <1>1, <2>1
      <3> QED
        BY <1>2, <1>5, <3>1
    <2>2. CASE ~(i <= l + 1)
      <3>1. PICK k \in 1 .. n : i = l + 1 + k
        <4>1. i - (l + 1) \in 1 .. n /\ i = l + 1 + (i - (l + 1))
          BY <1>1, <2>2
        <4> QED
          BY <4>1
      <3>2. k \in 0 .. n
        OBVIOUS
      <3> QED
        BY <1>4, <1>6, <3>1, <3>2
    <2> QED
      BY <2>1, <2>2
  <1>9. ASSUME NEW i \in 1 .. m
        PROVE  Item(v[i], f1[i], g1[i], e1[i], f1[i + 1], g1[i + 1], e1[i + 1])
    <2>1. CASE i <= l
      <3>1. i \in 1 .. l /\ i \in 1 .. l + 1 /\ i + 1 \in 1 .. l + 1
        BY <1>1, <2>1
      <3> QED
        BY <1>3, <1>4, <1>5, <3>1
    <2>2. CASE ~(i <= l)
      <3>1. PICK k \in 1 .. n : i = l + k
        <4>1. i - l \in 1 .. n /\ i = l + (i - l)
          BY <1>1, <2>2
        <4> QED
          BY <4>1
      <3>2. k \in 0 .. n /\ k - 1 \in 0 .. n /\ i = l + 1 + (k - 1) /\ i + 1 = l + 1 + k
        BY <1>1, <3>1
      <3>3. f1[i] = h1[k - 1] /\ g1[i] = h2[k - 1] /\ e1[i] = h3[k - 1]
        BY <1>6, <3>2
      <3>4. f1[i + 1] = h1[k] /\ g1[i + 1] = h2[k] /\ e1[i + 1] = h3[k]
        BY <1>6, <3>2
      <3>5. Item(v[i], h1[k - 1], h2[k - 1], h3[k - 1], h1[k], h2[k], h3[k])
        BY <1>4, <3>1
      <3> QED
        BY <3>3, <3>4, <3>5
    <2> QED
      BY <2>1, <2>2
  <1>10. Trace(q, v, f1, g1, e1)
    BY <1>0, <1>7, <1>8, <1>9 DEF Trace
  <1>11. f1[1] = f[1] /\ g1[1] = g[1] /\ e1[1] = e[1]
    <2>1. 1 \in 1 .. l + 1
      BY <1>1
    <2> QED
      BY <1>5, <2>1
  <1>12. f1[m + 1] = h1[n] /\ g1[m + 1] = h2[n] /\ e1[m + 1] = h3[n]
    <2>1. n \in 0 .. n /\ m + 1 = l + 1 + n
      BY <1>1
    <2> QED
      BY <1>6, <2>1
  <1> QED
    BY <1>0, <1>10, <1>11, <1>12 DEF TracedTo


\* The least number principle, which makes up for induction ...
LEMMA LeastNumber ==
    ASSUME NEW T, T \subseteq Nat, T # {}
    PROVE  \E x \in T : \A y \in T : x <= y
  <1>1. PICK x \in T : \A y \in T : ~(<<y, x>> \in OpToRel(<, Nat))
    BY NatLessThanWellFounded, WFMin
  <1>2. \A y \in T : ~(y < x)
    BY <1>1 DEF OpToRel
  <1> QED
    BY <1>2

\* ... up to n, for a set.
LEMMA CountUp ==
    ASSUME NEW n \in Nat, NEW T, 0 \in T, \A i \in 1 .. n : i - 1 \in T => i \in T
    PROVE  \A i \in 0 .. n : i \in T
  <1> DEFINE Bad == {i \in 0 .. n : i \notin T}
  <1> SUFFICES ASSUME Bad # {}
               PROVE  FALSE
    OBVIOUS
  <1>1. Bad \subseteq Nat
    OBVIOUS
  <1>2. PICK x \in Bad : \A y \in Bad : x <= y
    <2> HIDE DEF Bad
    <2> QED
      BY <1>1, LeastNumber
  <1>3. x # 0 /\ x \in 0 .. n
    BY <1>2
  <1>4. x - 1 \in 0 .. n /\ ~(x <= x - 1) /\ x \in 1 .. n
    BY <1>3
  <1>5. x - 1 \in T
    BY <1>2, <1>4
  <1> QED
    BY <1>2, <1>4, <1>5

\* From item i on, n bytes one after the other.
Run(w, f, g, e, i, n) ==
    /\ \A j \in 0 .. n : f[i + j] = f[i] + j /\ g[i + j] = g[i] - j /\ e[i + j] = e[i]
    /\ \A j \in 1 .. n : w[i + j - 1].kind = "byte" /\ w[i + j - 1].pos = f[i] + j

\* While bytes are missing in a message, what comes is bytes.
LEMMA TraceRun ==
    ASSUME NEW q, NEW w, NEW f, NEW g, NEW e, Trace(q, w, f, g, e), Len(w) \in Nat,
           NEW i \in 1 .. Len(w) + 1, NEW n \in Nat, n <= g[i], i + n <= Len(w) + 1
    PROVE  Run(w, f, g, e, i, n)
  <1> DEFINE l == Len(w)
             T == {j \in 0 .. n : f[i + j] = f[i] + j /\ g[i + j] = g[i] - j /\ e[i + j] = e[i]}
  <1>1. l \in Nat /\ i \in 1 .. l + 1 /\ i + n <= l + 1
    OBVIOUS
  <1>2. \A k \in 1 .. l + 1 : Point(q, f[k], g[k], e[k])
    BY DEF Trace
  <1>3. \A k \in 1 .. l : Item(w[k], f[k], g[k], e[k], f[k + 1], g[k + 1], e[k + 1])
    BY DEF Trace
  <1> HIDE DEF l
  <1>4. f[i] \in Nat /\ g[i] \in Nat
    BY <1>1, <1>2 DEF Point
  <1>5. 0 \in T
    BY <1>1, <1>4
  <1>6. ASSUME NEW j \in 1 .. n, j - 1 \in T
        PROVE  j \in T /\ w[i + j - 1].kind = "byte" /\ w[i + j - 1].pos = f[i] + j
    <2> DEFINE k == i + (j - 1)
    <2>1. k \in 1 .. l /\ k + 1 = i + j /\ i + j - 1 = k /\ j \in 0 .. n
      BY <1>1
    <2>2. f[k] = f[i] + (j - 1) /\ g[k] = g[i] - (j - 1) /\ e[k] = e[i]
      BY <1>6
    <2> HIDE DEF k
    <2>3. Item(w[k], f[k], g[k], e[k], f[k + 1], g[k + 1], e[k + 1])
      BY <1>3, <2>1
    <2>4. g[k] > 0
      BY <1>4, <2>2
    <2>5. w[k].kind = "byte" /\ w[k].pos = f[k] + 1
          /\ f[k + 1] = f[k] + 1 /\ g[k + 1] = g[k] - 1 /\ e[k + 1] = e[k]
      BY <2>3, <2>4 DEF Item
    <2>6. f[k] + 1 = f[i] + j /\ g[k] - 1 = g[i] - j
      BY <1>4, <2>2
    <2> QED
      BY <2>1, <2>2, <2>5, <2>6
  <1>7. \A j \in 0 .. n : j \in T
    <2>1. \A j \in 1 .. n : j - 1 \in T => j \in T
      BY <1>6
    <2> HIDE DEF T
    <2> QED
      BY <1>5, <2>1, CountUp
  <1>8. \A j \in 1 .. n : j - 1 \in 0 .. n
    OBVIOUS
  <1> QED
    BY <1>6, <1>7, <1>8 DEF Run

\* After the last header there is no other.
LEMMA TraceEnds ==
    ASSUME NEW q, NEW w, NEW f, NEW g, NEW e, Trace(q, w, f, g, e), Len(w) \in Nat,
           NEW i \in 1 .. Len(w) + 1, e[i]
    PROVE  \A k \in i .. Len(w) : w[k].kind # "header"
  <1> DEFINE l == Len(w)
             n == l + 1 - i
             T == {j \in 0 .. n : e[i + j]}
  <1>1. l \in Nat /\ i \in 1 .. l + 1
    OBVIOUS
  <1>2. \A k \in 1 .. l : Item(w[k], f[k], g[k], e[k], f[k + 1], g[k + 1], e[k + 1])
    BY DEF Trace
  <1>0. Len(w) = l
    OBVIOUS
  <1> HIDE DEF l
  <1>3. n \in Nat
    BY <1>1
  <1>4. 0 \in T
    BY <1>1
  <1>5. ASSUME NEW j \in 1 .. n, j - 1 \in T
        PROVE  j \in T
    <2> DEFINE k == i + (j - 1)
    <2>1. k \in 1 .. l /\ k + 1 = i + j /\ j \in 0 .. n
      BY <1>1
    <2>2. e[k]
      BY <1>5
    <2> HIDE DEF k, n
    <2>3. e[k + 1]
      BY <1>2, <2>1, <2>2 DEF Item
    <2> QED
      BY <2>1, <2>3
  <1>6. \A j \in 0 .. n : j \in T
    <2>1. \A j \in 1 .. n : j - 1 \in T => j \in T
      BY <1>5
    <2> HIDE DEF T, n
    <2> QED
      BY <1>3, <1>4, <2>1, CountUp
  <1>7. ASSUME NEW k \in i .. l
        PROVE  w[k].kind # "header"
    <2>1. k - i \in 0 .. n /\ i + (k - i) = k /\ k \in 1 .. l
      BY <1>1
    <2>2. k - i \in T
      BY <1>6, <2>1
    <2>3. e[k]
      BY <2>1, <2>2
    <2> QED
      BY <1>2, <2>1, <2>3 DEF Item
  <1> QED
    BY <1>0, <1>7


-----------------------------------------------------------------------------
(* The invariant says what it should.                                      *)

\* Numbers of the model.
LEMMA TaskNumbers ==
    ASSUME task \in Tasks
    PROVE  /\ BUFFER_SIZE \in Nat \ {0} /\ WireRoom \in Nat \ {0}
           /\ task.basis \in Nat /\ task.blocks \in Nat /\ task.new \in Nat
           /\ task.sig \in Nat \ {0} /\ task.delta \in Nat \ {0}
           /\ \A q : Total(q) \in Nat \ {0}
           /\ \A fn \in Sending \cup Receiving : SourceLen(fn) \in Nat /\ TargetLen(fn) \in Nat
  <1>1. /\ BUFFER_SIZE \in Nat \ {0} /\ WireRoom \in Nat \ {0}
        /\ task.basis \in Nat /\ task.blocks \in Nat /\ task.new \in Nat
        /\ task.sig \in Nat \ {0} /\ task.delta \in Nat \ {0}
    <2>1. /\ {task.basis, task.blocks, task.sig, task.delta, task.new} \subseteq Nat
          /\ task.sig > 0 /\ task.delta > 0
      BY StreamAssumption
    <2>2. BUFFER_SIZE \in Nat \ {0} /\ WireRoom \in Nat \ {0}
      BY StreamAssumption
    <2>3. /\ task.basis \in Nat /\ task.blocks \in Nat /\ task.new \in Nat
          /\ task.sig \in Nat /\ task.delta \in Nat
      BY <2>1
    <2> QED
      BY <2>1, <2>2, <2>3
  <1>2. \A q : Total(q) \in Nat \ {0}
    BY <1>1 DEF Total
  <1>3. ASSUME NEW fn \in Sending \cup Receiving
        PROVE  SourceLen(fn) \in Nat /\ TargetLen(fn) \in Nat
    <2>1. \/ fn = "send_signature" \/ fn = "recv_signature" \/ fn = "send_delta"
          \/ fn = "recv_delta_and_patch_file"
      BY DEF Sending, Receiving
    <2>2. CASE fn = "send_signature"
      BY <1>1, <2>2 DEF SourceLen, TargetLen
    <2>3. CASE fn = "recv_signature"
      BY <1>1, <2>3 DEF SourceLen, TargetLen
    <2>4. CASE fn = "send_delta"
      BY <1>1, <2>4 DEF SourceLen, TargetLen
    <2>5. CASE fn = "recv_delta_and_patch_file"
      BY <1>1, <2>5 DEF SourceLen, TargetLen
    <2> QED
      BY <2>1, <2>2, <2>3, <2>4, <2>5
  <1> QED
    BY <1>1, <1>2, <1>3

\* So it is in the states of the invariant.
LEMMA StreamNumbers ==
    ASSUME StreamInv
    PROVE  /\ BUFFER_SIZE \in Nat \ {0} /\ WireRoom \in Nat \ {0}
           /\ task.basis \in Nat /\ task.blocks \in Nat /\ task.new \in Nat
           /\ task.sig \in Nat \ {0} /\ task.delta \in Nat \ {0}
           /\ \A q : Total(q) \in Nat \ {0}
           /\ \A fn \in Sending \cup Receiving : SourceLen(fn) \in Nat /\ TargetLen(fn) \in Nat
  BY TaskNumbers DEF StreamInv, StreamTypeOK

\* The buffers are what they should be.
LEMMA BuffersHold ==
    ASSUME BufferInv
    PROVE  BuffersIntact
  BY DEF BufferInv, Local, InBuffer, OutBuffer, BuffersIntact, Expected, Held, ExpectedBy, HeldBy,
         OutBufLen, LastBytes

\* A job that has received everything leaves nothing on the wire.
LEMMA NothingLeft ==
    ASSUME StreamInv, BufferInv, NEW p \in Procs, proc[p].fn \in Receiving, proc[p].at = "return"
    PROVE  wire[p] = <<>> /\ GotBy(proc[p]) = Total(p) /\ EndedBy(proc[p])
  <1> DEFINE s == proc[p]
             w == wire[p]
             l == Len(w)
  <1>1. Place(p, s.fn, s.at) /\ ~Gone(p)
    BY WhereIs DEF Statuses
  <1>2. s.fn = IF p = "server" THEN "recv_signature" ELSE "recv_delta_and_patch_file"
    BY <1>1 DEF Place, Statuses, Receiving, Procs
  <1>3. ProcNumbers(s) /\ JobState(s) /\ w \in Seq(Items)
    BY DEF BufferInv, Local, MemoryOK
  <1>4. s.taken = Total(p) /\ s.taken \in Nat /\ s.avail_in \in Nat /\ (p = "server" => s.eof_in)
        /\ s.eof_in \in BOOLEAN
    BY <1>2, <1>3 DEF JobState, ProcNumbers, SourceLen, Total, Receiving
  <1>5. GotBy(s) = s.taken + s.avail_in /\ EndedBy(s) = s.eof_in
    BY <1>4 DEF GotBy, EndedBy, HeldBy
  <1>6. PICK f, g, e : /\ Trace(p, w, f, g, e)
                       /\ f[1] = GotBy(s) /\ e[1] = EndedBy(s)
    BY <1>1 DEF BufferInv, Link, LinkBy
  <1>7. l \in Nat
    BY <1>3, LenProperties
  <1>8. \A i \in 1 .. l + 1 : Point(p, f[i], g[i], e[i])
    BY <1>6 DEF Trace
  <1>9. \A i \in 1 .. l : Item(w[i], f[i], g[i], e[i], f[i + 1], g[i + 1], e[i + 1])
    BY <1>6 DEF Trace
  <1>10. l = 0 => w = <<>>
    BY <1>3, EmptySeq
  <1> HIDE DEF l, w, s
  <1>11. 1 \in 1 .. l + 1
    BY <1>7
  <1>12. f[1] = Total(p) /\ Total(p) \in Nat
    BY <1>4, <1>5, <1>6, <1>8, <1>11 DEF Point
  <1>13. e[1]
    <2>1. p = "server" \/ p = "client"
      BY DEF Procs
    <2> QED
      BY <1>4, <1>5, <1>6, <1>8, <1>11, <1>12, <2>1 DEF Point
  <1>14. l = 0
    <2> SUFFICES ASSUME l # 0
                 PROVE  FALSE
      OBVIOUS
    <2>1. 1 \in 1 .. l /\ 1 + 1 \in 1 .. l + 1
      BY <1>7
    <2>2. f[1 + 1] \in Nat /\ f[1 + 1] <= Total(p)
      BY <1>8, <2>1 DEF Point
    <2>3. f[1 + 1] = f[1] + 1
      BY <1>9, <1>13, <2>1 DEF Item
    <2> QED
      BY <1>12, <2>2, <2>3
  <1> QED
    BY <1>6, <1>10, <1>12, <1>13, <1>14 DEF w, s

\* The messages are in step.
LEMMA MessagesHold ==
    ASSUME StreamInv, BufferInv
    PROVE  MessagesInStep
  <1> SUFFICES ASSUME NEW p \in Procs, ~Gone(p)
               PROVE  LET w == wire[p]
                          heads == {k \in 1 .. Len(w) : w[k].kind = "header"}
                          next(k) == {m \in heads : m > k}
                      IN  /\ \A k \in 1 .. Smaller(Missing(p), Len(w)) : k \notin heads
                          /\ Missing(p) < Len(w) => Missing(p) + 1 \in heads
                          /\ \A k \in heads : /\ w[k].len <= BUFFER_SIZE
                                              /\ w[k].eof => next(k) = {}
                                              /\ \A m \in next(k) : m > k + w[k].len
                          /\ proc[p].fn \in Receiving /\ proc[p].at = "return" => w = <<>>
    BY DEF MessagesInStep
  <1> DEFINE w == wire[p]
             l == Len(w)
             heads == {k \in 1 .. l : w[k].kind = "header"}
             next(k) == {m \in heads : m > k}
             d == Missing(p)
  <1>1. l \in Nat
    BY LenProperties DEF BufferInv, MemoryOK
  <1>2. PICK f, g, e : Trace(p, w, f, g, e) /\ g[1] = d
    BY DEF BufferInv, Link, LinkBy, Missing, MissingBy
  <1>3. \A i \in 1 .. l + 1 : Point(p, f[i], g[i], e[i])
    BY <1>2 DEF Trace
  <1>4. \A i \in 1 .. l : Item(w[i], f[i], g[i], e[i], f[i + 1], g[i + 1], e[i + 1])
    BY <1>2 DEF Trace
  <1>5. \A i \in 1 .. l + 1, n \in Nat : n <= g[i] /\ i + n <= l + 1 =>
          /\ \A j \in 0 .. n : g[i + j] = g[i] - j
          /\ \A j \in 1 .. n : w[i + j - 1].kind = "byte"
    <2> SUFFICES ASSUME NEW i \in 1 .. Len(w) + 1, NEW n \in Nat, n <= g[i], i + n <= Len(w) + 1
                 PROVE  /\ \A j \in 0 .. n : g[i + j] = g[i] - j
                        /\ \A j \in 1 .. n : w[i + j - 1].kind = "byte"
      OBVIOUS
    <2>1. Len(w) \in Nat
      BY <1>1
    <2>2. Trace(p, w, f, g, e)
      BY <1>2
    <2> HIDE DEF w, d, heads
    <2>3. Run(w, f, g, e, i, n)
      BY <2>1, <2>2, TraceRun
    <2> QED
      BY <2>3 DEF Run
  <1>6. \A i \in 1 .. l + 1 : e[i] => \A k \in i .. l : w[k].kind # "header"
    BY <1>1, <1>2, TraceEnds
  <1>7. proc[p].fn \in Receiving /\ proc[p].at = "return" => w = <<>>
    BY NothingLeft
  <1> HIDE DEF w, l, d
  <1>8. 1 \in 1 .. l + 1 /\ d \in Nat
    BY <1>1, <1>2, <1>3 DEF Point
  <1>9. ASSUME NEW k \in 1 .. Smaller(d, l)
        PROVE  k \notin heads
    <2> DEFINE n == Smaller(d, l)
    <2>1. n \in Nat /\ n <= d /\ n <= l
      BY <1>1, <1>8 DEF Smaller
    <2> HIDE DEF n
    <2>2. n <= g[1] /\ 1 + n <= l + 1
      BY <1>1, <1>2, <2>1
    <2>3. \A j \in 1 .. n : w[1 + j - 1].kind = "byte"
      BY <1>5, <1>8, <2>1, <2>2
    <2>4. k \in 1 .. n /\ 1 + k - 1 = k
      BY <2>1 DEF n
    <2>5. w[k].kind = "byte"
      BY <2>3, <2>4
    <2> QED
      BY <2>5
  <1>10. ASSUME d < l
         PROVE  d + 1 \in heads
    <2>1. d <= g[1] /\ 1 + d <= l + 1 /\ d \in 0 .. d /\ 1 + d = d + 1 /\ d + 1 \in 1 .. l
      BY <1>1, <1>2, <1>8, <1>10
    <2>2. g[d + 1] = g[1] - d
      BY <1>5, <1>8, <2>1
    <2>3. g[d + 1] = 0
      BY <1>2, <1>8, <2>2
    <2>4. w[d + 1].kind = "header"
      BY <1>4, <2>1, <2>3 DEF Item
    <2> QED
      BY <2>1, <2>4
  <1>11. ASSUME NEW k \in heads
         PROVE  /\ w[k].len <= BUFFER_SIZE
                /\ w[k].eof => next(k) = {}
                /\ \A m \in next(k) : m > k + w[k].len
    <2>1. k \in 1 .. l /\ k + 1 \in 1 .. l + 1 /\ w[k].kind = "header"
      BY <1>1
    <2>2. w[k].len \in Nat /\ w[k].len <= BUFFER_SIZE /\ g[k + 1] = w[k].len /\ e[k + 1] = w[k].eof
      BY <1>4, <2>1 DEF Item
    <2>3. ASSUME NEW m \in next(k), w[k].eof
          PROVE  FALSE
      <3>1. m \in (k + 1) .. l /\ w[m].kind = "header"
        BY <1>1, <2>1
      <3> QED
        BY <1>6, <2>1, <2>2, <2>3, <3>1
    <2>4. ASSUME NEW m \in next(k), ~(m > k + w[k].len)
          PROVE  FALSE
      <3> DEFINE n == m - k
      <3>1. m \in 1 .. l /\ m > k /\ w[m].kind = "header"
        OBVIOUS
      <3>2. n \in Nat /\ n \in 1 .. n /\ n <= w[k].len /\ (k + 1) + n <= l + 1 /\ (k + 1) + n - 1 = m
        BY <1>1, <2>1, <2>2, <2>4, <3>1
      <3> HIDE DEF n
      <3>3. w[(k + 1) + n - 1].kind = "byte"
        BY <1>5, <2>1, <2>2, <3>2
      <3> QED
        BY <3>1, <3>2, <3>3
    <2> QED
      BY <2>2, <2>3, <2>4
  <1> QED
    BY <1>7, <1>9, <1>10, <1>11 DEF w, l, d


-----------------------------------------------------------------------------
(* Steps: what has to be shown of one.                                     *)

\* p's input buffer becomes b.
Holds(p, b) ==
    /\ DOMAIN b = 0 .. 2 * BUFFER_SIZE - 1
    /\ DOMAIN in_buf' = Procs /\ in_buf'[p] = b /\ \A q \in Procs \ {p} : in_buf'[q] = in_buf[q]

\* The invariant speaks of the task, which stays what it is.
LEMMA SameTask ==
    ASSUME task' = task
    PROVE  /\ \A s, b : Local(s, b)' <=> Local(s, b)
           /\ \A q, w, s1, s2 : Link(q, w, s1, s2)' <=> Link(q, w, s1, s2)
  <1>1. \A fn : TargetLen(fn)' = TargetLen(fn) /\ SourceLen(fn)' = SourceLen(fn)
    BY DEF TargetLen, SourceLen
  <1>2. \A s, b : Local(s, b)' <=> Local(s, b)
    BY <1>1 DEF Local, ProcNumbers, InBuffer, OutBuffer, JobState, SendState, RecvState, OutBufLen,
                HeldBy, ExpectedBy, LastBytes
  <1>3. \A q, w, f, g, e : Trace(q, w, f, g, e)' <=> Trace(q, w, f, g, e)
    BY DEF Trace, Point, Item, Total
  <1>4. \A s : GotBy(s)' = GotBy(s) /\ SentBy(s)' = SentBy(s)
    BY DEF GotBy, SentBy, HeldBy, OutBufLen
  <1>5. \A q, w, s1, s2 : Link(q, w, s1, s2)' <=> Link(q, w, s1, s2)
    BY <1>3, <1>4 DEF Link, LinkBy, MissingBy, EndedBy, OwedBy, SentEof, OutBufLen
  <1> QED
    BY <1>2, <1>5

\* A step of p: what it knows by itself, and the wires to it and from it.
LEMMA BufferStep ==
    ASSUME StreamInv, BufferInv, NEW p \in Procs, NEW r, Goes(p, r), NEW b, Holds(p, b),
           task' = task, DOMAIN wire' = Procs, \A q \in Procs : wire'[q] \in Seq(Items),
           Local(r, b),
           r.fn # "exit" => Link(p, wire'[p], r, proc[Peer(p)]),
           ~Gone(Peer(p)) => Link(Peer(p), wire'[Peer(p)], proc[Peer(p)], r)
    PROVE  BufferInv'
  <1>1. DOMAIN proc' = Procs /\ proc'[p] = r /\ \A q \in Procs \ {p} : proc'[q] = proc[q]
    BY GoesFacts DEF StreamInv
  <1>2. Peer(p) \in Procs \ {p} /\ Peer(Peer(p)) = p /\ Procs = {p, Peer(p)}
    BY DEF Peer, Procs
  <1>3. MemoryOK'
    BY DEF MemoryOK, Holds, BufferInv
  <1>4. \A q \in Procs : Local(proc'[q], in_buf'[q])
    BY <1>1, <1>2 DEF Holds, BufferInv
  <1>5. (\A q \in Procs : Local(proc[q], in_buf[q]))'
    BY <1>4, SameTask
  <1>6. ASSUME NEW q \in Procs, proc'[q].fn # "exit"
        PROVE  Link(q, wire'[q], proc'[q], proc'[Peer(q)])
    <2>1. CASE q = p
      BY <1>1, <1>2, <1>6, <2>1
    <2>2. CASE q = Peer(p)
      BY <1>1, <1>2, <1>6, <2>2 DEF Gone
    <2> QED
      BY <1>2, <2>1, <2>2
  <1>7. (\A q \in Procs : ~Gone(q) => Link(q, wire[q], proc[q], proc[Peer(q)]))'
    BY <1>6, SameTask DEF Gone, Peer
  <1> QED
    BY <1>3, <1>5, <1>7 DEF BufferInv

\* The wires see the same of r as of s.
Alike(r, s) ==
    /\ GotBy(r) = GotBy(s) /\ MissingBy(r) = MissingBy(s) /\ EndedBy(r) = EndedBy(s)
    /\ SentBy(r) = SentBy(s) /\ OwedBy(r) = OwedBy(s) /\ SentEof(r) = SentEof(s)

\* A step of which the wires see nothing.
LEMMA QuietStep ==
    ASSUME StreamInv, BufferInv, NEW p \in Procs, NEW r, Goes(p, r), NEW b, Holds(p, b),
           task' = task, wire' = wire, ~Gone(p), Local(r, b), r.fn = "exit" \/ Alike(r, proc[p])
    PROVE  BufferInv'
  <1>1. Peer(p) \in Procs /\ Peer(Peer(p)) = p
    BY DEF Peer, Procs
  <1>2. r.fn # "exit" => /\ GotBy(r) = GotBy(proc[p]) /\ MissingBy(r) = MissingBy(proc[p])
                         /\ EndedBy(r) = EndedBy(proc[p]) /\ SentBy(r) = SentBy(proc[p])
                         /\ OwedBy(r) = OwedBy(proc[p]) /\ SentEof(r) = SentEof(proc[p])
    BY DEF Alike
  <1>3. r.fn # "exit" => Link(p, wire'[p], r, proc[Peer(p)])
    BY <1>2 DEF BufferInv, Link, LinkBy
  <1>4. ~Gone(Peer(p)) => Link(Peer(p), wire'[Peer(p)], proc[Peer(p)], r)
    BY <1>1, <1>2 DEF BufferInv, Link, LinkBy, Gone
  <1>5. DOMAIN wire' = Procs /\ \A q \in Procs : wire'[q] \in Seq(Items)
    BY DEF BufferInv, MemoryOK
  <1> QED
    BY <1>3, <1>4, <1>5, BufferStep

\* A process that gives up.
LEMMA GoneStep ==
    ASSUME StreamInv, BufferInv, NEW p \in Procs, ~Gone(p), NEW status, Exits(p, status),
           task' = task, wire' = wire, in_buf' = in_buf \/ \E b : Holds(p, b)
    PROVE  BufferInv'
  <1> DEFINE r == [proc[p] EXCEPT !.fn = "exit", !.at = status]
  <1>1. r.fn = "exit"
    BY DEF StreamInv, StreamTypeOK, ProcFields
  <1>2. Goes(p, r)
    BY DEF Exits
  <1> HIDE DEF r
  <1>3. PICK b : Holds(p, b)
    BY DEF BufferInv, MemoryOK, Holds
  <1>4. Local(r, b)
    BY <1>1 DEF Local, Sending, Receiving
  <1> QED
    BY <1>1, <1>2, <1>3, <1>4, QuietStep


-----------------------------------------------------------------------------
(* Steps of which the wires see nothing.                                   *)

\* Buffers that stay as they are.
LEMMA SameBuffers ==
    ASSUME BufferInv, in_buf' = in_buf, NEW p \in Procs
    PROVE  Holds(p, in_buf[p])
  BY DEF BufferInv, MemoryOK, Holds

\* A process at the start of a function.
LEMMA EnterLocal ==
    ASSUME StreamInv, NEW fn \in Sending \cup Receiving, NEW at \in {"open", "fill"}, NEW b
    PROVE  /\ Local(Enter(fn, at), b)
           /\ MissingBy(Enter(fn, at)) = 0 /\ OwedBy(Enter(fn, at)) = 0
           /\ GotBy(Enter(fn, at)) = IF fn = "send_delta" THEN task.sig ELSE 0
           /\ EndedBy(Enter(fn, at)) = (fn = "send_delta")
           /\ SentBy(Enter(fn, at)) = IF fn = "recv_delta_and_patch_file" THEN task.sig ELSE 0
           /\ SentEof(Enter(fn, at)) = (fn = "recv_delta_and_patch_file")
  <1> DEFINE r == Enter(fn, at)
  <1>1. /\ r.fn = fn /\ r.at = at /\ r.next_in = 0 /\ r.avail_in = 0 /\ r.eof_in = FALSE
        /\ r.out_buf = <<>> /\ r.taken = 0 /\ r.put = 0 /\ r.res = "RS_BLOCKED" /\ r.len = 0
        /\ r.n_bytes = 0 /\ r.pos = 0
    BY DEF Enter
  <1> HIDE DEF r
  <1>2. /\ TargetLen(fn) \in Nat /\ SourceLen(fn) \in Nat /\ BUFFER_SIZE \in Nat /\ task.delta \in Nat \ {0}
    BY StreamNumbers
  <1>3. OutBufLen(r) = 0 /\ <<>> \in Seq(Nat) /\ LastBytes(0, 0) = <<>>
    BY <1>1 DEF OutBufLen, LastBytes
  <1>4. ProcNumbers(r)
    <2>1. r.eof_in \in BOOLEAN
      BY <1>1
    <2>2. /\ r.next_in \in Nat /\ r.avail_in \in Nat /\ r.taken \in Nat /\ r.put \in Nat
          /\ r.len \in Nat /\ r.n_bytes \in Nat /\ r.pos \in Nat
      BY <1>1
    <2> QED
      BY <1>1, <1>3, <2>1, <2>2 DEF ProcNumbers
  <1>5. InBuffer(r, b)
    BY <1>1, <1>2 DEF InBuffer, HeldBy, ExpectedBy
  <1>6. OutBuffer(r) /\ JobState(r)
    BY <1>1, <1>2, <1>3 DEF OutBuffer, JobState
  <1>7. SendState(r) /\ RecvState(r)
    BY <1>1, <1>2, <1>3 DEF SendState, RecvState
  <1>8. Local(r, b)
    BY <1>4, <1>5, <1>6, <1>7 DEF Local
  <1>9. /\ MissingBy(r) = 0 /\ OwedBy(r) = 0
        /\ EndedBy(r) = (fn = "send_delta") /\ SentEof(r) = (fn = "recv_delta_and_patch_file")
    BY <1>1 DEF MissingBy, OwedBy, EndedBy, SentEof, Sending, Receiving
  <1>10. /\ GotBy(r) = IF fn = "send_delta" THEN task.sig ELSE 0
         /\ SentBy(r) = IF fn = "recv_delta_and_patch_file" THEN task.sig ELSE 0
    BY <1>1, <1>3 DEF GotBy, SentBy, HeldBy, Sending, Receiving
  <1> QED
    BY <1>8, <1>9, <1>10 DEF r

\* Nothing sent and nothing received.
Fresh(s) ==
    /\ GotBy(s) = 0 /\ MissingBy(s) = 0 /\ EndedBy(s) = FALSE
    /\ SentBy(s) = 0 /\ OwedBy(s) = 0 /\ SentEof(s) = FALSE

\* A process that has not begun.
LEMMA NotBegun ==
    ASSUME NEW s, s.fn \in {"connect_to_server", "accept_connection"},
           s.at \in {"connect", "bind", "accept"}, NEW b
    PROVE  Local(s, b) /\ Fresh(s)
  BY DEF Fresh, Local, GotBy, MissingBy, EndedBy, SentBy, OwedBy, SentEof, Sending, Receiving

\* connect_to_server and accept_connection.
LEMMA ConnectBuffers ==
    ASSUME StreamInv, BufferInv, Listen \/ Connect \/ Accept
    PROVE  BufferInv'
  <1>1. /\ task' = task /\ wire' = wire /\ in_buf' = in_buf
    BY DEF Listen, Connect, Accept
  <1>2. "client" \in Procs /\ "server" \in Procs
    BY DEF Procs
  <1>3. CASE Exits("client", "EXIT_FAILURE") /\ ~Gone("client")
    BY <1>1, <1>2, <1>3, GoneStep
  <1>4. CASE Exits("server", "EXIT_FAILURE") /\ ~Gone("server")
    BY <1>1, <1>2, <1>4, GoneStep
  <1>5. CASE Listen
    <2> DEFINE s == proc["server"]
               r == [s EXCEPT !.at = "accept"]
    <2>1. s.fn = "accept_connection" /\ s.at = "bind" /\ ~Gone("server")
      BY <1>5 DEF Listen, Gone
    <2>2. r.fn = s.fn /\ r.at = "accept"
      BY <1>2, WhereIs DEF ProcFields
    <2>3. Goes("server", r) \/ Exits("server", "EXIT_FAILURE")
      BY <1>5 DEF Listen
    <2> HIDE DEF r
    <2>4. Local(r, in_buf["server"]) /\ Fresh(r) /\ Fresh(s)
      BY <2>1, <2>2, NotBegun
    <2>5. Alike(r, s)
      BY <2>4 DEF Alike, Fresh
    <2> QED
      BY <1>1, <1>2, <1>4, <2>1, <2>3, <2>4, <2>5, SameBuffers, QuietStep
  <1>6. CASE Connect
    <2> DEFINE s == proc["client"]
               r == Enter("send_signature", "open")
    <2>1. s.fn = "connect_to_server" /\ s.at = "connect" /\ ~Gone("client")
      BY <1>2, <1>6, WhereIs DEF Connect, Gone, Place
    <2>2. Goes("client", r) \/ Exits("client", "EXIT_FAILURE")
      BY <1>6 DEF Connect
    <2>3. Local(r, in_buf["client"]) /\ Fresh(r)
      BY EnterLocal DEF Fresh, Sending, Receiving
    <2> HIDE DEF r
    <2>4. Fresh(s)
      BY <2>1, NotBegun
    <2>5. Alike(r, s)
      BY <2>3, <2>4 DEF Alike, Fresh
    <2> QED
      BY <1>1, <1>2, <1>3, <2>1, <2>2, <2>3, <2>5, SameBuffers, QuietStep
  <1>7. CASE Accept
    <2> DEFINE s == proc["server"]
               r == Enter("recv_signature", "fill")
    <2>1. s.fn = "accept_connection" /\ s.at = "accept" /\ ~Gone("server")
      BY <1>2, <1>7, WhereIs DEF Accept, Gone, Place, Statuses
    <2>2. Goes("server", r) \/ Exits("server", "EXIT_FAILURE")
      BY <1>7 DEF Accept
    <2>3. Local(r, in_buf["server"]) /\ Fresh(r)
      BY EnterLocal DEF Fresh, Sending, Receiving
    <2> HIDE DEF r
    <2>4. Fresh(s)
      BY <2>1, NotBegun
    <2>5. Alike(r, s)
      BY <2>3, <2>4 DEF Alike, Fresh
    <2> QED
      BY <1>1, <1>2, <1>4, <2>1, <2>2, <2>3, <2>5, SameBuffers, QuietStep
  <1> QED
    BY <1>5, <1>6, <1>7

\* From one place to the next without doing anything.
LEMMA WalkBuffers ==
    ASSUME StreamInv, BufferInv, NEW p \in Procs, ~Gone(p), NEW at,
           Goes(p, [proc[p] EXCEPT !.at = at]),
           \/ proc[p].at \in {"open", "fill"} /\ at \in {"fill", "iter"}
           \/ proc[p].at = "return" /\ at = "rename" /\ proc[p].fn \in Receiving,
           task' = task, wire' = wire, in_buf' = in_buf
    PROVE  BufferInv'
  <1> DEFINE s == proc[p]
             r == [s EXCEPT !.at = at]
             b == in_buf[p]
  <1>1. /\ r.fn = s.fn /\ r.at = at /\ r.next_in = s.next_in /\ r.avail_in = s.avail_in
        /\ r.eof_in = s.eof_in /\ r.out_buf = s.out_buf /\ r.taken = s.taken /\ r.put = s.put
        /\ r.res = s.res /\ r.len = s.len /\ r.n_bytes = s.n_bytes /\ r.pos = s.pos
    BY WhereIs DEF ProcFields
  <1>2. Local(s, b) /\ Goes(p, r) /\ Holds(p, b)
    BY SameBuffers DEF BufferInv
  <1>3. s.fn \in Sending \cup Receiving
    BY WhereIs DEF Place, Statuses, Sending, Receiving
  <1>0. s.at = proc[p].at /\ s.fn = proc[p].fn
    OBVIOUS
  <1> HIDE DEF r, b, s
  <1>4. OutBufLen(r) = OutBufLen(s) /\ HeldBy(r) = HeldBy(s) /\ ExpectedBy(r) = ExpectedBy(s)
    BY <1>0, <1>1 DEF OutBufLen, HeldBy, ExpectedBy
  <1>5. ProcNumbers(r) /\ InBuffer(r, b)
    BY <1>1, <1>2, <1>3, <1>4 DEF Local, ProcNumbers, InBuffer
  <1>6. OutBuffer(r) /\ JobState(r)
    BY <1>0, <1>1, <1>2, <1>3, <1>4 DEF Local, OutBuffer, JobState
  <1>7. SendState(r) /\ RecvState(r)
    BY <1>0, <1>1, <1>2, <1>3, <1>4 DEF Local, SendState, RecvState
  <1>8. Local(r, b)
    BY <1>5, <1>6, <1>7 DEF Local
  <1>9. Alike(r, s)
    BY <1>0, <1>1, <1>2, <1>3, <1>4
       DEF Alike, GotBy, MissingBy, EndedBy, SentBy, OwedBy, SentEof, Receiving, Sending
  <1> QED
    BY <1>2, <1>8, <1>9, QuietStep DEF s


\* The start of a function, and an input buffer that is not filled.
LEMMA OpenBuffers ==
    ASSUME StreamInv, BufferInv, NEW p \in Procs, Open(p) \/ FillNothing(p)
    PROVE  BufferInv'
  <1>1. proc[p].at \in {"open", "fill"} /\ task' = task /\ wire' = wire /\ in_buf' = in_buf
    BY DEF Open, FillNothing
  <1>2. ~Gone(p)
    BY <1>1, WhereIs DEF Statuses
  <1>3. CASE Open(p)
    BY <1>1, <1>2, <1>3, WalkBuffers, GoneStep DEF Open
  <1>4. CASE FillNothing(p)
    BY <1>1, <1>2, <1>4, WalkBuffers DEF FillNothing
  <1> QED
    BY <1>3, <1>4

\* Failures, and the end of the client.
LEMMA FailBuffers ==
    ASSUME StreamInv, BufferInv, NEW p \in Procs, RecvFails(p) \/ IterFails(p) \/ SendFails(p)
    PROVE  BufferInv'
  <1>1. ~Gone(p)
    BY WhereIs DEF RecvFails, IterFails, SendFails, Statuses
  <1>2. Exits(p, "EXIT_FAILURE") /\ task' = task /\ wire' = wire /\ in_buf' = in_buf
    BY DEF RecvFails, IterFails, SendFails
  <1> QED
    BY <1>1, <1>2, GoneStep

\* The end of recv_delta_and_patch_file.
LEMMA CloseBuffers ==
    ASSUME StreamInv, BufferInv, CloseNew \/ Rename
    PROVE  BufferInv'
  <1>1. /\ proc["client"].at \in {"return", "rename"} /\ "client" \in Procs
        /\ task' = task /\ wire' = wire /\ in_buf' = in_buf
    BY DEF CloseNew, Rename, Procs
  <1>2. ~Gone("client")
    BY <1>1, WhereIs DEF Statuses
  <1>3. \/ \E status : Exits("client", status)
        \/ /\ Goes("client", [proc["client"] EXCEPT !.at = "rename"])
           /\ proc["client"].at = "return" /\ proc["client"].fn \in Receiving
    BY DEF CloseNew, Rename, Receiving
  <1> QED
    BY <1>1, <1>2, <1>3, WalkBuffers, GoneStep

\* The output buffer is emptied.
LEMMA DrainedLocal ==
    ASSUME StreamInv, NEW s, NEW b, Local(s, b), DOMAIN s = ProcFields, s.fn \in Sending \cup Receiving,
           s.at \in {"send_header", "send_payload", "fwrite"}
    PROVE  Local(Drained(s), b)
  <1> DEFINE r == Drained(s)
  <1>1. /\ r.fn = s.fn /\ r.at = (IF s.res = "RS_DONE" THEN "return" ELSE "fill")
        /\ r.next_in = s.next_in /\ r.avail_in = s.avail_in
        /\ r.eof_in = s.eof_in /\ r.out_buf = <<>> /\ r.taken = s.taken /\ r.put = s.put
        /\ r.res = s.res /\ r.len = s.len /\ r.n_bytes = s.n_bytes /\ r.pos = s.pos
    BY DEF Drained, ProcFields
  <1> HIDE DEF r
  <1>2. ProcNumbers(s) /\ InBuffer(s, b) /\ OutBuffer(s) /\ JobState(s) /\ SendState(s)
    BY DEF Local
  <1>3. r.at \notin {"open", "recv_header", "recv_payload", "iter", "rename", "send_header", "send_payload",
                     "fwrite"}
        /\ (r.at = "return" => s.res = "RS_DONE") /\ (r.at = "fill" => s.res = "RS_BLOCKED")
    BY <1>1, <1>2 DEF ProcNumbers
  <1>4. OutBufLen(r) = 0 /\ HeldBy(r) = HeldBy(s) /\ ExpectedBy(r) = ExpectedBy(s)
        /\ <<>> \in Seq(Nat)
    BY <1>1, <1>3 DEF OutBufLen, HeldBy, ExpectedBy
  <1>5. ProcNumbers(r) /\ InBuffer(r, b)
    BY <1>1, <1>2, <1>4 DEF ProcNumbers, InBuffer
  <1>6. OutBuffer(r)
    <2>1. LastBytes(0, r.put) = <<>>
      BY DEF LastBytes
    <2>2. BUFFER_SIZE \in Nat /\ 0 <= BUFFER_SIZE /\ s.put \in Nat /\ 0 <= s.put
      BY <1>2, StreamNumbers DEF ProcNumbers
    <2> QED
      BY <1>1, <1>2, <1>4, <2>1, <2>2 DEF OutBuffer
  <1>7. JobState(r)
    BY <1>1, <1>2, <1>3 DEF JobState
  <1>8. SendState(r) /\ RecvState(r)
    BY <1>1, <1>2, <1>3 DEF SendState, RecvState
  <1> QED
    BY <1>5, <1>6, <1>7, <1>8 DEF Local, r

\* fwrite.
LEMMA WriteBuffers ==
    ASSUME StreamInv, BufferInv, WriteNew
    PROVE  BufferInv'
  <1> DEFINE s == proc["client"]
             r == Drained(s)
             b == in_buf["client"]
  <1>1. /\ s.at = "fwrite" /\ "client" \in Procs /\ task' = task /\ wire' = wire /\ in_buf' = in_buf
    BY DEF WriteNew, Procs
  <1>2. ~Gone("client") /\ DOMAIN s = ProcFields /\ s.fn = "recv_delta_and_patch_file"
    BY <1>1, WhereIs DEF Statuses, Place
  <1>3. CASE Exits("client", "EXIT_FAILURE")
    BY <1>1, <1>2, <1>3, GoneStep
  <1>4. CASE Goes("client", r)
    <2>1. s.fn \in Sending \cup Receiving /\ Local(s, b)
      BY <1>1, <1>2 DEF BufferInv, Receiving
    <2>2. Local(r, b)
      BY <1>1, <1>2, <2>1, DrainedLocal
    <2>3. r.fn = s.fn /\ r.at \in {"return", "fill"} /\ r.taken = s.taken /\ r.avail_in = s.avail_in
          /\ r.eof_in = s.eof_in
      BY <1>2 DEF Drained, ProcFields
    <2> HIDE DEF r
    <2>4. Alike(r, s)
      BY <1>1, <1>2, <2>3
         DEF Alike, GotBy, MissingBy, EndedBy, SentBy, OwedBy, SentEof, HeldBy, Sending
    <2> QED
      BY <1>1, <1>2, <1>4, <2>2, <2>4, SameBuffers, QuietStep
  <1> QED
    BY <1>3, <1>4 DEF WriteNew

\* From one function to the next: the client has sent all of the signature, and the
\* server has received it.
LEMMA ReturnBuffers ==
    ASSUME StreamInv, BufferInv, NEW p \in Procs, Return(p)
    PROVE  BufferInv'
  <1> DEFINE s == proc[p]
             b == in_buf[p]
  <1>1. s.at = "return" /\ task' = task /\ wire' = wire /\ in_buf' = in_buf
    BY DEF Return
  <1>2. ~Gone(p) /\ Place(p, s.fn, s.at)
    BY <1>1, WhereIs DEF Statuses
  <1>3. \/ s.fn = "send_signature" /\ p = "client" /\ Goes(p, Enter("recv_delta_and_patch_file", "open"))
        \/ s.fn = "recv_signature" /\ p = "server" /\ Goes(p, Enter("send_delta", "open"))
        \/ s.fn = "send_delta" /\ Exits(p, "EXIT_SUCCESS")
    BY <1>1, <1>2 DEF Return, Place, Statuses
  <1>4. CASE s.fn = "send_signature" /\ p = "client" /\ Goes(p, Enter("recv_delta_and_patch_file", "open"))
    <2> DEFINE r == Enter("recv_delta_and_patch_file", "open")
    <2>1. /\ Local(r, b) /\ MissingBy(r) = 0 /\ OwedBy(r) = 0 /\ GotBy(r) = 0 /\ EndedBy(r) = FALSE
          /\ SentBy(r) = task.sig /\ SentEof(r) = TRUE
      BY EnterLocal DEF Sending, Receiving
    <2> HIDE DEF r
    <2>2. OutBuffer(s) /\ JobState(s) /\ ProcNumbers(s) /\ task.sig \in Nat
      BY <1>4, StreamNumbers DEF BufferInv, Local, Sending
    <2>3. s.res = "RS_DONE" /\ s.put = task.sig /\ OutBufLen(s) = 0
      BY <1>1, <1>4, <2>2 DEF JobState, OutBuffer, TargetLen, OutBufLen
    <2>4. MissingBy(s) = 0 /\ OwedBy(s) = 0 /\ GotBy(s) = 0 /\ EndedBy(s) = FALSE
          /\ SentBy(s) = task.sig /\ SentEof(s) = TRUE
      BY <1>1, <1>4, <2>2, <2>3 DEF MissingBy, OwedBy, GotBy, EndedBy, SentBy, SentEof, Sending, Receiving
    <2>5. Alike(r, s)
      BY <2>1, <2>4 DEF Alike
    <2>6. Goes(p, r)
      BY <1>4 DEF r
    <2> QED
      BY <1>1, <1>2, <2>1, <2>5, <2>6, SameBuffers, QuietStep
  <1>5. CASE s.fn = "recv_signature" /\ p = "server" /\ Goes(p, Enter("send_delta", "open"))
    <2> DEFINE r == Enter("send_delta", "open")
    <2>1. /\ Local(r, b) /\ MissingBy(r) = 0 /\ OwedBy(r) = 0 /\ GotBy(r) = task.sig /\ EndedBy(r) = TRUE
          /\ SentBy(r) = 0 /\ SentEof(r) = FALSE
      BY EnterLocal DEF Sending, Receiving
    <2> HIDE DEF r
    <2>2. GotBy(s) = task.sig /\ EndedBy(s)
      BY <1>1, <1>5, NothingLeft DEF Total, Receiving
    <2>3. s.eof_in \in BOOLEAN
      BY <1>5 DEF BufferInv, Local, ProcNumbers, Receiving
    <2>4. MissingBy(s) = 0 /\ OwedBy(s) = 0 /\ EndedBy(s) = TRUE
          /\ SentBy(s) = 0 /\ SentEof(s) = FALSE
      BY <1>1, <1>5, <2>2, <2>3 DEF MissingBy, OwedBy, EndedBy, SentBy, SentEof, Sending, Receiving
    <2>5. Alike(r, s)
      BY <2>1, <2>2, <2>4 DEF Alike
    <2>6. Goes(p, r)
      BY <1>5 DEF r
    <2> QED
      BY <1>1, <1>2, <2>1, <2>5, <2>6, SameBuffers, QuietStep
  <1>6. CASE s.fn = "send_delta" /\ Exits(p, "EXIT_SUCCESS")
    BY <1>1, <1>2, <1>6, GoneStep
  <1> QED
    BY <1>3, <1>4, <1>5, <1>6


-----------------------------------------------------------------------------
(* Filling the input buffer.                                               *)

\* What is left, moved to the front.
LEMMA MovedFacts ==
    ASSUME StreamInv, BufferInv, NEW p \in Procs, proc[p].fn \in Sending \cup Receiving,
           proc[p].at = "fill"
    PROVE  /\ DOMAIN Moved(p) = 0 .. 2 * BUFFER_SIZE - 1
           /\ proc[p].avail_in \in Nat /\ proc[p].avail_in <= 2 * BUFFER_SIZE
           /\ \A k \in 0 .. proc[p].avail_in - 1 : Moved(p)[k] = proc[p].taken + k + 1
  <1> DEFINE a == proc[p].avail_in
             t == proc[p].taken
             x == proc[p].next_in
             m == 2 * BUFFER_SIZE
             b == in_buf[p]
  <1>1. a \in Nat /\ t \in Nat /\ x \in Nat /\ m \in Nat /\ x + a <= m
        /\ \A k \in 0 .. a - 1 : b[x + k] = t + k + 1
    <2>1. BUFFER_SIZE \in Nat /\ ProcNumbers(proc[p]) /\ InBuffer(proc[p], in_buf[p])
      BY StreamNumbers DEF BufferInv, Local
    <2>2. a \in Nat /\ HeldBy(proc[p]) = a /\ ExpectedBy(proc[p]) = a
      BY <2>1 DEF HeldBy, ExpectedBy, ProcNumbers
    <2>3. t \in Nat /\ x \in Nat
      BY <2>1 DEF ProcNumbers
    <2> HIDE DEF a, t, x, b
    <2> QED
      BY <2>1, <2>2, <2>3 DEF InBuffer, t, x, b
  <1>2. Moved(p) = [k \in 0 .. m - 1 |-> IF k < a THEN b[x + k] ELSE b[k]]
    BY DEF Moved, BufferInv, MemoryOK
  <1> HIDE DEF a, t, x, m, b
  <1>3. \A k \in 0 .. a - 1 : k \in 0 .. m - 1 /\ k < a
    BY <1>1
  <1>4. \A k \in 0 .. a - 1 : Moved(p)[k] = b[x + k]
    BY <1>2, <1>3
  <1>5. a <= m /\ DOMAIN Moved(p) = 0 .. m - 1
    BY <1>1, <1>2
  <1> QED
    BY <1>1, <1>4, <1>5 DEF a, t, x, m

\* A buffer that holds the bytes that follow the ones before.
Front(memory, size, held, before) ==
    /\ DOMAIN memory = 0 .. size - 1
    /\ \A k \in 0 .. held - 1 : memory[k] = before + k + 1

\* Bytes that are put behind h others.
LEMMA StoredFacts ==
    ASSUME NEW m \in Nat, NEW buf, NEW t \in Nat, NEW h \in Nat, Front(buf, m, h, t),
           NEW n \in Nat, h + n <= m, NEW bytes, Len(bytes) = n,
           \A k \in 1 .. n : bytes[k] = t + h + k
    PROVE  Front(Stored(buf, h, bytes), m, h + n, t)
  <1> DEFINE st == Stored(buf, h, bytes)
  <1>1. st = [k \in 0 .. m - 1 |-> IF h <= k /\ k < h + n THEN bytes[k - h + 1] ELSE buf[k]]
    BY DEF Stored, Front
  <1> HIDE DEF st
  <1>2. ASSUME NEW k \in 0 .. h + n - 1
        PROVE  st[k] = t + k + 1
    <2>1. k \in 0 .. m - 1
      OBVIOUS
    <2>2. CASE h <= k
      <3>1. k < h + n /\ k - h + 1 \in 1 .. n /\ t + h + (k - h + 1) = t + k + 1
        BY <2>2
      <3>2. st[k] = bytes[k - h + 1]
        BY <1>1, <2>1, <2>2, <3>1
      <3> QED
        BY <3>1, <3>2
    <2>3. CASE ~(h <= k)
      <3>1. k \in 0 .. h - 1
        BY <2>3
      <3>2. st[k] = buf[k]
        BY <1>1, <2>1, <2>3
      <3> QED
        BY <3>1, <3>2 DEF Front
    <2> QED
      BY <2>2, <2>3
  <1>3. DOMAIN st = 0 .. m - 1
    BY <1>1
  <1> QED
    BY <1>2, <1>3 DEF st, Front

\* A buffer that is replaced.
LEMMA NewBuffer ==
    ASSUME BufferInv, NEW p \in Procs, NEW b, in_buf' = [in_buf EXCEPT ![p] = b],
           DOMAIN b = 0 .. 2 * BUFFER_SIZE - 1
    PROVE  Holds(p, b)
  BY DEF BufferInv, MemoryOK, Holds

\* Making room for a message.
LEMMA RecvStartBuffers ==
    ASSUME StreamInv, BufferInv, NEW p \in Procs, RecvStart(p)
    PROVE  BufferInv'
  <1> DEFINE s == proc[p]
             r == [s EXCEPT !.at = "recv_header", !.next_in = 0, !.n_bytes = 0]
             b == Moved(p)
  <1>1. /\ s.at = "fill" /\ s.fn \in Receiving /\ Goes(p, r) /\ s.avail_in < FillBelow(s.fn)
        /\ task' = task /\ wire' = wire /\ in_buf' = [in_buf EXCEPT ![p] = b]
    BY DEF RecvStart, MayFill
  <1>2. ~Gone(p) /\ DOMAIN s = ProcFields
    BY <1>1, WhereIs DEF Statuses
  <1>3. /\ r.fn = s.fn /\ r.at = "recv_header" /\ r.next_in = 0 /\ r.avail_in = s.avail_in
        /\ r.eof_in = s.eof_in /\ r.out_buf = s.out_buf /\ r.taken = s.taken /\ r.put = s.put
        /\ r.res = s.res /\ r.len = s.len /\ r.n_bytes = 0 /\ r.pos = s.pos
    BY <1>2 DEF ProcFields
  <1>4. /\ DOMAIN b = 0 .. 2 * BUFFER_SIZE - 1 /\ s.avail_in \in Nat /\ s.avail_in <= 2 * BUFFER_SIZE
        /\ \A k \in 0 .. s.avail_in - 1 : b[k] = s.taken + k + 1
    BY <1>1, MovedFacts
  <1>5. Local(s, in_buf[p]) /\ s.fn \in Sending \cup Receiving /\ BUFFER_SIZE \in Nat
    BY <1>1, StreamNumbers DEF BufferInv
  <1>6. Holds(p, b)
    BY <1>1, <1>4, NewBuffer
  <1> HIDE DEF r, b, s
  <1>7. s.avail_in <= BUFFER_SIZE
    <2>1. FillBelow(s.fn) \in {BUFFER_SIZE, BUFFER_SIZE + 1}
      BY <1>1 DEF FillBelow, Receiving, Sending
    <2> QED
      BY <1>1, <1>4, <1>5, <2>1
  <1>8. OutBufLen(r) = OutBufLen(s) /\ HeldBy(r) = s.avail_in /\ ExpectedBy(r) = s.avail_in
        /\ HeldBy(s) = s.avail_in
    BY <1>1, <1>3, <1>4 DEF OutBufLen, HeldBy, ExpectedBy
  <1>9. ProcNumbers(r)
    BY <1>3, <1>5 DEF Local, ProcNumbers
  <1>10. InBuffer(r, b)
    <2>1. \A k \in 0 .. s.avail_in - 1 : 0 + k = k
      OBVIOUS
    <2> QED
      BY <1>3, <1>4, <1>5, <1>8, <2>1 DEF InBuffer
  <1>11. OutBuffer(r) /\ JobState(r)
    BY <1>1, <1>3, <1>5, <1>8 DEF Local, OutBuffer, JobState
  <1>12. SendState(r) /\ RecvState(r)
    BY <1>1, <1>3, <1>7 DEF SendState, RecvState, Sending, Receiving
  <1>13. Local(r, b)
    BY <1>9, <1>10, <1>11, <1>12 DEF Local
  <1>14. Alike(r, s)
    BY <1>1, <1>3, <1>8
       DEF Alike, GotBy, MissingBy, EndedBy, SentBy, OwedBy, SentEof, Receiving, Sending
  <1> QED
    BY <1>1, <1>2, <1>6, <1>13, <1>14, QuietStep DEF s


\* fread.
LEMMA FillFromFileBuffers ==
    ASSUME StreamInv, BufferInv, NEW p \in Procs, FillFromFile(p)
    PROVE  BufferInv'
  <1> DEFINE s == proc[p]
             most == Smaller(2 * BUFFER_SIZE - s.avail_in, SourceLen(s.fn) - s.pos)
             r(n, failed) == [s EXCEPT !.at = "iter", !.next_in = 0, !.avail_in = @ + n,
                                       !.pos = @ + n, !.eof_in = n = 0, !.ferror = @ \/ failed]
             bytes(n) == [k \in 1 .. n |-> s.pos + k]
             b(n) == Stored(Moved(p), s.avail_in, bytes(n))
  <1>1. s.at = "fill" /\ s.fn \in Sending /\ task' = task /\ wire' = wire
    BY DEF FillFromFile
  <1>2. ~Gone(p) /\ DOMAIN s = ProcFields /\ s.fn \in Sending \cup Receiving
    BY <1>1, WhereIs DEF Statuses
  <1>3. /\ DOMAIN Moved(p) = 0 .. 2 * BUFFER_SIZE - 1 /\ s.avail_in \in Nat
        /\ s.avail_in <= 2 * BUFFER_SIZE
        /\ \A k \in 0 .. s.avail_in - 1 : Moved(p)[k] = s.taken + k + 1
    BY <1>1, <1>2, MovedFacts
  <1>4. Local(s, in_buf[p]) /\ BUFFER_SIZE \in Nat /\ SourceLen(s.fn) \in Nat
    BY <1>2, StreamNumbers DEF BufferInv
  <1>5. /\ s.pos \in Nat /\ s.taken \in Nat /\ s.pos = s.taken + s.avail_in /\ s.pos <= SourceLen(s.fn)
    BY <1>1, <1>2, <1>4 DEF Local, SendState, ProcNumbers
  <1>6. /\ most \in Nat /\ s.avail_in + most <= 2 * BUFFER_SIZE /\ s.pos + most <= SourceLen(s.fn)
    BY <1>3, <1>4, <1>5 DEF Smaller
  <1>7. \E n \in 0 .. most, failed \in BOOLEAN :
          /\ in_buf' = [in_buf EXCEPT ![p] = b(n)]
          /\ Exits(p, "EXIT_FAILURE") \/ Goes(p, r(n, failed))
    <2>1. most \in 0 .. most
      BY <1>6
    <2> QED
      BY <2>1 DEF FillFromFile
  <1>8. PICK n \in 0 .. most, failed \in BOOLEAN :
          /\ in_buf' = [in_buf EXCEPT ![p] = b(n)]
          /\ Exits(p, "EXIT_FAILURE") \/ Goes(p, r(n, failed))
    BY <1>7
  <1> HIDE DEF most
  <1>9. n \in Nat /\ s.avail_in + n <= 2 * BUFFER_SIZE /\ s.pos + n <= SourceLen(s.fn)
    <2> DEFINE a == s.avail_in
               x == s.pos
               y == SourceLen(s.fn)
    <2>1. /\ a \in Nat /\ x \in Nat /\ y \in Nat /\ BUFFER_SIZE \in Nat /\ most \in Nat
          /\ a + most <= 2 * BUFFER_SIZE /\ x + most <= y
      BY <1>3, <1>4, <1>5, <1>6
    <2> HIDE DEF a, x, y
    <2>2. n \in Nat /\ a + n <= 2 * BUFFER_SIZE /\ x + n <= y
      BY <2>1
    <2> QED
      BY <2>2 DEF a, x, y
  <1>10. Front(b(n), 2 * BUFFER_SIZE, s.avail_in + n, s.taken)
    <2> DEFINE a == s.avail_in
               t == s.taken
               m == 2 * BUFFER_SIZE
               buf == Moved(p)
               y == bytes(n)
               z == b(n)
    <2>0. z = Stored(buf, a, y)
      OBVIOUS
    <2>1. m \in Nat /\ t \in Nat /\ a \in Nat /\ n \in Nat /\ a + n <= m
      BY <1>3, <1>4, <1>5, <1>9
    <2>2. Front(buf, m, a, t)
      BY <1>3 DEF Front
    <2>3. Len(y) = n
      BY <1>9
    <2>4. \A k \in 1 .. n : y[k] = t + a + k
      BY <1>3, <1>5
    <2> HIDE DEF a, t, m, buf, y, z
    <2>5. Front(Stored(buf, a, y), m, a + n, t)
      BY <2>1, <2>2, <2>3, <2>4, StoredFacts
    <2> HIDE DEF b, s
    <2> QED
      BY <2>0, <2>5 DEF a, t, m, z
  <1>11. Holds(p, b(n))
    <2>1. DOMAIN b(n) = 0 .. 2 * BUFFER_SIZE - 1
      BY <1>10 DEF Front
    <2> QED
      BY <1>8, <2>1, NewBuffer
  <1>12. CASE Exits(p, "EXIT_FAILURE")
    BY <1>1, <1>2, <1>11, <1>12, GoneStep
  <1>13. CASE Goes(p, r(n, failed))
    <2> DEFINE t == r(n, failed)
               c == b(n)
    <2>1. /\ t.fn = s.fn /\ t.at = "iter" /\ t.next_in = 0 /\ t.avail_in = s.avail_in + n
          /\ t.eof_in = (n = 0) /\ t.out_buf = s.out_buf /\ t.taken = s.taken /\ t.put = s.put
          /\ t.res = s.res /\ t.len = s.len /\ t.n_bytes = s.n_bytes /\ t.pos = s.pos + n
      BY <1>2 DEF ProcFields
    <2>2. Goes(p, t) /\ Holds(p, c)
      BY <1>11, <1>13
    <2>3. Front(c, 2 * BUFFER_SIZE, s.avail_in + n, s.taken)
      BY <1>10
    <2> HIDE DEF t, c, s, r, b
    <2>4. t.eof_in \in BOOLEAN
      BY <2>1
    <2>5. ProcNumbers(t)
      <3>1. ProcNumbers(s)
        BY <1>2, <1>4 DEF Local
      <3>2. t.next_in \in Nat /\ t.avail_in \in Nat /\ t.pos \in Nat
        BY <1>3, <1>5, <1>9, <2>1
      <3> QED
        BY <2>1, <2>4, <3>1, <3>2 DEF ProcNumbers
    <2>6. HeldBy(t) = s.avail_in + n /\ ExpectedBy(t) = s.avail_in + n /\ OutBufLen(t) = OutBufLen(s)
      BY <1>3, <1>9, <2>1 DEF HeldBy, ExpectedBy, OutBufLen
    <2>7. InBuffer(t, c)
      <3>1. \A k \in 0 .. s.avail_in + n - 1 : 0 + k = k
        OBVIOUS
      <3> QED
        BY <1>3, <1>4, <1>9, <2>1, <2>3, <2>6, <3>1 DEF InBuffer, Front
    <2>8. OutBuffer(t) /\ JobState(t)
      BY <1>1, <1>2, <1>4, <2>1, <2>6 DEF Local, OutBuffer, JobState, Sending, Receiving
    <2>9. SendState(t) /\ RecvState(t)
      BY <1>1, <1>2, <1>3, <1>4, <1>5, <1>9, <2>1 DEF Local, SendState, RecvState
    <2>10. Local(t, c)
      BY <2>5, <2>7, <2>8, <2>9 DEF Local
    <2>11. Alike(t, s)
      BY <1>1, <2>1, <2>6
         DEF Alike, GotBy, MissingBy, EndedBy, SentBy, OwedBy, SentEof, Sending, Receiving
    <2> QED
      BY <1>1, <1>2, <2>2, <2>10, <2>11, QuietStep DEF s
  <1> QED
    BY <1>8, <1>12, <1>13


-----------------------------------------------------------------------------
(* Running the job.                                                        *)

\* All of a process after a call, if the output buffer was empty.
After(s, n, m, r, t) ==
    /\ t.next_in = s.next_in + n /\ t.avail_in = s.avail_in - n /\ t.taken = s.taken + n
    /\ t.eof_in = s.eof_in /\ t.len = s.len /\ t.n_bytes = s.n_bytes /\ t.pos = s.pos
    /\ t.out_buf = IF s.fn # "recv_signature" THEN [k \in 1 .. m |-> s.put + k] ELSE <<>>
    /\ t.fn = s.fn /\ t.put = s.put + m /\ t.res = r
    /\ t.at = IF s.fn \in Sending /\ (t.out_buf # <<>> \/ r = "RS_DONE") THEN "send_header"
              ELSE IF s.fn = "recv_delta_and_patch_file" /\ t.out_buf # <<>> THEN "fwrite"
              ELSE IF r = "RS_DONE" THEN "return" ELSE "fill"

\* So it is.
LEMMA CalledMore ==
    ASSUME NEW s, DOMAIN s = ProcFields, s.fn \in Sending \cup Receiving, s.out_buf = <<>>,
           s.put \in Nat, NEW n, NEW m \in Nat, NEW r \in {"RS_BLOCKED", "RS_DONE"}
    PROVE  LET after == Called(s, n, m, r)
               t == [after EXCEPT !.at = OutputGoes(after)]
           IN  After(s, n, m, r, t)
  <1> DEFINE after == Called(s, n, m, r)
             at == OutputGoes(after)
             t == [after EXCEPT !.at = at]
             new == [k \in 1 .. m |-> s.put + k]
  <1>1. Promise(s.fn).writes = (s.fn # "recv_signature")
    BY DEF Promise
  <1>2. /\ DOMAIN after = ProcFields
        /\ after.next_in = s.next_in + n /\ after.avail_in = s.avail_in - n /\ after.taken = s.taken + n
        /\ after.eof_in = s.eof_in /\ after.len = s.len /\ after.n_bytes = s.n_bytes /\ after.pos = s.pos
        /\ after.fn = s.fn /\ after.put = s.put + m /\ after.res = r
        /\ after.out_buf = IF s.fn # "recv_signature" THEN s.out_buf \o new ELSE s.out_buf
    BY <1>1 DEF Called, ProcFields
  <1>3. <<>> \o new = new
    <2>1. new \in Seq(Nat)
      BY UptoFacts, Zenon
    <2> QED
      BY <2>1, ConcatEmptySeq
  <1> HIDE DEF after
  <1>4. at = IF s.fn \in Sending /\ (after.out_buf # <<>> \/ r = "RS_DONE") THEN "send_header"
             ELSE IF s.fn = "recv_delta_and_patch_file" /\ after.out_buf # <<>> THEN "fwrite"
             ELSE IF r = "RS_DONE" THEN "return" ELSE "fill"
    BY <1>2 DEF OutputGoes, Sending
  <1> HIDE DEF at
  <1>5. /\ t.next_in = after.next_in /\ t.avail_in = after.avail_in /\ t.taken = after.taken
        /\ t.eof_in = after.eof_in /\ t.len = after.len /\ t.n_bytes = after.n_bytes /\ t.pos = after.pos
        /\ t.out_buf = after.out_buf /\ t.fn = after.fn /\ t.put = after.put /\ t.res = after.res
        /\ t.at = at
    BY <1>2 DEF ProcFields
  <1>6. after.out_buf = IF s.fn # "recv_signature" THEN new ELSE <<>>
    BY <1>2, <1>3
  <1> HIDE DEF t, new
  <1> QED
    BY <1>2, <1>4, <1>5, <1>6 DEF After, t, at, after, new

\* What a call puts out.
LEMMA NewBytes ==
    ASSUME NEW a \in Nat, NEW m \in Nat
    PROVE  [k \in 1 .. m |-> a + k] = LastBytes(m, a + m)
  <1>1. \A k \in 1 .. m : a + k = a + m - m + k
    OBVIOUS
  <1> QED
    BY <1>1 DEF LastBytes

\* A call takes from the one buffer and puts into the other.
LEMMA IterBuffers ==
    ASSUME StreamInv, BufferInv, NEW p \in Procs, Iter(p), ~Split
    PROVE  BufferInv'
  <1> DEFINE s == proc[p]
             b == in_buf[p]
             promise == Promise(s.fn)
  <1>1. s.at = "iter" /\ task' = task /\ wire' = wire /\ in_buf' = in_buf
    BY DEF Iter
  <1>2. DOMAIN s = ProcFields /\ Place(p, s.fn, "iter") /\ ~Gone(p)
    BY <1>1, WhereIs DEF Statuses
  <1>3. s.fn \in Sending \cup Receiving /\ Local(s, b) /\ BUFFER_SIZE \in Nat /\ task.delta \in Nat
        /\ TargetLen(s.fn) \in Nat /\ SourceLen(s.fn) \in Nat
    <2>1. s.fn \in Sending \cup Receiving
      BY <1>2 DEF Place, Statuses, Sending, Receiving
    <2> QED
      BY <2>1, StreamNumbers DEF BufferInv
  <1>4. ProcNumbers(s) /\ InBuffer(s, b) /\ OutBuffer(s) /\ JobState(s) /\ SendState(s)
    BY <1>3 DEF Local
  <1>5. s.out_buf = <<>> /\ s.res = "RS_BLOCKED" /\ Len(s.out_buf) = 0
    BY <1>1, <1>4 DEF OutBuffer, JobState
  <1> DEFINE room == RoomOf(s)
             most == MostOf(s)
  <1>6. PICK n, m, r :
          /\ n \in 0 .. s.avail_in /\ m \in 0 .. most /\ r \in {"RS_BLOCKED", "RS_DONE"}
          /\ MayAnswer(promise, Answer(s, n, m, r))
          /\ Goes(p, [Called(s, n, m, r) EXCEPT !.at = OutputGoes(Called(s, n, m, r))])
    BY NotMisled
  <1>7. promise.target = TargetLen(s.fn) /\ promise.need = SourceLen(s.fn)
        /\ (promise.to_eof <=> s.fn # "recv_delta_and_patch_file")
        /\ (promise.writes <=> s.fn # "recv_signature")
        /\ (promise.ends_writing <=> s.fn = "send_delta") /\ promise.verdict = "RS_DONE"
    BY DEF Promise
  <1>8. s.fn # "recv_signature" => m <= BUFFER_SIZE
    <2>1. room \in Int /\ (s.fn # "recv_signature" => room = BUFFER_SIZE)
      BY <1>3, <1>5, <1>7 DEF RoomOf
    <2>2. promise.target - s.put \in Int
      BY <1>3, <1>4, <1>7 DEF ProcNumbers
    <2> HIDE DEF room, promise
    <2>0. most = Smaller(promise.target - s.put, IF promise.writes THEN room ELSE promise.target)
      BY DEF MostOf, promise, room
    <2>3. s.fn # "recv_signature" => most <= BUFFER_SIZE /\ most \in Int
      BY <1>3, <1>7, <2>0, <2>1, <2>2 DEF Smaller
    <2> HIDE DEF most
    <2> QED
      BY <1>3, <1>6, <2>3
  <1>9. /\ Answer(s, n, m, r).put = s.put + m /\ Answer(s, n, m, r).result = r
        /\ Answer(s, n, m, r).taken = s.taken + n /\ Answer(s, n, m, r).eof_in = s.eof_in
        /\ m \in Nat /\ n \in Nat /\ n <= s.avail_in
    <2>1. s.avail_in \in Nat
      BY <1>4 DEF ProcNumbers
    <2> QED
      BY <1>6, <2>1 DEF Answer
  <1> HIDE DEF most, room, promise
  <1>10. /\ s.put + m <= TargetLen(s.fn)
         /\ r = "RS_DONE" => /\ s.put + m = TargetLen(s.fn) /\ s.taken + n = SourceLen(s.fn)
                             /\ s.fn # "recv_delta_and_patch_file" => s.eof_in
         /\ r = "RS_BLOCKED" /\ s.fn = "send_delta" => s.put + m < TargetLen(s.fn)
    BY <1>6, <1>7, <1>9 DEF MayAnswer, Completed, Blocked
  <1> DEFINE t == [Called(s, n, m, r) EXCEPT !.at = OutputGoes(Called(s, n, m, r))]
  <1>11. After(s, n, m, r, t)
    BY <1>2, <1>3, <1>4, <1>5, <1>6, <1>9, CalledMore DEF ProcNumbers
  <1>12. Goes(p, t) /\ r \in {"RS_BLOCKED", "RS_DONE"}
    BY <1>6
  <1>0. s = proc[p] /\ b = in_buf[p]
    OBVIOUS
  <1> HIDE DEF t, s, b
  <1> DEFINE l == OutBufLen(t)
  <1>13. /\ t.next_in = s.next_in + n /\ t.avail_in = s.avail_in - n /\ t.taken = s.taken + n
         /\ t.eof_in = s.eof_in /\ t.len = s.len /\ t.n_bytes = s.n_bytes /\ t.pos = s.pos
         /\ t.fn = s.fn /\ t.put = s.put + m /\ t.res = r
    BY <1>11 DEF After
  <1>14. /\ t.at \in {"send_header", "fwrite", "return", "fill"}
         /\ t.at \in {"return", "fill"} => t.at = IF r = "RS_DONE" THEN "return" ELSE "fill"
         /\ s.fn \in Sending => t.at \in {"send_header", "fill"}
         /\ s.fn \in Sending /\ t.at = "fill" => t.out_buf = <<>>
         /\ s.fn = "recv_delta_and_patch_file" /\ t.at # "fwrite" => t.out_buf = <<>>
    BY <1>11, <1>12 DEF After, Sending
  <1>15. /\ s.next_in \in Nat /\ s.avail_in \in Nat /\ s.taken \in Nat /\ s.put \in Nat
    BY <1>4 DEF ProcNumbers
  <1>16. /\ t.out_buf \in Seq(Nat) /\ l \in Nat /\ l <= m /\ l <= BUFFER_SIZE
         /\ t.out_buf = LastBytes(l, t.put)
         /\ s.fn \in Sending => l = m
         /\ s.fn = "recv_signature" => t.out_buf = <<>>
    <2>1. CASE s.fn # "recv_signature"
      <3> DEFINE new == [k \in 1 .. m |-> s.put + k]
      <3>1. new \in Seq(Nat) /\ Len(new) = m
        BY <1>9, <1>15, UptoFacts, Zenon
      <3>2. t.out_buf = new
        BY <1>11, <2>1 DEF After
      <3>3. l = m
        BY <3>1, <3>2 DEF OutBufLen
      <3>5. new = LastBytes(m, s.put + m)
        BY <1>9, <1>15, NewBytes, Zenon
      <3> HIDE DEF new, l
      <3> QED
        BY <1>8, <1>9, <1>13, <2>1, <3>1, <3>2, <3>3, <3>5
    <2>2. CASE s.fn = "recv_signature"
      <3>1. t.out_buf = <<>>
        BY <1>11, <2>2 DEF After
      <3>2. l = 0 /\ LastBytes(0, t.put) = <<>> /\ <<>> \in Seq(Nat)
        BY <3>1 DEF OutBufLen, LastBytes
      <3> HIDE DEF l
      <3> QED
        BY <1>3, <1>9, <2>2, <3>1, <3>2 DEF Sending
    <2> QED
      BY <2>1, <2>2
  <1>17. ProcNumbers(t)
    <2>1. /\ s.next_in + n \in Nat /\ s.avail_in - n \in Nat /\ s.taken + n \in Nat /\ s.put + m \in Nat
      BY <1>9, <1>15
    <2> QED
      BY <1>4, <1>12, <1>13, <1>16, <2>1 DEF ProcNumbers
  <1>18. HeldBy(t) = s.avail_in - n /\ ExpectedBy(t) = s.avail_in - n
         /\ HeldBy(s) = s.avail_in /\ ExpectedBy(s) = s.avail_in
    BY <1>1, <1>9, <1>13, <1>14, <1>15 DEF HeldBy, ExpectedBy
  <1>19. InBuffer(t, b)
    <2>1. s.next_in + s.avail_in <= 2 * BUFFER_SIZE
          /\ \A k \in 0 .. s.avail_in - 1 : b[s.next_in + k] = s.taken + k + 1
      BY <1>4, <1>18 DEF InBuffer
    <2>2. (s.next_in + n) + (s.avail_in - n) = s.next_in + s.avail_in
      BY <1>9, <1>15
    <2>3. ASSUME NEW k \in 0 .. (s.avail_in - n) - 1
          PROVE  b[(s.next_in + n) + k] = (s.taken + n) + k + 1
      <3>1. n + k \in 0 .. s.avail_in - 1 /\ s.next_in + (n + k) = (s.next_in + n) + k
            /\ s.taken + (n + k) + 1 = (s.taken + n) + k + 1
        BY <1>9, <1>15
      <3> QED
        BY <2>1, <3>1
    <2> QED
      BY <1>13, <1>18, <2>1, <2>2, <2>3 DEF InBuffer
  <1>20. OutBuffer(t)
    <2>1. l <= t.put /\ t.put <= TargetLen(t.fn)
      BY <1>9, <1>10, <1>13, <1>15, <1>16
    <2>2. t.at \notin {"send_header", "send_payload", "fwrite"} => t.out_buf = <<>>
      BY <1>3, <1>14, <1>16 DEF Sending, Receiving
    <2> QED
      BY <1>16, <2>1, <2>2 DEF OutBuffer
  <1>21. JobState(t)
    BY <1>10, <1>12, <1>13, <1>14 DEF JobState
  <1>22. SendState(t)
    <2> SUFFICES ASSUME s.fn \in Sending
                 PROVE  SendState(t)
      BY <1>13 DEF SendState
    <2>1. s.pos = s.taken + s.avail_in /\ s.pos <= SourceLen(s.fn)
          /\ (s.fn = "send_delta" => s.put < task.delta)
      BY <1>4, <1>5 DEF SendState
    <2>2. t.pos = t.taken + t.avail_in /\ t.pos <= SourceLen(t.fn)
      BY <1>9, <1>13, <1>15, <2>1
    <2>3. s.fn = "send_delta" => TargetLen(s.fn) = task.delta
      BY DEF TargetLen
    <2>4. s.fn = "send_delta" /\ r = "RS_BLOCKED" => t.put < task.delta
      BY <1>10, <1>13, <2>3
    <2>5. s.fn = "send_delta" /\ t.at = "send_header" => t.out_buf # <<>>
      <3> SUFFICES ASSUME s.fn = "send_delta", t.at = "send_header", t.out_buf = <<>>
                   PROVE  FALSE
        OBVIOUS
      <3>1. r = "RS_DONE"
        BY <1>11, <1>12 DEF After
      <3>2. l = 0
        BY DEF OutBufLen
      <3>3. m = 0
        BY <1>16, <3>2
      <3> QED
        BY <1>3, <1>10, <1>15, <2>1, <2>3, <3>1, <3>3
    <2>6. t.at # "send_payload"
      BY <1>14
    <2> QED
      BY <1>13, <2>2, <2>4, <2>5, <2>6 DEF SendState
  <1>23. RecvState(t)
    BY <1>14 DEF RecvState
  <1>24. Local(t, b)
    BY <1>17, <1>19, <1>20, <1>21, <1>22, <1>23 DEF Local
  <1>25. Alike(t, s)
    <2>1. OutBufLen(s) = 0
      BY <1>5 DEF OutBufLen
    <2>2. s.fn \in Sending => s.put + m - l = s.put - 0
      BY <1>9, <1>15, <1>16
    <2>3. (s.taken + n) + (s.avail_in - n) = s.taken + s.avail_in
      BY <1>9, <1>15
    <2>4. GotBy(t) = GotBy(s) /\ MissingBy(t) = MissingBy(s) /\ EndedBy(t) = EndedBy(s)
      BY <1>1, <1>13, <1>14, <1>18, <2>3 DEF GotBy, MissingBy, EndedBy
    <2>5. t.at # "send_payload" /\ (s.fn \in Sending => t.at # "return")
      BY <1>14
    <2>6. SentBy(t) = SentBy(s)
      <3>1. CASE s.fn \in Sending
        <4>1. SentBy(s) = s.put - 0 + 0
          BY <1>1, <2>1, <3>1 DEF SentBy
        <4>2. SentBy(t) = s.put + m - l + 0
          BY <1>9, <1>13, <1>15, <1>16, <2>5, <3>1 DEF SentBy
        <4> QED
          BY <2>2, <3>1, <4>1, <4>2
      <3>2. CASE s.fn \notin Sending
        BY <1>13, <3>2 DEF SentBy
      <3> QED
        BY <3>1, <3>2
    <2>7. OwedBy(t) = OwedBy(s)
      BY <1>1, <2>5 DEF OwedBy
    <2>8. SentEof(t) = SentEof(s)
      BY <1>1, <1>13, <2>5 DEF SentEof
    <2> QED
      BY <2>4, <2>6, <2>7, <2>8 DEF Alike
  <1> QED
    BY <1>0, <1>1, <1>2, <1>12, <1>24, <1>25, SameBuffers, QuietStep


-----------------------------------------------------------------------------
(* Receiving.                                                              *)

\* What the wire to a process sees of it, and what the wire from it.
Reached(r, f, g, e, i) == GotBy(r) = f[i] /\ MissingBy(r) = g[i] /\ EndedBy(r) = e[i]
SendsLike(r, s) == SentBy(r) = SentBy(s) /\ OwedBy(r) = OwedBy(s) /\ SentEof(r) = SentEof(s)

\* A process takes n items from its wire, and gets to where the trace says.
LEMMA RecvStep ==
    ASSUME StreamInv, BufferInv, NEW p \in Procs, NEW r, Goes(p, r), NEW b, Holds(p, b), task' = task,
           Local(r, b), ~Gone(p), NEW f, NEW g, NEW e,
           LinkBy(p, wire[p], proc[p], proc[Peer(p)], f, g, e),
           NEW n \in Nat, n <= Len(wire[p]), NEW v, wire' = [wire EXCEPT ![p] = v], v \in Seq(Items),
           Dropped(wire[p], n, v), Reached(r, f, g, e, n + 1), SendsLike(r, proc[p])
    PROVE  BufferInv'
  <1> DEFINE w == wire[p]
  <1>1. Peer(p) \in Procs /\ Peer(Peer(p)) = p /\ Peer(p) # p
    BY DEF Peer, Procs
  <1>2. w \in Seq(Items) /\ DOMAIN wire = Procs
    BY DEF BufferInv, MemoryOK
  <1>3. Len(w) \in Nat
    BY <1>2, LenProperties
  <1>4. wire'[p] = v /\ wire'[Peer(p)] = wire[Peer(p)] /\ DOMAIN wire' = Procs
    BY <1>1, <1>2
  <1>5. \A q \in Procs : wire'[q] \in Seq(Items)
    BY <1>1, <1>4 DEF BufferInv, MemoryOK, Peer, Procs
  <1>6. Link(p, v, r, proc[Peer(p)])
    <2>1. Trace(p, w, f, g, e)
      BY DEF LinkBy
    <2>2. n <= Len(w) /\ Dropped(w, n, v)
      OBVIOUS
    <2>3. proc[Peer(p)].fn # "exit" =>
            /\ f[Len(w) + 1] = SentBy(proc[Peer(p)]) /\ g[Len(w) + 1] = OwedBy(proc[Peer(p)])
            /\ e[Len(w) + 1] = SentEof(proc[Peer(p)])
      BY DEF LinkBy
    <2> HIDE DEF w
    <2>4. Traced(p, v, f, g, e, n + 1, Len(w) + 1)
      BY <1>3, <2>1, <2>2, TraceFront
    <2> QED
      BY <2>3, <2>4 DEF Link, LinkBy, Traced, Reached
  <1>7. ~Gone(Peer(p)) => Link(Peer(p), wire[Peer(p)], proc[Peer(p)], proc[p])
    BY <1>1 DEF BufferInv
  <1>8. ~Gone(Peer(p)) => Link(Peer(p), wire[Peer(p)], proc[Peer(p)], r)
    BY <1>7 DEF Link, LinkBy, Gone, SendsLike
  <1> QED
    BY <1>4, <1>5, <1>6, <1>8, BufferStep

\* A header.
LEMMA RecvHeaderBuffers ==
    ASSUME StreamInv, BufferInv, NEW p \in Procs, RecvHeader(p)
    PROVE  BufferInv'
  <1> DEFINE s == proc[p]
             b == in_buf[p]
             w == wire[p]
             h == Head(w)
             r == Headed(s, h.len, h.eof)
             v == Tail(w)
  <1>1. /\ s.at = "recv_header" /\ Goes(p, r) /\ task' = task /\ in_buf' = in_buf
        /\ w # <<>> /\ h.kind = "header" /\ wire' = [wire EXCEPT ![p] = v]
    BY DEF RecvHeader
  <1>2. ~Gone(p) /\ DOMAIN s = ProcFields /\ s.fn \in Receiving
    BY <1>1, WhereIs, RecvWhere
  <1>3. /\ r.fn = s.fn /\ r.at = (IF h.len > 0 THEN "recv_payload" ELSE "iter")
        /\ r.next_in = s.next_in /\ r.avail_in = s.avail_in
        /\ r.eof_in = h.eof /\ r.out_buf = s.out_buf /\ r.taken = s.taken /\ r.put = s.put
        /\ r.res = s.res /\ r.len = h.len /\ r.n_bytes = s.n_bytes /\ r.pos = s.pos
    BY <1>2 DEF ProcFields, Headed
  <1>4. w \in Seq(Items) /\ Len(w) \in Nat /\ Len(w) # 0
    <2>1. w \in Seq(Items)
      BY DEF BufferInv, MemoryOK
    <2> QED
      BY <1>1, <2>1, EmptySeq
  <1>5. v \in Seq(Items) /\ Dropped(w, 1, v) /\ h = w[1]
    BY <1>1, <1>4, HeadTailProperties DEF Dropped
  <1>6. PICK f, g, e : LinkBy(p, w, s, proc[Peer(p)], f, g, e)
    BY <1>2 DEF BufferInv, Link
  <1>7. /\ f[1] = GotBy(s) /\ g[1] = MissingBy(s) /\ e[1] = EndedBy(s)
        /\ Item(w[1], f[1], g[1], e[1], f[1 + 1], g[1 + 1], e[1 + 1])
        /\ Point(p, f[1 + 1], g[1 + 1], e[1 + 1])
    <2>1. 1 \in 1 .. Len(w) /\ 1 + 1 \in 1 .. Len(w) + 1
      BY <1>4
    <2> QED
      BY <1>6, <2>1 DEF LinkBy, Trace
  <1>8. Local(s, b) /\ BUFFER_SIZE \in Nat
    BY StreamNumbers DEF BufferInv
  <1>9. Goes(p, r) /\ Holds(p, b) /\ wire' = [wire EXCEPT ![p] = v]
    BY <1>1, SameBuffers
  <1>0. s = proc[p] /\ b = in_buf[p] /\ w = wire[p]
    OBVIOUS
  <1>10. h.kind = "header" /\ h = w[1] /\ s.at = "recv_header"
    BY <1>1, <1>5
  <1> HIDE DEF r, b, s, w, v, h
  <1>11. /\ h.len \in Nat /\ h.len <= BUFFER_SIZE /\ h.eof \in BOOLEAN
         /\ f[1 + 1] = f[1] /\ g[1 + 1] = h.len /\ e[1 + 1] = h.eof
    BY <1>7, <1>10 DEF Item, Point
  <1>12. ProcNumbers(s) /\ InBuffer(s, b) /\ OutBuffer(s) /\ JobState(s) /\ RecvState(s)
    BY <1>2, <1>8 DEF Local
  <1>13. /\ s.next_in = 0 /\ s.n_bytes = 0 /\ s.avail_in \in Nat /\ s.avail_in <= BUFFER_SIZE
         /\ s.taken \in Nat /\ s.res = "RS_BLOCKED"
    BY <1>2, <1>10, <1>12 DEF RecvState, ProcNumbers, JobState
  <1>14. /\ HeldBy(s) = s.avail_in /\ HeldBy(r) = s.avail_in
         /\ ExpectedBy(r) = s.avail_in + h.len /\ OutBufLen(r) = OutBufLen(s)
    BY <1>3, <1>10, <1>11, <1>13 DEF HeldBy, ExpectedBy, OutBufLen
  <1>15. ProcNumbers(r)
    BY <1>3, <1>11, <1>12 DEF ProcNumbers
  <1>16. InBuffer(r, b)
    BY <1>3, <1>8, <1>11, <1>12, <1>13, <1>14 DEF InBuffer
  <1>17. OutBuffer(r) /\ JobState(r)
    BY <1>3, <1>10, <1>12, <1>13, <1>14 DEF OutBuffer, JobState
  <1>18. SendState(r) /\ RecvState(r)
    BY <1>2, <1>3, <1>13 DEF SendState, RecvState, Sending, Receiving
  <1>19. Local(r, b)
    BY <1>15, <1>16, <1>17, <1>18 DEF Local
  <1>20. Reached(r, f, g, e, 1 + 1)
    BY <1>2, <1>3, <1>7, <1>11, <1>13, <1>14 DEF Reached, GotBy, MissingBy, EndedBy
  <1>21. SendsLike(r, s)
    BY <1>2, <1>3, <1>10 DEF SendsLike, SentBy, OwedBy, SentEof, Sending, Receiving
  <1>22. 1 \in Nat /\ 1 <= Len(w)
    BY <1>4
  <1> QED
    BY <1>0, <1>1, <1>2, <1>5, <1>6, <1>9, <1>19, <1>20, <1>21, <1>22, RecvStep


\* Some of the payload.
LEMMA RecvPayloadBuffers ==
    ASSUME StreamInv, BufferInv, NEW p \in Procs, RecvPayload(p)
    PROVE  BufferInv'
  <1> DEFINE s == proc[p]
             b == in_buf[p]
             w == wire[p]
             bytes(n) == [k \in 1 .. n |-> w[k].pos]
  <1>1. s.at = "recv_payload" /\ task' = task
    BY DEF RecvPayload
  <1>2. ~Gone(p) /\ DOMAIN s = ProcFields /\ s.fn \in Receiving
    BY <1>1, WhereIs, RecvWhere
  <1>3. PICK n \in 1 .. Smaller(s.len - s.n_bytes, Len(w)) :
          /\ in_buf' = [in_buf EXCEPT ![p] = Stored(b, s.avail_in + s.n_bytes, bytes(n))]
          /\ wire' = [wire EXCEPT ![p] = SubSeq(w, n + 1, Len(w))]
          /\ Goes(p, IF s.n_bytes + n < s.len THEN [s EXCEPT !.n_bytes = @ + n]
                     ELSE [s EXCEPT !.at = "iter", !.avail_in = @ + s.len])
    BY <1>2 DEF RecvPayload, Paid, BufferInv, MemoryOK
  <1>4. w \in Seq(Items) /\ Len(w) \in Nat
    <2>1. w \in Seq(Items)
      BY DEF BufferInv, MemoryOK
    <2> QED
      BY <2>1, LenProperties
  <1>5. Local(s, b) /\ BUFFER_SIZE \in Nat /\ DOMAIN b = 0 .. 2 * BUFFER_SIZE - 1
    BY StreamNumbers DEF BufferInv, MemoryOK
  <1>6. ProcNumbers(s) /\ InBuffer(s, b) /\ OutBuffer(s) /\ JobState(s) /\ RecvState(s)
    BY <1>2, <1>5 DEF Local
  <1> DEFINE a == s.avail_in
             d == s.n_bytes
             l == s.len
             t == s.taken
  <1>7. /\ a \in Nat /\ d \in Nat /\ l \in Nat /\ t \in Nat /\ d < l /\ s.next_in = 0
        /\ s.res = "RS_BLOCKED"
    BY <1>1, <1>2, <1>6 DEF ProcNumbers, RecvState, JobState
  <1>8. HeldBy(s) = a + d /\ ExpectedBy(s) = a + l
    BY <1>1 DEF HeldBy, ExpectedBy
  <1>9. n \in Nat /\ n # 0 /\ n <= l - d /\ n <= Len(w) /\ l - d \in Nat /\ a + l <= 2 * BUFFER_SIZE
    <2>1. a + l <= 2 * BUFFER_SIZE
      BY <1>5, <1>6, <1>7, <1>8 DEF InBuffer
    <2> DEFINE m == Len(w)
    <2>2. n \in 1 .. Smaller(l - d, m) /\ m \in Nat
      BY <1>3, <1>4
    <2> HIDE DEF a, d, l, m
    <2>3. n \in Nat /\ n # 0 /\ n <= l - d /\ n <= m /\ l - d \in Nat
      BY <1>7, <2>2 DEF Smaller
    <2> QED
      BY <2>1, <2>3 DEF m
  <1>10. PICK f, g, e : LinkBy(p, w, s, proc[Peer(p)], f, g, e)
    BY <1>2 DEF BufferInv, Link
  <1>11. f[1] = t + (a + d) /\ g[1] = l - d /\ e[1] = s.eof_in /\ Trace(p, w, f, g, e)
    BY <1>1, <1>2, <1>8, <1>10 DEF LinkBy, GotBy, MissingBy, EndedBy
  <1>12. Run(w, f, g, e, 1, n)
    <2>1. 1 \in 1 .. Len(w) + 1 /\ n <= g[1] /\ 1 + n <= Len(w) + 1
      BY <1>4, <1>9, <1>11
    <2> HIDE DEF w
    <2> QED
      BY <1>4, <1>9, <1>11, <2>1, TraceRun
  <1>13. f[n + 1] = t + (a + d) + n /\ g[n + 1] = (l - d) - n /\ e[n + 1] = s.eof_in
    <2>1. n \in 0 .. n /\ 1 + n = n + 1
      BY <1>9
    <2> HIDE DEF t, a, d, l, s
    <2> QED
      BY <1>11, <1>12, <2>1 DEF Run
  <1>14. \A k \in 1 .. n : w[k].pos = t + (a + d) + k
    <2>1. \A k \in 1 .. n : 1 + k - 1 = k
      BY <1>9
    <2> HIDE DEF t, a, d, l, s, w
    <2> QED
      BY <1>11, <1>12, <2>1 DEF Run
  <1> DEFINE v == SubSeq(w, n + 1, Len(w))
  <1>15. v \in Seq(Items) /\ Dropped(w, n, v)
    <2> DEFINE m == Len(w)
    <2>1. m \in Nat /\ w \in Seq(Items) /\ n <= m
      BY <1>4, <1>9
    <2>2. \A i \in n + 1 .. m : w[i] \in Items
      BY <1>4, <1>9, ElementOfSeq
    <2> HIDE DEF w, m
    <2>3. n + 1 \in Int /\ m \in Int
      BY <1>9, <2>1
    <2> DEFINE y == SubSeq(w, n + 1, m)
    <2>4. /\ y \in Seq(Items)
          /\ Len(y) = IF n + 1 <= m THEN m - (n + 1) + 1 ELSE 0
          /\ \A i \in 1 .. m - (n + 1) + 1 : y[i] = w[(n + 1) + i - 1]
      BY <2>2, <2>3, SubSeqProperties
    <2> HIDE DEF y
    <2>5. Len(y) = m - n /\ m - (n + 1) + 1 = m - n
      BY <1>9, <2>1, <2>4
    <2>6. \A i \in 1 .. m - n : (n + 1) + i - 1 = n + i
      BY <1>9
    <2>7. \A i \in 1 .. Len(y) : y[i] = w[n + i]
      BY <2>4, <2>5, <2>6
    <2> QED
      BY <2>4, <2>5, <2>7 DEF Dropped, y, m
  <1> DEFINE c == Stored(b, a + d, bytes(n))
  <1>16. Front(c, 2 * BUFFER_SIZE, (a + d) + n, t)
    <2> DEFINE m == 2 * BUFFER_SIZE
               h == a + d
               y == bytes(n)
    <2>1. m \in Nat /\ h \in Nat /\ h + n <= m
      <3> HIDE DEF a, d, l
      <3> QED
        BY <1>5, <1>7, <1>9
    <2>2. Front(b, m, h, t)
      <3>1. \A k \in 0 .. h - 1 : 0 + k = k
        BY <2>1
      <3> HIDE DEF t, a, d, l, s
      <3> QED
        BY <1>5, <1>6, <1>7, <1>8, <3>1 DEF Front, InBuffer, t, a, d
    <2>3. Len(y) = n
      BY <1>9
    <2>4. \A k \in 1 .. n : y[k] = t + h + k
      BY <1>14
    <2> HIDE DEF m, h, y, b, t
    <2>5. Front(Stored(b, h, y), m, h + n, t)
      BY <1>7, <1>9, <2>1, <2>2, <2>3, <2>4, StoredFacts
    <2> QED
      BY <2>5 DEF m, h, y
  <1>17. Holds(p, c)
    <2>1. DOMAIN c = 0 .. 2 * BUFFER_SIZE - 1
      BY <1>16 DEF Front
    <2>2. in_buf' = [in_buf EXCEPT ![p] = c]
      BY <1>3
    <2> HIDE DEF c
    <2> QED
      BY <2>1, <2>2, NewBuffer
  <1> DEFINE r == IF s.n_bytes + n < s.len THEN [s EXCEPT !.n_bytes = @ + n]
                  ELSE [s EXCEPT !.at = "iter", !.avail_in = @ + s.len]
  <1>18. /\ r.fn = s.fn /\ r.next_in = s.next_in /\ r.eof_in = s.eof_in /\ r.out_buf = s.out_buf
         /\ r.taken = s.taken /\ r.put = s.put /\ r.res = s.res /\ r.len = s.len /\ r.pos = s.pos
    BY <1>2 DEF ProcFields
  <1>19. \/ d + n < l /\ r.at = "recv_payload" /\ r.n_bytes = d + n /\ r.avail_in = a
         \/ d + n = l /\ r.at = "iter" /\ r.avail_in = a + l /\ r.n_bytes = d
    <2>1. d + n < l \/ (d + n = l /\ ~(d + n < l))
      <3> HIDE DEF a, d, l
      <3> QED
        BY <1>7, <1>9
    <2> QED
      BY <1>1, <1>2, <2>1 DEF ProcFields
  <1>20. Goes(p, r) /\ wire' = [wire EXCEPT ![p] = v]
    BY <1>3
  <1>0. /\ s = proc[p] /\ b = in_buf[p] /\ w = wire[p] /\ s.avail_in = a /\ s.n_bytes = d /\ s.len = l
        /\ s.taken = t
    OBVIOUS
  <1> HIDE DEF a, d, l, t, s, b, w, c, r, v
  <1>21. HeldBy(r) = (a + d) + n /\ ExpectedBy(r) = a + l /\ MissingBy(r) = (l - d) - n
    BY <1>0, <1>7, <1>9, <1>18, <1>19 DEF HeldBy, ExpectedBy, MissingBy
  <1>22. ProcNumbers(r)
    <2>1. r.avail_in \in Nat /\ r.n_bytes \in Nat
      BY <1>7, <1>9, <1>19
    <2> QED
      BY <1>6, <1>18, <2>1 DEF ProcNumbers
  <1>23. InBuffer(r, c)
    <2>1. \A k \in 0 .. (a + d) + n - 1 : 0 + k = k
      BY <1>7, <1>9
    <2>2. 0 + (a + l) <= 2 * BUFFER_SIZE
      BY <1>5, <1>7, <1>9
    <2> QED
      BY <1>0, <1>7, <1>16, <1>18, <1>21, <2>1, <2>2 DEF InBuffer, Front
  <1>24. r.at \in {"recv_payload", "iter"} /\ OutBufLen(r) = OutBufLen(s)
    BY <1>18, <1>19 DEF OutBufLen
  <1>25. OutBuffer(r) /\ JobState(r)
    BY <1>1, <1>6, <1>7, <1>18, <1>24 DEF OutBuffer, JobState
  <1>26. SendState(r) /\ RecvState(r)
    BY <1>0, <1>2, <1>7, <1>18, <1>19 DEF SendState, RecvState, Sending, Receiving
  <1>27. Local(r, c)
    BY <1>22, <1>23, <1>25, <1>26 DEF Local
  <1>28. Reached(r, f, g, e, n + 1)
    <2>1. t + ((a + d) + n) = t + (a + d) + n
      BY <1>7, <1>9
    <2> QED
      BY <1>0, <1>2, <1>13, <1>18, <1>21, <2>1 DEF Reached, GotBy, EndedBy
  <1>29. SendsLike(r, s)
    BY <1>1, <1>2, <1>18, <1>24 DEF SendsLike, SentBy, OwedBy, SentEof, Sending, Receiving
  <1> QED
    BY <1>0, <1>1, <1>2, <1>9, <1>10, <1>15, <1>17, <1>20, <1>27, <1>28, <1>29, RecvStep


\* No header comes where a payload is expected.
LEMMA NoStray ==
    ASSUME StreamInv, BufferInv, NEW p \in Procs, RecvStray(p)
    PROVE  FALSE
  <1> DEFINE s == proc[p]
             w == wire[p]
  <1>1. s.at = "recv_payload" /\ w # <<>> /\ Head(w).kind = "header"
    BY DEF RecvStray
  <1>2. ~Gone(p) /\ s.fn \in Receiving
    BY <1>1, RecvWhere
  <1>3. w \in Seq(Items) /\ Len(w) \in Nat /\ Len(w) # 0 /\ Head(w) = w[1]
    <2>1. w \in Seq(Items)
      BY DEF BufferInv, MemoryOK
    <2> QED
      BY <1>1, <2>1, EmptySeq, HeadTailProperties
  <1>4. PICK f, g, e : LinkBy(p, w, s, proc[Peer(p)], f, g, e)
    BY <1>2 DEF BufferInv, Link
  <1>5. g[1] = MissingBy(s) /\ Item(w[1], f[1], g[1], e[1], f[1 + 1], g[1 + 1], e[1 + 1])
    <2>1. 1 \in 1 .. Len(w)
      BY <1>3
    <2>2. g[1] = MissingBy(s) /\ Trace(p, w, f, g, e)
      BY <1>4 DEF LinkBy
    <2>3. \A i \in 1 .. Len(w) : Item(w[i], f[i], g[i], e[i], f[i + 1], g[i + 1], e[i + 1])
      BY <2>2 DEF Trace
    <2> HIDE DEF w, s
    <2> QED
      BY <2>1, <2>2, <2>3
  <1>6. g[1] = 0
    <2>1. w[1].kind = "header"
      BY <1>1, <1>3
    <2> HIDE DEF w, s
    <2> QED
      BY <1>5, <2>1 DEF Item
  <1>7. s.len \in Nat /\ s.n_bytes \in Nat /\ s.n_bytes < s.len /\ MissingBy(s) = s.len - s.n_bytes
    BY <1>1, <1>2 DEF BufferInv, Local, ProcNumbers, RecvState, MissingBy
  <1>8. \A l, d \in Nat : d < l => l - d # 0
    OBVIOUS
  <1> HIDE DEF s, w
  <1> QED
    BY <1>5, <1>6, <1>7, <1>8, Zenon


-----------------------------------------------------------------------------
(* Sending.                                                                *)

\* What the wire to a process sees of it.
ReceivesLike(r, s) == GotBy(r) = GotBy(s) /\ MissingBy(r) = MissingBy(s) /\ EndedBy(r) = EndedBy(s)

\* A process puts n items on the wire to the other.
LEMMA SendStep ==
    ASSUME StreamInv, BufferInv, NEW p \in Procs, NEW r, Goes(p, r), task' = task, in_buf' = in_buf,
           Local(r, in_buf[p]), ~Gone(p), ~Gone(Peer(p)),
           NEW n \in Nat, NEW v, wire' = [wire EXCEPT ![Peer(p)] = v], v \in Seq(Items),
           Extended(wire[Peer(p)], n, v), NEW h1, NEW h2, NEW h3,
           Continues(Peer(p), wire[Peer(p)], n, v, h1, h2, h3),
           SentBy(proc[p]) = h1[0], OwedBy(proc[p]) = h2[0], SentEof(proc[p]) = h3[0],
           SentBy(r) = h1[n], OwedBy(r) = h2[n], SentEof(r) = h3[n], ReceivesLike(r, proc[p])
    PROVE  BufferInv'
  <1> DEFINE q == Peer(p)
             w == wire[q]
  <1>1. q \in Procs /\ Peer(q) = p /\ q # p
    BY DEF Peer, Procs
  <1>2. w \in Seq(Items) /\ DOMAIN wire = Procs
    BY <1>1 DEF BufferInv, MemoryOK
  <1>3. Len(w) \in Nat
    BY <1>2, LenProperties
  <1>4. wire'[q] = v /\ wire'[p] = wire[p] /\ DOMAIN wire' = Procs
    BY <1>1, <1>2
  <1>5. \A x \in Procs : wire'[x] \in Seq(Items)
    BY <1>1, <1>4 DEF BufferInv, MemoryOK, Peer, Procs
  <1>6. Link(q, v, proc[q], r)
    <2>1. PICK f, g, e : LinkBy(q, w, proc[q], proc[p], f, g, e)
      BY <1>1 DEF BufferInv, Link
    <2>2. Trace(q, w, f, g, e) /\ h1[0] = f[Len(w) + 1] /\ h2[0] = g[Len(w) + 1] /\ h3[0] = e[Len(w) + 1]
          /\ f[1] = GotBy(proc[q]) /\ g[1] = MissingBy(proc[q]) /\ e[1] = EndedBy(proc[q])
      BY <2>1 DEF LinkBy, Gone
    <2>3. Extended(w, n, v) /\ Continues(q, w, n, v, h1, h2, h3)
      OBVIOUS
    <2> HIDE DEF q, w
    <2>4. TracedTo(q, v, f, g, e, h1[n], h2[n], h3[n])
      BY <1>3, <2>2, <2>3, TraceBack
    <2> QED
      BY <2>2, <2>4 DEF Link, LinkBy, TracedTo
  <1>7. Link(p, wire[p], proc[p], proc[q])
    BY DEF BufferInv
  <1>8. Link(p, wire[p], r, proc[q])
    BY <1>7 DEF Link, LinkBy, ReceivesLike
  <1>9. Holds(p, in_buf[p])
    BY SameBuffers
  <1> QED
    BY <1>4, <1>5, <1>6, <1>8, <1>9, BufferStep

\* Who sends, and how much in all.
LEMMA SendWhere ==
    ASSUME StreamInv, NEW p \in Procs, proc[p].at \in {"send_header", "send_payload"}
    PROVE  /\ DOMAIN proc[p] = ProcFields /\ ~Gone(p) /\ proc[p].fn \in Sending
           /\ proc[p].fn \in Sending \cup Receiving
           /\ Total(Peer(p)) = TargetLen(proc[p].fn)
           /\ Peer(p) = "client" => proc[p].fn = "send_delta" /\ Total(Peer(p)) = task.delta
  <1>1. DOMAIN proc[p] = ProcFields /\ Place(p, proc[p].fn, proc[p].at) /\ ~Gone(p)
    BY WhereIs DEF Statuses
  <1>2. \/ p = "client" /\ proc[p].fn = "send_signature"
        \/ p = "server" /\ proc[p].fn = "send_delta"
    BY <1>1 DEF Place, Statuses
  <1> QED
    BY <1>1, <1>2 DEF Sending, Total, TargetLen, Peer

\* The items that are sent.
LEMMA ItemsSent ==
    /\ \A len \in Nat, eof \in BOOLEAN : [kind |-> "header", len |-> len, eof |-> eof] \in Items
    /\ \A pos \in Nat : [kind |-> "byte", pos |-> pos] \in Items
  BY DEF Items


\* A header.
LEMMA SendHeaderBuffers ==
    ASSUME StreamInv, BufferInv, NEW p \in Procs, SendHeader(p)
    PROVE  BufferInv'
  <1> DEFINE s == proc[p]
             b == in_buf[p]
             q == Peer(p)
             w == wire[q]
             l == OutBufLen(s)
             h == [kind |-> "header", len |-> l, eof |-> s.res = "RS_DONE"]
             v == Append(w, h)
             r == IF s.out_buf = <<>> THEN Drained(s) ELSE [s EXCEPT !.at = "send_payload", !.n_bytes = 0]
  <1>1. /\ s.at = "send_header" /\ task' = task /\ in_buf' = in_buf /\ ~Gone(q)
        /\ wire' = [wire EXCEPT ![q] = v] /\ Goes(p, r)
    BY DEF SendHeader, Writable, HeaderSent, OutBufLen
  <1>2. /\ DOMAIN s = ProcFields /\ ~Gone(p) /\ s.fn \in Sending /\ s.fn \in Sending \cup Receiving
        /\ Total(q) = TargetLen(s.fn) /\ (q = "client" => s.fn = "send_delta" /\ Total(q) = task.delta)
    BY <1>1, SendWhere
  <1>3. Local(s, b) /\ BUFFER_SIZE \in Nat /\ q \in Procs /\ task.delta \in Nat /\ TargetLen(s.fn) \in Nat
    BY <1>2, StreamNumbers DEF BufferInv, Peer, Procs
  <1>4. ProcNumbers(s) /\ InBuffer(s, b) /\ OutBuffer(s) /\ JobState(s) /\ SendState(s)
    BY <1>2, <1>3 DEF Local
  <1>5. /\ s.put \in Nat /\ s.put <= TargetLen(s.fn) /\ s.out_buf \in Seq(Nat)
        /\ s.res \in {"RS_BLOCKED", "RS_DONE"}
        /\ l \in Nat /\ l <= BUFFER_SIZE /\ l <= s.put /\ (l = 0 <=> s.out_buf = <<>>)
        /\ s.fn = "send_delta" => l # 0
    <2>1. s.out_buf \in Seq(Nat) /\ s.put \in Nat /\ s.res \in {"RS_BLOCKED", "RS_DONE"}
      BY <1>4 DEF ProcNumbers
    <2>2. Len(s.out_buf) \in Nat /\ (s.out_buf # <<>> => Len(s.out_buf) # 0) /\ Len(<<>>) = 0
      BY <2>1, EmptySeq, LenProperties
    <2>3. s.fn = "send_delta" => s.out_buf # <<>>
      BY <1>1, <1>2, <1>4 DEF SendState
    <2> QED
      BY <1>4, <2>1, <2>2, <2>3 DEF OutBuffer, OutBufLen
  <1>6. /\ r.fn = s.fn /\ r.put = s.put /\ r.res = s.res /\ r.taken = s.taken /\ r.avail_in = s.avail_in
        /\ r.next_in = s.next_in /\ r.eof_in = s.eof_in /\ r.len = s.len /\ r.pos = s.pos
    BY <1>2 DEF Drained, ProcFields
  <1>7. \/ s.out_buf # <<>> /\ r.at = "send_payload" /\ r.out_buf = s.out_buf /\ r.n_bytes = 0
        \/ /\ s.out_buf = <<>> /\ r = Drained(s) /\ r.out_buf = <<>>
           /\ r.at = IF s.res = "RS_DONE" THEN "return" ELSE "fill"
    BY <1>2, DrainedFacts DEF ProcFields
  <1>8. w \in Seq(Items) /\ h \in Items
    <2>1. (s.res = "RS_DONE") \in BOOLEAN
      OBVIOUS
    <2> HIDE DEF l
    <2>2. h \in Items
      BY <1>5, <2>1, ItemsSent, Zenon
    <2>3. w \in Seq(Items)
      BY <1>3 DEF BufferInv, MemoryOK
    <2> QED
      BY <2>2, <2>3
  <1>9. v \in Seq(Items) /\ Extended(w, 1, v) /\ v[Len(w) + 1] = h
    <2> HIDE DEF h, w
    <2> QED
      BY <1>8, AppendProperties DEF Extended
  <1>10. h.kind = "header" /\ h.len = l /\ h.eof = (s.res = "RS_DONE")
    OBVIOUS
  <1> DEFINE h1 == [i \in 0 .. 1 |-> s.put - l]
             h2 == [i \in 0 .. 1 |-> IF i = 0 THEN 0 ELSE l]
             h3 == [i \in 0 .. 1 |-> IF i = 0 THEN FALSE ELSE s.res = "RS_DONE"]
  <1>11. /\ h1[0] = s.put - l /\ h2[0] = 0 /\ h3[0] = FALSE
         /\ h1[1] = s.put - l /\ h2[1] = l /\ h3[1] = (s.res = "RS_DONE")
    <2>1. 0 \in 0 .. 1 /\ 1 \in 0 .. 1 /\ 1 # 0
      OBVIOUS
    <2> HIDE DEF l, s
    <2> QED
      BY <2>1
  <1>0. s = proc[p] /\ b = in_buf[p] /\ q = Peer(p) /\ w = wire[q] /\ l = OutBufLen(s)
    OBVIOUS
  <1> HIDE DEF s, b, q, w, l, h, v, r, h1, h2, h3
  <1>12. Point(q, h1[1], h2[1], h3[1])
    <2>1. s.put - l \in Nat /\ s.put - l <= Total(q)
      BY <1>2, <1>3, <1>5
    <2>2. (s.res = "RS_DONE") \in BOOLEAN
      OBVIOUS
    <2>3. q = "client" => s.put - l # Total(q)
      BY <1>2, <1>3, <1>5
    <2> QED
      BY <1>5, <1>11, <2>1, <2>2, <2>3 DEF Point
  <1>13. Item(h, h1[0], h2[0], h3[0], h1[1], h2[1], h3[1])
    BY <1>3, <1>5, <1>10, <1>11 DEF Item
  <1>14. Continues(q, w, 1, v, h1, h2, h3)
    <2>1. \A i \in 1 .. 1 : i = 1 /\ i - 1 = 0
      OBVIOUS
    <2> QED
      BY <1>9, <1>12, <1>13, <2>1 DEF Continues
  <1>15. SentBy(s) = h1[0] /\ OwedBy(s) = h2[0] /\ SentEof(s) = h3[0]
    <2>1. SentBy(s) = h1[0] /\ OwedBy(s) = h2[0]
      BY <1>0, <1>1, <1>2, <1>5, <1>11 DEF SentBy, OwedBy
    <2>2. SentEof(s) = h3[0]
      BY <1>1, <1>2, <1>11 DEF SentEof
    <2> QED
      BY <2>1, <2>2
  <1>16. /\ SentBy(r) = h1[1] /\ OwedBy(r) = h2[1] /\ SentEof(r) = h3[1]
         /\ r.at \in {"send_payload", "return", "fill"}
    <2>1. CASE s.out_buf # <<>> /\ r.at = "send_payload" /\ r.out_buf = s.out_buf /\ r.n_bytes = 0
      <3>1. OutBufLen(r) = l
        BY <1>0, <2>1 DEF OutBufLen
      <3> QED
        BY <1>2, <1>5, <1>6, <1>11, <2>1, <3>1 DEF SentBy, OwedBy, SentEof
    <2>2. CASE /\ s.out_buf = <<>> /\ r.out_buf = <<>>
               /\ r.at = IF s.res = "RS_DONE" THEN "return" ELSE "fill"
      <3>1. OutBufLen(r) = 0 /\ l = 0
        BY <1>5, <2>2 DEF OutBufLen
      <3>2. r.at # "send_payload" /\ (r.at = "return" <=> s.res = "RS_DONE")
        BY <2>2
      <3>3. SentBy(r) = h1[1] /\ OwedBy(r) = h2[1]
        BY <1>2, <1>5, <1>6, <1>11, <3>1, <3>2 DEF SentBy, OwedBy
      <3>4. SentEof(r) = h3[1]
        BY <1>2, <1>6, <1>11, <3>2 DEF SentEof
      <3> QED
        BY <2>2, <3>3, <3>4
    <2> QED
      BY <1>7, <2>1, <2>2
  <1>17. Local(r, b)
    <2>1. CASE r = Drained(s)
      BY <1>1, <1>2, <1>3, <2>1, DrainedLocal
    <2>2. CASE s.out_buf # <<>> /\ r.at = "send_payload" /\ r.out_buf = s.out_buf /\ r.n_bytes = 0
      <3>1. OutBufLen(r) = OutBufLen(s) /\ HeldBy(r) = HeldBy(s) /\ ExpectedBy(r) = ExpectedBy(s)
        BY <1>1, <1>6, <2>2 DEF OutBufLen, HeldBy, ExpectedBy
      <3>2. ProcNumbers(r) /\ InBuffer(r, b)
        BY <1>4, <1>6, <2>2, <3>1 DEF ProcNumbers, InBuffer
      <3>3. OutBuffer(r) /\ JobState(r)
        BY <1>1, <1>4, <1>6, <2>2, <3>1 DEF OutBuffer, JobState
      <3>4. SendState(r) /\ RecvState(r)
        BY <1>0, <1>1, <1>4, <1>5, <1>6, <2>2, <3>1 DEF SendState, RecvState
      <3> QED
        BY <3>2, <3>3, <3>4 DEF Local
    <2> QED
      BY <1>7, <2>1, <2>2
  <1>18. ReceivesLike(r, s)
    BY <1>1, <1>2, <1>6, <1>16 DEF ReceivesLike, GotBy, MissingBy, EndedBy, Sending, Receiving
  <1> QED
    BY <1>0, <1>1, <1>2, <1>9, <1>14, <1>15, <1>16, <1>17, <1>18, SendStep


\* Some of the payload.
LEMMA SendPayloadBuffers ==
    ASSUME StreamInv, BufferInv, NEW p \in Procs, SendPayload(p)
    PROVE  BufferInv'
  <1> DEFINE s == proc[p]
             b == in_buf[p]
             q == Peer(p)
             w == wire[q]
             l == OutBufLen(s)
             d == s.n_bytes
             items(n) == [k \in 1 .. n |-> [kind |-> "byte", pos |-> s.out_buf[d + k]]]
  <1>1. s.at = "send_payload" /\ task' = task /\ in_buf' = in_buf /\ ~Gone(q)
    BY DEF SendPayload
  <1>2. /\ DOMAIN s = ProcFields /\ ~Gone(p) /\ s.fn \in Sending /\ s.fn \in Sending \cup Receiving
        /\ Total(q) = TargetLen(s.fn) /\ (q = "client" => s.fn = "send_delta" /\ Total(q) = task.delta)
    BY <1>1, SendWhere
  <1>3. Local(s, b) /\ BUFFER_SIZE \in Nat /\ q \in Procs /\ task.delta \in Nat /\ TargetLen(s.fn) \in Nat
    BY <1>2, StreamNumbers DEF BufferInv, Peer, Procs
  <1>4. ProcNumbers(s) /\ InBuffer(s, b) /\ OutBuffer(s) /\ JobState(s) /\ SendState(s)
    BY <1>2, <1>3 DEF Local
  <1>5. /\ s.put \in Nat /\ s.put <= TargetLen(s.fn) /\ s.res \in {"RS_BLOCKED", "RS_DONE"}
        /\ l \in Nat /\ l <= s.put /\ d \in Nat /\ d < l
        /\ s.fn = "send_delta" /\ s.res = "RS_BLOCKED" => s.put < task.delta
        /\ s.out_buf = LastBytes(l, s.put)
    <2>1. s.out_buf \in Seq(Nat) /\ s.put \in Nat /\ s.res \in {"RS_BLOCKED", "RS_DONE"} /\ d \in Nat
      BY <1>4 DEF ProcNumbers
    <2>2. Len(s.out_buf) \in Nat
      BY <2>1, LenProperties
    <2> QED
      BY <1>1, <1>2, <1>4, <2>1, <2>2 DEF OutBuffer, OutBufLen, SendState
  <1>6. w \in Seq(Items) /\ Len(w) \in Nat /\ WireRoom \in Nat
    <2>1. w \in Seq(Items)
      BY <1>3 DEF BufferInv, MemoryOK
    <2> QED
      BY <2>1, LenProperties, StreamNumbers
  <1>7. PICK n \in 1 .. Smaller(l - d, WireRoom - Len(w)) :
          /\ wire' = [wire EXCEPT ![q] = w \o items(n)]
          /\ Goes(p, IF d + n < l THEN [s EXCEPT !.n_bytes = @ + n] ELSE Drained(s))
    BY <1>3 DEF SendPayload, OutBufLen, BufferInv, MemoryOK
  <1>8. n \in Nat /\ n # 0 /\ n <= l - d
    <2> DEFINE m == Len(w)
    <2>1. n \in 1 .. Smaller(l - d, WireRoom - m) /\ m \in Nat
      BY <1>6, <1>7
    <2> HIDE DEF l, d, m
    <2> QED
      BY <1>5, <1>6, <2>1 DEF Smaller
  <1> DEFINE r == IF d + n < l THEN [s EXCEPT !.n_bytes = @ + n] ELSE Drained(s)
             y == items(n)
             v == w \o y
             x == s.put - l + d
  <1>9. /\ r.fn = s.fn /\ r.put = s.put /\ r.res = s.res /\ r.taken = s.taken /\ r.avail_in = s.avail_in
        /\ r.next_in = s.next_in /\ r.eof_in = s.eof_in /\ r.len = s.len /\ r.pos = s.pos
    BY <1>2 DEF Drained, ProcFields
  <1>10. \/ d + n < l /\ r.at = "send_payload" /\ r.out_buf = s.out_buf /\ r.n_bytes = d + n
         \/ /\ d + n = l /\ r = Drained(s) /\ r.out_buf = <<>>
            /\ r.at = IF s.res = "RS_DONE" THEN "return" ELSE "fill"
    <2>1. d + n < l \/ (d + n = l /\ ~(d + n < l))
      <3> HIDE DEF l, d
      <3> QED
        BY <1>5, <1>8
    <2> QED
      BY <1>1, <1>2, <2>1, DrainedFacts DEF ProcFields
  <1>11. x \in Nat /\ \A k \in 1 .. n : s.out_buf[d + k] = x + k /\ x + k \in Nat
    <2> HIDE DEF l, d, s
    <2>1. x \in Nat
      BY <1>5
    <2>2. ASSUME NEW k \in 1 .. n
          PROVE  s.out_buf[d + k] = x + k /\ x + k \in Nat
      <3>1. d + k \in 1 .. l /\ s.put - l + (d + k) = x + k /\ k \in Nat
        BY <1>5, <1>8
      <3>2. LastBytes(l, s.put)[d + k] = s.put - l + (d + k)
        BY <3>1 DEF LastBytes
      <3> HIDE DEF x
      <3> QED
        BY <1>5, <2>1, <3>1, <3>2
    <2> QED
      BY <2>1, <2>2
  <1>12. y \in Seq(Items) /\ Len(y) = n /\ \A k \in 1 .. n : y[k].kind = "byte" /\ y[k].pos = x + k
    <2> HIDE DEF x, d, s
    <2>1. y = [k \in 1 .. n |-> [kind |-> "byte", pos |-> s.out_buf[d + k]]]
      OBVIOUS
    <2>2. \A k \in 1 .. n : [kind |-> "byte", pos |-> s.out_buf[d + k]] \in Items
      BY <1>11, ItemsSent
    <2>3. \A k \in 1 .. n : y[k] \in Items /\ y[k].kind = "byte" /\ y[k].pos = x + k
      BY <1>11, <2>1, <2>2
    <2>4. y \in Seq(Items)
      BY <1>8, <2>1, <2>2
    <2>5. Len(y) = n
      BY <1>8, <2>1
    <2> QED
      BY <2>3, <2>4, <2>5
  <1>13. /\ v \in Seq(Items) /\ Extended(w, n, v)
         /\ \A k \in 1 .. n : v[Len(w) + k] = y[k]
    <2> DEFINE m == Len(w)
    <2>1. m \in Nat /\ Len(y) = n /\ n \in Nat
      BY <1>6, <1>8, <1>12
    <2> HIDE DEF y, w
    <2>2. /\ v \in Seq(Items) /\ Len(v) = Len(w) + Len(y)
          /\ \A i \in 1 .. Len(w) + Len(y) : v[i] = IF i <= Len(w) THEN w[i] ELSE y[i - Len(w)]
      BY <1>6, <1>12, ConcatProperties
    <2>3. /\ v \in Seq(Items) /\ Len(v) = m + n
          /\ \A i \in 1 .. m + n : v[i] = IF i <= m THEN w[i] ELSE y[i - m]
      BY <2>1, <2>2
    <2>4. m = Len(w)
      OBVIOUS
    <2> HIDE DEF v, m
    <2>5. \A i \in 1 .. m : v[i] = w[i]
      BY <2>1, <2>3
    <2>6. ASSUME NEW k \in 1 .. n
          PROVE  v[m + k] = y[k]
      <3>1. m + k \in 1 .. m + n /\ ~(m + k <= m) /\ (m + k) - m = k
        BY <2>1
      <3> QED
        BY <2>3, <3>1
    <2> QED
      BY <2>3, <2>4, <2>5, <2>6 DEF Extended
  <1> DEFINE eof == s.res = "RS_DONE"
             h1 == [i \in 0 .. n |-> x + i]
             h2 == [i \in 0 .. n |-> (l - d) - i]
             h3 == [i \in 0 .. n |-> eof]
  <1>14. \A i \in 0 .. n : h1[i] = x + i /\ h2[i] = (l - d) - i /\ h3[i] = eof
    <2> HIDE DEF x, l, d, eof
    <2> QED
      OBVIOUS
  <1>0. /\ s = proc[p] /\ b = in_buf[p] /\ q = Peer(p) /\ w = wire[q] /\ l = OutBufLen(s) /\ d = s.n_bytes
        /\ x = s.put - l + d /\ eof = (s.res = "RS_DONE") /\ eof \in BOOLEAN
        /\ Goes(p, r) /\ wire' = [wire EXCEPT ![q] = v]
    BY <1>7
  <1> HIDE DEF s, b, q, w, l, d, v, y, r, x, h1, h2, h3, eof
  <1>15. x + n <= s.put /\ l - d \in Nat
    BY <1>0, <1>5, <1>8
  <1>16. ASSUME NEW i \in 1 .. n
         PROVE  /\ Point(q, h1[i], h2[i], h3[i])
                /\ Item(v[Len(w) + i], h1[i - 1], h2[i - 1], h3[i - 1], h1[i], h2[i], h3[i])
    <2>1. i \in 0 .. n /\ i - 1 \in 0 .. n
      BY <1>8
    <2>2. /\ h1[i] = x + i /\ h2[i] = (l - d) - i /\ h3[i] = eof
          /\ h1[i - 1] = x + (i - 1) /\ h2[i - 1] = (l - d) - (i - 1) /\ h3[i - 1] = eof
      BY <1>14, <2>1
    <2>3. x + i \in Nat /\ x + i <= s.put /\ (l - d) - i \in Nat
      BY <1>5, <1>8, <1>11, <1>15
    <2>4. x + i <= Total(q)
      BY <1>2, <1>3, <1>5, <2>3
    <2>5. q = "client" /\ x + i = Total(q) => eof
      <3>1. q = "client" /\ x + i = Total(q) => s.res = "RS_DONE"
        BY <1>2, <1>3, <1>5, <2>3
      <3> QED
        BY <1>0, <3>1
    <2>6. Point(q, h1[i], h2[i], h3[i])
      BY <1>0, <2>2, <2>3, <2>4, <2>5 DEF Point
    <2>7. v[Len(w) + i].kind = "byte" /\ v[Len(w) + i].pos = x + i
      BY <1>12, <1>13
    <2>8. x + i = (x + (i - 1)) + 1 /\ (l - d) - (i - 1) > 0 /\ (l - d) - i = ((l - d) - (i - 1)) - 1
      BY <1>8, <1>11, <1>15
    <2>9. Item(v[Len(w) + i], h1[i - 1], h2[i - 1], h3[i - 1], h1[i], h2[i], h3[i])
      BY <2>2, <2>7, <2>8 DEF Item
    <2> QED
      BY <2>6, <2>9
  <1>17. Continues(q, w, n, v, h1, h2, h3)
    BY <1>16 DEF Continues
  <1>18. SentBy(s) = h1[0] /\ OwedBy(s) = h2[0] /\ SentEof(s) = h3[0]
    <2>1. 0 \in 0 .. n
      BY <1>8
    <2>2. h1[0] = x + 0 /\ h2[0] = (l - d) - 0 /\ h3[0] = eof
      BY <1>14, <2>1
    <2>3. SentBy(s) = x /\ OwedBy(s) = l - d
      BY <1>0, <1>1, <1>2 DEF SentBy, OwedBy
    <2>4. SentEof(s) = eof
      BY <1>0, <1>1, <1>2 DEF SentEof
    <2> QED
      BY <1>11, <1>15, <2>2, <2>3, <2>4
  <1>19. /\ SentBy(r) = h1[n] /\ OwedBy(r) = h2[n] /\ SentEof(r) = h3[n]
         /\ r.at \in {"send_payload", "return", "fill"}
    <2>1. n \in 0 .. n
      BY <1>8
    <2>0. /\ s.put \in Nat /\ l \in Nat /\ d \in Nat /\ n \in Nat /\ l <= s.put
          /\ x = s.put - l + d
      BY <1>0, <1>5, <1>8
    <2>2. h1[n] = x + n /\ h2[n] = (l - d) - n /\ h3[n] = eof
      BY <1>14, <2>1
    <2>3. CASE d + n < l /\ r.at = "send_payload" /\ r.out_buf = s.out_buf /\ r.n_bytes = d + n
      <3>1. OutBufLen(r) = l
        BY <1>0, <2>3 DEF OutBufLen
      <3>2. SentBy(r) = s.put - l + (d + n) /\ OwedBy(r) = l - (d + n)
        BY <1>2, <1>9, <2>3, <3>1 DEF SentBy, OwedBy
      <3>3. SentEof(r) = eof
        BY <1>0, <1>2, <1>9, <2>3 DEF SentEof
      <3>4. s.put - l + (d + n) = x + n /\ l - (d + n) = (l - d) - n
        BY <2>0
      <3> QED
        BY <2>2, <2>3, <3>2, <3>3, <3>4
    <2>4. CASE /\ d + n = l /\ r.out_buf = <<>>
               /\ r.at = IF s.res = "RS_DONE" THEN "return" ELSE "fill"
      <3>1. OutBufLen(r) = 0
        BY <2>4 DEF OutBufLen
      <3>2. r.at # "send_payload" /\ (r.at = "return" <=> s.res = "RS_DONE")
        BY <2>4
      <3>3. SentBy(r) = s.put - 0 + 0 /\ OwedBy(r) = 0
        BY <1>2, <1>9, <3>1, <3>2 DEF SentBy, OwedBy
      <3>4. SentEof(r) = eof
        BY <1>0, <1>2, <1>9, <3>2 DEF SentEof
      <3>5. s.put - 0 + 0 = x + n /\ 0 = (l - d) - n
        <4>1. d + n = l
          BY <2>4
        <4>2. \A p1, d1, n1 \in Nat :
                p1 - 0 + 0 = (p1 - (d1 + n1) + d1) + n1 /\ 0 = ((d1 + n1) - d1) - n1
          OBVIOUS
        <4>3. s.put \in Nat /\ d \in Nat /\ n \in Nat /\ x = s.put - (d + n) + d
          BY <2>0, <4>1, Zenon
        <4> QED
          BY <4>1, <4>2, <4>3, Zenon
      <3> QED
        BY <2>2, <2>4, <3>3, <3>4, <3>5
    <2> QED
      BY <1>10, <2>3, <2>4
  <1>20. Local(r, b)
    <2>1. CASE r = Drained(s)
      BY <1>1, <1>2, <1>3, <2>1, DrainedLocal
    <2>2. CASE d + n < l /\ r.at = "send_payload" /\ r.out_buf = s.out_buf /\ r.n_bytes = d + n
      <3>1. OutBufLen(r) = OutBufLen(s) /\ HeldBy(r) = HeldBy(s) /\ ExpectedBy(r) = ExpectedBy(s)
        BY <1>1, <1>9, <2>2 DEF OutBufLen, HeldBy, ExpectedBy
      <3>2. d + n \in Nat
        BY <1>5, <1>8
      <3>3. ProcNumbers(r) /\ InBuffer(r, b)
        BY <1>4, <1>9, <2>2, <3>1, <3>2 DEF ProcNumbers, InBuffer
      <3>4. OutBuffer(r) /\ JobState(r)
        BY <1>1, <1>4, <1>9, <2>2, <3>1 DEF OutBuffer, JobState
      <3>5. SendState(r) /\ RecvState(r)
        BY <1>0, <1>1, <1>4, <1>9, <2>2, <3>1 DEF SendState, RecvState
      <3> QED
        BY <3>3, <3>4, <3>5 DEF Local
    <2> QED
      BY <1>10, <2>1, <2>2
  <1>21. ReceivesLike(r, s)
    BY <1>1, <1>2, <1>9, <1>19 DEF ReceivesLike, GotBy, MissingBy, EndedBy, Sending, Receiving
  <1> QED
    BY <1>0, <1>1, <1>2, <1>8, <1>13, <1>17, <1>18, <1>19, <1>20, <1>21, SendStep, ZenonT(60)


-----------------------------------------------------------------------------
(* The theorems.                                                           *)

\* Nothing has been sent at the start.
LEMMA BufferInit ==
    ASSUME Init
    PROVE  BufferInv
  <1>1. StreamInv
    BY StreamInit
  <1>2. \A p \in Procs : proc[p].fn \in {"connect_to_server", "accept_connection"}
                         /\ proc[p].at \in {"connect", "bind", "accept"}
    BY DEF Init, Enter, Procs
  <1>3. \A p \in Procs : Local(proc[p], in_buf[p]) /\ Fresh(proc[p]) /\ Peer(p) \in Procs
    BY <1>2, NotBegun DEF Peer, Procs
  <1>4. MemoryOK /\ \A p \in Procs : wire[p] = <<>>
    BY EmptySeq DEF Init, MemoryOK
  <1>5. ASSUME NEW q \in Procs
        PROVE  Link(q, wire[q], proc[q], proc[Peer(q)])
    <2> DEFINE f == [i \in 1 .. 1 |-> 0]
               e == [i \in 1 .. 1 |-> FALSE]
    <2>1. f[1] = 0 /\ e[1] = FALSE /\ DOMAIN f = 1 .. 1 /\ DOMAIN e = 1 .. 1
      OBVIOUS
    <2>2. Len(wire[q]) = 0 /\ 0 + 1 = 1 /\ 1 .. 0 = {} /\ \A i \in 1 .. 1 : i = 1
      BY <1>4
    <2>3. Total(q) \in Nat \ {0}
      BY <1>1, StreamNumbers
    <2> HIDE DEF f, e
    <2>4. Point(q, f[1], f[1], e[1])
      <3>1. f[1] \in Nat /\ f[1] <= Total(q) /\ f[1] # Total(q)
        BY <2>1, <2>3
      <3>2. e[1] \in BOOLEAN
        BY <2>1
      <3> QED
        BY <3>1, <3>2 DEF Point
    <2>5. Trace(q, wire[q], f, f, e)
      BY <2>1, <2>2, <2>4 DEF Trace
    <2>6. LinkBy(q, wire[q], proc[q], proc[Peer(q)], f, f, e)
      BY <1>3, <2>1, <2>2, <2>5 DEF LinkBy, Fresh
    <2> QED
      BY <2>6 DEF Link
  <1> QED
    BY <1>3, <1>4, <1>5 DEF BufferInv

\* A step that changes nothing.
LEMMA BufferSame ==
    ASSUME BufferInv, UNCHANGED vars
    PROVE  BufferInv'
  <1>1. task' = task /\ proc' = proc /\ in_buf' = in_buf /\ wire' = wire
    BY DEF vars
  <1>2. MemoryOK'
    BY <1>1 DEF BufferInv, MemoryOK
  <1>3. (\A p \in Procs : Local(proc[p], in_buf[p]))'
    BY <1>1, SameTask DEF BufferInv
  <1>4. (\A q \in Procs : ~Gone(q) => Link(q, wire[q], proc[q], proc[Peer(q)]))'
    BY <1>1, SameTask DEF BufferInv, Gone, Peer
  <1> QED
    BY <1>2, <1>3, <1>4 DEF BufferInv

\* Every step of every process.
LEMMA BufferAlways == Spec => [](~Split => BufferInv)
  <1>1. ASSUME StreamInv, BufferInv, ~Split, ~Split', [Next]_vars
        PROVE  BufferInv'
    <2>1. CASE UNCHANGED vars
      BY <1>1, <2>1, BufferSame
    <2>2. CASE Stopped
      BY <1>1, <2>2, BufferSame DEF Stopped
    <2>3. ASSUME NEW p \in Procs, Step(p)
          PROVE  BufferInv'
      BY <1>1, <2>3, ConnectBuffers, WriteBuffers, CloseBuffers, OpenBuffers, FillFromFileBuffers,
         RecvStartBuffers, RecvHeaderBuffers, RecvPayloadBuffers, NoStray, SplitSteps, FailBuffers,
         BufferSame, IterBuffers, SendHeaderBuffers, SendPayloadBuffers, ReturnBuffers
         DEF Step, RecvNothing
    <2> QED
      BY <1>1, <2>1, <2>2, <2>3 DEF Next
  <1>2. (~Split => StreamInv) /\ (~Split => BufferInv) /\ [Next]_vars => (~Split => BufferInv)'
    BY <1>1, FaultsStay
  <1>3. Init => (~Split => BufferInv)
    BY BufferInit
  <1> QED
    BY <1>2, <1>3, StreamAlways, PTL DEF Spec

\* Both processes agree on where messages begin and end, as long as no header is
\* split: recv_message finds a header where it reads one, no payload is longer
\* than BUFFER_SIZE, nothing follows the last message, and a job that has
\* succeeded leaves nothing unread.
THEOREM StreamMessages == Spec => []MessagesInStep
  <1>1. (~Split => StreamInv) /\ (~Split => BufferInv) => MessagesInStep
    <2>1. ~Split \/ MessagesInStep
      BY DEF MessagesInStep
    <2> QED
      BY <2>1, MessagesHold
  <1> QED
    BY <1>1, StreamAlways, BufferAlways, PTL

-----------------------------------------------------------------------------
(* The sizes, which are right out of step as well.  A header gives at most *)
(* BUFFER_SIZE, whatever its bytes are, and a message is received only if  *)
(* not more than that is left in in_buf.                                   *)

AnyItems ==
    [kind : {"header"}, len : 0 .. BUFFER_SIZE, eof : BOOLEAN] \cup [kind : {"byte"}, pos : Int]

Recving == {"recv_header", "recv_rest", "recv_payload"}

\* The places of the four functions that have loops.
Looping == {"open", "fill", "iter", "send_header", "send_rest", "send_payload", "fwrite", "return"}
           \cup Recving

Roomy(s) ==
    /\ s.at \in Looping => s.fn \in Sending \cup Receiving
    /\ s.fn \in Sending \cup Receiving =>
          /\ s.next_in \in Nat /\ s.avail_in \in Nat /\ s.next_in + s.avail_in <= 2 * BUFFER_SIZE
          /\ s.put \in Nat /\ s.pos \in Nat /\ (s.fn \in Sending => s.pos <= SourceLen(s.fn))
          /\ s.out_buf \in Seq(Int) /\ Len(s.out_buf) <= BUFFER_SIZE
          /\ s.at = "send_payload" => s.n_bytes \in Nat
          /\ s.at \in Recving => s.next_in = 0 /\ s.avail_in <= BUFFER_SIZE
          /\ s.at = "recv_payload" => s.len \in 0 .. BUFFER_SIZE

RoomInv ==
    /\ task \in Tasks /\ DOMAIN proc = Procs /\ DOMAIN wire = Procs
    /\ \A p \in Procs : DOMAIN proc[p] = ProcFields /\ Roomy(proc[p]) /\ wire[p] \in Seq(AnyItems)

\* What the steps below use of it.
LEMMA RoomFacts ==
    ASSUME RoomInv, NEW p \in Procs
    PROVE  /\ DOMAIN proc[p] = ProcFields /\ Roomy(proc[p]) /\ wire[p] \in Seq(AnyItems)
           /\ Peer(p) \in Procs /\ wire[Peer(p)] \in Seq(AnyItems) /\ DOMAIN wire = Procs
           /\ BUFFER_SIZE \in Nat \ {0}
           /\ \A fn \in Sending \cup Receiving : SourceLen(fn) \in Nat /\ TargetLen(fn) \in Nat
  <1>1. task \in Tasks
    BY DEF RoomInv
  <1> QED
    BY <1>1, TaskNumbers DEF RoomInv, Peer, Procs

\* A step of p to r.
LEMMA RoomStep ==
    ASSUME RoomInv, NEW p \in Procs, NEW r, Goes(p, r), DOMAIN r = ProcFields, Roomy(r),
           task' = task, DOMAIN wire' = Procs, \A q \in Procs : wire'[q] \in Seq(AnyItems)
    PROVE  RoomInv'
  <1>1. DOMAIN proc' = Procs /\ proc'[p] = r /\ \A q \in Procs \ {p} : proc'[q] = proc[q]
    BY DEF RoomInv, Goes
  <1>2. \A fn : SourceLen(fn)' = SourceLen(fn)
    BY DEF SourceLen
  <1>3. \A s : Roomy(s)' <=> Roomy(s)
    BY <1>2 DEF Roomy
  <1>4. \A q \in Procs : DOMAIN proc'[q] = ProcFields /\ Roomy(proc'[q])
    BY <1>1 DEF RoomInv
  <1>5. (\A q \in Procs : DOMAIN proc[q] = ProcFields /\ Roomy(proc[q]))'
    BY <1>3, <1>4
  <1> QED
    BY <1>1, <1>5 DEF RoomInv

\* One that leaves the wires alone.
LEMMA RoomQuiet ==
    ASSUME RoomInv, NEW p \in Procs, NEW r, Goes(p, r), DOMAIN r = ProcFields, Roomy(r),
           task' = task, wire' = wire
    PROVE  RoomInv'
  <1>1. DOMAIN wire' = Procs /\ \A q \in Procs : wire'[q] \in Seq(AnyItems)
    BY DEF RoomInv
  <1> QED
    BY <1>1, RoomStep

\* One that changes a wire.
LEMMA RoomWire ==
    ASSUME RoomInv, NEW p \in Procs, NEW r, Goes(p, r), DOMAIN r = ProcFields, Roomy(r),
           task' = task, NEW q \in Procs, NEW v \in Seq(AnyItems), wire' = [wire EXCEPT ![q] = v]
    PROVE  RoomInv'
  <1>1. DOMAIN wire' = Procs /\ \A u \in Procs : wire'[u] \in Seq(AnyItems)
    BY DEF RoomInv
  <1> QED
    BY <1>1, RoomStep

\* r is s but for the place, the header and the result.
AsBefore(r, s) ==
    /\ r.fn = s.fn /\ r.next_in = s.next_in /\ r.avail_in = s.avail_in
    /\ r.put = s.put /\ r.pos = s.pos /\ r.out_buf = s.out_buf

\* A place where nothing is asked of the header or of n_bytes.
Idle(at) == at # "send_payload" /\ at \notin Recving

\* A process exits, or gets to another place.
LEMMA RoomMoves ==
    ASSUME NEW s, DOMAIN s = ProcFields, Roomy(s), task \in Tasks
    PROVE  /\ \A at : LET r == [s EXCEPT !.fn = "exit", !.at = at]
                      IN  DOMAIN r = ProcFields /\ (at \notin Looping => Roomy(r))
           /\ \A at : LET r == [s EXCEPT !.at = at]
                      IN  /\ DOMAIN r = ProcFields /\ r.at = at /\ AsBefore(r, s)
                          /\ Idle(at) /\ (at \in Looping => s.at \in Looping) => Roomy(r)
           /\ \A fn, at : LET r == Enter(fn, at)
                          IN  /\ DOMAIN r = ProcFields
                              /\ Idle(at) /\ fn \in Sending \cup Receiving => Roomy(r)
  <1>1. ASSUME NEW at
        PROVE  LET r == [s EXCEPT !.fn = "exit", !.at = at]
               IN  DOMAIN r = ProcFields /\ (at \notin Looping => Roomy(r))
    BY DEF ProcFields, Roomy, Sending, Receiving
  <1>2. ASSUME NEW at
        PROVE  LET r == [s EXCEPT !.at = at]
               IN  /\ DOMAIN r = ProcFields /\ r.at = at /\ AsBefore(r, s)
                   /\ Idle(at) /\ (at \in Looping => s.at \in Looping) => Roomy(r)
    <2> DEFINE r == [s EXCEPT !.at = at]
    <2>1. DOMAIN r = ProcFields /\ r.at = at /\ AsBefore(r, s)
      BY DEF ProcFields, AsBefore
    <2> HIDE DEF r
    <2>2. Idle(at) /\ (at \in Looping => s.at \in Looping) => Roomy(r)
      BY <2>1 DEF AsBefore, Roomy, Idle, Recving
    <2> QED
      BY <2>1, <2>2 DEF r
  <1>3. ASSUME NEW fn, NEW at
        PROVE  LET r == Enter(fn, at)
               IN  DOMAIN r = ProcFields /\ (Idle(at) /\ fn \in Sending \cup Receiving => Roomy(r))
    <2> DEFINE r == Enter(fn, at)
    <2>1. /\ DOMAIN r = ProcFields /\ r.fn = fn /\ r.at = at /\ r.next_in = 0 /\ r.avail_in = 0
          /\ r.put = 0 /\ r.pos = 0 /\ r.out_buf = <<>>
      BY DEF Enter, ProcFields
    <2> HIDE DEF r
    <2>2. ASSUME Idle(at), fn \in Sending \cup Receiving
          PROVE  Roomy(r)
      <3>1. BUFFER_SIZE \in Nat /\ \A f \in Sending \cup Receiving : SourceLen(f) \in Nat
        BY TaskNumbers
      <3>2. <<>> \in Seq(Int) /\ Len(<<>>) = 0
        OBVIOUS
      <3> QED
        BY <2>1, <2>2, <3>1, <3>2 DEF Roomy, Idle, Recving
    <2> QED
      BY <2>1, <2>2 DEF r
  <1> QED
    BY <1>1, <1>2, <1>3, Zenon

\* Such steps.
LEMMA RoomWalk ==
    ASSUME RoomInv, NEW p \in Procs, task' = task, wire' = wire,
           \/ \E status : Exits(p, status) /\ status \notin Looping
           \/ \E at : /\ Goes(p, [proc[p] EXCEPT !.at = at])
                      /\ Idle(at) /\ (at \in Looping => proc[p].at \in Looping)
           \/ \E fn, at : fn \in Sending \cup Receiving /\ Goes(p, Enter(fn, at)) /\ Idle(at)
    PROVE  RoomInv'
  <1>1. DOMAIN proc[p] = ProcFields /\ Roomy(proc[p]) /\ task \in Tasks
    BY RoomFacts DEF RoomInv
  <1>2. PICK r : Goes(p, r) /\ DOMAIN r = ProcFields /\ Roomy(r)
    <2>1. CASE \E status : Exits(p, status) /\ status \notin Looping
      BY <1>1, <2>1, RoomMoves DEF Exits
    <2>2. CASE \E at : /\ Goes(p, [proc[p] EXCEPT !.at = at])
                      /\ Idle(at) /\ (at \in Looping => proc[p].at \in Looping)
      BY <1>1, <2>2, RoomMoves
    <2>3. CASE \E fn, at : fn \in Sending \cup Receiving /\ Goes(p, Enter(fn, at)) /\ Idle(at)
      BY <1>1, <2>3, RoomMoves
    <2> QED
      BY <2>1, <2>2, <2>3
  <1> QED
    BY <1>2, RoomQuiet

\* Connecting, opening, closing and failing.
LEMMA RoomPlain ==
    ASSUME RoomInv, NEW p \in Procs,
           \/ p = "server" /\ (Listen \/ Accept)
           \/ p = "client" /\ (Connect \/ CloseNew \/ Rename)
           \/ Open(p) \/ FillNothing(p) \/ RecvFails(p) \/ IterFails(p) \/ SendFails(p) \/ Return(p)
    PROVE  RoomInv'
  <1>1. /\ Idle("accept") /\ Idle("open") /\ Idle("fill") /\ Idle("iter") /\ Idle("rename")
        /\ "open" \in Looping /\ "fill" \in Looping /\ "return" \in Looping
        /\ "accept" \notin Looping /\ "rename" \notin Looping
        /\ "EXIT_FAILURE" \notin Looping /\ "EXIT_SUCCESS" \notin Looping
        /\ "RS_IO_ERROR" \notin Looping
        /\ {"send_signature", "recv_signature", "send_delta", "recv_delta_and_patch_file"}
             = Sending \cup Receiving
    BY DEF Idle, Recving, Looping, Sending, Receiving
  <1>2. CASE p = "server" /\ (Listen \/ Accept)
    BY <1>1, <1>2, RoomWalk DEF Listen, Accept
  <1>3. CASE p = "client" /\ (Connect \/ CloseNew \/ Rename)
    BY <1>1, <1>3, RoomWalk DEF Connect, CloseNew, Rename
  <1>4. CASE Open(p) \/ FillNothing(p)
    BY <1>1, <1>4, RoomWalk DEF Open, FillNothing
  <1>5. CASE RecvFails(p) \/ IterFails(p) \/ SendFails(p)
    BY <1>1, <1>5, RoomWalk DEF RecvFails, IterFails, SendFails
  <1>6. CASE Return(p)
    <2>1. task' = task /\ wire' = wire /\ proc[p].at = "return"
      BY <1>6 DEF Return
    <2>2. CASE proc[p].fn = "send_signature"
      BY <1>1, <1>6, <2>1, <2>2, RoomWalk DEF Return
    <2>3. CASE proc[p].fn = "recv_signature"
      BY <1>1, <1>6, <2>1, <2>3, RoomWalk DEF Return
    <2>4. CASE proc[p].fn = "send_delta"
      BY <1>1, <1>6, <2>1, <2>4, RoomWalk DEF Return
    <2>5. proc[p].fn \in Sending \cup Receiving
      BY <1>1, <2>1, RoomFacts DEF Roomy
    <2>6. proc[p].fn # "recv_delta_and_patch_file"
      BY <1>6 DEF Return
    <2> QED
      BY <1>1, <2>2, <2>3, <2>4, <2>5, <2>6
  <1> QED
    BY <1>2, <1>3, <1>4, <1>5, <1>6

\* What fits into the rest fits.
LEMMA FitsRest ==
    ASSUME NEW x \in Nat, NEW c \in Nat, NEW n \in Nat, n <= c - x
    PROVE  x + n <= c
  OBVIOUS

\* Taking n from the front of a bytes at i.
LEMMA TakesFront ==
    ASSUME NEW i \in Nat, NEW a \in Nat, NEW n \in Nat, n <= a
    PROVE  i + n \in Nat /\ a - n \in Nat /\ (i + n) + (a - n) = i + a
  OBVIOUS

\* fread leaves room.
LEMMA RoomFill ==
    ASSUME RoomInv, NEW p \in Procs, FillFromFile(p)
    PROVE  RoomInv'
  <1> DEFINE s == proc[p]
             r(n, failed) == [s EXCEPT !.at = "iter", !.next_in = 0, !.avail_in = @ + n,
                                       !.pos = @ + n, !.eof_in = n = 0, !.ferror = @ \/ failed]
             most == Smaller(2 * BUFFER_SIZE - s.avail_in, SourceLen(s.fn) - s.pos)
  <1>1. s.fn \in Sending /\ task' = task /\ wire' = wire
    BY DEF FillFromFile
  <1>2. DOMAIN s = ProcFields /\ Roomy(s) /\ BUFFER_SIZE \in Nat /\ SourceLen(s.fn) \in Nat
    BY <1>1, RoomFacts
  <1>3. /\ s.next_in \in Nat /\ s.avail_in \in Nat /\ s.next_in + s.avail_in <= 2 * BUFFER_SIZE
        /\ s.put \in Nat /\ s.pos \in Nat /\ s.pos <= SourceLen(s.fn)
        /\ s.out_buf \in Seq(Int) /\ Len(s.out_buf) <= BUFFER_SIZE
    BY <1>1, <1>2 DEF Roomy
  <1>4. CASE Exits(p, "EXIT_FAILURE")
    BY <1>1, <1>4, RoomWalk DEF Looping, Recving
  <1>5. ASSUME NEW n, NEW failed, n = most \/ n \in 0 .. most, Goes(p, r(n, failed))
        PROVE  RoomInv'
    <2>1. n \in Nat /\ s.avail_in + n <= 2 * BUFFER_SIZE /\ s.pos + n <= SourceLen(s.fn)
      <3> DEFINE a == 2 * BUFFER_SIZE - s.avail_in
                 b == SourceLen(s.fn) - s.pos
      <3>1. a \in Nat /\ b \in Nat /\ most = Smaller(a, b)
        BY <1>2, <1>3
      <3> HIDE DEF a, b, most
      <3>2. n \in Nat /\ n <= a /\ n <= b
        BY <1>5, <3>1 DEF Smaller
      <3>3. s.avail_in + n <= 2 * BUFFER_SIZE
        <4>1. 2 * BUFFER_SIZE \in Nat
          BY <1>2
        <4>2. n <= 2 * BUFFER_SIZE - s.avail_in
          BY <3>2 DEF a
        <4> HIDE DEF s
        <4> QED
          BY <1>3, <3>2, <4>1, <4>2, FitsRest
      <3>4. s.pos + n <= SourceLen(s.fn)
        <4>1. n <= SourceLen(s.fn) - s.pos
          BY <3>2 DEF b
        <4> HIDE DEF s
        <4> QED
          BY <1>2, <1>3, <3>2, <4>1, FitsRest
      <3> QED
        BY <3>2, <3>3, <3>4
    <2>2. /\ DOMAIN r(n, failed) = ProcFields /\ r(n, failed).fn = s.fn /\ r(n, failed).at = "iter"
          /\ r(n, failed).next_in = 0 /\ r(n, failed).avail_in = s.avail_in + n
          /\ r(n, failed).put = s.put /\ r(n, failed).pos = s.pos + n
          /\ r(n, failed).out_buf = s.out_buf
      BY <1>2 DEF ProcFields
    <2> DEFINE t == r(n, failed)
    <2>3. DOMAIN t = ProcFields /\ Goes(p, t)
      BY <1>5, <2>2
    <2>4. /\ t.fn = s.fn /\ t.at = "iter" /\ t.next_in = 0 /\ t.avail_in = s.avail_in + n
          /\ t.put = s.put /\ t.pos = s.pos + n /\ t.out_buf = s.out_buf
      BY <2>2
    <2> HIDE DEF t, s
    <2>5. Roomy(t)
      <3>1. t.fn \in Sending /\ SourceLen(t.fn) = SourceLen(s.fn)
        BY <1>1, <2>4
      <3>2. /\ t.next_in \in Nat /\ t.avail_in \in Nat
            /\ t.next_in + t.avail_in <= 2 * BUFFER_SIZE
        BY <1>2, <1>3, <2>1, <2>4
      <3>3. t.put \in Nat /\ t.pos \in Nat /\ t.pos <= SourceLen(t.fn)
        BY <1>2, <1>3, <2>1, <2>4, <3>1
      <3>4. t.out_buf \in Seq(Int) /\ Len(t.out_buf) <= BUFFER_SIZE
        BY <1>3, <2>4
      <3>5. t.at \notin Recving /\ t.at # "send_payload" /\ t.at # "recv_payload"
        BY <2>4 DEF Recving
      <3> QED
        BY <3>1, <3>2, <3>3, <3>4, <3>5 DEF Roomy
    <2> QED
      BY <1>1, <2>3, <2>5, RoomQuiet
  <1> QED
    BY <1>4, <1>5 DEF FillFromFile

\* A message is received only if there is room for the longest.
LEMMA RoomRecvStart ==
    ASSUME RoomInv, NEW p \in Procs, RecvStart(p)
    PROVE  RoomInv'
  <1> DEFINE s == proc[p]
             r == [s EXCEPT !.at = "recv_header", !.next_in = 0, !.n_bytes = 0]
  <1>1. s.fn \in Receiving /\ task' = task /\ wire' = wire /\ Goes(p, r) /\ MayFill(p)
    BY DEF RecvStart
  <1>2. DOMAIN s = ProcFields /\ Roomy(s) /\ BUFFER_SIZE \in Nat
    BY RoomFacts
  <1>3. /\ DOMAIN r = ProcFields /\ r.fn = s.fn /\ r.at = "recv_header" /\ r.next_in = 0
        /\ r.avail_in = s.avail_in /\ r.put = s.put /\ r.pos = s.pos /\ r.out_buf = s.out_buf
    BY <1>2 DEF ProcFields
  <1>4. s.avail_in \in Nat /\ s.avail_in < BUFFER_SIZE + 1
    BY <1>1, <1>2 DEF Roomy, MayFill, FillBelow, Sending, Receiving
  <1> HIDE DEF s, r
  <1>5. Roomy(r)
    BY <1>1, <1>2, <1>3, <1>4 DEF Roomy, Sending, Receiving
  <1> QED
    BY <1>1, <1>3, <1>5, RoomQuiet

\* What is left of a wire when one byte was taken.
LEMMA RoomShifted ==
    ASSUME NEW w \in Seq(AnyItems), w # <<>>
    PROVE  Shifted(w) \in Seq(AnyItems) /\ Tail(w) \in Seq(AnyItems) /\ Head(w) \in AnyItems
  <1>1. Tail(w) \in Seq(AnyItems) /\ Head(w) \in AnyItems
    BY HeadTailProperties
  <1>2. Stray \in AnyItems
    BY DEF Stray, AnyItems, Unused
  <1>3. <<Stray>> \in Seq(AnyItems)
    BY <1>2
  <1> QED
    BY <1>1, <1>3, ConcatProperties DEF Shifted

\* A header, in one piece or after a first byte.
LEMMA RoomHeaded ==
    ASSUME RoomInv, NEW p \in Procs, proc[p].at \in Recving, task' = task,
           NEW len \in 0 .. BUFFER_SIZE, NEW eof, Goes(p, Headed(proc[p], len, eof)),
           NEW v \in Seq(AnyItems), wire' = [wire EXCEPT ![p] = v]
    PROVE  RoomInv'
  <1> DEFINE s == proc[p]
             r == Headed(s, len, eof)
  <1>1. DOMAIN s = ProcFields /\ Roomy(s) /\ BUFFER_SIZE \in Nat
    BY RoomFacts
  <1>2. /\ DOMAIN r = ProcFields /\ AsBefore(r, s) /\ r.at \in {"recv_payload", "iter"} /\ r.len = len
    BY <1>1 DEF ProcFields, Headed, AsBefore
  <1>3. s.fn \in Sending \cup Receiving /\ s.at \in Recving /\ Goes(p, r)
    BY <1>1 DEF Roomy, Looping
  <1> HIDE DEF s, r
  <1>4. Roomy(r)
    BY <1>1, <1>2, <1>3 DEF Roomy, AsBefore, Recving
  <1> QED
    BY <1>2, <1>3, <1>4, RoomWire

LEMMA RoomHeaders ==
    ASSUME RoomInv, NEW p \in Procs, RecvHeader(p) \/ RecvHeaderByte(p) \/ RecvHeaderRest(p)
    PROVE  RoomInv'
  <1> DEFINE s == proc[p]
             w == wire[p]
  <1>1. task' = task /\ w # <<>> /\ s.at \in Recving
    BY DEF RecvHeader, RecvHeaderByte, RecvHeaderRest, Recving
  <1>2. w \in Seq(AnyItems) /\ DOMAIN s = ProcFields /\ Roomy(s) /\ BUFFER_SIZE \in Nat
        /\ DOMAIN wire = Procs
    BY RoomFacts
  <1>3. Shifted(w) \in Seq(AnyItems) /\ Tail(w) \in Seq(AnyItems) /\ Head(w) \in AnyItems
    BY <1>1, <1>2, RoomShifted
  <1>4. CASE RecvHeader(p)
    <2>1. /\ Head(w).kind = "header" /\ Goes(p, Headed(s, Head(w).len, Head(w).eof))
          /\ wire' = [wire EXCEPT ![p] = Tail(w)]
      BY <1>2, <1>4 DEF RecvHeader
    <2>2. Head(w).len \in 0 .. BUFFER_SIZE
      BY <1>3, <2>1 DEF AnyItems
    <2> QED
      BY <1>1, <1>3, <2>1, <2>2, RoomHeaded
  <1>5. CASE RecvHeaderByte(p)
    <2> DEFINE r == [s EXCEPT !.at = "recv_rest"]
    <2>1. Goes(p, r) /\ wire' = [wire EXCEPT ![p] = Shifted(w)] /\ s.at = "recv_header"
      BY <1>2, <1>5 DEF RecvHeaderByte
    <2>2. DOMAIN r = ProcFields /\ r.at = "recv_rest" /\ AsBefore(r, s)
      BY <1>2 DEF ProcFields, AsBefore
    <2>3. s.fn \in Sending \cup Receiving
      BY <1>1, <1>2 DEF Roomy, Looping
    <2> HIDE DEF r, s, w
    <2>4. Roomy(r)
      BY <1>1, <1>2, <2>2, <2>3 DEF Roomy, AsBefore, Recving
    <2> QED
      BY <1>1, <1>3, <2>1, <2>2, <2>4, RoomWire
  <1>6. CASE RecvHeaderRest(p)
    <2>1. wire' = [wire EXCEPT ![p] = Shifted(w)]
      BY <1>2, <1>6 DEF RecvHeaderRest
    <2>2. CASE Exits(p, "SIGABRT")
      <3> DEFINE r == [s EXCEPT !.fn = "exit", !.at = "SIGABRT"]
      <3>1. Goes(p, r)
        BY <2>2 DEF Exits
      <3>2. DOMAIN r = ProcFields /\ Roomy(r)
        BY <1>2 DEF ProcFields, Roomy, Looping, Recving, Sending, Receiving
      <3> HIDE DEF r
      <3> QED
        BY <1>1, <1>3, <2>1, <3>1, <3>2, RoomWire
    <2>3. CASE \E len \in 0 .. BUFFER_SIZE, eof \in BOOLEAN : Goes(p, Headed(s, len, eof))
      BY <1>1, <1>3, <2>1, <2>3, RoomHeaded
    <2>4. CASE Goes(p, s)
      BY <1>1, <1>2, <1>3, <2>1, <2>4, RoomWire
    <2> QED
      BY <1>6, <2>2, <2>3, <2>4 DEF RecvHeaderRest
  <1> QED
    BY <1>4, <1>5, <1>6

\* The payload is not longer than the header said.
LEMMA RoomPayload ==
    ASSUME RoomInv, NEW p \in Procs, RecvPayload(p) \/ RecvStray(p)
    PROVE  RoomInv'
  <1> DEFINE s == proc[p]
             w == wire[p]
  <1>1. task' = task /\ w # <<>> /\ s.at = "recv_payload"
    BY DEF RecvPayload, RecvStray
  <1>2. w \in Seq(AnyItems) /\ DOMAIN s = ProcFields /\ Roomy(s) /\ BUFFER_SIZE \in Nat
        /\ DOMAIN wire = Procs
    BY RoomFacts
  <1>3. PICK n, v : Goes(p, Paid(s, n)) /\ v \in Seq(AnyItems) /\ wire' = [wire EXCEPT ![p] = v]
    <2>1. CASE RecvPayload(p)
      <3>1. PICK n : /\ n \in 1 .. Smaller(s.len - s.n_bytes, Len(w)) /\ Goes(p, Paid(s, n))
                     /\ wire' = [wire EXCEPT ![p] = SubSeq(w, n + 1, Len(w))]
        BY <1>2, <2>1 DEF RecvPayload
      <3>2. n \in Nat /\ Len(w) \in Nat
        BY <1>2, <3>1, LenProperties
      <3>3. SubSeq(w, n + 1, Len(w)) \in Seq(AnyItems)
        <4> DEFINE m == Len(w)
        <4>1. \A i \in n + 1 .. m : w[i] \in AnyItems
          BY <1>2, <3>2, ElementOfSeq
        <4>2. n + 1 \in Int /\ m \in Int
          BY <3>2
        <4> HIDE DEF m
        <4>3. SubSeq(w, n + 1, m) \in Seq(AnyItems)
          BY <4>1, <4>2, SubSeqProperties
        <4> QED
          BY <4>3 DEF m
      <3> QED
        BY <3>1, <3>3
    <2>2. CASE RecvStray(p)
      BY <1>1, <1>2, <2>2, RoomShifted DEF RecvStray
    <2> QED
      BY <2>1, <2>2
  <1> DEFINE r == Paid(s, n)
  <1>4. /\ s.fn \in Sending \cup Receiving /\ s.next_in = 0 /\ s.avail_in \in Nat
        /\ s.avail_in <= BUFFER_SIZE /\ s.len \in 0 .. BUFFER_SIZE
    BY <1>1, <1>2 DEF Roomy, Looping, Recving
  <1>5. /\ DOMAIN r = ProcFields /\ r.fn = s.fn /\ r.next_in = s.next_in
        /\ r.put = s.put /\ r.pos = s.pos /\ r.out_buf = s.out_buf /\ r.len = s.len
        /\ \/ r.at = "recv_payload" /\ r.avail_in = s.avail_in
           \/ r.at = "iter" /\ r.avail_in = s.avail_in + s.len
    BY <1>1, <1>2 DEF ProcFields, Paid
  <1>6. Goes(p, r)
    BY <1>3
  <1> HIDE DEF r, s, w
  <1>7. r.avail_in \in Nat /\ 0 + r.avail_in <= 2 * BUFFER_SIZE
    BY <1>2, <1>4, <1>5
  <1>8. Roomy(r)
    BY <1>1, <1>2, <1>4, <1>5, <1>7 DEF Roomy, Recving
  <1> QED
    BY <1>1, <1>3, <1>5, <1>6, <1>8, RoomWire

\* A job puts out no more than there is room for, misled or not.
LEMMA RoomIter ==
    ASSUME RoomInv, NEW p \in Procs, Iter(p)
    PROVE  RoomInv'
  <1> DEFINE s == proc[p]
             writes == Promise(s.fn).writes
             after(n, m, r) ==
                 [s EXCEPT !.next_in = @ + n, !.avail_in = @ - n, !.taken = @ + n, !.put = @ + m,
                           !.res = r, !.out_buf = IF writes THEN @ \o Output(s, m) ELSE @]
             to(n, m, r) == [after(n, m, r) EXCEPT !.at = OutputGoes(after(n, m, r))]
  <1>1. task' = task /\ wire' = wire /\ s.at = "iter"
    BY DEF Iter
  <1>2. DOMAIN s = ProcFields /\ Roomy(s) /\ BUFFER_SIZE \in Nat
    BY RoomFacts
  <1>3. s.fn \in Sending \cup Receiving /\ TargetLen(s.fn) \in Nat /\ SourceLen(s.fn) \in Nat
    <2>1. s.fn \in Sending \cup Receiving
      BY <1>1, <1>2 DEF Roomy, Looping
    <2> QED
      BY <2>1, RoomFacts
  <1>4. PICK n, m, r : /\ n \in 0 .. s.avail_in /\ m \in 0 .. MostOf(s) /\ Goes(p, to(n, m, r))
    BY ZenonT(60) DEF Iter, RoomOf, MostOf
  <1>5. /\ s.next_in \in Nat /\ s.avail_in \in Nat /\ s.next_in + s.avail_in <= 2 * BUFFER_SIZE
        /\ s.put \in Nat /\ s.pos \in Nat /\ (s.fn \in Sending => s.pos <= SourceLen(s.fn))
        /\ s.out_buf \in Seq(Int) /\ Len(s.out_buf) <= BUFFER_SIZE /\ Len(s.out_buf) \in Nat
    BY <1>2, <1>3, LenProperties DEF Roomy
  <1>6. n \in Nat /\ m \in Nat /\ n <= s.avail_in /\ (writes => Len(s.out_buf) + m <= BUFFER_SIZE)
    <2> DEFINE a == TargetLen(s.fn) - s.put
               b == BUFFER_SIZE - Len(s.out_buf)
    <2>1. a \in Int /\ b \in Int
      BY <1>2, <1>3, <1>5
    <2>2. Promise(s.fn).target = TargetLen(s.fn)
      BY DEF Promise
    <2>3. writes => MostOf(s) = Smaller(a, b)
      BY <2>2 DEF MostOf, RoomOf
    <2>4. n \in Nat /\ m \in Nat /\ n <= s.avail_in
      BY <1>4, <1>5
    <2>5. writes => m \in 0 .. Smaller(a, b)
      BY <1>4, <2>3
    <2> HIDE DEF writes
    <2>6. writes => m <= b
      <3> HIDE DEF a, b
      <3> QED
        BY <2>1, <2>4, <2>5 DEF Smaller
    <2> QED
      BY <1>2, <1>5, <2>4, <2>6
  <1> DEFINE x == after(n, m, r)
             t == to(n, m, r)
             new == IF writes THEN s.out_buf \o Output(s, m) ELSE s.out_buf
  <1>7. new \in Seq(Int) /\ Len(new) <= BUFFER_SIZE
    <2>1. Output(s, m) \in Seq(Int) /\ Len(Output(s, m)) = m
      <3> DEFINE y == Output(s, m)
      <3>1. \A k \in 1 .. m : s.put + k \in Int /\ Unused \in Int
        BY <1>5 DEF Unused
      <3>2. y = [k \in 1 .. m |-> IF Misled(s.fn) THEN Unused ELSE s.put + k]
        BY DEF Output
      <3> HIDE DEF y, s
      <3>3. DOMAIN y = 1 .. m /\ \A k \in 1 .. m : y[k] \in Int
        BY <3>1, <3>2
      <3>4. y \in Seq(Int) /\ Len(y) = m
        <4>1. y = [k \in 1 .. m |-> y[k]]
          BY <3>2
        <4> QED
          BY <1>6, <3>3, <4>1
      <3> QED
        BY <3>4 DEF y, s
    <2> DEFINE o == s.out_buf
               y == Output(s, m)
    <2>2. o \in Seq(Int) /\ y \in Seq(Int) /\ Len(y) = m /\ Len(o) <= BUFFER_SIZE
          /\ (writes => Len(o) + m <= BUFFER_SIZE)
      BY <1>5, <1>6, <2>1
    <2> HIDE DEF o, y, writes
    <2>3. o \o y \in Seq(Int) /\ Len(o \o y) = Len(o) + Len(y)
      BY <2>2, ConcatProperties
    <2>4. (IF writes THEN o \o y ELSE o) \in Seq(Int)
          /\ Len(IF writes THEN o \o y ELSE o) <= BUFFER_SIZE
      BY <2>2, <2>3
    <2> QED
      BY <2>4 DEF o, y
  <1>8. /\ DOMAIN x = ProcFields /\ x.fn = s.fn /\ x.next_in = s.next_in + n
        /\ x.avail_in = s.avail_in - n /\ x.put = s.put + m /\ x.pos = s.pos /\ x.out_buf = new
    BY <1>2 DEF ProcFields
  <1>9. OutputGoes(x) \in {"send_header", "fwrite", "return", "fill"}
    BY DEF OutputGoes
  <1>10. t = [x EXCEPT !.at = OutputGoes(x)]
    OBVIOUS
  <1>11. Goes(p, t)
    BY <1>4
  <1> HIDE DEF x, new, t, to, after
  <1>12. /\ DOMAIN t = ProcFields /\ t.fn = s.fn /\ t.next_in = s.next_in + n
         /\ t.avail_in = s.avail_in - n /\ t.put = s.put + m /\ t.pos = s.pos /\ t.out_buf = new
         /\ t.at \in {"send_header", "fwrite", "return", "fill"}
    BY <1>8, <1>9, <1>10 DEF ProcFields
  <1>13. /\ s.next_in + n \in Nat /\ s.avail_in - n \in Nat /\ s.put + m \in Nat
         /\ (s.next_in + n) + (s.avail_in - n) <= 2 * BUFFER_SIZE
    <2> HIDE DEF s
    <2>1. s.put + m \in Nat
      BY <1>5, <1>6
    <2>2. /\ s.next_in + n \in Nat /\ s.avail_in - n \in Nat
          /\ (s.next_in + n) + (s.avail_in - n) = s.next_in + s.avail_in
      BY <1>5, <1>6, TakesFront
    <2> QED
      BY <1>5, <2>1, <2>2
  <1> HIDE DEF s
  <1>14. Roomy(t)
    BY <1>3, <1>5, <1>7, <1>12, <1>13 DEF Roomy, Recving
  <1> QED
    BY <1>1, <1>11, <1>12, <1>14, RoomQuiet

\* The output buffer is emptied.
LEMMA RoomDrained ==
    ASSUME NEW s, DOMAIN s = ProcFields, Roomy(s), s.at \in Looping, BUFFER_SIZE \in Nat
    PROVE  /\ DOMAIN Drained(s) = ProcFields /\ Roomy(Drained(s))
           /\ DOMAIN HeaderSent(s) = ProcFields /\ Roomy(HeaderSent(s))
  <1>1. s.fn \in Sending \cup Receiving
    BY DEF Roomy
  <1>2. ASSUME NEW r, r = Drained(s)
        PROVE  DOMAIN r = ProcFields /\ Roomy(r)
    <2>1. /\ DOMAIN r = ProcFields /\ r.fn = s.fn /\ r.next_in = s.next_in /\ r.avail_in = s.avail_in
          /\ r.put = s.put /\ r.pos = s.pos /\ r.out_buf = <<>> /\ r.at \in {"return", "fill"}
      BY <1>2 DEF Drained, ProcFields
    <2>2. <<>> \in Seq(Int) /\ Len(<<>>) = 0
      OBVIOUS
    <2> QED
      BY <1>1, <2>1, <2>2 DEF Roomy, Recving
  <1>3. ASSUME NEW r, r = [s EXCEPT !.at = "send_payload", !.n_bytes = 0]
        PROVE  DOMAIN r = ProcFields /\ Roomy(r)
    <2>1. DOMAIN r = ProcFields /\ AsBefore(r, s) /\ r.at = "send_payload" /\ r.n_bytes = 0
      BY <1>3 DEF AsBefore, ProcFields
    <2> QED
      BY <1>1, <2>1 DEF Roomy, AsBefore, Recving
  <1> QED
    BY <1>2, <1>3 DEF HeaderSent

\* A header is sent in one piece or in two.
LEMMA RoomSendHeader ==
    ASSUME RoomInv, NEW p \in Procs, SendHeader(p) \/ SendHeaderByte(p) \/ SendHeaderRest(p)
    PROVE  RoomInv'
  <1> DEFINE s == proc[p]
             q == Peer(p)
             w == wire[q]
             h == [kind |-> "header", len |-> Len(s.out_buf), eof |-> s.res = "RS_DONE"]
  <1>1. task' = task /\ s.at \in {"send_header", "send_rest"}
    BY DEF SendHeader, SendHeaderByte, SendHeaderRest
  <1>2. w \in Seq(AnyItems) /\ q \in Procs /\ DOMAIN s = ProcFields /\ Roomy(s)
        /\ BUFFER_SIZE \in Nat /\ DOMAIN wire = Procs
    BY RoomFacts
  <1>3. s.at \in Looping /\ s.fn \in Sending \cup Receiving
    BY <1>1, <1>2 DEF Roomy, Looping
  <1>4. DOMAIN HeaderSent(s) = ProcFields /\ Roomy(HeaderSent(s))
    BY <1>2, <1>3, RoomDrained
  <1>5. h \in AnyItems /\ Stray \in AnyItems
    <2>1. Len(s.out_buf) \in 0 .. BUFFER_SIZE
      BY <1>2, <1>3, LenProperties DEF Roomy
    <2>2. (s.res = "RS_DONE") \in BOOLEAN
      OBVIOUS
    <2> QED
      BY <2>1, <2>2 DEF AnyItems, Stray, Unused
  <1>6. Append(w, h) \in Seq(AnyItems) /\ Append(w, Stray) \in Seq(AnyItems)
    BY <1>2, <1>5, AppendProperties
  <1>7. CASE SendHeader(p)
    <2>1. Goes(p, HeaderSent(s)) /\ wire' = [wire EXCEPT ![q] = Append(w, h)]
      BY <1>2, <1>7 DEF SendHeader
    <2> QED
      BY <1>1, <1>2, <1>4, <1>6, <2>1, RoomWire
  <1>8. CASE SendHeaderRest(p)
    <2>1. Goes(p, HeaderSent(s)) /\ wire' = [wire EXCEPT ![q] = Append(w, Stray)]
      BY <1>2, <1>8 DEF SendHeaderRest
    <2> QED
      BY <1>1, <1>2, <1>4, <1>6, <2>1, RoomWire
  <1>9. CASE SendHeaderByte(p)
    <2> DEFINE r == [s EXCEPT !.at = "send_rest"]
    <2>1. Goes(p, r) /\ wire' = [wire EXCEPT ![q] = Append(w, Stray)]
      BY <1>2, <1>9 DEF SendHeaderByte
    <2>2. DOMAIN r = ProcFields /\ r.at = "send_rest" /\ AsBefore(r, s)
      BY <1>2 DEF ProcFields, AsBefore
    <2> HIDE DEF r
    <2>3. Roomy(r)
      BY <1>2, <1>3, <2>2 DEF Roomy, AsBefore, Recving
    <2> HIDE DEF s, q, w
    <2> QED
      BY <1>1, <1>2, <1>6, <2>1, <2>2, <2>3, RoomWire
  <1> QED
    BY <1>7, <1>8, <1>9

\* The payload.
LEMMA RoomSendPayload ==
    ASSUME RoomInv, NEW p \in Procs, SendPayload(p)
    PROVE  RoomInv'
  <1> DEFINE s == proc[p]
             q == Peer(p)
             w == wire[q]
             l == Len(s.out_buf)
             d == s.n_bytes
             items(n) == [k \in 1 .. n |-> [kind |-> "byte", pos |-> s.out_buf[d + k]]]
  <1>1. task' = task /\ s.at = "send_payload"
    BY DEF SendPayload
  <1>2. w \in Seq(AnyItems) /\ q \in Procs /\ DOMAIN s = ProcFields /\ Roomy(s)
        /\ BUFFER_SIZE \in Nat /\ DOMAIN wire = Procs
    BY RoomFacts
  <1>3. /\ s.at \in Looping /\ s.fn \in Sending \cup Receiving /\ d \in Nat
        /\ s.out_buf \in Seq(Int) /\ l \in Nat
    BY <1>1, <1>2, LenProperties DEF Roomy, Looping
  <1>4. PICK n \in 1 .. Smaller(l - d, WireRoom - Len(w)) :
          /\ wire' = [wire EXCEPT ![q] = w \o items(n)]
          /\ Goes(p, IF d + n < l THEN [s EXCEPT !.n_bytes = @ + n] ELSE Drained(s))
    BY <1>2 DEF SendPayload
  <1>5. n \in Nat /\ n <= l - d
    <2> DEFINE m == WireRoom - Len(w)
    <2>1. m \in Int
      <3>1. Len(w) \in Nat
        BY <1>2, LenProperties
      <3>2. WireRoom \in Nat
        BY StreamAssumption
      <3> QED
        BY <3>1, <3>2
    <2>2. n \in 1 .. Smaller(l - d, m)
      BY <1>4
    <2> HIDE DEF m, l, d
    <2> QED
      BY <1>3, <2>1, <2>2 DEF Smaller
  <1>6. w \o items(n) \in Seq(AnyItems)
    <2>1. ASSUME NEW k \in 1 .. n
          PROVE  [kind |-> "byte", pos |-> s.out_buf[d + k]] \in AnyItems
      <3>1. d + k \in 1 .. l
        <4> HIDE DEF l, d
        <4> QED
          BY <1>3, <1>5
      <3>2. s.out_buf[d + k] \in Int
        BY <1>3, <3>1, ElementOfSeq
      <3> QED
        BY <3>2 DEF AnyItems
    <2>2. items(n) \in Seq(AnyItems)
      BY <1>5, <2>1
    <2> DEFINE y == items(n)
    <2>3. y \in Seq(AnyItems)
      BY <2>2
    <2> HIDE DEF y, w
    <2>4. w \o y \in Seq(AnyItems)
      BY <1>2, <2>3, ConcatProperties
    <2> QED
      BY <2>4 DEF y
  <1> DEFINE v == w \o items(n)
             r == IF d + n < l THEN [s EXCEPT !.n_bytes = @ + n] ELSE Drained(s)
  <1>7. DOMAIN r = ProcFields /\ Roomy(r)
    <2>1. CASE d + n < l
      <3>1. DOMAIN r = ProcFields /\ r.at = s.at /\ AsBefore(r, s) /\ r.n_bytes = d + n
        BY <1>2, <2>1 DEF ProcFields, AsBefore
      <3>2. d + n \in Nat
        BY <1>3, <1>5
      <3> HIDE DEF r, s, d
      <3> QED
        BY <1>1, <1>2, <1>3, <3>1, <3>2 DEF Roomy, AsBefore, Recving
    <2>2. CASE ~(d + n < l)
      BY <1>2, <1>3, <2>2, RoomDrained
    <2> QED
      BY <2>1, <2>2
  <1>8. Goes(p, r) /\ v \in Seq(AnyItems) /\ wire' = [wire EXCEPT ![q] = v]
    BY <1>4, <1>6
  <1> HIDE DEF r, v, q
  <1> QED
    BY <1>1, <1>2, <1>7, <1>8, RoomWire

\* fwrite.
LEMMA RoomWrite ==
    ASSUME RoomInv, WriteNew
    PROVE  RoomInv'
  <1> DEFINE s == proc["client"]
  <1>1. task' = task /\ wire' = wire /\ s.at = "fwrite" /\ "client" \in Procs
    BY DEF WriteNew, Procs
  <1>2. DOMAIN s = ProcFields /\ Roomy(s) /\ BUFFER_SIZE \in Nat /\ s.at \in Looping
    BY <1>1, RoomFacts DEF Looping
  <1>3. CASE Goes("client", Drained(s))
    BY <1>1, <1>2, <1>3, RoomDrained, RoomQuiet
  <1>4. CASE Exits("client", "EXIT_FAILURE")
    BY <1>1, <1>4, RoomWalk DEF Looping, Recving
  <1> QED
    BY <1>3, <1>4 DEF WriteNew

\* Every step of every process, split headers included.
LEMMA RoomAlways == Spec => []RoomInv
  <1>1. ASSUME Init
        PROVE  RoomInv
    <2>1. \A p \in Procs : /\ DOMAIN proc[p] = ProcFields /\ proc[p].at \in {"connect", "bind"}
                           /\ proc[p].fn \in {"connect_to_server", "accept_connection"}
      BY <1>1 DEF Init, Enter, Procs, ProcFields
    <2>2. \A p \in Procs : Roomy(proc[p])
      BY <2>1 DEF Roomy, Looping, Recving, Sending, Receiving
    <2>3. DOMAIN proc = Procs /\ DOMAIN wire = Procs /\ \A p \in Procs : wire[p] \in Seq(AnyItems)
      BY <1>1, EmptySeq DEF Init, Procs
    <2>4. task \in Tasks
      BY <1>1 DEF Init
    <2> QED
      BY <2>1, <2>2, <2>3, <2>4 DEF RoomInv
  <1>2. ASSUME RoomInv, [Next]_vars
        PROVE  RoomInv'
    <2>1. CASE UNCHANGED vars
      <3>1. task' = task /\ proc' = proc /\ wire' = wire
        BY <2>1 DEF vars
      <3>2. \A fn : SourceLen(fn)' = SourceLen(fn)
        BY <3>1 DEF SourceLen
      <3> QED
        BY <1>2, <3>1, <3>2 DEF RoomInv, Roomy
    <2>2. CASE Stopped
      BY <2>1, <2>2 DEF Stopped
    <2>3. ASSUME NEW p \in Procs, Step(p)
          PROVE  RoomInv'
      BY <1>2, <2>1, <2>3, RoomPlain, RoomFill, RoomRecvStart, RoomHeaders, RoomPayload, RoomIter,
         RoomSendHeader, RoomSendPayload, RoomWrite DEF Step, RecvNothing
    <2> QED
      BY <1>2, <2>1, <2>2, <2>3 DEF Next
  <1> QED
    BY <1>1, <1>2, PTL DEF Spec

\* No message, in however many pieces, whatever was left in in_buf before it and
\* even if its header was split, overflows in_buf.  As long as no header is
\* split, in_buf holds the bytes that the job is to take next, and the output
\* buffer the ones that it has put out last.
THEOREM StreamBuffers == Spec => []BuffersIntact
  <1>1. RoomInv /\ (~Split => BufferInv) => BuffersIntact
    <2> SUFFICES ASSUME RoomInv, ~Split => BufferInv
                 PROVE  BuffersIntact
      OBVIOUS
    <2>1. CASE ~Split
      BY <2>1, BuffersHold
    <2>2. CASE Split
      <3> SUFFICES ASSUME NEW p \in Procs, proc[p].fn \in Sending \cup Receiving
                   PROVE  proc[p].next_in + Expected(p) <= 2 * BUFFER_SIZE
        BY <2>2 DEF BuffersIntact
      <3> DEFINE s == proc[p]
      <3>1. Roomy(s) /\ BUFFER_SIZE \in Nat
        BY RoomFacts
      <3>2. /\ s.next_in \in Nat /\ s.avail_in \in Nat /\ s.next_in + s.avail_in <= 2 * BUFFER_SIZE
            /\ s.at = "recv_payload" => /\ s.next_in = 0 /\ s.avail_in <= BUFFER_SIZE
                                        /\ s.len \in 0 .. BUFFER_SIZE
        BY <3>1 DEF Roomy, Recving
      <3>3. CASE s.at = "recv_payload"
        BY <3>1, <3>2, <3>3 DEF Expected
      <3>4. CASE s.at # "recv_payload"
        BY <3>1, <3>2, <3>4 DEF Expected
      <3> QED
        BY <3>3, <3>4
    <2> QED
      BY <2>1, <2>2
  <1> QED
    BY <1>1, BufferAlways, RoomAlways, PTL
=============================================================================

------------------------------- MODULE Rdiff --------------------------------
(***************************************************************************)
(* The command line tool (src/src/rdiff.c) with the file functions it uses *)
(* (fileutil.c) and the whole-file interface (whole.c): options, the files *)
(* that are opened and created one after the other, the job, closing the   *)
(* files, and the exit status.                                             *)
(*                                                                         *)
(* A file is its permissions, its size and an account of its contents:     *)
(* what was there before, nothing, a part of an output, or the output of   *)
(* an action for given inputs.  That a job between two files writes a      *)
(* prefix of its output, and all of it if the result is RS_DONE, is what   *)
(* modules Drive and PatchFile show.  The C library holds back output      *)
(* until a file is closed, or the program exits; that may fail too.        *)
(* Another program may create a file at any time.                          *)
(***************************************************************************)
EXTENDS SigArgs, Sequences, SequencesExt, FiniteSets

CONSTANTS
    Names,          \* names of files
    Scenarios       \* invocations of the tool, and what the files are at the start

Old(name) == <<"old", name>>
Nothing == <<"nothing">>
Part == <<"part">>
Lost == <<"lost">>
Output(action, inputs) == <<"output", action, inputs>>

Permissions == {"none", "r", "w", "rw"}
\* What a file can hold before the tool has written to one.
Contents == {Old(name) : name \in Names} \cup {Nothing, <<"other">>, <<"stdin">>}
Files == [perm : Permissions, data : Contents, size : Int]

ASSUME RdiffAssumption ==
    /\ {"-", "stdin", "stdout"} \cap Names = {} /\ Scenarios # {}
    /\ \A s \in Scenarios : /\ s.call.args \in Seq(Names \cup {"-"}) /\ s.call.force \in BOOLEAN
                            /\ s.disk \in [Names -> Files]

VARIABLES
    pc,             \* where the tool is
    call,           \* options and arguments
    disk,           \* the files
    streams,        \* files opened so far, with their contents at that moment
    held,           \* output that the C library has and the file has not
    job,            \* arguments of the signature job
    status          \* result, and exit status in the end

vars == <<pc, call, disk, streams, held, job, status>>

NoJob == [result |-> "none"]

Init ==
    /\ pc = "options"
    /\ \E s \in Scenarios : call = s.call /\ disk = s.disk
    /\ streams = <<>> /\ held = Nothing /\ job = NoJob /\ status = "RS_RUNNING"

Exit(result) ==
    /\ pc' = "exit" /\ status' = result
    /\ UNCHANGED <<call, disk, streams, held, job>>

-----------------------------------------------------------------------------
(* Options and action.                                                     *)

rdiff_options ==
    /\ pc = "options"
    /\ \/ call.option \in {"help", "version"} /\ Exit("RS_DONE")
       \/ call.option \in {"gzip", "bzip2"} /\ Exit("RS_UNIMPLEMENTED")
       \/ call.option = "unknown" /\ Exit("RS_SYNTAX_ERROR")
       \/ /\ call.option \in {"none", "verbose"} /\ pc' = "action"
          /\ UNCHANGED <<call, disk, streams, held, job, status>>

\* The action is given by any prefix of its name; only signature needs no file.
rdiff_action ==
    /\ pc = "action"
    /\ LET known == /\ call.action \in {"signature", "delta", "patch"}
                    /\ call.action = "signature" \/ call.args # <<>>
       IN  \/ ~known /\ Exit("RS_SYNTAX_ERROR")
           \/ known /\ pc' = "check" /\ UNCHANGED <<call, disk, streams, held, job, status>>

-----------------------------------------------------------------------------
(* Opening the files.                                                      *)

Modes == IF call.action = "signature" THEN <<"rb", "wb">> ELSE <<"rb", "rb", "wb">>
Mode == Modes[Len(streams) + 1]

\* The next argument; standard input or output if there is none.
poptGetArg == IF Len(streams) < Len(call.args) THEN call.args[Len(streams) + 1] ELSE "-"

Readable(name) == disk[name].perm \in {"r", "rw"}
Openable(name) ==
    disk[name].perm \in IF Mode = "rb" THEN {"r", "rw"} ELSE {"none", "w", "rw"}

Opened(name, data) ==
    /\ streams' = Append(streams, [name |-> name, data |-> data])
    /\ pc' = IF Len(streams') = Len(Modes) THEN "arguments" ELSE "check"

\* Mutant: no output is taken to exist.
FileExistsNeverSeen ==
    /\ pc = "check"
    /\ \/ /\ poptGetArg = "-"
          /\ IF Mode = "rb" THEN Opened("stdin", <<"stdin">>) ELSE Opened("stdout", Nothing)
          /\ UNCHANGED <<call, disk, held, job, status>>
       \/ /\ poptGetArg # "-" /\ pc' = "fopen"
          /\ UNCHANGED <<call, disk, streams, held, job, status>>

\* rs_file_open, up to the test whether an output exists already: it exists if
\* it can be read.
FileExists ==
    /\ pc = "check"
    /\ LET exists == /\ poptGetArg # "-" /\ Mode = "wb" /\ ~call.force
                     /\ Readable(poptGetArg)
       IN  \/ /\ poptGetArg = "-"
              /\ IF Mode = "rb" THEN Opened("stdin", <<"stdin">>) ELSE Opened("stdout", Nothing)
              /\ UNCHANGED <<call, disk, held, job, status>>
           \/ exists /\ Exit("RS_IO_ERROR")
           \/ /\ poptGetArg # "-" /\ ~exists /\ pc' = "fopen"
              /\ UNCHANGED <<call, disk, streams, held, job, status>>

\* The rest of it: an output is created, or emptied.  fopen may always fail.
rs_file_open ==
    /\ pc = "fopen"
    /\ LET name == poptGetArg
       IN  \/ Exit("RS_IO_ERROR")
           \/ /\ Openable(name) /\ Mode = "rb"
              /\ Opened(name, disk[name].data)
              /\ UNCHANGED <<call, disk, held, job, status>>
           \/ /\ Openable(name) /\ Mode = "wb"
              /\ disk' = [disk EXCEPT ![name] =
                    [perm |-> IF @.perm = "none" THEN "rw" ELSE @.perm,
                     data |-> Nothing, size |-> 0]]
              /\ Opened(name, Nothing)
              /\ UNCHANGED <<call, held, job, status>>

\* rdiff_no_more_args, and the names of the sums: the output is there by now.
rdiff_no_more_args ==
    /\ pc = "arguments"
    /\ LET known == /\ Len(call.args) <= Len(Modes)
                    /\ call.action = "signature" =>
                         /\ call.hash \in {"none", "blake2", "md4"}
                         /\ call.rollsum \in {"none", "rabinkarp", "rollsum"}
       IN  \/ ~known /\ Exit("RS_SYNTAX_ERROR")
           \/ /\ known /\ pc' = IF call.action = "delta" THEN "loadsig" ELSE "job"
              /\ UNCHANGED <<call, disk, streams, held, job, status>>

-----------------------------------------------------------------------------
(* The job.                                                                *)

SigMagic ==
    CASE call.hash # "md4" /\ call.rollsum = "rollsum" -> RS_BLAKE2_SIG_MAGIC
      [] call.hash # "md4" /\ call.rollsum # "rollsum" -> RS_RK_BLAKE2_SIG_MAGIC
      [] call.hash = "md4" /\ call.rollsum = "rollsum" -> RS_MD4_SIG_MAGIC
      [] call.hash = "md4" /\ call.rollsum # "rollsum" -> RS_RK_MD4_SIG_MAGIC

\* Only regular files have a size.
rs_file_size(name) == IF name = "stdin" THEN call.stdin_size ELSE disk[name].size

OutName == Last(streams).name
Inputs == [k \in 1 .. Len(streams) - 1 |-> streams[k].name]

\* What a job reads: an input may have been emptied when the output was
\* opened, and standard input can be read only once.
ReadOf(k) ==
    CASE Inputs[k] # "stdin" -> disk[Inputs[k]].data
      [] Inputs[k] = "stdin" /\ (\A j \in 1 .. k - 1 : Inputs[j] # "stdin") -> <<"stdin">>
      [] OTHER -> Nothing

\* rs_whole_run writes some of the output and reports the job's result; all of
\* the output has been given to the C library if that is RS_DONE.
WholeRun(result) ==
    /\ status' = result /\ pc' = "close"
    /\ held' = IF result = "RS_DONE" THEN Output(call.action, [k \in DOMAIN Inputs |-> ReadOf(k)])
               ELSE Part
    /\ disk' = IF OutName = "stdout" THEN disk ELSE [disk EXCEPT ![OutName].data = Part]

rs_sig_file ==
    /\ pc = "job" /\ call.action = "signature"
    /\ LET a == rs_sig_args(rs_file_size(Inputs[1]),
                    [magic |-> SigMagic, block_len |-> call.block_len,
                     strong_len |-> call.strong_len])
       IN  \/ /\ a.result # "RS_DONE"
              /\ pc' = "close" /\ status' = a.result
              /\ UNCHANGED <<disk, held, job>>
           \/ /\ a.result = "RS_DONE" /\ job' = a
              /\ \E r \in {"RS_DONE", "RS_IO_ERROR"} : WholeRun(r)
    /\ UNCHANGED <<call, streams>>

\* Mutant: the result of loading is not passed on.
LoadsigResultLost ==
    /\ pc = "loadsig"
    /\ \/ pc' = "job" /\ UNCHANGED <<call, disk, streams, held, job, status>>
       \/ Exit("RS_DONE")

\* Loading the signature and building its index; rdiff_delta returns without
\* closing anything when either fails.
rs_loadsig_file ==
    /\ pc = "loadsig"
    /\ \/ pc' = "job" /\ UNCHANGED <<call, disk, streams, held, job, status>>
       \/ \E r \in {"RS_BAD_MAGIC", "RS_CORRUPT", "RS_INPUT_ENDED", "RS_PARAM_ERROR", "RS_IO_ERROR",
                    "RS_MEM_ERROR"} : Exit(r)

rs_delta_file ==
    /\ pc = "job" /\ call.action = "delta"
    /\ \E r \in {"RS_DONE", "RS_IO_ERROR"} : WholeRun(r)
    /\ UNCHANGED <<call, streams, job>>

rs_patch_file ==
    /\ pc = "job" /\ call.action = "patch"
    /\ \E r \in {"RS_DONE", "RS_BAD_MAGIC", "RS_CORRUPT", "RS_INPUT_ENDED", "RS_IO_ERROR"} : WholeRun(r)
    /\ UNCHANGED <<call, streams, job>>

-----------------------------------------------------------------------------
(* The end.                                                                *)

\* rs_file_close writes what is held back, except of standard output; whether
\* that succeeds is not asked.
rs_file_close ==
    /\ pc = "close" /\ pc' = "exit"
    /\ \/ /\ OutName # "stdout" /\ held # Nothing
          /\ disk' = [disk EXCEPT ![OutName].data = held] /\ held' = Nothing
       \/ OutName # "stdout" /\ held # Nothing /\ held' = Lost /\ UNCHANGED disk
       \/ (OutName = "stdout" \/ held = Nothing) /\ UNCHANGED <<disk, held>>
    /\ UNCHANGED <<call, streams, job, status>>

\* main returns the result.  What is held of standard output is written, or
\* lost, by exit; written, it stays in held.
Main ==
    /\ pc = "exit" /\ pc' = "exited"
    /\ \/ UNCHANGED held
       \/ held # Nothing /\ held' = Lost
    /\ UNCHANGED <<call, disk, streams, job, status>>

Exited == pc = "exited" /\ UNCHANGED vars

\* Another program creates a file.
Appears ==
    /\ pc \notin {"exit", "exited"}
    /\ \E name \in Names :
          /\ disk[name].perm = "none"
          /\ disk' = [disk EXCEPT ![name] = [perm |-> "rw", data |-> <<"other">>, size |-> 1]]
    /\ UNCHANGED <<pc, call, streams, held, job, status>>

Next ==
    \/ rdiff_options \/ rdiff_action \/ FileExists \/ rs_file_open \/ rdiff_no_more_args
    \/ rs_sig_file \/ rs_loadsig_file \/ rs_delta_file \/ rs_patch_file
    \/ rs_file_close \/ Main \/ Exited \/ Appears

Spec == Init /\ [][Next]_vars

-----------------------------------------------------------------------------
(* Properties.                                                             *)

Written == IF OutName = "stdout" THEN held ELSE disk[OutName].data
Complete == Output(call.action, [k \in DOMAIN Inputs |-> streams[k].data])

\* What the documentation asks of a user, and what the tool does not check: the
\* output is none of the inputs, and one input at most is standard input.
Separate ==
    Len(streams) = Len(Modes) =>
        /\ \A k \in DOMAIN Inputs : OutName # Inputs[k]
        /\ Cardinality({k \in DOMAIN Inputs : Inputs[k] = "stdin"}) <= 1

\* "0: Successful completion" (doc/rdiff.md): an exit status of 0 after an
\* action means that the whole output is where it should be.
ZeroIsSuccess ==
    pc = "exited" /\ status = "RS_DONE" /\ call.option \notin {"help", "version"} /\ Separate
    => Len(streams) = Len(Modes) /\ Written = Complete

\* An exit status of 0 after an action means that the output for the inputs as
\* they were is complete and where it should be, whichever of opening, loading,
\* indexing, reading and writing fails, and although standard streams are taken
\* for arguments that are missing (rdiff.c, fileutil.c); only output that was
\* lost when a file was closed goes unnoticed.
ExitZeroMeansComplete == held # Lost => ZeroIsSuccess

\* Without --force no step of the tool changes a file that was there before and
\* can be read, also when it is named twice, when the arguments turn out wrong
\* after the outputs are opened, or when the job fails (rs_file_open).
NoClobber ==
    [][\A name \in Names :
          ~call.force /\ disk[name].data = Old(name) /\ Readable(name)
          => disk'[name] = disk[name]]_vars

Root(v, r) == r * r <= v /\ v < (r + 1) * (r + 1)
Bits(v) == CHOOSE k \in 0 .. 30 : v <= 2^k /\ (k > 0 => v > 2^(k - 1))

\* The arguments that rs_sig_file settles for the basis it sees are the ones
\* the job settles for again without knowing the basis (rs_signature_init) and
\* pass rs_sig_args_check; a recommended block length is within 128 bytes of
\* the root of the size, and the shortest strong sum leaves at least 14 bits
\* over those that count the comparisons of the worst case, next to the weak
\* sum's 16 (sumset.c).
SigArgsStand ==
    job # NoJob =>
        /\ rs_sig_args(-1, job) = job
        /\ rs_sig_args_check(job.magic, job.block_len, job.strong_len)
        /\ LET size == rs_file_size(Inputs[1])
           IN  size >= 0 /\ OutName # Inputs[1] =>
                /\ call.block_len = 0 /\ size > 256 * 256 =>
                     /\ job.block_len % 128 = 0
                     /\ \E r \in job.block_len .. job.block_len + 127 : Root(size, r)
                /\ call.strong_len = -1 =>
                     8 * job.strong_len >=
                        Bits(size + 2^24) + Bits(size \div job.block_len + 1) + 14

=============================================================================

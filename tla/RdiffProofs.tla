---------------------------- MODULE RdiffProofs -----------------------------
(***************************************************************************)
(* What the command line tool does to files, for every set of names and    *)
(* every invocation: it changes no old file that it may not change, and an *)
(* exit status of 0 means a complete output.                               *)
(*                                                                         *)
(* Neither property is inductive.  Between the test whether an output      *)
(* exists and its creation another program may act (FOpenSafe), and the    *)
(* output is written several steps after it was opened (OutputOurs).  For  *)
(* the exit status, what was read when a file was opened must still be     *)
(* there when the job reads it (InputsStand), and the result must follow   *)
(* the output from the job through the C library to the file (DoneMeans).  *)
(***************************************************************************)
EXTENDS Rdiff, FiniteSetTheorems, TLAPS

AllOpen == {"arguments", "loadsig", "job", "close"}
Opening == {"options", "action", "check", "fopen"}

RdiffTypeOK ==
    /\ pc \in Opening \cup AllOpen \cup {"exit", "exited"}
    /\ call.args \in Seq(Names \cup {"-"})
    /\ DOMAIN disk = Names
    /\ \A name \in Names :
          /\ DOMAIN disk[name] = {"perm", "data", "size"}
          /\ disk[name].perm \in Permissions
    /\ pc \notin {"close", "exit", "exited"} =>
          \A name \in Names : disk[name].data \in Contents
    /\ streams \in Seq([name : Names \cup {"stdin", "stdout"}, data : Contents])

\* The streams are opened in order; the output is the last of them.
StreamsInOrder ==
    /\ pc \in Opening => Len(streams) < Len(Modes)
    /\ pc \in AllOpen => Len(streams) = Len(Modes)
    /\ pc = "fopen" => poptGetArg # "-"
    /\ Len(streams) <= Len(Modes)
    /\ \A k \in 1 .. Len(streams) :
          /\ k < Len(Modes) => streams[k].name # "stdout"
          /\ k = Len(Modes) => streams[k].name # "stdin"

\* An output that is about to be opened is not an old file that can be read,
\* unless that was asked for.
FOpenSafe ==
    pc = "fopen" /\ Mode = "wb" /\ ~call.force =>
        ~(Readable(poptGetArg) /\ disk[poptGetArg].data = Old(poptGetArg))

\* An output that has been opened is no old file any more.
OutputOurs ==
    pc \in AllOpen /\ OutName # "stdout" => disk[OutName].data # Old(OutName)

\* What the C library holds back never was an old file.
HeldOurs == \A name \in Names : held # Old(name)

ClobberInv == RdiffTypeOK /\ StreamsInOrder /\ FOpenSafe /\ OutputOurs /\ HeldOurs

\* An input still has the contents it had when it was opened, unless it is the
\* output as well.
InputsStand ==
    \A k \in 1 .. Len(streams) :
        k < Len(Modes) =>
            \/ streams[k].name = "stdin" /\ streams[k].data = <<"stdin">>
            \/ /\ streams[k].name \in Names /\ Readable(streams[k].name)
               /\ \/ disk[streams[k].name].data = streams[k].data
                  \/ Len(streams) = Len(Modes) /\ OutName = streams[k].name

\* The result is RS_DONE only after a job that was complete, whose output is
\* held back until the file is closed and is in the file from then on.
DoneMeans ==
    status = "RS_DONE" =>
        \/ call.option \in {"help", "version"}
        \/ /\ pc \in {"close", "exit", "exited"} /\ Len(streams) = Len(Modes)
           /\ Separate => IF pc = "close" THEN held = Complete
                          ELSE held # Lost => Written = Complete

ExitInv == ClobberInv /\ InputsStand /\ DoneMeans

-----------------------------------------------------------------------------
(* Facts about the data.                                                   *)

\* Nothing that the tool or another program writes is an old file.
LEMMA NotOld ==
    ASSUME NEW name
    PROVE  /\ Nothing # Old(name) /\ Part # Old(name) /\ Lost # Old(name)
           /\ <<"other">> # Old(name)
           /\ \A a, i : Output(a, i) # Old(name) /\ Output(a, i) # Nothing /\ Output(a, i) # Lost
  <1>1. \A a, i : Output(a, i)[1] = "output"
    BY DEF Output
  <1>2. Old(name)[1] = "old" /\ Nothing[1] = "nothing" /\ Part[1] = "part" /\ Lost[1] = "lost"
    BY DEF Old, Nothing, Part, Lost
  <1>3. <<"other">>[1] = "other"
    OBVIOUS
  <1> QED
    BY <1>1, <1>2, <1>3

\* Every file but the last is opened for reading (rdiff_sig, rdiff_delta and
\* rdiff_patch).
LEMMA ModesFacts ==
    /\ Len(Modes) \in {2, 3}
    /\ \A k \in 1 .. Len(Modes) : Modes[k] = IF k = Len(Modes) THEN "wb" ELSE "rb"
  <1>1. CASE call.action = "signature"
    BY <1>1 DEF Modes
  <1>2. CASE call.action # "signature"
    BY <1>2 DEF Modes
  <1> QED
    BY <1>1, <1>2

\* The next argument is a name or the sign for a standard stream.
LEMMA ArgType ==
    ASSUME RdiffTypeOK
    PROVE  poptGetArg \in Names \cup {"-"}
  <1>1. Len(streams) \in Nat /\ Len(call.args) \in Nat
    BY DEF RdiffTypeOK
  <1>2. CASE Len(streams) < Len(call.args)
    <2>1. Len(streams) + 1 \in 1 .. Len(call.args)
      BY <1>1, <1>2
    <2>2. call.args[Len(streams) + 1] \in Names \cup {"-"}
      BY <2>1 DEF RdiffTypeOK
    <2> QED
      BY <1>2, <2>2 DEF poptGetArg
  <1>3. CASE ~(Len(streams) < Len(call.args))
    BY <1>3 DEF poptGetArg
  <1> QED
    BY <1>2, <1>3

\* What opening a stream does: it is the last one, the others stay.
LEMMA OpenedFacts ==
    ASSUME RdiffTypeOK, StreamsInOrder, pc \in {"check", "fopen"}, call' = call,
           NEW name \in Names \cup {"stdin", "stdout"}, NEW data \in Contents,
           IF Mode = "rb" THEN name # "stdout" ELSE name # "stdin",
           Opened(name, data)
    PROVE  /\ streams' \in Seq([name : Names \cup {"stdin", "stdout"}, data : Contents])
           /\ Len(streams') = Len(streams) + 1
           /\ \A k \in 1 .. Len(streams) : streams'[k] = streams[k]
           /\ streams'[Len(streams')].name = name /\ streams'[Len(streams')].data = data
           /\ Modes' = Modes
           /\ pc' \in {"arguments", "check"}
           /\ pc' = "arguments" => Mode = "wb"
           /\ pc' = "check" => Mode = "rb"
           /\ OutName' = name
           /\ StreamsInOrder'
  <1> DEFINE S == [name : Names \cup {"stdin", "stdout"}, data : Contents]
             x == [name |-> name, data |-> data]
  <1>1. x \in S /\ x.name = name /\ x.data = data
    OBVIOUS
  <1>2. streams' = Append(streams, x) /\ streams \in Seq(S)
    BY DEF Opened, RdiffTypeOK
  <1> HIDE DEF S, x
  <1>3. /\ streams' \in Seq(S) /\ Len(streams') = Len(streams) + 1 /\ Len(streams) \in Nat
        /\ \A k \in 1 .. Len(streams) : streams'[k] = streams[k]
        /\ streams'[Len(streams')] = x
    BY <1>1, <1>2
  <1>4. Modes' = Modes
    BY DEF Modes
  <1>5. Len(streams) < Len(Modes)
    BY DEF StreamsInOrder, Opening
  <1>6. Mode = IF Len(streams) + 1 = Len(Modes) THEN "wb" ELSE "rb"
    BY <1>3, <1>5, ModesFacts DEF Mode
  <1>7. pc' = IF Len(streams') = Len(Modes) THEN "arguments" ELSE "check"
    BY <1>4 DEF Opened
  <1>8. \A k \in 1 .. Len(streams') : 
          /\ k < Len(Modes) => streams'[k].name # "stdout"
          /\ k = Len(Modes) => streams'[k].name # "stdin"
    <2> SUFFICES ASSUME NEW k \in 1 .. Len(streams')
                 PROVE  /\ k < Len(Modes) => streams'[k].name # "stdout"
                        /\ k = Len(Modes) => streams'[k].name # "stdin"
      OBVIOUS
    <2>1. CASE k \in 1 .. Len(streams)
      BY <2>1, <1>3 DEF StreamsInOrder
    <2>2. CASE k = Len(streams')
      BY <2>2, <1>1, <1>3, <1>5, <1>6, ModesFacts
    <2> QED
      BY <2>1, <2>2, <1>3
  <1>9. OutName' = name
    BY <1>1, <1>3 DEF OutName, Last
  <1>10. StreamsInOrder'
    <2>1. pc' \notin {"fopen"} /\ (pc' \in Opening => pc' = "check") /\ (pc' \in AllOpen => pc' = "arguments")
      BY <1>7 DEF Opening, AllOpen
    <2>2. Len(streams') <= Len(Modes) /\ (pc' = "check" => Len(streams') < Len(Modes))
      BY <1>3, <1>5, <1>7, ModesFacts
    <2>3. pc' = "arguments" => Len(streams') = Len(Modes)
      BY <1>7
    <2> QED
      BY <1>4, <1>8, <2>1, <2>2, <2>3 DEF StreamsInOrder
  <1> QED
    BY <1>1, <1>3, <1>4, <1>5, <1>6, <1>7, <1>9, <1>10, ModesFacts DEF S

-----------------------------------------------------------------------------
(* Old files stay.                                                         *)

\* One old file that the caller has not given up, before a step.
Kept(name) == ~call.force /\ disk[name].data = Old(name) /\ Readable(name)

\* A step that ends at once, or only moves on, opens and writes nothing.
LEMMA ClobberQuiet ==
    ASSUME ClobberInv, UNCHANGED <<call, disk, streams, held>>,
           \/ pc' \in {"exit", "exited"}
           \/ pc = "options" /\ pc' = "action"
           \/ pc = "action" /\ pc' = "check"
           \/ pc = "arguments" /\ pc' \in {"loadsig", "job"}
           \/ pc = "loadsig" /\ pc' = "job"
           \/ pc = "job" /\ pc' = "close"
           \/ pc' = pc
    PROVE  ClobberInv' /\ \A name \in Names : Kept(name) => disk'[name] = disk[name]
  <1> USE DEF ClobberInv, Opening, AllOpen
  <1>1. Modes' = Modes /\ OutName' = OutName /\ poptGetArg' = poptGetArg /\ Mode' = Mode
    BY DEF Modes, OutName, poptGetArg, Mode
  <1>2. RdiffTypeOK'
    BY DEF RdiffTypeOK
  <1>3. StreamsInOrder'
    BY <1>1 DEF StreamsInOrder, RdiffTypeOK
  <1>4. FOpenSafe'
    BY <1>1 DEF FOpenSafe, Readable
  <1>5. OutputOurs' /\ HeldOurs'
    BY <1>1 DEF OutputOurs, HeldOurs
  <1> QED
    BY <1>2, <1>3, <1>4, <1>5

\* The test whether the output exists finds every old file that can be read.
LEMMA ClobberFileExists ==
    ASSUME ClobberInv, FileExists
    PROVE  ClobberInv' /\ \A name \in Names : Kept(name) => disk'[name] = disk[name]
  <1> DEFINE exists == poptGetArg # "-" /\ Mode = "wb" /\ ~call.force /\ Readable(poptGetArg)
  <1>0. pc = "check"
    BY DEF FileExists
  <1>1. CASE exists /\ Exit("RS_IO_ERROR")
    BY <1>1, ClobberQuiet DEF Exit
  <1>2. CASE /\ poptGetArg # "-" /\ ~exists /\ pc' = "fopen"
             /\ UNCHANGED <<call, disk, streams, held, job, status>>
    <2>1. Modes' = Modes /\ OutName' = OutName /\ poptGetArg' = poptGetArg /\ Mode' = Mode
      BY <1>2 DEF Modes, OutName, poptGetArg, Mode
    <2>2. RdiffTypeOK'
      BY <1>0, <1>2 DEF RdiffTypeOK, ClobberInv, Opening
    <2>3. StreamsInOrder'
      BY <1>0, <1>2, <2>1 DEF StreamsInOrder, ClobberInv, Opening, AllOpen
    <2>4. FOpenSafe'
      BY <1>2, <2>1 DEF FOpenSafe, Readable
    <2>5. OutputOurs' /\ HeldOurs'
      BY <1>2, <2>1 DEF OutputOurs, HeldOurs, AllOpen, ClobberInv
    <2> QED
      BY <2>2, <2>3, <2>4, <2>5, <1>2 DEF ClobberInv
  <1>3. CASE /\ poptGetArg = "-"
             /\ IF Mode = "rb" THEN Opened("stdin", <<"stdin">>) ELSE Opened("stdout", Nothing)
             /\ UNCHANGED <<call, disk, held, job, status>>
    <2>1. PICK name \in {"stdin", "stdout"}, data \in {<<"stdin">>, Nothing} :
             /\ Opened(name, data)
             /\ IF Mode = "rb" THEN name # "stdout" ELSE name # "stdin"
      BY <1>3
    <2>2. data \in Contents
      BY DEF Contents
    <2>3. /\ streams' \in Seq([name : Names \cup {"stdin", "stdout"}, data : Contents])
          /\ StreamsInOrder' /\ OutName' = name
          /\ pc' \in {"arguments", "check"}
          /\ pc' = "arguments" => Mode = "wb"
      <3> HIDE DEF exists
      <3> QED
        BY <1>0, <1>3, <2>1, <2>2, OpenedFacts DEF ClobberInv
    <2>4. RdiffTypeOK'
      BY <1>0, <1>3, <2>3 DEF RdiffTypeOK, ClobberInv, Opening, AllOpen
    <2>5. FOpenSafe'
      BY <2>3 DEF FOpenSafe
    <2>6. OutputOurs'
      <3>1. pc' = "arguments" => name = "stdout"
        BY <2>1, <2>3
      <3> QED
        BY <2>3, <3>1 DEF OutputOurs, AllOpen
    <2>7. HeldOurs'
      BY <1>3 DEF HeldOurs, ClobberInv
    <2> QED
      BY <1>3, <2>3, <2>4, <2>5, <2>6, <2>7 DEF ClobberInv
  <1> QED
    BY <1>1, <1>2, <1>3 DEF FileExists

\* fopen empties only what the test let pass.
LEMMA ClobberFileOpen ==
    ASSUME ClobberInv, rs_file_open
    PROVE  ClobberInv' /\ \A name \in Names : Kept(name) => disk'[name] = disk[name]
  <1> DEFINE name == poptGetArg
             file == [perm |-> IF disk[name].perm = "none" THEN "rw" ELSE disk[name].perm,
                      data |-> Nothing, size |-> 0]
  <1>0. pc = "fopen"
    BY DEF rs_file_open
  <1>1. name \in Names
    BY <1>0, ArgType DEF ClobberInv, StreamsInOrder
  <1>2. name # "stdin" /\ name # "stdout"
    BY <1>1, RdiffAssumption
  <1>3. CASE Exit("RS_IO_ERROR")
    BY <1>3, ClobberQuiet DEF Exit
  <1>4. CASE /\ Openable(name) /\ Mode = "rb"
             /\ Opened(name, disk[name].data)
             /\ UNCHANGED <<call, disk, held, job, status>>
    <2>1. disk[name].data \in Contents
      BY <1>0, <1>1 DEF ClobberInv, RdiffTypeOK
    <2>2. /\ streams' \in Seq([name : Names \cup {"stdin", "stdout"}, data : Contents])
          /\ StreamsInOrder' /\ OutName' = name
          /\ pc' = "check"
      <3> HIDE DEF name
      <3> QED
        BY <1>0, <1>1, <1>2, <1>4, <2>1, OpenedFacts DEF ClobberInv
    <2>3. RdiffTypeOK'
      BY <1>0, <1>4, <2>2 DEF RdiffTypeOK, ClobberInv, Opening
    <2> QED
      BY <1>4, <2>2, <2>3 DEF ClobberInv, FOpenSafe, OutputOurs, HeldOurs, AllOpen
  <1>5. CASE /\ Openable(name) /\ Mode = "wb"
             /\ disk' = [disk EXCEPT ![name] = file]
             /\ Opened(name, Nothing)
             /\ UNCHANGED <<call, held, job, status>>
    <2>1. Nothing \in Contents
      BY DEF Contents
    <2>2. /\ streams' \in Seq([name : Names \cup {"stdin", "stdout"}, data : Contents])
          /\ StreamsInOrder' /\ OutName' = name
          /\ pc' = "arguments"
      <3> HIDE DEF name, file
      <3> QED
        BY <1>0, <1>1, <1>2, <1>5, <2>1, OpenedFacts DEF ClobberInv
    <2>3. /\ DOMAIN file = {"perm", "data", "size"} /\ file.data = Nothing
          /\ file.perm \in Permissions
      BY <1>1 DEF ClobberInv, RdiffTypeOK, Permissions
    <2> HIDE DEF name, file
    <2>4. /\ DOMAIN disk' = Names /\ disk'[name] = file
          /\ \A n \in Names : n # name => disk'[n] = disk[n]
      BY <1>1, <1>5 DEF ClobberInv, RdiffTypeOK
    <2>5. RdiffTypeOK'
      BY <1>0, <1>5, <2>1, <2>2, <2>3, <2>4 DEF RdiffTypeOK, ClobberInv, AllOpen
    <2>6. OutputOurs'
      BY <2>2, <2>3, <2>4, NotOld DEF OutputOurs
    <2>7. ~Kept(name)
      BY <1>0, <1>5 DEF Kept, ClobberInv, FOpenSafe, name
    <2> QED
      BY <1>5, <2>2, <2>4, <2>5, <2>6, <2>7 DEF ClobberInv, FOpenSafe, HeldOurs
  <1> QED
    BY <1>3, <1>4, <1>5 DEF rs_file_open

\* A stream that was opened is what was appended; the last one is an output.
LEMMA OutNameType ==
    ASSUME ClobberInv, pc \in AllOpen
    PROVE  OutName \in Names \cup {"stdout"}
  <1> DEFINE S == [name : Names \cup {"stdin", "stdout"}, data : Contents]
  <1>1. streams \in Seq(S)
    BY DEF ClobberInv, RdiffTypeOK
  <1>2. \A s \in S : s.name \in Names \cup {"stdin", "stdout"}
    OBVIOUS
  <1> HIDE DEF S
  <1>3. Len(streams) = Len(Modes) /\ Len(streams) \in 1 .. Len(streams)
    BY ModesFacts DEF ClobberInv, StreamsInOrder
  <1>4. streams[Len(streams)].name \in Names \cup {"stdin", "stdout"}
    BY <1>1, <1>2, <1>3
  <1> QED
    BY <1>3, <1>4 DEF ClobberInv, StreamsInOrder, OutName, Last

\* A job writes to the output only.
LEMMA WholeRunFacts ==
    ASSUME ClobberInv, pc = "job", NEW result, WholeRun(result)
    PROVE  /\ pc' = "close" /\ status' = result
           /\ DOMAIN disk' = Names
           /\ \A name \in Names : /\ DOMAIN disk'[name] = {"perm", "data", "size"}
                                  /\ disk'[name].perm = disk[name].perm
                                  /\ name # OutName => disk'[name] = disk[name]
                                  /\ name = OutName => disk'[name].data = Part
           /\ \A name \in Names : held' # Old(name)
           /\ OutName \in Names \cup {"stdout"}
           /\ OutName # "stdout" => disk[OutName].data # Old(OutName)
  <1>1. OutName \in Names \cup {"stdout"}
    BY OutNameType DEF AllOpen
  <1>2. /\ DOMAIN disk' = Names
        /\ \A name \in Names : /\ DOMAIN disk'[name] = {"perm", "data", "size"}
                               /\ disk'[name].perm = disk[name].perm
                               /\ name # OutName => disk'[name] = disk[name]
                               /\ name = OutName => disk'[name].data = Part
    <2>1. CASE OutName = "stdout"
      BY <2>1, RdiffAssumption DEF WholeRun, ClobberInv, RdiffTypeOK
    <2>2. CASE OutName # "stdout"
      <3>1. disk' = [disk EXCEPT ![OutName].data = Part]
        BY <2>2 DEF WholeRun
      <3>2. OutName \in Names
        BY <1>1, <2>2
      <3> QED
        BY <3>1, <3>2 DEF ClobberInv, RdiffTypeOK
    <2> QED
      BY <2>1, <2>2
  <1>3. \A name \in Names : held' # Old(name)
    BY NotOld DEF WholeRun
  <1>4. OutName # "stdout" => disk[OutName].data # Old(OutName)
    BY DEF ClobberInv, OutputOurs, AllOpen
  <1> QED
    BY <1>1, <1>2, <1>3, <1>4 DEF WholeRun

\* No end of a job, good or bad, touches an old file that can be read.
LEMMA ClobberWholeRun ==
    ASSUME ClobberInv, pc = "job", UNCHANGED <<call, streams>>, NEW result, WholeRun(result)
    PROVE  ClobberInv' /\ \A name \in Names : Kept(name) => disk'[name] = disk[name]
  <1> USE WholeRunFacts
  <1>1. Modes' = Modes /\ OutName' = OutName
    BY DEF Modes, OutName
  <1>2. RdiffTypeOK'
    BY DEF RdiffTypeOK, ClobberInv, AllOpen
  <1>3. StreamsInOrder'
    BY <1>1 DEF StreamsInOrder, ClobberInv, Opening, AllOpen
  <1>4. OutputOurs'
    BY <1>1, NotOld DEF OutputOurs
  <1>5. FOpenSafe' /\ HeldOurs'
    BY DEF FOpenSafe, HeldOurs
  <1>6. \A name \in Names : Kept(name) => disk'[name] = disk[name]
    <2> SUFFICES ASSUME NEW name \in Names, Kept(name), name = OutName
                 PROVE  FALSE
      OBVIOUS
    <2> QED
      BY RdiffAssumption DEF Kept
  <1> QED
    BY <1>2, <1>3, <1>4, <1>5, <1>6 DEF ClobberInv

\* Closing writes what the C library still held to the output, and to nothing else.
LEMMA ClobberClose ==
    ASSUME ClobberInv, rs_file_close
    PROVE  ClobberInv' /\ \A name \in Names : Kept(name) => disk'[name] = disk[name]
  <1>0. pc = "close" /\ pc' = "exit" /\ UNCHANGED <<call, streams>>
    BY DEF rs_file_close
  <1>1. Modes' = Modes
    BY <1>0 DEF Modes
  <1>2. OutName # "stdout" => OutName \in Names /\ disk[OutName].data # Old(OutName)
    BY <1>0, OutNameType DEF ClobberInv, OutputOurs, AllOpen
  <1>3. /\ DOMAIN disk' = Names
        /\ \A name \in Names : /\ DOMAIN disk'[name] = {"perm", "data", "size"}
                               /\ disk'[name].perm = disk[name].perm
                               /\ name # OutName => disk'[name] = disk[name]
        /\ OutName = "stdout" => disk' = disk
    <2>1. CASE UNCHANGED disk
      BY <2>1 DEF ClobberInv, RdiffTypeOK
    <2>2. CASE OutName # "stdout" /\ disk' = [disk EXCEPT ![OutName].data = held]
      BY <2>2, <1>2 DEF ClobberInv, RdiffTypeOK
    <2> QED
      BY <2>1, <2>2 DEF rs_file_close
  <1>4. HeldOurs'
    BY NotOld DEF rs_file_close, HeldOurs, ClobberInv
  <1>5. RdiffTypeOK'
    BY <1>0, <1>3 DEF RdiffTypeOK, ClobberInv
  <1>6. StreamsInOrder'
    BY <1>0, <1>1 DEF StreamsInOrder, ClobberInv, Opening, AllOpen
  <1> QED
    BY <1>0, <1>2, <1>3, <1>4, <1>5, <1>6 DEF ClobberInv, FOpenSafe, OutputOurs, AllOpen, Kept

\* Another program may create the output between the test and fopen; that file
\* is not an old one.
LEMMA ClobberAppears ==
    ASSUME ClobberInv, Appears
    PROVE  ClobberInv' /\ \A name \in Names : Kept(name) => disk'[name] = disk[name]
  <1> DEFINE file == [perm |-> "rw", data |-> <<"other">>, size |-> 1]
  <1>1. PICK new \in Names :
           disk[new].perm = "none" /\ disk' = [disk EXCEPT ![new] = file]
    BY DEF Appears
  <1>2. UNCHANGED <<pc, call, streams, held>>
    BY DEF Appears
  <1>3. file.perm = "rw" /\ file.data = <<"other">> /\ DOMAIN file = {"perm", "data", "size"}
    OBVIOUS
  <1> HIDE DEF file
  <1>4. /\ DOMAIN disk' = Names /\ disk'[new] = file
        /\ \A n \in Names : n # new => disk'[n] = disk[n]
    BY <1>1 DEF ClobberInv, RdiffTypeOK
  <1>5. Modes' = Modes /\ OutName' = OutName /\ poptGetArg' = poptGetArg /\ Mode' = Mode
    BY <1>2 DEF Modes, OutName, poptGetArg, Mode
  <1>6. RdiffTypeOK'
    <2>1. file.data \in Contents /\ file.perm \in Permissions
      BY <1>3 DEF Contents, Permissions
    <2>2. \A n \in Names : /\ DOMAIN disk'[n] = {"perm", "data", "size"}
                           /\ disk'[n].perm \in Permissions
                           /\ disk'[n].data = disk[n].data \/ disk'[n].data \in Contents
      BY <1>3, <1>4, <2>1 DEF ClobberInv, RdiffTypeOK
    <2> QED
      BY <1>2, <1>4, <2>2 DEF ClobberInv, RdiffTypeOK
  <1>7. StreamsInOrder'
    BY <1>2, <1>5 DEF StreamsInOrder, ClobberInv
  <1>8. FOpenSafe'
    <2> SUFFICES ASSUME pc = "fopen", Mode = "wb", ~call.force
                 PROVE  ~(disk'[poptGetArg].perm \in {"r", "rw"} /\ disk'[poptGetArg].data = Old(poptGetArg))
      BY <1>2, <1>5 DEF FOpenSafe, Readable
    <2>1. poptGetArg \in Names
      BY ArgType DEF ClobberInv, StreamsInOrder
    <2> QED
      BY <1>3, <1>4, <2>1, NotOld DEF ClobberInv, FOpenSafe, Readable
  <1>9. OutputOurs'
    <2> SUFFICES ASSUME pc \in AllOpen, OutName # "stdout"
                 PROVE  disk'[OutName].data # Old(OutName)
      BY <1>2, <1>5 DEF OutputOurs
    <2>1. OutName \in Names
      BY OutNameType
    <2> QED
      BY <1>3, <1>4, <2>1, NotOld DEF ClobberInv, OutputOurs
  <1>10. \A name \in Names : Kept(name) => disk'[name] = disk[name]
    BY <1>1, <1>4 DEF Kept, Readable
  <1> QED
    BY <1>2, <1>6, <1>7, <1>8, <1>9, <1>10 DEF ClobberInv, HeldOurs

\* At first nothing is open.
LEMMA ClobberInit ==
    ASSUME Init
    PROVE  ClobberInv
  <1>1. PICK s \in Scenarios : call = s.call /\ disk = s.disk
    BY DEF Init
  <1>2. call.args \in Seq(Names \cup {"-"}) /\ disk \in [Names -> Files]
    BY <1>1, RdiffAssumption
  <1>3. /\ DOMAIN disk = Names
        /\ \A name \in Names : /\ DOMAIN disk[name] = {"perm", "data", "size"}
                               /\ disk[name].perm \in Permissions
                               /\ disk[name].data \in Contents
    BY <1>2 DEF Files
  <1>4. pc = "options" /\ streams = <<>> /\ held = Nothing
    BY DEF Init
  <1>5. RdiffTypeOK
    BY <1>2, <1>3, <1>4 DEF RdiffTypeOK, Opening
  <1>6. StreamsInOrder
    BY <1>4, ModesFacts DEF StreamsInOrder, Opening, AllOpen
  <1> QED
    BY <1>4, <1>5, <1>6, NotOld DEF ClobberInv, FOpenSafe, OutputOurs, HeldOurs, AllOpen

\* No step, of the tool or of another program, touches an old file that can be read.
LEMMA ClobberStep ==
    ASSUME ClobberInv, [Next]_vars
    PROVE  ClobberInv' /\ \A name \in Names : Kept(name) => disk'[name] = disk[name]
  <1>1. CASE rdiff_options
    BY <1>1, ClobberQuiet DEF rdiff_options, Exit
  <1>2. CASE rdiff_action
    BY <1>2, ClobberQuiet DEF rdiff_action, Exit
  <1>3. CASE rdiff_no_more_args
    BY <1>3, ClobberQuiet DEF rdiff_no_more_args, Exit
  <1>4. CASE rs_sig_file
    <2>1. CASE pc' = "close" /\ UNCHANGED <<disk, held>>
      BY <1>4, <2>1, ClobberQuiet DEF rs_sig_file
    <2>2. CASE \E r \in {"RS_DONE", "RS_IO_ERROR"} : WholeRun(r)
      BY <1>4, <2>2, ClobberWholeRun DEF rs_sig_file
    <2> QED
      BY <1>4, <2>1, <2>2 DEF rs_sig_file
  <1>5. CASE rs_loadsig_file
    BY <1>5, ClobberQuiet DEF rs_loadsig_file, Exit
  <1>6. CASE rs_delta_file
    BY <1>6, ClobberWholeRun DEF rs_delta_file
  <1>7. CASE rs_patch_file
    BY <1>7, ClobberWholeRun DEF rs_patch_file
  <1>8. CASE Main
    <2>1. UNCHANGED <<call, disk, streams>> /\ pc' = "exited"
      BY <1>8 DEF Main
    <2>2. Modes' = Modes
      BY <2>1 DEF Modes
    <2>3. RdiffTypeOK' /\ StreamsInOrder'
      BY <2>1, <2>2 DEF ClobberInv, RdiffTypeOK, StreamsInOrder, Opening, AllOpen
    <2>4. HeldOurs'
      BY <1>8, NotOld DEF Main, ClobberInv, HeldOurs
    <2> QED
      BY <2>1, <2>3, <2>4 DEF ClobberInv, FOpenSafe, OutputOurs, AllOpen
  <1>9. CASE Exited \/ UNCHANGED vars
    BY <1>9, ClobberQuiet DEF Exited, vars
  <1> QED
    BY <1>1, <1>2, <1>3, <1>4, <1>5, <1>6, <1>7, <1>8, <1>9,
       ClobberFileExists, ClobberFileOpen, ClobberClose, ClobberAppears DEF Next

\* Without --force no step changes a file that was there before and can be
\* read: rs_file_open refuses it, and what is written later goes to the file
\* that was opened (rdiff.c, fileutil.c).
THEOREM RdiffNoClobber == Spec => NoClobber
  <1>1. Init => ClobberInv
    BY ClobberInit
  <1>2. ClobberInv /\ [Next]_vars =>
           /\ ClobberInv'
           /\ [\A name \in Names :
                  ~call.force /\ disk[name].data = Old(name) /\ Readable(name)
                  => disk'[name] = disk[name]]_vars
    BY ClobberStep DEF Kept
  <1> QED
    BY <1>1, <1>2, PTL DEF Spec, NoClobber

-----------------------------------------------------------------------------
(* The exit status.                                                        *)

\* Before the job there is no result.
LEMMA NoResultYet ==
    ASSUME ExitInv, pc \notin {"close", "exit", "exited"}
    PROVE  status = "RS_DONE" => call.option \in {"help", "version"}
  BY DEF ExitInv, DoneMeans

\* A step that only moves on, or ends with a failure, leaves the inputs alone.
LEMMA ExitQuiet ==
    ASSUME ExitInv, UNCHANGED <<call, disk, streams>>,
           \/ status' # "RS_DONE"
           \/ call.option \in {"help", "version"}
           \/ status' = status /\ pc \notin {"close", "exit", "exited"}
           \/ status' = status /\ pc' = pc /\ held' = held
    PROVE  InputsStand' /\ DoneMeans'
  <1>1. Modes' = Modes /\ OutName' = OutName /\ Separate' = Separate /\ Complete' = Complete
    BY DEF Modes, OutName, Separate, Complete, Inputs
  <1>2. InputsStand'
    BY <1>1 DEF ExitInv, InputsStand, Readable
  <1>3. DoneMeans'
    <2>1. CASE status' # "RS_DONE" \/ call.option \in {"help", "version"}
      BY <2>1 DEF DoneMeans
    <2>2. CASE status' = status /\ pc \notin {"close", "exit", "exited"}
      BY <2>2, NoResultYet DEF DoneMeans
    <2>3. CASE status' = status /\ pc' = pc /\ held' = held
      BY <1>1, <2>3 DEF ExitInv, DoneMeans, Written
    <2> QED
      BY <2>1, <2>2, <2>3
  <1> QED
    BY <1>2, <1>3

\* What opening a stream may do to the files: none becomes unreadable, none
\* changes but the output, and an input is recorded as it is.
OpenedRightly(name, data) ==
    /\ IF Mode = "rb" THEN name # "stdout" ELSE name # "stdin"
    /\ \A n \in Names : /\ Readable(n) => disk'[n].perm \in {"r", "rw"}
                        /\ disk'[n].data = disk[n].data \/ (Mode = "wb" /\ n = name)
    /\ Mode = "rb" => \/ name = "stdin" /\ data = <<"stdin">>
                      \/ /\ name \in Names /\ disk'[name].perm \in {"r", "rw"}
                         /\ disk'[name].data = data

\* Opening one more stream: of the files that are inputs already only the
\* output can change.
LEMMA ExitOpened ==
    ASSUME ExitInv, pc \in {"check", "fopen"}, call' = call, status' = status,
           NEW name \in Names \cup {"stdin", "stdout"}, NEW data \in Contents,
           Opened(name, data), OpenedRightly(name, data)
    PROVE  InputsStand' /\ DoneMeans'
  <1> USE DEF OpenedRightly
  <1>1. RdiffTypeOK /\ StreamsInOrder /\ InputsStand
    BY DEF ExitInv, ClobberInv
  <1>2. /\ Len(streams') = Len(streams) + 1
        /\ \A k \in 1 .. Len(streams) : streams'[k] = streams[k]
        /\ streams'[Len(streams')].name = name /\ streams'[Len(streams')].data = data
        /\ Modes' = Modes /\ OutName' = name
    BY <1>1, OpenedFacts
  <1>3. Len(streams) \in Nat /\ Len(streams) < Len(Modes)
    BY <1>1 DEF RdiffTypeOK, StreamsInOrder, Opening
  <1>4. Mode = IF Len(streams') = Len(Modes) THEN "wb" ELSE "rb"
    BY <1>2, <1>3, ModesFacts DEF Mode
  <1>5. InputsStand'
    <2> SUFFICES ASSUME NEW k \in 1 .. Len(streams'), k < Len(Modes)
                 PROVE  \/ streams'[k].name = "stdin" /\ streams'[k].data = <<"stdin">>
                        \/ /\ streams'[k].name \in Names
                           /\ disk'[streams'[k].name].perm \in {"r", "rw"}
                           /\ \/ disk'[streams'[k].name].data = streams'[k].data
                              \/ Len(streams') = Len(Modes) /\ name = streams'[k].name
      BY <1>2 DEF InputsStand, Readable
    <2>1. CASE k \in 1 .. Len(streams)
      <3>1. streams'[k] = streams[k]
        BY <1>2, <2>1
      <3>2. \/ streams[k].name = "stdin" /\ streams[k].data = <<"stdin">>
            \/ /\ streams[k].name \in Names /\ Readable(streams[k].name)
               /\ disk[streams[k].name].data = streams[k].data
        BY <1>1, <1>3, <2>1 DEF InputsStand
      <3> QED
        BY <1>4, <3>1, <3>2 DEF Readable
    <2>2. CASE k = Len(streams')
      <3>1. Mode = "rb" /\ streams'[k].name = name /\ streams'[k].data = data
        BY <1>2, <1>4, <2>2, ModesFacts
      <3> QED
        BY <3>1 DEF Readable
    <2> QED
      BY <2>1, <2>2, <1>2, <1>3
  <1>6. DoneMeans'
    BY NoResultYet DEF DoneMeans
  <1> QED
    BY <1>5, <1>6

\* The test for an output leaves the inputs as they were read.
LEMMA ExitFileExists ==
    ASSUME ExitInv, FileExists
    PROVE  InputsStand' /\ DoneMeans'
  <1>0. pc = "check"
    BY DEF FileExists
  <1>1. CASE Exit("RS_IO_ERROR")
    BY <1>1, ExitQuiet DEF Exit
  <1>2. CASE UNCHANGED <<call, disk, streams, held, job, status>>
    BY <1>0, <1>2, ExitQuiet
  <1>3. CASE /\ IF Mode = "rb" THEN Opened("stdin", <<"stdin">>) ELSE Opened("stdout", Nothing)
             /\ UNCHANGED <<call, disk, held, job, status>>
    <2>1. <<"stdin">> \in Contents /\ Nothing \in Contents
      BY DEF Contents
    <2>2. \A n \in Names : (Readable(n) => disk'[n].perm \in {"r", "rw"}) /\ disk'[n].data = disk[n].data
      BY <1>3 DEF Readable
    <2>3. CASE Mode = "rb" /\ Opened("stdin", <<"stdin">>)
      <3>1. OpenedRightly("stdin", <<"stdin">>)
        BY <2>2, <2>3 DEF OpenedRightly
      <3> QED
        BY <1>0, <1>3, <2>1, <2>3, <3>1, ExitOpened
    <2>4. CASE Mode # "rb" /\ Opened("stdout", Nothing)
      <3>1. OpenedRightly("stdout", Nothing)
        BY <2>2, <2>4 DEF OpenedRightly
      <3> QED
        BY <1>0, <1>3, <2>1, <2>4, <3>1, ExitOpened
    <2> QED
      BY <1>3, <2>3, <2>4
  <1> QED
    BY <1>1, <1>2, <1>3 DEF FileExists

\* Opening an input reads it as it is; opening the output may change one only if they
\* are the same file.
LEMMA ExitFileOpen ==
    ASSUME ExitInv, rs_file_open
    PROVE  InputsStand' /\ DoneMeans'
  <1>0. pc = "fopen"
    BY DEF rs_file_open
  <1>1. PICK name \in Names : name = poptGetArg
    BY <1>0, ArgType DEF ExitInv, ClobberInv, StreamsInOrder
  <1> DEFINE file == [perm |-> IF disk[name].perm = "none" THEN "rw" ELSE disk[name].perm,
                      data |-> Nothing, size |-> 0]
  <1>2. name # "stdin" /\ name # "stdout"
    BY <1>1, RdiffAssumption
  <1>3. CASE Exit("RS_IO_ERROR")
    BY <1>3, ExitQuiet DEF Exit
  <1>4. CASE /\ Openable(name) /\ Mode = "rb"
             /\ Opened(name, disk[name].data)
             /\ UNCHANGED <<call, disk, held, job, status>>
    <2>1. disk[name].data \in Contents
      BY <1>0, <1>1 DEF ExitInv, ClobberInv, RdiffTypeOK
    <2>2. disk'[name].perm \in {"r", "rw"} /\ \A n \in Names : Readable(n) => disk'[n].perm \in {"r", "rw"}
      BY <1>4 DEF Openable, Readable
    <2>3. PICK data \in Contents : data = disk[name].data
      BY <2>1
    <2>4. OpenedRightly(name, data)
      BY <1>1, <1>2, <1>4, <2>2, <2>3 DEF OpenedRightly
    <2> QED
      BY <1>0, <1>1, <1>4, <2>3, <2>4, ExitOpened
  <1>5. CASE /\ Openable(name) /\ Mode = "wb"
             /\ disk' = [disk EXCEPT ![name] = file]
             /\ Opened(name, Nothing)
             /\ UNCHANGED <<call, held, job, status>>
    <2>1. Nothing \in Contents
      BY DEF Contents
    <2>2. file.perm = "rw" \/ file.perm = disk[name].perm
      OBVIOUS
    <2> HIDE DEF file
    <2>3. disk'[name] = file /\ \A n \in Names : n # name => disk'[n] = disk[n]
      BY <1>1, <1>5 DEF ExitInv, ClobberInv, RdiffTypeOK
    <2>4. \A n \in Names : Readable(n) => disk'[n].perm \in {"r", "rw"}
      BY <2>2, <2>3 DEF Readable
    <2>5. OpenedRightly(name, Nothing)
      BY <1>1, <1>2, <1>5, <2>3, <2>4 DEF OpenedRightly
    <2> QED
      BY <1>0, <1>1, <1>5, <2>1, <2>5, ExitOpened
  <1> QED
    BY <1>1, <1>3, <1>4, <1>5 DEF rs_file_open

\* With separate files the job reads what was there when they were opened.
LEMMA ReadsWhatWasOpened ==
    ASSUME ExitInv, pc = "job", Separate, NEW k \in DOMAIN Inputs
    PROVE  ReadOf(k) = streams[k].data
  <1>1. Len(streams) = Len(Modes) /\ Len(streams) \in {2, 3}
    BY ModesFacts DEF ExitInv, ClobberInv, StreamsInOrder, AllOpen
  <1>2. DOMAIN Inputs = 1 .. Len(streams) - 1 /\ \A j \in DOMAIN Inputs : Inputs[j] = streams[j].name
    BY DEF Inputs
  <1>3. \A j \in DOMAIN Inputs : OutName # Inputs[j]
    BY <1>1 DEF Separate
  <1>4. \/ streams[k].name = "stdin" /\ streams[k].data = <<"stdin">>
        \/ /\ streams[k].name \in Names
           /\ disk[streams[k].name].data = streams[k].data
    BY <1>1, <1>2, <1>3 DEF ExitInv, InputsStand
  <1>5. CASE Inputs[k] # "stdin"
    BY <1>2, <1>4, <1>5 DEF ReadOf
  <1>6. CASE Inputs[k] = "stdin"
    <2>1. \A j \in 1 .. k - 1 : Inputs[j] # "stdin"
      <3> SUFFICES ASSUME NEW j \in 1 .. k - 1, Inputs[j] = "stdin"
                   PROVE  FALSE
        OBVIOUS
      <3> DEFINE T == {i \in DOMAIN Inputs : Inputs[i] = "stdin"}
      <3>1. Cardinality(T) <= 1
        BY <1>1 DEF Separate
      <3>2. IsFiniteSet(T)
        <4>1. IsFiniteSet(1 .. Len(streams) - 1)
          BY <1>1, FS_Interval
        <4> QED
          BY <1>2, <4>1, FS_Subset
      <3>3. j \in T /\ k \in T /\ j # k
        BY <1>1, <1>2, <1>6
      <3> HIDE DEF T
      <3>4. T # {} /\ Cardinality(T) \in Nat
        BY <3>2, <3>3, FS_CardinalityType
      <3>5. Cardinality(T) = 0 \/ Cardinality(T) = 1
        BY <3>1, <3>4
      <3>6. Cardinality(T) # 0
        BY <3>2, <3>4, FS_EmptySet
      <3>7. \E x : T = {x}
        BY <3>2, <3>5, <3>6, FS_Singleton
      <3> QED
        BY <3>3, <3>7
    <2>2. streams[k].data = <<"stdin">>
      BY <1>2, <1>4, <1>6, RdiffAssumption
    <2> QED
      BY <1>6, <2>1, <2>2 DEF ReadOf
  <1> QED
    BY <1>5, <1>6

\* RS_DONE of a job means that its output has been given to the C library.
LEMMA ExitWholeRun ==
    ASSUME ExitInv, pc = "job", call' = call, streams' = streams, NEW result, WholeRun(result)
    PROVE  InputsStand' /\ DoneMeans'
  <1>1. ClobberInv /\ InputsStand
    BY DEF ExitInv
  <1>2. Len(streams) = Len(Modes)
    BY <1>1 DEF ClobberInv, StreamsInOrder, AllOpen
  <1>3. Modes' = Modes /\ OutName' = OutName /\ Separate' = Separate /\ Complete' = Complete
    BY DEF Modes, OutName, Separate, Complete, Inputs
  <1>4. InputsStand'
    <2> SUFFICES ASSUME NEW k \in 1 .. Len(streams), k < Len(Modes)
                 PROVE  \/ streams[k].name = "stdin" /\ streams[k].data = <<"stdin">>
                        \/ /\ streams[k].name \in Names
                           /\ disk'[streams[k].name].perm \in {"r", "rw"}
                           /\ \/ disk'[streams[k].name].data = streams[k].data
                              \/ OutName = streams[k].name
      BY <1>2, <1>3 DEF InputsStand, Readable
    <2> QED
      BY <1>1, WholeRunFacts DEF InputsStand, Readable
  <1>5. DoneMeans'
    <2>1. pc' = "close" /\ status' = result
      BY DEF WholeRun
    <2>2. ASSUME result = "RS_DONE", Separate
          PROVE  held' = Complete
      <3>1. held' = Output(call.action, [k \in DOMAIN Inputs |-> ReadOf(k)])
        BY <2>2 DEF WholeRun
      <3>2. [k \in DOMAIN Inputs |-> ReadOf(k)] = [k \in DOMAIN Inputs |-> streams[k].data]
        BY <2>2, ReadsWhatWasOpened
      <3> QED
        BY <3>1, <3>2 DEF Complete
    <2> QED
      BY <1>2, <1>3, <2>1, <2>2 DEF DoneMeans
  <1> QED
    BY <1>4, <1>5

\* After closing, the output is in the file, or has been lost.
LEMMA ExitClose ==
    ASSUME ExitInv, rs_file_close
    PROVE  InputsStand' /\ DoneMeans'
  <1>0. /\ pc = "close" /\ pc' = "exit" /\ call' = call /\ streams' = streams /\ status' = status
        /\ ClobberInv /\ InputsStand
    BY DEF rs_file_close, ExitInv
  <1>1. Modes' = Modes /\ OutName' = OutName /\ Separate' = Separate /\ Complete' = Complete
    BY <1>0 DEF Modes, OutName, Separate, Complete, Inputs
  <1>2. Len(streams) = Len(Modes) /\ OutName \in Names \cup {"stdout"}
    BY <1>0, OutNameType DEF ClobberInv, StreamsInOrder, AllOpen
  <1>3. \/ UNCHANGED disk
        \/ OutName # "stdout" /\ disk' = [disk EXCEPT ![OutName].data = held]
    BY DEF rs_file_close
  <1>4. \A name \in Names : /\ disk'[name].perm = disk[name].perm
                            /\ name # OutName => disk'[name] = disk[name]
    BY <1>0, <1>2, <1>3 DEF ClobberInv, RdiffTypeOK
  <1>5. InputsStand'
    <2> SUFFICES ASSUME NEW k \in 1 .. Len(streams), k < Len(Modes)
                 PROVE  \/ streams[k].name = "stdin" /\ streams[k].data = <<"stdin">>
                        \/ /\ streams[k].name \in Names
                           /\ disk'[streams[k].name].perm \in {"r", "rw"}
                           /\ \/ disk'[streams[k].name].data = streams[k].data
                              \/ OutName = streams[k].name
      BY <1>0, <1>1, <1>2 DEF InputsStand, Readable
    <2> QED
      BY <1>0, <1>4 DEF InputsStand, Readable
  <1>6. DoneMeans'
    <2> SUFFICES ASSUME status = "RS_DONE", call.option \notin {"help", "version"},
                        Separate, held' # Lost
                 PROVE  Written' = Complete
      BY <1>0, <1>1, <1>2 DEF DoneMeans
    <2>1. held = Complete /\ held # Nothing
      BY <1>0, NotOld DEF ExitInv, DoneMeans, Complete
    <2>2. CASE OutName = "stdout"
      BY <1>1, <2>1, <2>2 DEF rs_file_close, Written
    <2>3. CASE OutName # "stdout"
      <3>1. disk' = [disk EXCEPT ![OutName].data = held]
        BY <2>1, <2>3 DEF rs_file_close
      <3>2. disk'[OutName].data = held
        BY <1>0, <1>2, <2>3, <3>1 DEF ClobberInv, RdiffTypeOK
      <3> QED
        BY <1>1, <2>1, <2>3, <3>2 DEF Written
    <2> QED
      BY <2>2, <2>3
  <1> QED
    BY <1>5, <1>6

\* main returns the result.
LEMMA ExitMain ==
    ASSUME ExitInv, Main
    PROVE  InputsStand' /\ DoneMeans'
  <1>0. pc = "exit" /\ pc' = "exited" /\ UNCHANGED <<call, disk, streams, job, status>>
    BY DEF Main
  <1>1. Modes' = Modes /\ OutName' = OutName /\ Separate' = Separate /\ Complete' = Complete
    BY <1>0 DEF Modes, OutName, Separate, Complete, Inputs
  <1>2. InputsStand'
    BY <1>0, <1>1 DEF ExitInv, InputsStand, Readable
  <1>3. held' = held \/ held' = Lost
    BY DEF Main
  <1>4. held' = held => Written' = Written
    BY <1>0, <1>1 DEF Written
  <1>5. DoneMeans'
    BY <1>0, <1>1, <1>3, <1>4 DEF ExitInv, DoneMeans
  <1> QED
    BY <1>2, <1>5

\* Another program creates a file that nobody could read before, so it is no input;
\* a complete output is still held back then.
LEMMA ExitAppears ==
    ASSUME ExitInv, Appears
    PROVE  InputsStand' /\ DoneMeans'
  <1>0. /\ pc \notin {"exit", "exited"} /\ UNCHANGED <<pc, call, streams, held, status>>
        /\ ClobberInv /\ InputsStand
    BY DEF Appears, ExitInv
  <1>1. \A n \in Names : Readable(n) => disk'[n] = disk[n]
    BY <1>0 DEF Appears, Readable, ClobberInv, RdiffTypeOK
  <1>2. Modes' = Modes /\ OutName' = OutName /\ Separate' = Separate /\ Complete' = Complete
    BY <1>0 DEF Modes, OutName, Separate, Complete, Inputs
  <1>3. InputsStand'
    <2> SUFFICES ASSUME NEW k \in 1 .. Len(streams), k < Len(Modes)
                 PROVE  \/ streams[k].name = "stdin" /\ streams[k].data = <<"stdin">>
                        \/ /\ streams[k].name \in Names
                           /\ disk'[streams[k].name].perm \in {"r", "rw"}
                           /\ \/ disk'[streams[k].name].data = streams[k].data
                              \/ Len(streams) = Len(Modes) /\ OutName = streams[k].name
      BY <1>0, <1>2 DEF InputsStand, Readable
    <2> QED
      BY <1>0, <1>1 DEF InputsStand, Readable
  <1>4. DoneMeans'
    BY <1>0, <1>2 DEF ExitInv, DoneMeans
  <1> QED
    BY <1>3, <1>4

\* At first there is no result.
LEMMA ExitInit ==
    ASSUME Init
    PROVE  ExitInv
  <1>1. streams = <<>> /\ status = "RS_RUNNING" /\ ClobberInv
    BY ClobberInit DEF Init
  <1> QED
    BY <1>1 DEF ExitInv, InputsStand, DoneMeans

\* Every step keeps the invariant.
LEMMA ExitStep ==
    ASSUME ExitInv, [Next]_vars
    PROVE  ExitInv'
  <1> SUFFICES InputsStand' /\ DoneMeans'
    BY ClobberStep DEF ExitInv
  <1>1. CASE rdiff_options
    BY <1>1, ExitQuiet DEF rdiff_options, Exit
  <1>2. CASE rdiff_action
    BY <1>2, ExitQuiet DEF rdiff_action, Exit
  <1>3. CASE rdiff_no_more_args
    BY <1>3, ExitQuiet DEF rdiff_no_more_args, Exit
  <1>4. CASE rs_sig_file
    <2>1. pc = "job" /\ call' = call /\ streams' = streams
      BY <1>4 DEF rs_sig_file
    <2>2. CASE status' # "RS_DONE" /\ UNCHANGED disk
      BY <2>1, <2>2, ExitQuiet
    <2>3. CASE \E r \in {"RS_DONE", "RS_IO_ERROR"} : WholeRun(r)
      BY <2>1, <2>3, ExitWholeRun
    <2> QED
      BY <1>4, <2>2, <2>3 DEF rs_sig_file
  <1>5. CASE rs_loadsig_file
    BY <1>5, ExitQuiet DEF rs_loadsig_file, Exit
  <1>6. CASE rs_delta_file
    BY <1>6, ExitWholeRun DEF rs_delta_file
  <1>7. CASE rs_patch_file
    BY <1>7, ExitWholeRun DEF rs_patch_file
  <1>8. CASE Exited \/ UNCHANGED vars
    BY <1>8, ExitQuiet DEF Exited, vars
  <1> QED
    BY <1>1, <1>2, <1>3, <1>4, <1>5, <1>6, <1>7, <1>8,
       ExitFileExists, ExitFileOpen, ExitClose, ExitMain, ExitAppears DEF Next

\* An exit status of 0 after an action means that the output for the inputs as
\* they were when they were opened is complete and where it should be, unless
\* what the C library held was lost on closing (rdiff.c, fileutil.c).
THEOREM RdiffExitZero == Spec => []ExitZeroMeansComplete
  <1>1. Init => ExitInv
    BY ExitInit
  <1>2. ExitInv /\ [Next]_vars => ExitInv'
    BY ExitStep
  <1>3. ExitInv => ExitZeroMeansComplete
    BY DEF ExitInv, DoneMeans, ExitZeroMeansComplete, ZeroIsSuccess
  <1> QED
    BY <1>1, <1>2, <1>3, PTL DEF Spec
=============================================================================

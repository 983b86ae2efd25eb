----------------------------- MODULE Transducer -----------------------------
(***************************************************************************)
(* What a librsync job promises to its caller (src/src/librsync.h, the     *)
(* streaming interface): the job computes a function of its whole input.   *)
(* The output grows byte by byte towards a target, and the job ends with a *)
(* verdict; neither depends on how the caller cut the input into buffers,  *)
(* on how much room it offered for output, or on when it called.  Each     *)
(* time rs_job_iter returns, its answer is one that Contract allows.       *)
(***************************************************************************)
EXTENDS Sequences, Contract

CONSTANTS
    TargetOf(_),    \* the output that a source determines
    PromiseOf(_)    \* the promise that it determines

VARIABLES
    source,         \* everything that the job computes its output from
    out,            \* the output so far
    result,         \* "RS_RUNNING" until the job has completed
    answer          \* what rs_job_iter returned, NoAnswer while it runs

vars == <<source, out, result, answer>>

IsPrefixOf(s, t) == Len(s) <= Len(t) /\ s = SubSeq(t, 1, Len(s))

Init == out = <<>> /\ result = "RS_RUNNING" /\ answer = NoAnswer

\* Some more output, the last of it perhaps together with the verdict.
Next ==
    /\ result = "RS_RUNNING"
    /\ IsPrefixOf(out, out') /\ IsPrefixOf(out', TargetOf(source))
    /\ answer'.result # NoAnswer.result => MayAnswer(PromiseOf(source), answer')
    /\ \/ result' = "RS_RUNNING"
       \/ result' = PromiseOf(source).verdict /\ out' = TargetOf(source)
    /\ UNCHANGED source

Spec == Init /\ [][Next]_vars

=============================================================================

------------------------------ MODULE PatchFile -----------------------------
(***************************************************************************)
(* rs_patch_file (src/src/whole.c): the patch job driven between two       *)
(* files.  The application of module Patch, which may do anything that     *)
(* rs_buffers_t allows, is replaced by the loop of rs_job_drive.           *)
(***************************************************************************)
EXTENDS Patch, Drive

fileVars == <<vars, driveVars>>

FileInit == Init /\ DriveInit

FileStep ==
    \/ Caller(DriveIO)
    \/ Caller(DriveIter)
    \/ Inside(Step)

FileStopped == drive = "returned" /\ UNCHANGED fileVars

FileNext == FileStep \/ FileStopped

\* One thread runs the job and the loop around it.
FileSpec == FileInit /\ [][FileNext]_fileVars /\ WF_fileVars(FileStep)

-----------------------------------------------------------------------------
\* rs_job_drive with the file buffers is one of the callers that module Patch
\* allows for: it offers the file's bytes in order, says that they have ended
\* when they have, not earlier and not only once, takes no room back, and does
\* not call again after the end.  So what is shown of the job with any caller
\* holds for rs_patch_file.
KeepsCallersContract == Init /\ [][Next]_vars

\* The new file holds a prefix of what the delta means, whatever fails, the
\* basis included, and all of it if RS_DONE is returned: the output of the last
\* call is drained, too.  If nothing fails the result is that of the delta, or of
\* an input callback that does not return RS_DONE at the end of the file.
NewFileCorrect ==
    /\ Whole!IsPrefixOf(out_fb.content, Meaning[input].out)
    /\ drive_result = "RS_DONE" =>
          out_fb.content = Meaning[input].out /\ Meaning[input].verdict = "RS_DONE"
    /\ drive = "returned" /\ ~in_fb.ferror /\ ~out_fb.ferror =>
          drive_result \in {Meaning[input].verdict} \cup CallbackFaults \cup ({in_fb.at_eof} \ {"RS_DONE"})

\* rs_patch_file comes to an end for all sizes of buffers, with nothing assumed
\* but that it runs: the loop supplies whatever the job may be blocked on.
DriveEnds == <>(drive = "returned")

=============================================================================

----------------------------- MODULE Checksums ------------------------------
(***************************************************************************)
(* A program that uses a weak sum or a strong one.  The two share nothing, *)
(* so that it is enough to use one of them at a time.                      *)
(***************************************************************************)
EXTENDS Rolling, Message

Init == RollingInit /\ MessageInit

Next ==
    \/ message = <<>> /\ ~sum.final /\ RollingNext /\ UNCHANGED message_vars
    \/ window = <<>> /\ MessageNext /\ UNCHANGED rolling_vars

Spec == Init /\ [][Next]_<<rolling_vars, message_vars>>

=============================================================================

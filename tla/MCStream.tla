------------------------------ MODULE MCStream ------------------------------
(* Buffers of two bytes, sockets that hold less than a message, files shorter *)
(* and longer than a buffer, an empty basis and an empty new file.  Headers   *)
(* are split where the files are small.                                       *)
EXTENDS Stream

Failures == {"connect", "bind", "accept", "open", "fread", "fwrite", "short fwrite", "socket",
             "basis", "fclose", "rename"}

MCTasks ==
    {[basis |-> 5, blocks |-> 1, sig |-> 3, delta |-> 2, new |-> 3,
      use_io_stream |-> FALSE, exists |-> TRUE, fails |-> Failures],
     [basis |-> 1, blocks |-> 1, sig |-> 1, delta |-> 5, new |-> 5,
      use_io_stream |-> FALSE, exists |-> TRUE, fails |-> Failures],
     [basis |-> 0, blocks |-> 0, sig |-> 2, delta |-> 3, new |-> 1,
      use_io_stream |-> FALSE, exists |-> FALSE, fails |-> Failures],
     [basis |-> 2, blocks |-> 1, sig |-> 3, delta |-> 2, new |-> 0,
      use_io_stream |-> TRUE, exists |-> TRUE, fails |-> Failures],
     [basis |-> 1, blocks |-> 1, sig |-> 1, delta |-> 2, new |-> 1,
      use_io_stream |-> FALSE, exists |-> TRUE, fails |-> {"split header"}]}

=============================================================================

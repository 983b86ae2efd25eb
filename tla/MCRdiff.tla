------------------------------ MODULE MCRdiff -------------------------------
(* Two files and the standard streams under every action and up to one      *)
(* argument too many; every option that ends the tool at once; and, for one  *)
(* signature, the options of the sums over bases of many sizes, those around *)
(* the changes of formula and the powers of two among them.                  *)
EXTENDS Rdiff, TLC

MaxArgs == 4

Default ==
    [option |-> "none", action |-> "signature", args |-> <<"a", "b">>, force |-> FALSE,
     hash |-> "none", rollsum |-> "none", block_len |-> 0, strong_len |-> 0, stdin_size |-> -1]

WithFiles ==
    {[Default EXCEPT !.action = a, !.args = args, !.force = f] :
        a \in {"signature", "delta", "patch", "other"}, f \in BOOLEAN,
        args \in UNION {[1 .. n -> Names \cup {"-"}] : n \in 0 .. MaxArgs}}
WithOption ==
    {[Default EXCEPT !.option = o] : o \in {"help", "version", "gzip", "bzip2", "unknown", "verbose"}}
WithSums ==
    {[Default EXCEPT !.hash = h, !.rollsum = r, !.block_len = b, !.strong_len = s] :
        h \in {"none", "blake2", "md4", "unknown"}, r \in {"none", "rabinkarp", "rollsum", "unknown"},
        b \in {0, 1, 1000, 2^20}, s \in {-1, 0, 1, 5, 7, 8, 16, 17, 32, 33}}

File(name, perm, size) ==
    [perm |-> perm, size |-> size, data |-> IF perm = "none" THEN Nothing ELSE Old(name)]
SmallDisks ==
    {[n \in Names |-> File(n, perms[n], 0)] : perms \in [Names -> {"none", "r", "w", "rw"}]}
SizedDisks ==
    {("a" :> File("a", "r", size) @@ "b" :> File("b", "none", 0)) :
        size \in {-1, 1, 255, 256, 65535, 65536, 65537, 66048, 66049, 147455, 147456, 147457,
                  1000000, 2^24 - 1, 2^24, 2^25, 100000000, 2^28 - 1, 2^28, 2^29 - 1}}

MCScenarios ==
    [call : WithFiles \cup WithOption, disk : SmallDisks] \cup [call : WithSums, disk : SizedDisks]

=============================================================================

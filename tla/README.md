# librsync: models, checks and proofs

librsync computes and applies network deltas in the manner of rsync. A
*signature* holds a weak (rolling) and a strong sum for every block of a basis
file. A *delta* describes a new file as literal data and copies from the basis,
and is made from the signature and the new file alone. *Patching* applies the
delta to the basis. Every one of these is a *job*: a state machine that the
application calls again and again with whatever input it has and whatever room
for output there is. Any call may find too little input or too little room in
the middle of a number, a command or a block, and the job must resume as if
nothing had happened. That is where the hard part of this code lies, and what
most of this project is about.

All paths below are relative to the repository; the library is in `src/`.


## 1. Inventory

| Component | State | Operations | Correct if |
|---|---|---|---|
| scoop (`scoop.c`, `scoop.h`) | `scoop_buf`, `scoop_alloc`, `scoop_next`, `scoop_avail`; the caller's `next_in`, `avail_in`, `eof_in` | `rs_scoop_input`, `_readahead`, `_advance`, `_read`, `_read_rest`, `_iterbuf`/`_nextbuf` | the job sees each byte of the stream once and in order, through pointers to contiguous memory, however the input is cut |
| tube (`tube.c`) | `write_buf`/`write_len`, `copy_len` | `rs_tube_write`, `_copy`, `_catchup`, `_is_idle` | what is queued comes out once and in order; never more than 36 bytes are queued; nothing is queued behind a copy |
| job engine (`job.c`) | `statefn`, `final_result` | `rs_job_new`, `rs_job_iter`, `rs_job_work`, `rs_job_complete`, `rs_job_drive` | each call makes progress; a job that is done has an empty tube; a fed job ends |
| patch job (`patch.c`) | `cmd`, `param1`, `param2`, `basis_pos`, `basis_len`, statistics | seven state functions, the copy callback | the output is the new file, the verdict that of the delta; nothing false is written whatever fails |
| delta job (`delta.c`) | `scan_buf`, `scan_len`, `scan_pos`, `basis_pos`, `basis_len`, `weak_sum`, statistics | five state functions; `rs_getinput`, `rs_findmatch`, `rs_appendmatch`, `rs_appendmiss`, `rs_appendflush`, `rs_processmatch`, `rs_processmiss` | the delta decodes to the new file, and does not depend on buffer sizes |
| delta encoding (`emit.c`, `prototab.c`, `command.c`), network integers (`netint.c`) | none | emission, the command table, encoding and decoding of integers | what is emitted decodes to what was meant, in every width |
| signature job (`mksum.c`) | `sig_magic`, `sig_block_len`, `sig_strong_len`, `signature` | two state functions, `rs_sig_do_block` | the file is that of the basis, with the last short block |
| loadsig job (`readsums.c`) | header fields, `weak_sig`, `signature` | five state functions | the blocks in memory are those of the file; bad files are refused |
| signature in memory (`sumset.c`) | parameters, `block_sigs`, `count`, `size`, `hashtable` | `rs_sig_args`, `rs_signature_init`, `_add_block`, `_find_match`, `rs_build_hash_table` | a lookup gives the first block with these sums, or nothing |
| hash table (`hashtable.c`, `hashtable.h`) | `ktable`, `etable`, `kbloom`, `count` | new, add, find, iterate | probing ends; entries are found in spite of collisions and of the Bloom filter |
| rolling sums (`rollsum.*`, `rabinkarp.*`, `checksum.*`) | `count`, `s1`/`s2`, `hash`/`mult` | init, update, rotate, rollin, rollout, digest | the digest is that of the window |
| strong sums (`mdfour.c`, `blake2/`) | `tail`/`buf`, the counters, the chained state | begin/init (with a key), update, result/final | the blocks that are compressed are those of the padded message, however it is cut |
| file buffers (`buf.c`), `rs_job_drive` (`job.c`), whole files (`whole.c`) | `rs_filebuf_t`, `rs_buffers_t` | fill, drain, drive to the end; `rs_sig_file`, `rs_loadsig_file`, `rs_delta_file`, `rs_patch_file` | the jobs are fed until they end; the file written is a prefix of the right one, and all of it on success |
| file utilities (`fileutil.c`), command line tool (`rdiff.c`) | open files, options, result | `rs_file_open`, `rs_file_close`, `rs_file_size`; signature, delta, patch | nothing is overwritten unasked; exit status 0 means a complete output |
| streaming example (`examples/stream/`) | two input buffers, an output buffer, messages on a socket, the client's file | connect, send and receive messages, run four jobs, rename | buffers never overflow, messages stay in step, the client's file is the old or the new one, both programs end |
| messages, statistics, tracing, base64, hex | – | – | (not modelled, section 8) |

*Interaction.* The library has no threads. The actors are the application and
the job, and they take turns: the application hands over an `rs_buffers_t` and
calls `rs_job_iter`; `rs_job_work` alternates between emptying the tube and
calling the current state function; state functions read through the scoop and
write through the tube; the patch job calls back into the application for data
of the basis. Components share the job structure (the tube's copy consumes what
the scoop holds while the delta job keeps a pointer, `scan_buf`, into it). Jobs
interact through files (signature, delta) and through the signature in memory.
The streaming example is two processes that take turns over a socket, each with
such a loop around its jobs; `rdiff` shares the file system with other programs.

*What is hard:* a call that ends in the middle of anything; pointers and sums
kept across such a call; the two places that input can be in (the scoop and the
caller's buffer); short answers and failures of the callback; the progress
check, which makes an error of any call that was given input and room and used
neither; numbers of any width and sign from a file; collisions and limits in the
hash table; messages that come in pieces, peers that go away, and failures of
files at any moment, up to the one when a file is closed. `PROJECT.json` lists the hazards, each at its line.


## 2. Modules

```
ByteStream  <--refined by--  Scoop  <--  MCScoop, StructureProofs
                               :  (its effect, as amounts)
                              Job ----------+--------+---------+
                                            |        |         |
Netint <- Command <- Reference ---------> Patch    Delta       |
Weaksum -----------------------------------------^             |
SigArgs, Netint, Weaksum <- SigFormat -------------> Mksum, Loadsig
                                            |        |         |
Contract <- Transducer <---- refined by ----+--------+---------+
    ^
    +------ Stream                       (drives the jobs by their contract)
Job <- Drive;  Patch, Drive <- PatchFile (refines the caller of Patch)
SigArgs <- Rdiff                         (whole files, by what PatchFile shows)
Weaksum <- Rolling <- DeltaProofs;  Strongsum <- Message;  Rolling, Message <- Checksums
Hashtable <- Sumset <- StructureProofs

Job, Reference, SigFormat <- JobProofs <- PatchFileProofs, DeltaProofs, MksumProofs, LoadsigProofs
Stream <- StreamProofs;  Rdiff <- RdiffProofs
```

* **ByteStream** – what the scoop promises: a stream, a cursor, and reads that
  show exactly the bytes at the cursor. A byte *is* its position in the stream,
  so "the right byte" is an equation.
* **Scoop** – `scoop.c` at the level of memory. `scoop_buf` is a function from
  offsets to bytes; `Room` is the resize-or-move of `rs_scoop_input`, `Take` its
  memcpy; `Readahead`, `Read`, `ReadRest`, `Advance` are the interface, and
  `CopyThrough` is the loop with which the tube copies from the scoop and then
  from the caller's buffer. Pointers are modelled (`ptr`): memory, place, length.
* **Job** – `rs_job_iter`, `rs_job_work`, `rs_job_complete` and the tube, for
  every job. Since Scoop shows that memory behaves as a stream, only amounts are
  kept: how much has been consumed (`cursor`), how much lies in the scoop and
  how much in the caller's buffer; these two are kept apart because the progress
  check sees only the second. `CallIter` is the application (any amount of new
  input, the end of it or not, any room up to `MaxOut`); `Catchup` is the head
  of the loop; `Finish` and `Return` are the ways out of a state function and
  out of `rs_job_iter`. An `assert()` of the code is a conjunct of
  `job.asserts`.
* **Patch**, **Delta**, **Mksum**, **Loadsig** – one action per state function.
  The loops inside `rs_delta_s_scan` and `rs_delta_s_flush` are taken one
  iteration at a time (`pc = "loop"`). The helpers of `delta.c` are operators on
  the record of job, scan and result.
* **Contract** – what `rs_job_iter` may answer. A *promise* says how much output a
  job gives for an input, with which verdict it ends and when; `MayAnswer` says
  which results, amounts and buffers a caller may see. A job may be blocked only
  on something that the caller can supply. If that is input, it has taken what there
  was; the delta job alone may leave some (less than what `rs_getinput` asks for),
  when it scans the caller's buffer directly and "needs more input to proceed without
  copying into internal buffers" (`librsync.h:319-325`).
* **Transducer** – what a job promises: the output grows towards a target and
  the job ends with a verdict, and both are functions of the whole input; each
  answer is one that Contract allows. Each job implements it with its own target:
  the new file (module **Reference**), the delta that a greedy search over the
  whole file gives (`DeltaOf`), the signature file (`SignatureOf`), the blocks of
  a signature file (`BlocksIn`).
* **Stream** – client and server of the streaming example. The four loops have the
  same parts (fill the input buffer from a file or a message, call `rs_job_iter`,
  pass the output on), so the actions take the process as a parameter and the
  function it is in (`proc[p].fn`) says which file, which limit and which job it
  has. The jobs appear as their promises: `Iter` takes any answer that Contract
  allows. This is sound because the runs of the four jobs show that they answer
  so, and it makes the composition small enough to check. The socket holds a
  bounded number of items; a message passes in pieces of any size. A header is one
  item, until one is split between its two bytes (the failure `"split header"`).
  Since `&header + n_bytes` counts in headers, the second byte is then sent from, or
  stored at, the wrong place (`SendHeaderByte`, `SendHeaderRest`, `RecvHeaderByte`,
  `RecvHeaderRest`): what is sent are two stray bytes, and what is read is any length
  of twelve bits with any flag, or the byte overwrites `n_bytes` and another one is
  read, or the process ends. From there on receiver and sender may be out of step:
  headers are read from payloads and payloads from headers (`RecvStray`), and a job
  that is fed with them (`Misled`) may give any answer.
* **Netint**, **Command**, **Reference** – encoding and the meaning of a delta.
* **SigArgs** – `rs_sig_args` for known and unknown sizes of the basis, with the
  integer root and logarithm of `util.c`, and `rs_sig_args_check`.
  **SigFormat** – layout of signatures, shared by writer and reader.
* **Weaksum** – both rolling sums; **Strongsum** – MD4 and BLAKE2b as what they do
  to their buffers: the chained state is the list of blocks that were compressed,
  with counters and mark. **Rolling** drives the former over a window, **Message** the
  latter over a message; **Checksums** puts the two together for one run. They share
  nothing, and a behaviour of it uses one of them at a time.
* **Hashtable** – the table as operators; **Sumset** – its clients: filling a table
  until it refuses, and building, asking and iterating over the index of a
  signature.
* **Drive** – `rs_job_drive` with `buf.c`: filling the input buffer from a file
  and draining the output buffer to one, with the buffers as memory. `Call` of
  module Job is what `rs_job_iter` does with whatever it is given; `Iter` adds
  what a caller must keep to. Drive uses the first, so that keeping to the second
  is something to be shown. **PatchFile** – `rs_patch_file`: the patch job with
  this loop as its caller. The input callback says at the end of the file either
  `RS_DONE` with `eof_in` (`buf.c`) or `RS_INPUT_ENDED` (what `doc/callbacks.md`
  tells applications to do).
* **Rdiff** – the tool, from options to exit status. Testing whether an output
  exists (`FileExists`) and creating it (`rs_file_open`) are separate steps, and
  another program may create a file between them. What the C library still holds
  is separate from what the file holds until `rs_file_close`.

The `map` of `PROJECT.json` gives the lines that each definition models.
Definitions marked "Mutant" are deliberately wrong variants of the definition
that follows them; nothing uses them, and `PROJECT.json` names the property
that rejects each.

### Abstractions

* *Sizes are parameters.* The radix of a network integer (256), the longest
  immediate literal (64), `MAX_DELTA_CMD` (64K), the lengths of strong sums, the
  scoop's allocations (64, 128, …) and the width of hashes are CONSTANTS, so
  that a small instance meets all widths, both forms of a literal, full tubes
  and full tables. Where the code relates sizes the instance keeps the relation:
  the header of a signature and the longest sums of a block fill the tube
  exactly as far as they do in the code (12 ≤ 36 and 4 + 32 = 36 there,
  12 = 4 + 8 = 12 here).
* *Word arithmetic.* The sums are computed modulo a parameter. The instances use
  residues modulo smaller powers of two with the code's own multiplier and
  inverse reduced; residues commute with the ring operations that the sums are
  made of, so these are the low-order bits of the code's hash. Network integers
  keep sign and width: a value of `RS_MAX_INT_BYTES` bytes may be negative.
* *Strong sums* of blocks are a function parameter of SigFormat. In Delta the
  strong sum of a block is the block itself, that is, collisions of a
  cryptographic sum are left out. `mix32` is any function on words. In Strongsum
  a compression is recorded and not computed, so two different sequences of
  blocks are different sums.
* *Files* are contents, permissions and size in Rdiff, amounts and bytes in Drive
  and Stream. A byte of a stream is its position.
* *The copy callback* keeps its contract (`patch.c`, `rs_file_copy_cb`): it
  returns between one byte and what was asked for, `RS_INPUT_ENDED` at the end of
  the basis, or one of the results in `CallbackFaults`.
* *Statistics* are kept as far as a property is about them. Tracing, messages and
  times are left out, and so is allocation failure, on which the code exits.
* *The caller* keeps the contract of `rs_buffers_t`: it adds input behind what is
  left, says `eof_in` only when there is nothing more, does not withdraw it, and
  does not take back room for output.


## 3. Runs

| Run | Module, configuration | Question | Result |
|---|---|---|---|
| scoop | MCScoop, `Scoop.cfg` | Does the scoop keep its data and implement a byte stream? | holds |
| patch | MCPatch, `Patch.cfg` | Does the patch job compute the new file whatever the buffers, and end? | holds |
| patch_blocked | MCPatch, `PatchBlocked.cfg` | Does a blocked callback block the job, as `doc/pull.md` says? | violated |
| patch_file | MCPatchFile, `PatchFile.cfg` | Is a file patched correctly by the drive loop, whatever fails, and is the loop a caller as module Patch assumes? | holds |
| delta | MCDelta, `Delta.cfg` | Does the delta job emit the delta of the file whatever the buffers, and end? | holds |
| mksum | MCMksum, `Mksum.cfg` | Does the signature job write the signature of the basis, and end? | holds |
| loadsig | MCLoadsig, `Loadsig.cfg` | Does the loadsig job load what was written, and refuse the rest? | holds |
| checksums | MCChecksums, `Checksums.cfg` | Are the sums those of the window or message? | holds |
| sumset | Sumset, `Sumset.cfg` | Do probes end, and does the index answer as a linear search would? | holds |
| stream | MCStream, `Stream.cfg` | Do the two programs stay in step, keep their buffers and the file, and end? | holds |
| rdiff | MCRdiff, `Rdiff.cfg` | Does exit status 0 mean a complete output, do files survive, do the parameters stand? | holds |
| rdiff_close | MCRdiff, `RdiffClose.cfg` | Is exit status 0 successful completion, as `doc/rdiff.md` says? | violated |

The longest runs are *stream* and *delta* (one to three minutes); the others take
seconds.

### What the properties say

*Scoop.* `ScoopIntegrity`: the data in the scoop is the part of the stream
before the caller's next byte, through every order of resize, move and append.
`PeekContiguous`: nobody ever steps over a mixture of scooped and caller-owned
bytes, which `rs_scoop_advance` asserts. `ImplementsByteStream`: pointers show,
and copies write, the bytes at the cursor.

*All jobs.* `ImplementsTransducer`: output and verdict do not depend on the
cutting of the input, on the room for output or on the number of calls, and every
answer keeps Contract. That `rs_job_iter` never reports "job made no progress" is
part of it, since no input has `RS_INTERNAL_ERROR` for its verdict.
`AssertionsHold`: no `assert` fails, in particular not the ones about a full or
busy tube and about completing with a non-empty tube. `Terminates`: the job ends.

*Patch.* `StatisticsBalance` accounts for each byte of the delta and of the new
file.

*PatchFile.* `KeepsCallersContract`: every call of the loop is one that module
Patch allows, so that all that is shown there holds for `rs_patch_file`.
`InputBufferIntact`, `OutputBufferIntact`: the buffers hold the right part of the
files through every move, fill and drain. `NewFileCorrect`: whatever read, write
or callback fails, and whatever the input callback says at the end, the file
holds a prefix of the new file, and all of it if `RS_DONE` is returned; if nothing
fails the result is that of the delta. `DriveEnds`: the loop ends, with no
assumption on a caller.

*Delta.* `DeltaDecodesToScanned`, the central invariant: at every moment, what is
written, what is in the tube and the match or miss being collected decode to the
part of the input scanned so far. `WeakSumInSync`: the rolling sum belongs to the
bytes at the scan position, also across blocked calls. `ScanPointerValid`:
`scan_buf` and `scan_len` follow the scoop although the tube moves it.
`StatisticsBalance` counts what was emitted, for slack deltas too.

*Mksum, Loadsig.* `LoadedSignatureFindsBlocks` relates three files of the source:
what mksum writes, what loadsig keeps, and what the delta job computes for the
same block are the same sums, mixed on both sides.

*Sumset.* `ProbesEnd` for every hash (triangular probing reaches the empty bucket
that `hashtable_add` leaves), up to a table that refuses more. `MatchIsFirstBlock`:
a lookup gives the answer of a linear search, in spite of the Bloom filter and
with the weak sums 0 and the largest word, which the table does not tell apart.
`EntriesDistinct`: a loop over the entries visits none twice and ends with the first
block of each pair of sums; it follows that no block is refused (the code ignores
the result of `hashtable_add`).

*Rolling.* `DigestOfWindow` (with the count and the cached power): each operation
is right only if all the earlier ones were.

*Message.* `MessageIntact`: compressed blocks and
buffer are the message so far, and BLAKE2b holds back its last block.
`StrongDigest`: what was compressed in the end is the message padded, counted and
marked as RFC 1320 and RFC 7693 say, the same for all ways to cut it.

*Stream.* `BuffersIntact`: `in_buf` never overflows, not even with the wrong lengths
that are read after a split header; as long as no header was split it holds the next
bytes of its stream, through moves and partial messages. `MessagesInStep`: as long as
no header was split, both sides agree on where messages begin and end, and no job
leaves bytes for the next one. `FileOldOrComplete`: wherever the client stops, its
file is the old one or the whole new one. It excepts two failures that the client
does not look for, and a split header. The conditions are needed: TLC finds each of
the three violated without it, see section 4. `Succeeds`: if nothing fails both exit with success, that is, neither
a lost last message nor a full socket leaves one waiting for the other.

*Rdiff.* `ExitZeroMeansComplete`: whichever of opening, loading, indexing, reading
and writing fails, an exit status of 0 means that the output for the inputs as
they were is there. It excepts output lost while closing (the run *rdiff_close*),
and the invocations the documentation warns of (`Separate`): the output is one of
the inputs, or both inputs are standard input. `NoClobber`: without `--force` no
step changes a file that was there and can be read. `SigArgsStand`: parameters
chosen for a known size are the ones that the job accepts when it settles them
again without the size; the block length is the root, the shortest strong sum
long enough for the number of comparisons.

### Bounds and why they are enough

* *scoop:* a stream of 6 bytes, requests of 0 to 6, allocations 2, 4, 8: two
  reallocations and several moves happen, with and without data in the scoop.
  The proofs of section 5 remove the bound.
* *patch:* all deltas of two commands from three literals (immediate and two
  widths) and three copies (two widths, and one past the end of the basis), each
  refused command after a good one, every prefix of a delta, a bad magic number,
  bytes after END. Nothing is kept from one command to the next but the
  statistics, so two commands show what a change of command can do. `MaxOut = 2`
  is smaller than a command and than a literal, so both are interrupted
  everywhere.
* *patch_file:* input buffers of 1, 3 and 20 bytes (never moved; moved; larger than
  the delta) and output buffers of 1 and 4; six deltas that end in each possible
  way. Reads, writes and the callback may fail after any number of bytes.
* *delta:* blocks of 2 bytes, `MAX_DELTA_CMD = 5` (literals of up to 2 bytes), so
  that `rs_getinput` wants 7 bytes and the inputs of 8 bytes are scanned before
  their end is known. `MaxOut = 3` is one more than a command that such an input may
  need, so that the job scans a buffer, emits, and waits with input left there.
  Inputs with an extended match, two equal blocks, a run of
  misses longer than a literal, a short last block that matches and one that
  does not, the empty file; both weak sums; no basis (slack delta).
* *mksum, loadsig:* no, one, a short and two blocks; all four magic numbers;
  each default; arguments and headers that are refused; every prefix of a file;
  expected sizes that are unknown, too small and right.
* *checksums:* windows of up to 4 bytes over {0, 1, 128, 255} and every sequence of
  operations: the state is a function of the window, so sequences need no bound.
  Messages of up to 36 bytes in blocks of 4, in pieces of every length, keys of 0,
  1 and 4 bytes (a whole block): the bit count of MD4 runs over at 32 bytes and the
  counter of BLAKE2b at 16, as they do in the code at 2^61 and 2^64.
* *sumset:* tables of 2 to 8 buckets filled until they refuse, up to 7 entries with
  only two hashes and two strong sums, so that collisions and equal entries
  abound; an index of up to 4 blocks over five weak sums.
* *stream:* payloads of 2 bytes, so `in_buf` has 4; a socket that holds 2 items,
  less than a whole message; four tasks with files and messages shorter and longer
  than the buffers, among them an empty basis, a missing one and an empty new file;
  any one of eleven failures at any point. A fifth task, of short files, has headers
  split any number of times on either side: after that nearly anything may happen, so
  that most of the run's states are its. A job that was misled puts out no more
  than the length that its output should have; without that bound it could go on for
  ever. With sig, delta and new all of length 5 the result is the same; it takes four
  minutes and is not among the runs.
* *rdiff:* two files (absent, read-only, write-only, both) and the standard streams,
  all sequences of up to 4 arguments, which is one too many; for the parameters 20
  sizes around the powers and roots where formulas change, up to 2^29 - 1, which
  is what the checker's integers allow, with 4 block and 10 strong lengths.

Deadlock is checked in every run. A completed job or program takes a stuttering
step, so that one that could take no step before completion would be reported.

### Fairness

`CodeRuns` says that the code runs once it has been called: a step of the code
is possible exactly when control is not with the caller, so this is weak
fairness of `Step`, written without ENABLED. `SF_vars(Caller(Feed))` says that
the application keeps calling, again and again with new input (or, at the end
of it, with `eof_in`) *and* room for output. `rs_job_drive` with the callbacks
of `buf.c` does this; the run *patch_file* shows it without any assumption but
that the thread runs (weak fairness of `FileStep`). The strong form is needed because the application may make
useless calls in between. Nothing else is fair; in particular calls without
input, without room, or with one byte of either may come any number of times.
In Stream each process takes every step it can take without a failure
(`WF_vars(Step(p) /\ UNCHANGED faults)`): failures are never forced, so a process
that waits for ever is not relieved by one. A split header counts as a failure, and
after it the processes may wait for each other (`Stopped`).
A comment at `tube.c:49` wonders whether copying can lock up if the application
never offers both; with a caller that eventually does, `Terminates` shows that
it does not.


## 4. Findings

1. *A blocked callback* (`patch_blocked`). `doc/pull.md:26`: "If the callback
   returns RS_BLOCKED, then rs_job_iter() will also return RS_BLOCKED shortly."
   `rs_patch_s_copying` passes the result on, but if the call has consumed and
   produced nothing although there was input (the next command, say) and room,
   `rs_job_iter` returns `RS_INTERNAL_ERROR`.
2. *Exit status 0* (`rdiff_close`). `doc/rdiff.md:139`: "0: Successful completion."
   The tool ignores the result of `rs_file_close` and does not flush standard
   output, so the end of the output can be lost with exit status 0.

Noticed on the way, without a run of their own:

* `doc/buffer_internals.md:27` says that the data is always at the start of the
  scoop; since `rs_scoop_advance` moves `scoop_next` it is not. The code is
  consistent.
* `doc/callbacks.md:54` tells input callbacks to return `RS_INPUT_ENDED` at the end
  of the file. `rs_job_drive` (`job.c:149`) returns that at once, with the job
  unfinished and no output drained. PatchFile models it; `NewFileCorrect` holds
  because the result is not `RS_DONE`.
* `doc/rdiff.md` documents the exit codes 0 to 3, while `main` returns the
  `rs_result`, most of which are 100 and above.
* `sumset.c:157` speaks of at least 32 bits extra for the strong sum; since the two
  logarithms are rounded down it can be two fewer, and `SigArgsStand` states what
  holds.
* The client of the streaming example takes a short `fwrite` for a whole one
  (`client.c:267`) and ignores the result of `fclose` (`client.c:280`) before it
  renames the file; both are faults of the model, excepted in `FileOldOrComplete`.
* `read` returns 0 when the peer has gone, and `recv_message` (`common.h:123`) asks
  again without end (`RecvNothing`).
* `&header + n_bytes` (`common.h:74`, `:113`) counts in headers, which is wrong if only
  one of the two bytes is transferred. The loops are there for this case, and it puts
  the two programs out of step: without the condition that no header was split
  `MessagesInStep`, `FileOldOrComplete` (a stray zero byte is `RS_OP_END`) and the
  part of `BuffersIntact` about contents are violated. A socket hardly ever splits two
  bytes, unless its buffer is full to the last but one. What holds even then is that
  nothing is written behind `in_buf`.
* `rdiff --force` empties an output that is also an input before reading it; with
  `-` as the only argument of delta or patch both inputs come from one stream.
* `rs_file_open` tests for an existing file by trying to read it: a file that may
  only be written is emptied without `--force`, and so is one that another program
  creates between the test and the creation.
* The comment at `rabinkarp.c:37` gives entry i of the table of powers as
  MULT^(2^(i+1)), while the entries, and `rabinkarp_pow`, are MULT^(2^i).
* A signature file that ends with one to three stray bytes is accepted by loadsig
  (`FileVerdict` states it); a longer rest is refused.
* A copy callback that returns `RS_DONE` with a length of zero is called again
  without end (`patch.c:180`). Its contract excludes it, and `rs_file_copy_cb` does
  not do it.


## 5. Proofs

Eight modules hold the proofs. Each theorem is about the specification of its
component and holds for all values of the constants that satisfy the assumptions
below: all files, all sizes of buffers, all ways to cut input and output, and
(Stream) any number of failures.

| Module | Theorem | States |
|---|---|---|
| StructureProofs | `TypeCorrect` | `Spec => []TypeOK` |
| | `ScoopIntact` | `Spec => []ScoopIntegrity` |
| | `NeverAMixture` | `Spec => []PeekContiguous` |
| | `Refinement` | `Spec => ImplementsByteStream` |
| | `IndexProbesEnd` | `SumsetSpec => []ProbesEnd` |
| | `IndexFindsFirst` | `SumsetSpec => []MatchIsFirstBlock` |
| | `IndexComplete` | `SumsetSpec => []EntriesDistinct` |
| PatchFileProofs | `PatchAssertions` | `Spec => []AssertionsHold` |
| | `PatchStatistics` | `Spec => []StatisticsBalance` |
| | `PatchRefinement` | `Spec => ImplementsTransducer`, if `CallbackFaults = {}` |
| | `FileRefinement` | `FileSpec => KeepsCallersContract` |
| | `FileJob` | `FileSpec => [](AssertionsHold /\ StatisticsBalance)` |
| | `FileInput` | `FileSpec => []InputBufferIntact` |
| | `FileOutput` | `FileSpec => []OutputBufferIntact` |
| | `FileCorrect` | `FileSpec => []NewFileCorrect`, if `"RS_BLOCKED" \notin CallbackFaults` |
| DeltaProofs | `DeltaAssertions` | `Spec => []AssertionsHold` |
| | `DeltaPointer` | `Spec => []ScanPointerValid` |
| | `DeltaDecodes` | `Spec => []DeltaDecodesToScanned` |
| | `DeltaWeakSum` | `Spec => []WeakSumInSync` |
| | `RollingDigest` | `RollingSpec => []DigestOfWindow` |
| | `DeltaStatistics` | `Spec => []StatisticsBalance` |
| MksumProofs | `MksumAssertions` | `Spec => []AssertionsHold` |
| | `MksumRefinement` | `Spec => ImplementsTransducer` |
| LoadsigProofs | `LoadsigAssertions` | `Spec => []AssertionsHold` |
| | `LoadsigRefinement` | `Spec => ImplementsTransducer` |
| | `LoadsigFindsBlocks` | `Spec => []LoadedSignatureFindsBlocks` |
| StreamProofs | `StreamFile` | `Spec => []FileOldOrComplete` |
| | `StreamBuffers` | `Spec => []BuffersIntact` |
| | `StreamMessages` | `Spec => []MessagesInStep` |
| RdiffProofs | `RdiffNoClobber` | `Spec => NoClobber` |
| | `RdiffExitZero` | `Spec => []ExitZeroMeansComplete` |

JobProofs has lemmas only, for the four modules that extend it. None of the
invariants is inductive as it stands. Each strengthening below was checked with TLC,
as an invariant of the component's run, before it was proved.

### Assumptions

Each is an ASSUME of the module that declares the constants, evaluated by TLC in
every run of that module, and holds of the code's own values.

* `SizesAssumption` (Scoop): each request has a least allocation size that is large
  enough. In the code the sizes are 64·2^k, and the doubling loop stops at the least
  one that fits.
* `HashAssumption`, `SumsetAssumption`: a hash has at least one bit, sums are words, and
  no table is asked for that has more buckets than there are hashes: sizes are `int`,
  hashes `unsigned`. `HashPowers`: as `NetintPowers` below, for the powers of two.
* `NetintAssumption`, `CommandAssumption`: the radix is even and at least 2, its powers
  are numbers, the magic number is a positive `int` of four digits, and there is an
  immediate literal. `NetintPowers`, `CommandPowers`: the powers that are used obey
  their recursion. That is arithmetic and no restriction, but exponentiation is opaque
  to the prover.
* `SizeAssumption` (Delta): a file's size is an `rs_long_t`, and the new file, which the
  application may hand over in one buffer, fits a `size_t`.
* `JobAssumption`: sizes are numbers. `DeltaAssumption`: `TubeSize >= 17`, so the
  longest command (one byte and two of eight bytes) fits, and `MAX_DELTA_CMD > 3`; in
  the code 36 and 65536; `BlockLen` is below 2^32, since a signature has four bytes for
  it (`rabinkarp_pow` has a table for 32 bits). `MksumAssumption`: the header (12) and the longest sums of a
  block (4 + 32) fit; each piece of a basis has strong sums, made of bytes (`Summable`);
  `strong_len >= -1`, since -1 is the only negative value that has a meaning (`ArgsOK`).
* `SigArgsAssumption`: defaults and sums are related as in the code
  (8 ≤ 16 ≤ 32, and so on). `WeaksumAssumption`: moduli are positive, and the inverse
  multiplier is one. `RollingAssumption`: the length of a window fits 32 bits, as the
  argument of `rabinkarp_pow` does. `LoadsigAssumption`: weak sums fit into four bytes, and the
  parameters of a signature that is made (magic number, block length, length of the
  strong sum) into an `int`; the code would cut a longer block off in the header, and
  refuse to load it. `PatchAssumption`, `DriveAssumption`: files are sequences of
  numbers, buffers are not empty, and a callback's failure is not `RS_DONE`.
* `RdiffAssumption`: `-` and the standard streams are not names of files.
  `StreamAssumption`: sizes are numbers, signature and delta are not empty; which of the
  failures may happen, a split header among them, is left open.

### Arguments

*Scoop.* `ScoopIntegrity` says that a byte in the scoop is the right one, but a later
`Advance` must know that the bytes it steps over are at the front of whichever memory
they were seen in. The strengthening (`IInv` of module Scoop; `Inv` of StructureProofs)
adds `StreamBound` (nothing is handed over beyond the end of the stream) and
`PointerAtFront` (the bytes still to be consumed are behind the pointer, at
`scoop_next` if the scoop holds data and at `next_in` otherwise). The operations are
functions of the scoop record, so the lemmas are about the record: `RoomOK`, `TakeOK`,
`AdvanceOK`, `ReadaheadOK`, `PointerShows`. Each action then has a lemma which shows at
once that the invariant is kept and that the step is one of ByteStream's.

*The index* (StructureProofs). A well-formed table (`TableOK`) has a power of two of
buckets, counts its entries, leaves one bucket empty, has the hash of each entry in
its filter, and every entry stands where a probe for its hash comes by before it
meets an empty bucket and after the earlier entries with this hash (`Placed`). That
is what makes a lookup right, and adding keeps it because only an empty bucket
changes, which no path goes through. Probes end because they come by every bucket
(`EveryBucketProbed`): if the steps r < s < 2^b came to the same bucket, then 2^(b+1)
would divide (s - r)(s + r + 1), of whose factors one is odd (`OddFactor`) and the
other too small (`ProbesDistinct`); so the steps are injective, and an injection of a
finite set into itself is onto. `IndexInv` adds which blocks are in the table, that
the table of a signature is larger than the number of its blocks, and that the loop
has gone over the buckets before its index.

*The engine* (JobProofs). `Work(j, k)` says what may happen inside `rs_job_iter`: input
is taken in order, output is appended and uses up room, nothing else changes. Each
operation of scoop and tube does work and has a lemma that says how much
(`ReadFacts`, `AdvanceFacts`, `CatchupFacts` and so on), and work adds up
(`WorkAddsUp`); so does each state function.

*Recursive functions.* The library's induction theorems take an operator as their
parameter and cannot be used here. JobProofs goes round this with sets: a non-empty
set of numbers has a least element (`LeastNumber`), a set that has 0 and with each
number the next has all (`CountUp`), and a recursive function on an interval exists
(`RecursionExists`) and so obeys its equation. (StreamProofs does not use the engine and
proves the first two for itself.) With that, `SignatureOf` and the sums of
a block are unfolded for files of any length.

*Patch.* `Account` relates, for each state function, the cursor and the length of the
output to what has been counted, to the command whose parameters are being read and to
the literal or copy that is still to come; `TubeFree` says that the tube is empty when
a state function runs, `ResultLast` that a result leaves control with the caller.

For the refinement the job is related to what the delta means. `Commands(delta,
basis)[p]` is what the delta means from position `p` on: output and verdict. The
invariant `Meant` says that what has been put out, followed by what is still to come -
the rest of the literal or copy in hand, or the command whose parameters are being
read, and then what the delta means from there on - is the meaning of the delta as a
whole (`Preceded`, `MeansEnd`). It needs to know that the end of input is the end of
the delta (`EofIsTrue`), that a state function that was blocked resumes with the same
bytes in the scoop (`ScoopUse`, `Resumes`), and what each result says (`Says`). The
hypothesis on the callback is needed: a callback's error is not the delta's verdict,
and after `RS_BLOCKED`, which `rs_job_iter` takes for a lack of buffers, the run
PatchBlocked shows what happens.

*PatchFile.* `DriveInv` relates the buffers of `buf.c` to the job at each point of the
loop, with what the job has taken and added in the current call (`InputGiven`,
`OutputGiven`). From it, each call of the loop is one that module Patch allows
(`DriveNext`); that is the refinement, and it carries Patch's theorems over. For
`NewFileCorrect`, `FileSays` adds what the loop returns: the job's result unless a file
failed, and that what reached the file is a beginning of what the job has put out.

*Delta.* Each helper of `delta.c` keeps a balance, also when it is blocked half-way and
when it has emitted only a part: what the scan has collected, and the block that the
weak sum stands for, lies in front of the cursor, in the data that the scoop and the
caller's buffer hold, and what was counted plus what is collected is what was scanned.
There is one lemma per helper (`GetinputFacts`, `FindmatchFacts`, `AppendmatchFacts`,
`AppendmissFacts`, `AppendflushFacts`, `ProcessmatchFacts`, `ProcessmissFacts`) and one
per state function, with the loops taken an iteration at a time. A helper consults the
sums only for their `count`; whether they are right is not part of it.

`DeltaDecodesToScanned` compares two programs: the encoder, and the parser that
`Commands` states from the side of `patch.c`. `Decodes(C, done)` says of a string of
commands that whatever follows it, it means `done` followed by what follows means.
That is what the empty string and the header have, what each command adds to
(`DecodesLiteral`, `DecodesCopy`), and what a truncation or the end command turns into
the meaning of the delta as a whole (`DecodesStop`). Below it is the encoding: a number
of a width is read back as it was written (`NetintBack`, `NetintKept`), and the opcode
that the encoder picks has these widths in the table of the decoder. `TellInv` then says
that everything written and queued decodes to the part of the new file that was scanned
before the literal or copy in hand (`Told`), for each state function (`Speaks`). Each
helper keeps it or adds its command (`AppendmissTells`, `AppendmatchTells`,
`AppendflushTells`), and each action is a lemma (`TellHeader`, `TellScan`, `TellFlush`,
`TellEnd`, `TellSlack`). A copy is right because a match has the bytes of the window;
this is the assumption that strong sums do not collide, as in section 2.

For `WeakSumInSync` a rotated sum is compared with one that is computed afresh. Both are
residues of sums over a window, so the lemmas are about numbers that are `Alike` modulo
the width of a word. `rabinkarp_pow` and its table give powers of the multiplier
(`TableFacts`, `PowRight`), and the partial sums of a window and of the one a byte
behind it differ by the byte that leaves, weighted (`RollsumShift`, `RabinKarpShift`).
That gives `weaksum_rotate` and `weaksum_rollout` for windows of any length
(`WeaksumRolls`); that the inverse multiplier is one is what a rollout of RabinKarp
needs. `SumInv` says that the sum is that of the window behind what has been scanned,
and that `rs_delta_s_scan` has a full window or none: to rotate a shorter one would give
the sum of a window that ends elsewhere.

`DigestOfWindow` compares the sums with their definitions instead: sums of weighted
bytes over the whole window, and powers of the multiplier (`Defined`). `RollingInv`
says that the sum has exactly these fields, the two halves of a rollsum among them,
from which the digest is made. A byte more adds to the first sum, and the new
first sum to the second; it multiplies the hash (`RollsumGrows`, `HashGrows`). That is
what a rollin does (`RolledIn`), and an update once the offsets it adds last,
31·n and 31·n(n+1)/2, are counted in at each byte (`RollsumUpdated`,
`RabinKarpUpdated`, where two powers must make the power of the sum of two lengths). An
update of nothing then shows that a sum computed afresh is the one defined
(`SumOfDefined`), and so `WeaksumRolls` gives rotate and rollout. With `DeltaWeakSum` it
follows that the delta job always looks up the checksum, by its definition, of the
bytes that come next.

*Mksum.* What has been put out and what waits in the tube are together the signature
file up to the blocks counted in `sig_blocks`, and that many blocks of the basis have
been read. For the refinement the output must be a beginning of `SignatureOf`
(`PartsGrow`), and every answer of the four kinds that `Answered` allows is one of
Contract's (`MksumPromise`).

*Loadsig.* The state function and `sig_blocks` determine the position in the file, and
what has been read is what stands before it; so header and blocks are those of the
whole file, and the verdict, for any bytes at all, is `FileVerdict`.

`LoadedSignatureFindsBlocks` then needs no more of the job than that it has loaded the
whole file (`Answered`) with the block length of its header (`ParamsIn`); the rest is
about the two formats. After k blocks a signature file has `12 + k * (4 + strong_len)`
bytes (`PartsLength`), so that header fields and sums stand where the reader looks for
them (`SignaturePieces`); a number written in four bytes is read back (`FourBytesBack`);
the parameters that `rs_sig_args` has settled, given to it again by the reader, are
accepted as they are (`ParamsStand`). So the file means what it was made of
(`SignatureMeans`), and the digest that the delta job looks up is the weak sum written
for the block, mixed if the loaded one is (`DigestIsMixed`).

*Stream.* `StreamInv` follows the client from opening the new file to renaming it: file
and output buffer are together what the job has put out (`Patched`), the job is done at
the end of the loop, and the file is replaced last (`Replaced`). Steps of the server,
and of the client in its other functions, are shown to leave all of that alone
(`HarmlessStep`). A short `fwrite`, a failing `fclose` and a split header break the
equation; they are the exceptions of the property.

For buffers and messages, `BufferInv` has two kinds of parts. `Local` is what a process
knows by itself: what is in `in_buf` and in the output buffer, and what its job has
taken and put out, at each place of its loop. `Link` relates the two through what is on
the wire: three functions say for each item how many bytes came before it, how many are
missing in the message and whether that message was the last (`Trace`). They begin with
what the receiver has (`GotBy`, `MissingBy`, `EndedBy`) and end with what the sender has
sent (`SentBy`, `OwedBy`, `SentEof`). To receive is to drop items from the front of a
trace (`TraceFront`), to send is to add some at its back (`TraceBack`); while bytes of a
message are missing what comes next is bytes, in order (`TraceRun`), and after the last
header no other comes (`TraceEnds`). The other steps do not touch a trace (`QuietStep`).
A job that has succeeded has read everything that will be sent (`NothingLeft`), so the
next one on that wire begins at a header.

Both invariants hold until a header is split. Failures are not taken back
(`FaultsStay`), so what is shown by induction is `~Split => BufferInv`: as long as there
was none, the steps of a split header do not happen (`SplitSteps`), nothing stray is on
the wire (`NoStray`) and no job is misled (`NotMisled`). That `in_buf` does not overflow
is shown without the condition, from an invariant of its own, `RoomInv`. It knows nothing
of contents: every length on the wire or read from it is at most `BUFFER_SIZE`, what is
in `in_buf` ends inside it, and while a message is received it begins at the front and
leaves room for the longest (`Roomy`).

*Rdiff.* Between the test for an output and its creation another program may act
(`FOpenSafe`); the output is written several steps after it was opened (`OutputOurs`).
For the exit status, what was read when a file was opened must still be there when the
job reads it (`InputsStand`), and `RS_DONE` must follow the output from the job through
the C library to the file (`DoneMeans`).

### Only model-checked

* *Liveness* (`Terminates`, `DriveEnds`, `Succeeds`): fairness is beyond the prover.
* *The delta that is written*: `ImplementsTransducer` of Delta (the delta, byte for
  byte, does not depend on how the input was cut) compares the scan with the recursive
  `DeltaOf`. What the delta means does not depend on it and is proved.
* *SigArgs* (`SigArgsStand`): integer roots and logarithms, found by loops.
* *Message* (`MessageIntact`, `StrongDigest`): strong sums are compared with the
  standards on the messages of the run only. The jobs take from them no more than that
  they are determined by the block and have the right length.


## 6. How to run

In this directory, with the community modules on the library path:

    tlc -config Patch.cfg MCPatch
    tlapm DeltaProofs.tla


## 7. Plan

Done: Scoop with its abstraction and proofs; Job with Contract and Transducer;
Patch, Delta, Mksum, Loadsig; SigArgs and SigFormat; Weaksum and Rolling, Strongsum and
Message, with Checksums; Hashtable and Sumset; Drive and PatchFile; Stream; Rdiff.
Proved: section 5.

Next are `MessageIntact` and `StrongDigest` of Message, from lemmas about cutting and
joining sequences.


## 8. Not modelled

* What the compression functions of MD4 and BLAKE2b compute: bit-exactness is the
  business of test vectors; the jobs rely on determinism and length only.
* Option parsing (popt), the wording of usage and errors, `isprefix.c` beyond "an
  action is given by a prefix of its name".
* Messages, statistics output, tracing, `rs_signature_log_stats`,
  `rs_sumset_dump`, base64 and hex: no effect on the jobs. Allocation wrappers
  exit on failure.
* `int` overflow at sizes of 2^31 (slack deltas at `delta.c:373`, table sizes at
  `hashtable.c:42`, buffer sizes at `whole.c:117`): listed as a hazard, out of reach
  of the checker's integers. For the same reason the casts to `int` of `block_len`,
  `strong_len` (`mksum.c:119-120`, `sumset.c:194`) and of the size hint
  (`sumset.c:200`) are identities: blocks and sizes below 2^31 are assumed.
* A negative `-b` of rdiff, which becomes a huge `size_t` (`rdiff.c:345`, `:223`).
* The error returns of `blake2b_init` and `blake2b_init_key` for lengths that no caller in
  the library passes. The table and the unrolled loops of `rabinkarp.c` are computed as
  powers and sums, not transcribed.
* The contents of the streaming example's messages after a split header: bytes are then
  unknown, and the high byte of a header that arrives is not kept either, which allows
  more than the code does.
* `rs_sig_file`, `rs_loadsig_file` and `rs_delta_file` have no composition with their
  job of their own: `rs_whole_run` is the same loop for all, PatchFile shows what
  it does with its callbacks and buffers, and Rdiff has their arguments and
  results.
* Fuzzing harnesses, benchmarks and test drivers.

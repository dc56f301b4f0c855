# bzip3-go: specification, model checking and proofs

bzip3-go is a pure Go port of the bzip3 compressor: a library (`bzip3.go`,
`frame.go`, `reader.go`, `writer.go`), the stages of its block codec
(`internal/rle`, `internal/lzp`, `internal/bwt`, `internal/sais`, `internal/cm`,
`internal/crc`) and a command (`cmd/bzip3`) that can compress and decompress with
several goroutines. This directory holds TLA+ modules translated from that code,
TLC configurations that check them, and proofs checked by TLAPS. All paths below
are relative to the repository (`src/` in `PROJECT.json`).

- [1. The system](#1-the-system)
- [2. Modules](#2-modules)
- [3. Runs](#3-runs)
- [4. Fairness](#4-fairness)
- [5. Proofs](#5-proofs)
- [6. Findings and remarks](#6-findings-and-remarks)
- [7. What is not modelled](#7-what-is-not-modelled)
- [8. What comes next](#8-what-comes-next)

## 1. The system

### Components, their state and their operations

| Component | State | Operations |
|---|---|---|
| streaming `Writer` (`writer.go`) | block buffer `buf`, bytes in it `n`, `wroteHdr`, `blockCount`, sticky error `err` | `Write`, `Close`, inside them `writeHeader`, `flushBlock` |
| streaming `Reader` (`reader.go`) | `buf`, `out` (a slice of `buf`), `readHdr`, the codec `state` made from the header, sticky error `err` | `Read`, inside it `readHeader`, `nextBlock` |
| parallel compression (`main.go`, `compressParallel`) | one buffer, one codec state and two sizes per slot; main goroutine, one goroutine per block of a round, a `WaitGroup` | rounds of: read up to *j* blocks, encode them concurrently, write them in order |
| parallel decompression (`main.go`, `decompressParallel`) | as above, and an error per slot | rounds of: read, decode concurrently, write up to the first block that failed |
| frame format (`frame.go`) | none between calls | `Compress`, `Decompress` (a pre-scan of all headers, then a decoding loop that trusts it) |
| block codec (`bzip3.go`, `State`) | `blockSize`, swap buffer, the stages' tables | `EncodeBlock`, `DecodeBlock`, both in place in the caller's buffer |
| run-length stage (`internal/rle`) | none between calls | `Encode` (two passes), `Decode` |
| LZP stage (`internal/lzp`) | hash table, cleared by each call | `Compress`, `Decompress` |
| arithmetic coder (`internal/cm`) | three tables of counters, reset by `Begin` | `Encode`, `Decode` |
| Burrows-Wheeler transform (`internal/bwt`) | the index `fastbits` of an `Unbwt`, never cleared | `Encode`, `Unbwt.Decode` |
| suffix sorting (`internal/sais`) | one array, shared by all levels of the recursion | `ComputeSA`, inside it both `computeSA` functions |
| checksum (`internal/crc`) | a constant table | `CRC32C` |
| command line (`main.go`) | the directory, between runs; the flags and two open files of one run | `main`, `resolveFiles`, `compress`, `decompress` |

### How they interact

The `Writer` cuts what it is given into blocks, calls `State.EncodeBlock` for
each and writes a stream header, then for each block a header with the
compressed and the original size, then the compressed block, to an underlying
`io.Writer`. The `Reader` does the reverse. `compressParallel` and
`decompressParallel` read and write *the same stream*, block-parallel. `Compress`
and `Decompress` use a frame of their own, with a block count, held in memory.
`EncodeBlock` sends the block through run-length encoding, LZP, the
Burrows-Wheeler transform and the arithmetic coder, from the caller's buffer to
the swap buffer and back; the first two stages are kept only if they pay.

Nothing is shared between goroutines but the block buffers and the result slots
of the parallel paths, which are handed over by starting a goroutine and by the
`WaitGroup`. There are no timeouts and no retries. Failure comes from the
underlying readers and writers, which may fail part-way, from the program
stopping in the middle of a stream (the stream has no trailer), and from input
that no bzip3 encoder wrote.

### What makes each part correct

| Part | Hard behaviour | Properties |
|---|---|---|
| Writer | any division into calls; errors part-way through a segment; `Close` at any time | what reaches the sink is always a beginning of the prescribed stream; `Close` returning nil means all of it; silence after an error; every call returns |
| Reader | truncated, corrupt and foreign files; empty blocks; `out` aliasing `buf` | bytes returned are those of the good blocks in order; the error is the one the first fault calls for, after everything before it; a verdict is reached |
| parallel compression | orders of goroutines; rounds that end on a boundary; reused buffers | same stream as the Writer; buffers have one owner; nil only when complete; termination |
| parallel decompression | the same, and slots left over from an earlier round; a fault inside a round | blocks in order; never a leftover block; bounded loss at a fault; termination |
| Writer and any decoder | a program that stops; a file cut anywhere | counted blocks come back; a loss is silent only between blocks |
| frame | limits of sizes and counts; a second loop that checks nothing | no slice out of range; round trip; what is accepted after damage is the source |
| block codec | two buffers changing roles; header fields of any value | round trip for every combination of stages; no slice out of range; never wrong data |
| run-length, LZP | lengths at byte boundaries, wrap of `int32`, self-overlap, cut-off codes | round trip; no write beyond the output |
| transform and suffix sorting | four ways to place tables in the array, two to sort substrings, the recursion in the same array; the odd byte of the inverse, any index, leftovers in `fastbits` | suffixes sorted; tables and texts of callers intact; inversion; lookups in range |
| command line | two runs in a row, each failing or killed at any step; output that is input, archive or leftover; `-rm`, `-f` | the data survive; exit 0 means done; other files untouched; leftovers never pass for wrong data |
| arithmetic coder | encoder and decoder in lock step; the interval's ends | round trip; nothing read beyond what was written; interval and counters consistent |

`PROJECT.json` lists the hazards one by one with their source lines.

## 2. Modules

`Byte`, `BlockSize`, limits, widths of integers and so on are CONSTANTS
everywhere: TLC gets small values, the proofs get all of them. A variable or
action has the name of the code's variable or of the step it models, and
`PROJECT.json` maps every definition to its lines.

| Module | Models | Instance |
|---|---|---|
| `Bzip3Format` | the stream: segments, block headers, the bound, what a block may decode to, the stream prescribed for some data | |
| `FileContents` | what a file of any origin holds: its good blocks, and whether there is a fault | |
| `EncodedStream` | abstract specification of any stream encoder | |
| `DecodedStream` | abstract specification of any stream decoder, over `FileContents` | |
| `StreamWriter` | `writer.go`; implements `EncodedStream` | `MCStreamWriter` |
| `StreamRecovery` | what any decoder makes of what a stopped Writer leaves behind; `StreamWriter` with `FileContents` | `MCStreamWriter` |
| `CompressParallel` | `compressParallel`; implements `EncodedStream` | `MCCompressParallel` |
| `StreamReader` | `reader.go`; implements `DecodedStream` | `MCStreamReader` |
| `DecompressParallel` | `decompressParallel`; implements `DecodedStream` | `MCDecompressParallel` |
| `CommandLine` | `main`, `resolveFiles` and their files, over an abstract encoder and decoder | `MCCommandLine` |
| `Frame` | `frame.go`, with damage in between | `MCFrame` |
| `BlockCodec` | `EncodeBlock`, `DecodeBlock` | `MCBlockCodec` |
| `StageBytes` | bytes and `int32` lengths, for the next two | |
| `RunLength` | `internal/rle` | `MCRunLength` |
| `Lzp` | `internal/lzp` | `MCLzp` |
| `Sais` | `internal/sais` | |
| `Bwt` | `internal/bwt`, extending `Sais` | `MCBwt` |
| `ArithCoder` | `internal/cm` | `MCArithCoder` |
| `MCFiles` | the files both decoders are checked on | |
| `Bzip3FormatTheorems` | lemmas about the format and the contents of files | |
| `StreamWriterProofs` | proofs about `StreamWriter`, `StreamRecovery` and `CommandLine` | |
| `RunLengthProofs` | proofs about `RunLength` and `Lzp` | |
| `BlockCodecProofs` | proofs about `BlockCodec` and `Frame` | |
| `CompressParallelProofs`, `StreamReaderProofs`, `DecompressParallelProofs`, `ArithCoderBwtProofs` | proofs about the modules each is named for | |

**Files.** A file is a sequence of segments, and a segment is what the code
writes with one `Write` and reads with one `io.ReadFull`: the stream header, a
block header, a compressed block. A segment of which only some bytes are there is
`Part`. A compressed block is the data it encodes with a tag; `EncodeBlock` is a
size function (`EncSize`), and `DecodeBlock` may answer whatever `DecodeResults`
allows: a stored block told a wrong size decodes to its own size, which is why the
callers check it. `BlockCodec` justifies that abstraction one level down.

**Writer, Reader.** One step is one underlying read or write, or one turn of the
loop around them, so a failure or the end of the program can come between any
two. `Call...` begins a call with its check of the sticky error; `pc` says where
the call is, and `idle` is between calls. `w.err` is `err` with the values nil, sink
(any error of the underlying writer) and closed.

**Parallel paths.** The main goroutine is a sequence of steps with `pc`, each
block's goroutine has its own state in `worker`; encoding takes two steps in
between which the buffer is neither the block nor its encoding (`Busy`), so that
a read of it without the barrier shows. `wg.Wait()` is an action enabled when all
goroutines of the round are done.

**Abstract encoder and decoder.** `EncodedStream` may take bytes, emit the next
segment as soon as its bytes are known (a short block only when the input has
ended), close when all is out, or fail, leaving part of a segment or none. `DecodedStream`
delivers bytes of the blocks before the first fault; it may finish only on an
intact file with all delivered, and refuse only a file that is not intact. The
sequential and the parallel code are both proved to implement them, which is the
sense in which `-j` does not change the result.

**Recovery.** `Remains` is every file that may be left of what the Writer has
written so far: cut between two segments or inside one. What decodes is
`Content` of `FileContents`, which is what both decoders are proved to deliver, so the
property holds for each of them without a product of their states.

**Command line.** The directory is a function from names to files: absent, bytes
of the user, or an archive. A run goes through `Begin` (flags, names),
`OpenInput`, `CreateOutput`, the processing, `RemoveInput` and `CloseOutput`; it may fail
where the code may, or be `Killed` anywhere; what it has written by then is in the
file. Only when the system reports an error to the last `Close`, which nobody reads, may
the end of the output be missing (`Truncations`). Compressing and decompressing are steps of
the two abstract specifications, which the sequential and the parallel path are both proved
to implement, *for an input that does not change while it is read*. A file compressed onto
itself (`-f`, the same name twice) does: `os.Create` has emptied it. The sequential path then
reads nothing before it writes; `compressParallel` has written its stream header first, and
reads that back as its data (`OwnHeader`). So the encoder is given either the user's data or
a stream header (`Feeds`). Output to the standard streams is not a file: `NoFile` stands for
them. `DirectoryAssumption` says where a session begins: the
directory holds the user's data somewhere, and nothing but the data and what was made from
them.

**Frame.** Data are positions: a block is `[from, len]` of the source, and the
frame comes back whole when the decoded blocks cover the source. `int32(Bound(n))`
wraps as in Go. A frame body is the sequence of headers and payloads that `Decompress`
cuts it into, wherever the sizes it reads lead it. Between the calls `TransportFrame`
leaves the frame alone, damages it in one place or puts a foreign one in its place
(`Damaged`): the magic, the block size, the count, either size of a block (any value of
`FieldValues`, legal ones too), the payload, the end cut off, bytes added. A wrong size
makes `Decompress` read everything that follows in the wrong place (`Strays`), or skip
whole blocks (`After`). A payload that was changed may be refused (`junk`) or still give
its block (`altered`): the last bytes that the arithmetic coder writes are covered by no
check, as `PORTING_NOTES.md` says. What is assumed is that the CRC refuses a payload that
does not give its block, bytes read in the wrong place included.

**Block codec.** Data are known by the stages they have gone through
(`stages`) and their length; undoing a stage with the right parameters removes it,
with any others gives garbage. The CRC is a field of the header, known by the data it was
computed from: no other data have it, which is the assumption that it never misses a change.
`Transport` may change one field, the size or the payload of a block that `EncodeBlock`
made (`DamagedBlocks`), and then everything that is read in another place because of
that. A foreign block (`ForeignBlocks`) may have any header and a CRC that is right for
whatever it decodes to, as a block made by another implementation has. `mem.buffer` and `mem.swap` are the two buffers, `b1`
which of them the code calls so. Slices that do not exist lead to the result
`panic`.

The sizes a stage may produce are constants; `StagesAssumption` bounds those of the
run-length and the LZP stage by what their code writes at most, and those of the arithmetic coder not
at all. When it reaches the end of its buffer, `EncodeBlock` panics (`overrun`).

**Run-length stage.** Byte by byte, both passes. The bitmap is the function `t`.
`Int32` wraps, `prev` is the variable `pc` of the code, which keeps the last run
byte read, as the code does, when a code is cut off. A code shorter than its bitmap is
refused (`TooShort`).

**LZP.** Positions as in the code, so 0 in the table is no position. One step
of `Compress` is one turn of its loops (a match with its length bytes, or a
literal); the two loops differ only in that the second looks for no match, which
is the conjunct `i < limit`. `Decompress` has a step for a literal, an escape, a
match and a cut-off length. When a length wraps to a negative `int32`, nothing is
copied; a later match may then begin at the position being written and copy what
the buffer held before, which the model takes to be anything.

**Suffix sorting.** One step is one loop nest of `computeSA` (a fold over the
positions it visits). `frames` is the call stack and `SA` the one array, in which the
reduced texts and, when an alphabet is larger than `MinBucketSize`, the tables C, B and D
of every level lie where the code puts them; the smaller tables it allocates are
recomputed from the text. `computeSA_byte` and `computeSA_int` are the same code
generated twice, so a frame is a call of either. `sortLMS1` and `sortLMS2` are the two
ways of sorting; marks are added to positions and complements taken as in the code.

**Inverse transform.** Counting, prefix sums, `fastbits` and `biPSI` are functions of
the transform (`Prepare`), the walk is two bytes a step. Each entry of `fastbits` begins with
any of the constant `Leftovers`, since an `Unbwt` is reused without clearing it: any set of
pairs in the proofs, the smallest and the largest pair, in every mixture, in the run.

**Arithmetic coder.** One step per bit, one per digit (byte) shifted out or in.
`Settled` keeps a bit from being coded while the leading digits agree, which is the
inner loop's condition. `c0`, `c1`, `c2` are the counter tables, and `last`, `beforeLast`
the local variables the code also calls `c1` and `c2`. Digits have base `Base`
and numbers `Digits` of them instead of four bytes; counters have `16 * Step`
values instead of 2^16. `readIn` past the end is all ones in the width of the
number, as in the code.

## 3. Runs

Each run has a configuration that names its bounds; nothing else bounds a model
(no state constraints). Bounds are constants of the module or of its MC module.

| Run | Checks | Why the bounds are enough |
|---|---|---|
| `stream_writer` | `IInv`, `CloseMeansComplete`, `StoppedStreamDecodes`, `SilentAfterError`, `CallsReturn`, `RefinesEncodedStream` | ten numbered bytes, blocks of three: three whole blocks and a short one, every division into calls, a write that ends on, before and after a boundary, a call that spans blocks; a failure at each write; the program stopped at every step and the file cut at and inside every segment |
| `compress_parallel` | `IInv`, `BufferOwnership`, `Terminates`, `RefinesEncodedStream` | three workers, 0 to 13 bytes in blocks of two: a round is full, not full, full but for a short block, or empty, and the first and a later round are each of these |
| `stream_reader` | `Inv`, `VerdictIsFirstFault`, `ReachesVerdict`, `RefinesDecodedStream` | files of up to four blocks: whole, cut at and inside every segment, with one segment replaced, with an empty block at every place, with a block larger than announced, ending in a header that announces no bytes (`io.ReadFull` of none succeeds at the end of a file); reads smaller and larger than a block |
| `decompress_parallel` | `Inv`, `LossIsBounded`, `Terminates`, `RefinesDecodedStream` | the same files with two workers: up to two full rounds, faults in the first and second slot of the first and second round |
| `command_line` | `Inv`, `DataSurvives`, `SuccessIsWhole`, `LeftoversArePrefixes` | two runs, the second over what the first left; three names, one of them the other's archive name; a block and a half of data, so an archive can end between two blocks; the input as its own output with `-j 1` and `-j 2`; a stream header of one block that is not how the data begin; `int32` of three bits, so `-b` wraps |
| `frame` | `FrameInv`, `RoundTripsUnlessMultiple`, `AcceptedIsTheSource` | limits scaled to 36 and 80 and `int32` to 127, every length from 0 to 120, so block sizes below, between and above the limits and one that wraps, up to four blocks; each header field set to values around its limits and to legal ones, misread bytes that look like no header, a bad one, or up to three blocks; foreign frames with too large, empty and too few blocks |
| `frame_round_trip` | `RoundTrips` is violated | lengths from 0 to 80 with block sizes that may divide them |
| `block_codec` | `Inv`, `BlockRoundTrips`, `NeverWrongData` | the real smallest block size; sizes at, just below and just above every limit the code tests, in one field of a true block, and in foreign headers in all combinations; coder results below, at and above the room there is |
| `run_length` | `Inv`, `RunLengthRoundTrips`, `GainsAreExact` | three byte values, 2 the largest, so a run of eight has four length bytes; all inputs of up to eight bytes, all codes of up to five and one too short for the bitmap, `int32` up to 8 so that lengths wrap |
| `lzp` | `PositionsInRange`, `LzpRoundTrips` | contexts of two bytes, matches from six; texts that come twice with and without a change, so that matches are long, short, split, self-overlapping, filtered by `heur`, preceded by an escaped match byte, and take several length bytes; codes whose lengths wrap once and twice |
| `bwt` | `SuffixesSorted`, `LmsSuffixesSorted`, `FramesIntact`, `BwtRoundTrips`, `LookupsInRange` | three byte values and tables of up to three entries allocated, so that the reduced texts need tables in the array; all texts of two to six bytes, and some forty longer ones, found by search, that between them take each way of placing C, B and D and each way of sorting at two levels of the recursion; every transform of up to five bytes with every index, valid or not, and every mixture of the smallest and the largest pair left in `fastbits` |
| `arith_coder` | `IInv`, `CoderRoundTrips` | symbols of two bits, numbers of four digits of two bits, so that the interval often has two neighbouring or a single element; all inputs of up to five symbols and longer ones that reach the run state; every source of up to six digits |

`Inv` and `IInv` contain the module's one type invariant: `Inv` joins it with the
property about its data that is named in the comment before it (`OutSliceIntact`,
`BarrierHolds`, `SlicesInRange`, `AccessesInRange`, `DecodeStaysInside`), and `IInv` is
the inductive invariant of the module's proofs. `FrameInv` and `Inv` of `CommandLine`
contain that too, so TLC has checked what the proofs of these rest on; `Inv` of
`CommandLine` also has `OthersUntouched`.

What they show, in a sentence each:

- **The sequential and the parallel encoder produce the same stream**, whatever
  the division into calls, the order of the goroutines and the failures, up to the
  point where an error stopped them.
- **Neither decoder returns anything but the data of the blocks before the
  first fault.** They differ in two ways that the runs pin down: a fault met while a
  round is being read costs the good blocks of that round (`LossIsBounded`), and an
  empty file is an empty stream for one and malformed for the other.
- **What the Writer has counted can be read back** even if the program stops in
  the middle of a later block, and a loss is silent only where the format has no
  mark: between two blocks.
- **The frame round trip fails** for a source whose length is a positive
  multiple of the block size; for all others it holds. Damage in one place is not always
  refused (not bytes after the last block, nor another block size that will do, nor a
  changed byte that does not matter), but what is accepted is the source, or its first
  blocks when the count was made smaller.
- **Whatever two commands do and wherever they fail**, the data stay in the
  directory unless the last copy was itself overwritten with `-f`, removed with `-rm` as an
  input that has no other file for output, or hit by an error of closing; exit 0 means the
  output is whole but for that last case and a file that was its own input.
- **Suffix sorting sorts**, with every layout of its tables, and no level of the
  recursion overwrites what another still needs; the inverse transform never leaves its
  tables, for any index it accepts and whatever an earlier use left in them.
- **Each stage undoes itself**, and the block codec undoes them in the right
  order with the right sizes for each combination, whatever the buffers held.
- **Headers and codes of any origin** lead to no access outside a buffer, and a
  block `EncodeBlock` made, changed in one field, to no wrong data. A foreign block can
  succeed, and then with the size it was told, or its callers see another.

Deadlock is checked in every run. A finished program stutters explicitly (for
instance `Returned`), so a real deadlock, such as waiting for a goroutine that was
never started, would be reported.

Each property is paired in `PROJECT.json` with a faulty variant of one definition,
kept in the module next to it and marked as such: a check that returns too early,
a barrier that does not wait, a bound left out, and so on. Under that variant
TLC finds the property violated.

## 4. Fairness

Safety needs none. Liveness is checked under the weakest fairness the code
justifies:

- `StreamWriter`: weak fairness of the steps inside a call (the goroutine is
  scheduled and each underlying write answers). Nothing makes the caller call.
- `StreamReader`: the same for the steps inside a call, and strong fairness of
  calls with a buffer that is not empty, for the caller that `io.Copy` is: it goes on
  until it gets an error. It has to be strong because the caller may also call with an
  empty buffer.
- `CompressParallel`, `DecompressParallel`: weak fairness of the main goroutine
  and of each worker goroutine, which is what the Go scheduler gives, and reads
  and writes that complete, with or without an error.

The pure functions (`Frame`, `BlockCodec`, `RunLength`, `Lzp`, `Sais`, `Bwt`,
`ArithCoder`) have no liveness property: their loops are bounded by their input, and a
walk that could not go on would be reported as a deadlock. `CommandLine` has none
either: what it runs terminates by the properties above.

## 5. Proofs

`tlapm` checks the following for every value of the constants that satisfies the
named assumptions; there are no other assumptions. `StreamWriterProofs`,
`RunLengthProofs`, `BlockCodecProofs` and `ArithCoderBwtProofs` each extend two components,
whose variables and specifications have different names (`CommandSpec`, `LzpSpec`, `FrameSpec`,
...); every theorem is about one of the two, and states the definition that the runs check.
Two of these pairs share constants, which have one value in both, as in the code: the stream
format for the Writer and the command line, and the widths of a byte and of an `int32`
(`StageBytes`) for the run-length and the LZP stage. The assumptions of the two components
are about those and about constants of their own, and do not contradict each other: the
values of the code meet them.

*Induction over data.* The library's induction theorems take an operator as a parameter,
which the installed provers cannot instantiate. `InductionInSet` takes a set of numbers
in its place (`{n \in Nat : ...}`), and follows from the least element of a set
(`LeastNatural`, from `NatLessThanWellFounded`). With it, what the recursive functions
`FlattenSeq` and `Power` and the table of the numbers that digits spell yield for every
argument is proved. A decoder is not related to the encoder's finished output by
induction over that output. Instead, the invariant of the encoder says that *there is a
way of cutting what it has written* so that each piece stands for a piece of the input,
and the decoder goes along that way, one piece per step.

### StreamWriterProofs

Assumptions: `FormatAssumption` (the limits of the block size, and that
`EncodeBlock` returns at most the bound) and `InputAssumption`.

`WriterInvariant` (`Spec => []IInv`) is the core. `TypeOK` and
`SinkIsStreamPrefix` are not inductive: that the next segment is the right one
depends on what the buffer holds and on how many blocks have been written. `IInv`
adds `Buffered` (the buffer holds exactly the `n` bytes that follow the blocks
counted) and `Position` (how far each value of `pc` has got with header, blocks and
bytes, and that only `Close` flushes a short block). The proof has a lemma for each
action. The one difficult step is that *the segments already sent stay right when
more bytes are taken*, because a block's contents are defined from all data taken
so far: a full block does not change, and a short one is last (`SentIsStable`, from
`BlockOfPrefix` and its like in `Bzip3FormatTheorems`, which rest on arithmetic of
products and quotients and on facts about subsequences).

From it follow `WriterTypeCorrect`, `WriterSendsPrefix`, `WriterCompletes`
(`CloseMeansComplete`), and `WriterSilentAfterError` (the action property
`SilentAfterError`). TLC checks the same `IInv` in the run `stream_writer`.

`WriterImplementsEncoder` (`Spec => RefinesEncodedStream`): each step of the Writer is a
step of the abstract encoder or leaves its variables alone. `SendStep` is what all steps
that write share: the segment written is the one due, and its bytes are known, because
the block is full or `Close` has begun.

`StoppedWriterIsRecoverable` (`Spec => []StoppedStreamDecodes`). The sink holds a beginning
of the prescribed stream, and any beginning of that, cut anywhere, decodes to a beginning
of the data (the lemmas on `LeftOf`). `Sent` adds the two facts on which the rest depends:
no segment is of a block without bytes, and the segments of the blocks counted are there
and whole.

### The command line, in StreamWriterProofs

Assumptions: those of the Writer, `CommandLineAssumption` and `DirectoryAssumption`. `MaxRuns`
is any number, so the theorems are about any number of runs.

`CommandInvariant` (`[]Inv`), from which `CommandKeepsTheData` (`DataSurvives`),
`CommandSuccessIsWhole`, `CommandTouchesNothingElse` (`OthersUntouched`) and
`CommandLeavesPrefixes` (`LeftoversArePrefixes`) follow.

- `Made`, in `CommandTypeOK`, is what keeps the induction over runs going: every file is absent, a
  beginning of the data or of a stream header, or what is left of an archive of one. A run reads such files
  and leaves such files, whatever happens to it.
- `Encoding` and `Decoding` are what the two abstract specifications give at each point.
- `Running` relates the directory to what it was `before` the run: first it is the same,
  then it differs in the output, which holds the `Product` so far, and at the end in the
  input that was `Removed`.

`OthersUntouched` and `LeftoversArePrefixes` (`Rest`) follow from the other parts (`Core`)
while a run is under way; between runs nothing relates the directory to a run, so there
they are carried over the step that ends it.

### CompressParallelProofs

Assumptions: those of the Writer and `WorkersAssumption` (two or more workers; with
fewer the command does not take this path).

`ParallelInvariant` (`Spec => []IInv`). `OutIsStreamPrefix` and `NilMeansComplete` say
nothing of the buffers, so they are not inductive. `Position` adds that there is a
block number `b`, the first of the round, such that (`Round`) slot `s` holds block
`b + s` in the form its goroutine's state calls for (`Holds`: read, being encoded, or
encoded with its size), slots that are not in use are `Free`, and the position in the
input is that of the blocks read. `Free` is needed because a buffer keeps the encoded
block of an earlier round: overwriting it is sound only since what the sink holds of it
is already written. The barrier enters as the last conjunct: a goroutine is under way
only while the main goroutine waits. `ParallelCompletes` and `BuffersAreOwned` (an
action property) follow.

`ParallelImplementsEncoder` (`Spec => RefinesEncodedStream`): together with
`WriterImplementsEncoder` this is the proof, for every number of workers, that `-j` does
not change what is written.

### StreamReaderProofs and DecompressParallelProofs

Assumptions: `FormatAssumption`, `MaxReadAssumption` or `WorkersAssumption`, and
`FilesAssumption` (a file is a sequence of segments in the order headers and payloads are
read, the last of which may be cut). Files are any such sequences.

`ReaderInvariant`: `Position` says which segments of the file the current header and
buffer are, `OutSlice` that `r.out` is the end of the last good block, still unharmed in
`r.buf`; the step that reads the next block into `r.buf` needs `out` to be empty there,
which `Position` has. `PendingBytesAreSafe` is `Inv`.

`VerdictIsRight` (`VerdictIsFirstFault`) and `ReaderRefinesDecodedStream`
(`RefinesDecodedStream`) need to know what has been delivered: `Progress` says that, as long
as there is no error, the blocks read are good (`GoodUpTo`) and their bytes are the
delivered ones followed by those in `r.out`. The step that meets the first fault makes
`GoodUpTo` the whole of `GoodBlocks`, a maximum, and so `delivered` the `Content`.

`DecompressInvariant`: as for compression, slot `s` holds the block whose header is
`HeaderAt(s)`, counted back from the position in the file, so that leftovers of an
earlier round are excluded by the position and not by clearing. `BarrierIsKept` is
`Inv`.

`LossIsAtMostOneRound` (`LossIsBounded`) and `DecompressRefinesDecodedStream`: here
`Progress` has three parts, that the blocks written are the first of the file and good
(`OutIsGood`), that earlier rounds were full, which is where the bound of the loss comes
from (`RoundsDone`), and that the error of a slot is the verdict on *its* block
(`AllJudged`). `Verdict` says what the result means once the command has returned.

`ReaderRefinesDecodedStream` and `DecompressRefinesDecodedStream` together prove, for every
number of workers and every file, that `-j` does not change what is decoded, in the sense
of `DecodedStream`.

### BlockCodecProofs

Assumptions: `SizesAssumption` and `StagesAssumption` (what the run-length and the LZP
stage may make of a block; of the arithmetic coder nothing is assumed).

`CodecInvariant` (`Spec => []IInv`), from which `SlicesStayInRange` (`Inv`),
`BlocksRoundTrip` and `SuccessMeansTheData` (`NeverWrongData`) follow. That only the coder
can overrun a buffer, and when, is part of `Inv`. `IInv` adds to the three:

- `Lineages`: data in either buffer are garbage at bottom or come from the source, and
  no size they remember exceeds the bound. That is what makes `size` in `Check`
  trustworthy when the CRC is right although the caller told another one;
- `Encoding`: which buffer holds what while encoding, as the composition of the stages
  the model byte names (`AfterRle`, `AfterLzp`, `AfterBwt`, `Coded`), and that a stage is
  kept only if it made the block smaller;
- `GoodBlock`: a block that `EncodeBlock` returned is a stored one or such a
  composition, any other decodes to garbage;
- `Decoding`: every size used later fits both buffers (`Fits`), and which of them is `b1`
  at each step: known before LZP, and after it depending on the model byte;
- `Retracing`: told the true size, each step of the decoder finds what the step of the
  encoder it undoes had made.

### The frame, in BlockCodecProofs

Assumptions: `LimitsAssumption`, which includes that `EncodeBlock` returns at most the bound,
and `DamageAssumption`, which says that bytes read in the wrong place do not decode, and
nothing else of the values of fields, the bytes and the foreign frames.

`FrameInvariant` (`FrameIInv`), from which `FrameSlicesInRange` (`FrameInv`), `FrameRoundTrips`
(`RoundTripsUnlessMultiple`) and `FrameAcceptedIsTheSource` (`AcceptedIsTheSource`)
follow. `Made` is the frame that `Compress` will have made, in closed form; `Building` says
that it has made the first `2 * i` segments of it, `Kept` that after damage in one place no
payload that decodes is where another was, unless whole blocks are missing and the walk
must fail at the end. `Receiving` says that the blocks scanned are `Sound`, and that in the
decoding loop *all* blocks claimed are. That conjunct is what the unchecked slices of that loop rest on.

### RunLengthProofs

Assumption: `ConstantsAssumption`. `RunLengthStaysInRange` (`Inv`): for codes of any
origin `Decode` writes only inside its output, and run lengths, which wrap, stay an
`int32`. `Counting` and `Encoding` relate run lengths and gains to the position in the input,
which bounds them in `Encode`.

`RunLengthIsUndone` (`RunLengthRoundTrips`): `Cuts` is a set of pairs, a position in the
code and one in the data, from each of which a literal or a whole run leads to another
pair (`PlainAt`, `CollapsedAt`). `Matching` says that `Encode` has such a set for what it
has written, without the run in hand; `Retracing` that `Decode` is at a pair of it, or inside a
run (`InRunByte`, `InExpand`) that ends at one.

`CountedGainsAreSaved` (`GainsAreExact`): `Counted` is a pair of tables over the input, of
the runs and of the gains after each of its bytes, which the first pass fills
(`CountingGains`). For the second pass `EncodingGains` says that what is written is shorter
than what it stands for by the gains counted there, and that a run of so many bytes will save
`Saved(run)`, which is what was counted for it byte by byte (`SavedGrows`). Since `FoldSet`
takes the values in some order or other, a sum is first shown not to depend on it, by
induction on the subsets (`SumExists`, `SumIs`, `SumChanges`). Only values with a positive
gain are in the sum, so the encoding is never longer than its input.

### LZP, in RunLengthProofs

Assumption: `LzpAssumption`. It says of the code's sizes that two contexts
fit into the shortest input that is not refused (40 + 32 bytes, two contexts of 4) and that
some output is kept in reserve (8 bytes), and of the inputs that their length is an `int32`.

`LzpStaysInRange` (`PositionsInRange`) rests on `Stages`: `Compress` has table entries before
the byte it is at, `Decompress` none beyond the byte it writes, so that a match copies from
what is written.

`LzpIsUndone` (`LzpRoundTrips`): `Points` are like `Cuts`, but a point has the hash table too,
since `Decompress` takes the same turn as `Compress` only with the same table. `Undoing` has
the set while compressing (`Covering`), the position in it while decompressing (`OnTheWay`)
and the result (`Arrived`). Two things took lemmas of their own:

- a match found a word at a time is one byte by byte, also when it overlaps itself, where
  the copying loop repeats what lies between the two positions (`Periodic`, `MatchIs`,
  `Repeating`);
- the lengths written and read are the same number, as many times 254 as there are full
  length bytes, and a rest (`LengthBytesAre`, `InFull`).

### ArithCoder, in ArithCoderBwtProofs

Assumptions: those on the sizes (`SymbolsAssumption`, `StepAssumption`,
`DigitsAssumption`, `TopAssumption`) and on what is given (`InputsAssumption`). The number
of symbols is a power of two, which `SymbolsAssumption` says by its divisors.

`CoderInvariant` (`Spec => []IInv`): counters stay within their width, the
interval is never empty, and the number the decoder holds lies in it as long as
the source lasts. The argument is:

1. a counter that moves part of the way to its largest or smallest value stays
   a counter (`LearntCounter`), and interpolation between two counters is between
   them, rounding of negative numbers included (`Interpolated`); so the
   prediction is a proper fraction and its table row exists (`PredictionInRange`);
2. a proper fraction of a non-empty range is inside it (`FractionInside`), and
   when the leading digits differ the range is not empty (`SettledApart`), so both
   halves are (`MidInside`);
3. moving up by one digit drops the common leading digit, keeps order, and keeps
   what is between the ends between them (`ShiftedNumber`, `ShiftKeepsOrder`,
   `SameLeadingDigit`).

The part about the decoder's number needs `prime` to be remembered as starting
with the whole interval, which is why `CodeInInterval` says so.

`CoderIsUndone` (`CoderRoundTrips`): a `State` is all that `Encode` and `Decode` have in
common (counters, interval, bits of the symbol so far). `Road` is the set of states, each with
the number of digits shifted out by then, that `Encode` goes through. Which digits follow
is not known while it goes, so `Encoded` says of *all* digits that may follow: if the number they
spell lies in the interval now, it has lain in the interval of each state before (`Leads`).
`Flushed` shows that the four digits written at the end are such digits, and from then on
`Decoding` says that the decoder is on the same road with the same number of digits read,
so it takes the bit that `Encode` took. `Spells` relates the bits to the symbol.

### Bwt, in ArithCoderBwtProofs

Assumptions: `SaisAssumption` and `BwtAssumption`, which say no more than that texts and
damaged blocks are sequences of bytes. The recursive functions of the model (prefix sums,
`biPSI` row by row) are brought into closed form with the induction over natural numbers that
the arithmetic coder's proofs already have. `End(w)` is where the group of the byte pair `w`
ends, `Spot(q)` where row `q` is put in `psi`.

`DamagedLookupsInRange` (`LookupsInRange`, from any `InitDamaged`): for input no encoder made
there is nothing to rely on but sizes. `LookupsInv` says that `ends` is `End` for every pair,
`psi` has a row of the transform at every place, and `fastbits` a pair at every entry, written in this
call or not. The last pair ends after the last row, so the walk's search always ends with
some pair, and `FastbitsShift` is such that every row has an entry.

`BwtRestores` (`BwtRoundTrips`, given `[]SuffixesSorted`) follows the usual argument about the
transform, for the two bytes at a time that this code takes:

1. rows and positions in the text correspond one to one (`RowOfIs`), and `Encode` gives
   each row the byte before its suffix (`Transformed`);
2. rows are ordered by their first byte and then by the row of the rest (`RowsCompare`), and
   a row's number is the number of rows before it (`RowsUnderAre`); so from the row of
   position `t` one step to the left is the row of `t - 1` (`BeforeRow`);
3. the same for two bytes: the number of rows before `RowOf(t - 1)` is the number of rows
   with a smaller pair of bytes (`PairsCompare`), of those with the same pair and a smaller
   row after it, and of the one row, if it comes before, that is the last byte and the
   sentinel, for which `bucket2` leaves a place free. This is the place `biPSI` puts the row
   of `t + 1` at (`SpotRow`);
4. the pair found through `fastbits` is the one the row starts with (`WalkFinds`): `fastbits`
   leads to no pair after those that end in the row's stretch or later
   (`FastbitsBelow`), so an entry that this call has not written is never relied on;
5. so the walk is at `RowOf(2 * k)` when it has written `2 * k` bytes (`WalkRight`), and
   `Finish` puts in the last byte, which is `in[1]`.

### Only model-checked

- Liveness (`CallsReturn`, `ReachesVerdict`, `Terminates`): fairness and ENABLED are
  beyond the proof system used.
- `SuffixesSorted`, `LmsSuffixesSorted` and `FramesIntact` of `Sais`: why induced sorting
  sorts is a proof of its own size. `FramesIntact` needs much of it: that a pass upwards
  stays below the tables rests on each position being put only once, which at an outer level
  rests on the inner call having left a permutation. Besides, the LMS positions are a
  `SelectSeq`, of which the provers know nothing. `BwtRestores` and `LookupsAreInRange` are therefore proved for
  behaviours with `[]SuffixesSorted`, which the run `bwt` checks.

## 6. Findings and remarks

1. **The frame loses the last block** (`frame.go:42`, run `frame_round_trip`).
   `Compress` gives the last block `len(src) % blockSize` bytes. When the block size
   used divides `len(src)` that is 0, so the last whole block is encoded as an
   empty one. `Decompress` returns the shorter data without an error. The README
   (line 83) promises round-trip integrity.

Remarks, without a run:

- `internal/cm/cm.go:123` says that reads past the end of the source yield 0xFF bytes;
  `:138` returns 2^32 - 1, which is added to the shifted number and so borrows from the
  digits before (`readIn` of `ArithCoder`). Only a damaged block gets there:
  `CoderRoundTrips` shows that decoding what was encoded reads exactly what was written.
- `internal/bwt/bwt.go:59` says that an `Unbwt` carries no state between calls.
  `fastbits` is not cleared, and on a transform no encoder made (for instance two bytes
  that decrease, with index 2) the walk reads an entry this call has not written, so
  what such a block decodes to may depend on the one before. `LookupsInRange` shows
  that it stays in range, and `BwtRoundTrips` that a true transform never meets it.
- `-j` decides whether an empty input is an empty stream or a malformed header
  (`DecodedStream`, `Finish`), and how many good blocks before a fault come out.
- `Compress` with a legal block size that is larger than the source uses
  `Bound(len(src))`, which may be above the largest block size and then fails.
- `DecodeBlock` reads header fields before it knows that the compressed block is
  long enough to have them; what it reads is then left over from earlier use of
  the buffer, and only the CRC tells. The model lets them be anything.
- `-b` wraps as an `int32` before it is checked: `-b 4097` is `-b 1`
  (`cmd/bzip3/main.go:58`).
- `bzip3 -f -j 2 x x` makes of `x` an archive of a stream header: `compressParallel` writes
  its header (`cmd/bzip3/main.go:222`) before it reads (`:234`) from the file that was
  emptied. `bzip3 -f x x` makes an archive of nothing. Either way the data are gone, which
  is what `-f` allows.
- `-t -rm` removes the file it has tested: `DataSurvives` allows it as an input removed
  without an output file (`unsafe`).
- With `-rm` the input is removed before the output is closed, and an error of that
  `Close` is ignored (`cmd/bzip3/main.go:92` to `:104`): `SuccessIsWhole` and `DataSurvives`
  hold but for such an error (`unflushed`, `unsafe`).
- Whether the output exists is asked before it is created (`cmd/bzip3/main.go:85`), so of
  two commands at the same time both may go on. The model runs one at a time.
- A file called `.bz3` decompresses to the empty name, which means standard output.

## 7. What is not modelled

- **CRC32C**: a function without state. That different data have different
  checksums is assumed where `BlockCodec` says `CrcRight`, for the data of its own blocks, and
  where `Frame` says `junk`.
- **Verbose output and `-V`** of the command line, and encoding a file that is itself an
  archive (its bytes would be data like any other).
- **Limits of suffix sorting near 2^30**: `sortLMS2` is used only for texts shorter than
  that, since marks are added to positions. The instances are far below it.
- **Error values** are strings, and the texts of messages are left out.
- **How much the arithmetic coder can expand a block.** `BlockCodec` lets
  it write any number of bytes and has it panic at the end of the buffer (`CoderExpands` says
  how much that takes); that the coder never gets there would have to be shown by driving its
  predictions wrong over thousands of symbols.
- The contents of headers other than the fields used, and endianness.

## 8. What comes next

In this order:

1. `Sais`: the LMS positions by a recursive function in place of `SelectSeq`, then that there
   are at most half as many of them as bytes, from which the layout of the tables at all
   levels follows; then that each pass puts each position once.
2. `BlockCodec` joined with the stages: the size functions it takes as constants
   shown to be bounds of what `RunLength` and `Lzp` produce (`LzpIsUndone` has already that
   what `Compress` keeps is smaller than its input).

---------------------------- MODULE CommandLine ----------------------------
(***************************************************************************)
(* cmd/bzip3/main.go: the command, run several times in a row in one       *)
(* directory.  A run checks its flags, opens its input, creates its        *)
(* output, compresses or decompresses, removes the input (-rm) and closes  *)
(* the output.  It may fail or be killed anywhere in between, and what it  *)
(* has then left in the directory is what the next run finds.              *)
(*                                                                         *)
(* What happens inside compress and decompress is what any encoder does    *)
(* (EncodedStream) and any decoder (DecodedStream): the sequential and the *)
(* parallel path implement these two.  They differ when a file is          *)
(* compressed onto itself: the parallel path writes its stream header      *)
(* before it reads, and so compresses its own header.                      *)
(***************************************************************************)
EXTENDS Bzip3Format, SequencesExt

CONSTANTS Names,      \* names of files in the directory
          Suffixed,   \* a function: the name with .bz3 appended
          UserData,   \* the bytes that the user has
          HeaderBytes,\* the bytes of a stream header
          Directory,  \* what the directory may be in the beginning: a set of functions from Names
          Commands,   \* the command lines the user may enter
          MiB,        \* 1024 * 1024
          Int32Span,  \* 2^32
          MaxJobs,    \* 64
          MaxRuns     \* bound on the number of runs

NoFile == ""  \* instead of a name: the standard streams

Feeds == {UserData, HeaderBytes}  \* what an encoder may be given

(* A file: absent, bytes of the user, or an archive (a sequence of segments). *)
Absent     == [form |-> "absent"]
Plain(b)   == [form |-> "plain", data |-> b]
Archive(s) == IF s = <<>> THEN Plain(<<>>) ELSE [form |-> "archive", segments |-> s]

(* A file as the decoder sees it: bytes of the user are no archive. *)
SegmentsOf(f) == IF f.form = "archive" THEN f.segments
                 ELSE IF f.data = <<>> THEN <<>> ELSE <<Part>>

ASSUME CommandLineAssumption ==
  /\ NoFile \notin Names
  /\ Suffixed \in [DOMAIN Suffixed -> Names] /\ DOMAIN Suffixed \subseteq Names
  /\ Feeds \subseteq Seq(Byte)
  /\ Len(HeaderBytes) \in 1..BlockSize
  /\ \A c \in Commands : /\ c.mode \in {"encode", "decode", "test"}
                         /\ {c.stdout, c.force, c.rm} \subseteq BOOLEAN
                         /\ {c.blockMB, c.jobs} \subseteq Int
                         /\ c.args \in Seq(Names)
  /\ {MiB, Int32Span, MaxJobs, MaxRuns} \subseteq Nat

VARIABLES fs,        \* the directory: what each name holds
          cmd,       \* the command line of the current run
          input,     \* its file names, NoFile for the standard streams
          output,
          at,        \* "idle" between runs; "open", "create", "process", "remove", "close"
          source,    \* what the input file holds when processing begins
          read,      \* the encoder: bytes taken from it, segments written
          written,
          segments,  \* the decoder: segments to read, bytes delivered
          plain,
          status,    \* how far the encoder or the decoder is
          exit,      \* how the last run ended: "0", "1" or "killed"
          before,    \* history: the directory when the run began
          unsafe,    \* history: the last copy went in a way the user has to expect
          unflushed, \* history: closing the output of this run has failed
          runs

codecVars == <<source, read, written, segments, plain, status>>
commandVars == <<fs, cmd, input, output, at, codecVars, exit, before, unsafe, unflushed, runs>>

Encoder(d) == INSTANCE EncodedStream WITH Input <- d, taken <- read, out <- written
Decoder == INSTANCE DecodedStream WITH Files <- {}, file <- segments, out <- plain

NoCommand == [mode |-> "none"]
NoCodec   == /\ source = Plain(<<>>) /\ read = 0 /\ written = <<>>
             /\ segments = <<>> /\ plain = <<>> /\ status = "open"

CommandInit == /\ fs \in Directory
               /\ cmd = NoCommand /\ input = NoFile /\ output = NoFile /\ at = "idle"
               /\ NoCodec
               /\ exit = "none" /\ before = fs /\ unsafe = FALSE /\ unflushed = FALSE
               /\ runs = 0

-----------------------------------------------------------------------------
(* The end of a run.  fatal does not run the deferred closes, but neither it *)
(* nor a kill takes back what has been written.                              *)
End(how) == /\ at' = "idle"
            /\ exit' = how
            /\ UNCHANGED <<cmd, input, output, codecVars, before, runs>>
Fatal    == End("1") /\ UNCHANGED <<fs, unsafe, unflushed>>

Goto(l) == at' = l /\ UNCHANGED <<cmd, input, output, exit, before, unflushed, runs>>

Int32(x) == ((x + Int32Span \div 2) % Int32Span) - Int32Span \div 2

OptionsGood(c) == ValidBlockSize(Int32(c.blockMB * MiB)) /\ c.jobs \in 0..MaxJobs

(* resolveFiles: a set, empty when the names are refused. *)
ResolveFiles(c) ==
  IF Len(c.args) > 2 THEN {}
  ELSE IF Len(c.args) = 0 THEN {[input |-> NoFile, output |-> NoFile]}
  ELSE IF c.mode = "test" THEN {[input |-> c.args[1], output |-> NoFile]}
  ELSE IF Len(c.args) = 2 THEN {[input |-> c.args[1], output |-> c.args[2]]}
  ELSE IF c.stdout THEN {[input |-> c.args[1], output |-> NoFile]}
  ELSE IF c.mode = "encode" THEN {[input |-> c.args[1], output |-> Suffixed[c.args[1]]]}
  ELSE {[input |-> c.args[1], output |-> n] :
          n \in {n \in DOMAIN Suffixed : Suffixed[n] = c.args[1]}}

(* A run begins: flags and file names are checked.  (An archive is data like *)
(* any other to the encoder; here only bytes of the user are compressed.)    *)
Begin(c) ==
  /\ at = "idle" /\ runs < MaxRuns
  /\ c.mode = "encode" /\ c.args # <<>> =>
       c.args[1] \in DOMAIN Suffixed /\ fs[c.args[1]].form # "archive"
  /\ runs' = runs + 1
  /\ cmd' = c
  /\ before' = fs
  /\ LET files == ResolveFiles(c)
     IN  IF OptionsGood(c) /\ files # {}
           THEN \E f \in files : /\ input' = f.input /\ output' = f.output
                                 /\ at' = "open" /\ exit' = "none"
           ELSE input' = NoFile /\ output' = NoFile /\ at' = "idle" /\ exit' = "1"
  /\ source' = Plain(<<>>) /\ read' = 0 /\ written' = <<>>
  /\ segments' = <<>> /\ plain' = <<>> /\ status' = "open"
  /\ unflushed' = FALSE
  /\ UNCHANGED <<fs, unsafe>>

(* os.Open; the standard input is there. *)
OpenInput ==
  /\ at = "open"
  /\ \/ input # NoFile /\ Fatal
     \/ /\ input # NoFile => fs[input] # Absent
        /\ Goto("create")
        /\ UNCHANGED <<fs, codecVars, unsafe>>

Overwrites == TRUE   \* Faulty variant: a file that is there is overwritten without -f.

MayCreate == output # NoFile => fs[output] = Absent \/ cmd.force

(* A file from which the user gets all of the data back. *)
Holds(f) == \/ f = Plain(UserData)
            \/ /\ f.form = "archive"
               /\ Decoder!Intact(f.segments) /\ Decoder!Content(f.segments) = UserData

(* Such a file other than n. *)
HeldBeside(n) == \E x \in Names \ {n} : Holds(fs[x])

(* What is read from the file that is being written: nothing, but for        *)
(* compressParallel, which has then written the stream header, one short     *)
(* block, and reads to the end before it writes more.                        *)
OwnHeader == Plain(IF cmd.mode = "encode" /\ cmd.jobs > 1 THEN HeaderBytes ELSE <<>>)

(* os.Stat and os.Create, if there is an output file: it is made empty, also *)
(* when it is the input.  Both can fail.                                     *)
CreateOutput ==
  /\ at = "create"
  /\ \/ output # NoFile /\ Fatal
     \/ /\ MayCreate
        /\ fs' = IF output = NoFile THEN fs ELSE [fs EXCEPT ![output] = Plain(<<>>)]
        /\ unsafe' = (unsafe \/ (output # NoFile /\ cmd.force /\ ~HeldBeside(output)))
        /\ source' = IF input = NoFile THEN Plain(UserData)
                     ELSE IF input = output THEN OwnHeader ELSE fs[input]
        /\ segments' = IF cmd.mode = "encode" THEN <<>> ELSE SegmentsOf(source')
        /\ Goto("process")
        /\ UNCHANGED <<read, written, plain, status>>

(* Faulty variant: a longer file that was there is not cut off.              *)
Overlaid(s) ==
  LET old == IF before[output] = Absent THEN <<>> ELSE SegmentsOf(before[output])
  IN  Archive(IF s # <<>> /\ Last(s) = Part THEN s ELSE s \o SubSeq(old, Len(s) + 1, Len(old)))

Written(s) == Archive(s)

(* compress: an encoder is given the whole input.  What it writes is in the  *)
(* output file at once; its own header is there to be read once written.     *)
Compress ==
  /\ at = "process" /\ cmd.mode = "encode"
  /\ \E d \in Feeds : IsPrefix(source.data, d) /\ Encoder(d)!Next
  /\ read' <= Len(source.data)
  /\ input # NoFile /\ input = output /\ read' > 0 => written # <<>>
  /\ status' \in {"ending", "closed"} => read' = Len(source.data)
  /\ fs' = IF output = NoFile THEN fs ELSE [fs EXCEPT ![output] = Written(written')]
  /\ UNCHANGED <<cmd, input, output, at, source, segments, plain, exit>>
  /\ UNCHANGED <<before, unsafe, unflushed, runs>>

(* decompress; a test sends the bytes nowhere. *)
Decompress ==
  /\ at = "process" /\ cmd.mode \in {"decode", "test"}
  /\ Decoder!Next
  /\ fs' = IF output = NoFile THEN fs ELSE [fs EXCEPT ![output] = Plain(plain')]
  /\ UNCHANGED <<cmd, input, output, at, source, read, written, exit>>
  /\ UNCHANGED <<before, unsafe, unflushed, runs>>

(* Faulty variants: the error is not noticed; the Writer is not closed.      *)
SucceededRegardless == status \in {"closed", "done", "failed", "refused", "ioFailed"}
SucceededUnclosed   == status \in {"closed", "done", "ending"}

Succeeded == status \in {"closed", "done"}

(* process returns: with an error, or nil. *)
ProcessFails == at = "process" /\ status \in {"failed", "refused", "ioFailed"} /\ Fatal

ProcessDone ==
  /\ at = "process" /\ Succeeded
  /\ Goto(IF cmd.rm /\ input # NoFile THEN "remove" ELSE "close")
  /\ UNCHANGED <<fs, codecVars, unsafe>>

(* os.Remove.  With -t, with -c, and when the output is the input, there is  *)
(* then no output file.                                                      *)
RemoveInput ==
  /\ at = "remove"
  /\ \/ Fatal
     \/ /\ fs' = [fs EXCEPT ![input] = Absent]
        /\ unsafe' = (unsafe \/ (output \in {NoFile, input} /\ ~HeldBeside(input)))
        /\ Goto("close")
        /\ UNCHANGED codecVars

(* What may be left of a file when the system could not write its end.       *)
Truncations(f) ==
  IF f.form = "plain" THEN {Plain(SubSeq(f.data, 1, k)) : k \in 0..Len(f.data)}
  ELSE {Archive(SubSeq(f.segments, 1, k)) : k \in 0..Len(f.segments)}
       \cup {Archive(Append(SubSeq(f.segments, 1, k), Part)) : k \in 0..Len(f.segments) - 1}

(* main returns: the deferred Close of the output, whose error nobody reads. *)
CloseOutput ==
  /\ at = "close"
  /\ \/ UNCHANGED <<fs, unsafe, unflushed>>
     \/ /\ output # NoFile /\ fs[output] # Absent
        /\ \E f \in Truncations(fs[output]) : fs' = [fs EXCEPT ![output] = f]
        /\ unsafe' = (unsafe \/ ~HeldBeside(output)) /\ unflushed' = TRUE
  /\ End("0")

Killed == at # "idle" /\ End("killed") /\ UNCHANGED <<fs, unsafe, unflushed>>

Done == at = "idle" /\ runs = MaxRuns /\ UNCHANGED commandVars

CommandNext == \/ \E c \in Commands : Begin(c)
               \/ OpenInput \/ CreateOutput \/ Compress \/ Decompress
               \/ ProcessFails \/ ProcessDone \/ RemoveInput \/ CloseOutput
               \/ Killed \/ Done

CommandSpec == CommandInit /\ [][CommandNext]_commandVars

-----------------------------------------------------------------------------
(* A file made from the data: none, a beginning of it, or whatever part of   *)
(* an archive of one.  Some begin as a stream header does instead.           *)
Beginnings == UNION {Prefixes(d) : d \in Feeds}

ArchiveSegments == Segments([tag : {"enc"}, data : Seq(Byte)])
LeftOfArchive(s) ==
  s \in Seq(ArchiveSegments) /\ \E d \in Beginnings : Decoder!LeftOf(d, s)

Made(f) == \/ f = Absent
           \/ f.form = "plain" /\ f = Plain(f.data) /\ f.data \in Beginnings
           \/ f.form = "archive" /\ f = Archive(f.segments) /\ LeftOfArchive(f.segments)

(* In the beginning the directory holds the data and what was made from it.  *)
ASSUME DirectoryAssumption ==
  \A d \in Directory : /\ d = [n \in Names |-> d[n]]
                       /\ \A n \in Names : Made(d[n])
                       /\ \E n \in Names : Holds(d[n])

CommandTypeOK ==
  /\ fs = [n \in Names |-> fs[n]] /\ before = [n \in Names |-> before[n]]
  /\ \A n \in Names : Made(fs[n]) /\ Made(before[n])
  /\ cmd \in Commands \cup {NoCommand}
  /\ input \in Names \cup {NoFile} /\ output \in Names \cup {NoFile}
  /\ at \in {"idle", "open", "create", "process", "remove", "close"}
  /\ Made(source) /\ source # Absent
  /\ read \in Nat
  /\ written \in Seq(ArchiveSegments)
  /\ LeftOfArchive(segments)
  /\ plain \in Seq(Byte)
  /\ status \in {"open", "ending", "closed", "failed", "done", "refused", "ioFailed"}
  /\ exit \in {"none", "0", "1", "killed"}
  /\ unsafe \in BOOLEAN /\ unflushed \in BOOLEAN
  /\ runs \in 0..MaxRuns

(* The encoder has written a beginning of the stream of what it has taken;   *)
(* unless that is all of the source, only full blocks.                       *)
TakenBytes == SubSeq(source.data, 1, read)

Encoding == source.form = "plain" =>
  /\ read <= Len(source.data)
  /\ Decoder!LeftOf(TakenBytes, written)
  /\ status \in {"open", "ending"} => \A j \in 1..Len(written) : written[j] # Part
  /\ \/ \A j \in 2..Len(written) : (j \div 2) * BlockSize <= read
     \/ read = Len(source.data)
  /\ status \in {"ending", "closed"} => read = Len(source.data)
  /\ status = "closed" => written = Stream(TakenBytes)

(* The decoder has delivered a beginning of what its segments hold.          *)
Decoding ==
  /\ IsPrefix(plain, Decoder!Content(segments))
  /\ status = "done" => /\ plain = Decoder!Content(segments)
                        /\ segments = <<>> \/ Decoder!Intact(segments)

(* What a run that is under way has been told, and has made of it so far.    *)
Started ==
  /\ cmd \in Commands /\ exit = "none" /\ ~unflushed
  /\ unsafe \/ \E n \in Names : Holds(before[n])
  /\ cmd.mode = "encode" => /\ output # NoFile => input # NoFile
                            /\ input # NoFile => before[input].form # "archive"
  /\ cmd.mode = "test" => output = NoFile

Preparing ==
  /\ fs = before /\ NoCodec
  /\ at = "create" /\ input # NoFile => fs[input] # Absent

Product == IF cmd.mode = "encode" THEN Archive(written) ELSE Plain(plain)
Removed == at = "close" /\ cmd.rm /\ input # NoFile

Working ==
  /\ input # NoFile => before[input] # Absent
  /\ source = IF input = NoFile THEN Plain(UserData)
              ELSE IF input = output THEN OwnHeader ELSE before[input]
  /\ segments = IF cmd.mode = "encode" THEN <<>> ELSE SegmentsOf(source)
  /\ cmd.mode = "encode" => status \in {"open", "ending", "closed", "failed"}
  /\ cmd.mode # "encode" => status \in {"open", "done", "refused", "ioFailed"}
  /\ at # "process" => Succeeded
  /\ at = "remove" => cmd.rm /\ input # NoFile
  /\ output # NoFile => before[output] = Absent \/ cmd.force
  /\ unsafe \/ \E n \in Names \ {output} : Holds(before[n])
  /\ \A n \in Names :
       fs[n] = IF Removed /\ n = input THEN Absent
               ELSE IF n = output THEN Product ELSE before[n]

Running == at # "idle" =>
  /\ Started
  /\ IF at \in {"open", "create"} THEN Preparing ELSE Working

(***************************************************************************)
(* Whatever commands the user enters and wherever they fail or are killed, *)
(* the data stays in the directory, plain or as a whole archive.  Only     *)
(* three things can take the last copy: overwriting that very file with    *)
(* -f, removing it with -rm as an input that has no other file for output, *)
(* and an error of Close on the file that holds it.                        *)
(***************************************************************************)
DataSurvives == unsafe \/ \E n \in Names : Holds(fs[n])

(***************************************************************************)
(* A run that ends with 0 has done its work: the output file is the whole  *)
(* archive of the input, or all that an intact archive holds, unless Close *)
(* has failed or the output was the input.                                 *)
(***************************************************************************)
SuccessIsWhole ==
  exit = "0" /\ input # output /\ ~unflushed =>
    /\ cmd.mode = "encode" /\ output # NoFile =>
         fs[output] = Archive(Stream(before[input].data))
    /\ cmd.mode = "decode" /\ input # NoFile =>
         LET s == SegmentsOf(before[input])
         IN  /\ s = <<>> \/ Decoder!Intact(s)
             /\ output # NoFile => fs[output] = Plain(Decoder!Content(s))

(***************************************************************************)
(* A run changes nothing but its output file, and removes nothing but its  *)
(* input, and that only with -rm and when it has not failed before.  A     *)
(* file that was there stays as it is unless -f was given.                 *)
(***************************************************************************)
OthersUntouched ==
  \A n \in Names :
    \/ fs[n] = before[n]
    \/ n = output /\ (before[n] = Absent \/ cmd.force)
    \/ /\ n = input /\ fs[n] = Absent /\ cmd.rm
       /\ status \in {"closed", "done"}

(***************************************************************************)
(* A file that a run has written, whether it ended well, failed or was     *)
(* killed, gives the user only a beginning of what the run's input gave    *)
(* when the run began: so a file that many runs have made from one another *)
(* gives a beginning of the data, unless a file was compressed onto itself *)
(* in parallel, which gives a beginning of a stream header.  An archive in *)
(* which a loss goes unnoticed, because it ends between two blocks, has    *)
(* lost whole blocks of the file that it was made from.                    *)
(***************************************************************************)
Gives(f) == IF f.form = "archive" THEN Decoder!Content(f.segments)
            ELSE IF f.form = "plain" THEN f.data ELSE <<>>

InputGave == IF input = NoFile THEN UserData
             ELSE IF input = output THEN OwnHeader.data ELSE Gives(before[input])

LeftoversArePrefixes ==
  \A n \in Names :
    /\ \E d \in Feeds : IsPrefix(Gives(fs[n]), d)
    /\ fs[n] # before[n] => IsPrefix(Gives(fs[n]), InputGave)
    /\ fs[n] # before[n] /\ fs[n].form = "archive" /\ Decoder!Intact(fs[n].segments) =>
         Gives(fs[n]) = source.data \/ Len(Gives(fs[n])) % BlockSize = 0

(***************************************************************************)
(* The inductive invariant: the properties above, and what a run under way *)
(* has made of what it was told.                                           *)
(***************************************************************************)
Inv == /\ CommandTypeOK /\ Encoding /\ Decoding /\ Running
       /\ DataSurvives /\ SuccessIsWhole /\ OthersUntouched /\ LeftoversArePrefixes
=============================================================================

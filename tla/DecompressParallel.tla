------------------------- MODULE DecompressParallel -------------------------
(***************************************************************************)
(* cmd/bzip3/main.go, decompressParallel: the main goroutine reads up to   *)
(* Workers blocks, starts one goroutine per block to decode it in place,   *)
(* waits for all of them, and writes the decoded blocks in order up to the *)
(* first that failed.  The file may be of any origin, and reads and writes *)
(* may fail.                                                               *)
(***************************************************************************)
EXTENDS FileContents

CONSTANTS Files,    \* the files it may be given
          Workers   \* the -j flag; the parallel path is taken for -j 2 and above

ASSUME FilesAssumption   == \A f \in Files : IsFile(f)
ASSUME WorkersAssumption == Workers \in Nat \ {0, 1}

Slot == 0..Workers - 1

VARIABLES
  file,       \* the input file, by segments
  fpos,       \* segments read from it
  out,        \* the blocks written, one element for each Write
  blockSize,  \* block size of the stream header (0 before it has been read)
  buffers,    \* buffers[s]: what is in block buffer s
  newSizes,   \* block header sizes of the block in slot s
  origSizes,
  dSizes,     \* what the DecodeBlock of slot s returned: the size ...
  errs,       \* ... and the error
  worker,     \* goroutine of slot s: "none", "started" or "done"
  n,          \* blocks in the current round
  i,          \* next slot to write
  eof,        \* the end of the file has been met, on a block boundary
  ioErr,      \* environment: a read or write of the underlying files has failed
  pc,         \* where the main goroutine is
  result      \* what decompressParallel returned: "none" before it does

input == <<file, fpos, blockSize, eof, ioErr>>
slots == <<buffers, newSizes, origSizes, dSizes, errs, worker>>
vars  == <<file, fpos, blockSize, eof, ioErr, buffers, newSizes, origSizes, dSizes, errs,
           worker, n, i, pc, result, out>>

Init == /\ file \in Files
        /\ fpos = 0
        /\ out = <<>>
        /\ blockSize = 0
        /\ buffers = [s \in Slot |-> Raw(<<>>)]
        /\ newSizes = [s \in Slot |-> 0]
        /\ origSizes = [s \in Slot |-> 0]
        /\ dSizes = [s \in Slot |-> 0]
        /\ errs = [s \in Slot |-> "nil"]
        /\ worker = [s \in Slot |-> "none"]
        /\ n = 0
        /\ i = 0
        /\ eof = FALSE
        /\ ioErr = FALSE
        /\ pc = "header"
        /\ result = "none"

-----------------------------------------------------------------------------
Return(r) == pc' = "returned" /\ result' = r
Goto(l)   == pc' = l /\ UNCHANGED result
IoError   == ioErr' = TRUE

RoundFull(k) == k = Workers

(* Faulty variants: nobody waits; Workers goroutines are waited for instead  *)
(* of n.                                                                     *)
AllDoneAssumed == TRUE
AllDoneOfAll   == \A s \in Slot : worker[s] = "done"

AllDone == \A s \in Slot : worker[s] \in {"none", "done"}

(* Faulty variant: io.ErrUnexpectedEOF is taken for io.EOF. *)
AtEndOrShort == fpos = Len(SelectSeq(file, LAMBDA seg : seg # Part))

AtEnd    == fpos = Len(file)
Seg      == file[fpos + 1]
Short    == ~AtEnd /\ Seg = Part          \* io.ErrUnexpectedEOF
Whole(k) == ~AtEnd /\ Seg.kind = k
Consume  == fpos' = fpos + 1

(* Any failure to read the whole stream header is a malformed header, the    *)
(* end of an empty file included.                                            *)
ReadHeader ==
  /\ pc = "header"
  /\ \/ IoError /\ Return("malformed") /\ UNCHANGED <<fpos, blockSize>>
     \/ (AtEnd \/ Short) /\ Return("malformed") /\ UNCHANGED <<fpos, blockSize, ioErr>>
     \/ /\ Whole("header")
        /\ Consume
        /\ UNCHANGED ioErr
        /\ IF Seg.magic /\ ValidBlockSize(Seg.blockSize)
             THEN blockSize' = Seg.blockSize /\ Goto("read")
             ELSE Return("malformed") /\ UNCHANGED blockSize
  /\ UNCHANGED <<file, eof, slots, n, i, out>>

(* The block header of slot n, or the end of the file: then the round has    *)
(* only the blocks read so far, and an empty round ends the program.         *)
ReadBlockHeader ==
  /\ pc = "read"
  /\ \/ IoError /\ Return("readErr") /\ UNCHANGED <<fpos, eof, newSizes, origSizes>>
     \/ /\ AtEnd
        /\ eof' = TRUE
        /\ IF n = 0 THEN Return("nil") ELSE Goto("spawn")
        /\ UNCHANGED <<fpos, ioErr, newSizes, origSizes>>
     \/ /\ Short
        /\ Return("truncated")
        /\ UNCHANGED <<fpos, eof, ioErr, newSizes, origSizes>>
     \/ /\ Whole("blockHeader")
        /\ Consume
        /\ newSizes' = [newSizes EXCEPT ![n] = Seg.newSize]
        /\ origSizes' = [origSizes EXCEPT ![n] = Seg.origSize]
        /\ IF SizesInBounds(Seg, blockSize) THEN Goto("payload") ELSE Return("malformed")
        /\ UNCHANGED <<eof, ioErr>>
  /\ UNCHANGED <<file, blockSize, buffers, dSizes, errs, worker, n, i, out>>

(* Any failure to read the whole payload is reported as truncated data.      *)
ReadPayload ==
  /\ pc = "payload"
  /\ \/ /\ IoError \/ ((AtEnd \/ Short) /\ UNCHANGED ioErr)
        /\ Return("truncated")
        /\ buffers' = [buffers EXCEPT ![n] = Junk]
        /\ UNCHANGED <<fpos, n>>
     \/ /\ Whole("payload")
        /\ Consume
        /\ buffers' = [buffers EXCEPT ![n] = Seg.body]
        /\ n' = n + 1
        /\ UNCHANGED ioErr
        /\ Goto(IF RoundFull(n + 1) THEN "spawn" ELSE "read")
  /\ UNCHANGED <<file, blockSize, eof, newSizes, origSizes, dSizes, errs, worker, i, out>>

Spawn == /\ pc = "spawn"
         /\ worker' = [s \in Slot |-> IF s < n THEN "started" ELSE "none"]
         /\ Goto("wait")
         /\ UNCHANGED <<input, buffers, newSizes, origSizes, dSizes, errs, n, i, out>>

(* The goroutine of slot s decodes the block in place.                       *)
Goroutine(s) ==
  /\ worker[s] = "started"
  /\ worker' = [worker EXCEPT ![s] = "done"]
  /\ \E d \in DecodeResults(buffers[s], origSizes[s], blockSize) :
       /\ errs' = [errs EXCEPT ![s] = d.err]
       /\ dSizes' = [dSizes EXCEPT ![s] = IF d.err = "nil" THEN Len(d.data) ELSE -1]
       /\ buffers' = [buffers EXCEPT ![s] = IF d.err = "nil" THEN Raw(d.data) ELSE Junk]
  /\ UNCHANGED <<input, newSizes, origSizes, n, i, pc, result, out>>

(* Faulty variant of Wait: the first block of the round is skipped. *)
WaitSkipsFirst == /\ pc = "wait"
                  /\ AllDone
                  /\ i' = IF n > 1 THEN 1 ELSE 0
                  /\ Goto("write")
                  /\ UNCHANGED <<input, slots, n, out>>

(* wg.Wait() *)
Wait == /\ pc = "wait"
        /\ AllDone
        /\ i' = 0
        /\ Goto("write")
        /\ UNCHANGED <<input, slots, n, out>>

(* Write the block of slot i unless it failed to decode or came out with     *)
(* another size than its header gives.  After the last one of the round,     *)
(* return if the file has ended, otherwise read on.                          *)
Write ==
  /\ pc = "write"
  /\ IF errs[i] # "nil" THEN Return(errs[i]) /\ UNCHANGED <<out, n, i, ioErr>>
     ELSE IF dSizes[i] # origSizes[i] THEN Return("malformed") /\ UNCHANGED <<out, n, i, ioErr>>
     ELSE \/ /\ out' = Append(out, SubSeq(buffers[i].data, 1, origSizes[i]))
             /\ IF i + 1 < n
                  THEN i' = i + 1 /\ Goto("write") /\ UNCHANGED n
                  ELSE /\ IF eof THEN Return("nil") ELSE Goto("read")
                       /\ n' = 0
                       /\ i' = 0
             /\ UNCHANGED ioErr
          \/ /\ \E k \in 0..origSizes[i] :
                  out' = IF k = 0 THEN out
                         ELSE Append(out, SubSeq(buffers[i].data, 1, k))
             /\ IoError
             /\ Return("writeErr")
             /\ UNCHANGED <<n, i>>
  /\ UNCHANGED <<file, fpos, blockSize, eof, slots>>

Main == ReadHeader \/ ReadBlockHeader \/ ReadPayload \/ Spawn \/ Wait \/ Write

(* decompressParallel has returned; the process goes on elsewhere. *)
Returned == pc = "returned" /\ UNCHANGED vars

Next == Main \/ (\E s \in Slot : Goroutine(s)) \/ Returned

Spec == Init /\ [][Next]_vars

(* The Go scheduler runs every goroutine that can run, and reads and writes *)
(* on the underlying files complete.                                        *)
FairSpec == /\ Spec
            /\ WF_vars(Main)
            /\ \A s \in Slot : WF_vars(Goroutine(s))

-----------------------------------------------------------------------------
BufferContent == [tag : {"raw", "enc", "junk"}, data : Seq(Byte)]

TypeOK ==
  /\ file \in Files
  /\ fpos \in 0..Len(file)
  /\ out \in Seq(Seq(Byte))
  /\ blockSize \in {0} \cup MinBlockSize..MaxBlockSize
  /\ buffers \in [Slot -> BufferContent]
  /\ newSizes \in [Slot -> Int]
  /\ origSizes \in [Slot -> Int]
  /\ dSizes \in [Slot -> Nat \cup {-1}]
  /\ errs \in [Slot -> {"nil", "crc"}]
  /\ worker \in [Slot -> {"none", "started", "done"}]
  /\ n \in 0..Workers
  /\ i \in Slot
  /\ eof \in BOOLEAN
  /\ ioErr \in BOOLEAN
  /\ pc \in {"header", "read", "payload", "spawn", "wait", "write", "returned"}
  /\ result \in {"none", "nil", "malformed", "truncated", "crc", "readErr", "writeErr"}

(***************************************************************************)
(* While a goroutine has a buffer the main goroutine waits; and a buffer   *)
(* is written only when the goroutine that decoded it in this very round   *)
(* has ended, so a block is never the leftover of an earlier round.        *)
(***************************************************************************)
BarrierHolds ==
  /\ \A s \in Slot : worker[s] = "started" => pc = "wait" /\ s < n
  /\ pc = "write" => /\ i < n
                     /\ \A s \in 0..n - 1 :
                          /\ worker[s] = "done"
                          /\ origSizes[s] = file[fpos - 2 * (n - s) + 1].origSize
                          /\ errs[s] = "nil" =>
                               buffers[s] = Raw(file[fpos - 2 * (n - s) + 2].body.data)

(* The arrays that are reused from round to round hold, where they are       *)
(* read, the blocks of this round.                                           *)
Inv == TypeOK /\ BarrierHolds

(* The program terminates, whatever its files do.                            *)
Terminates == <>(pc = "returned")

(***************************************************************************)
(* decompressParallel implements the same abstract decoder as the Reader   *)
(* (an I/O error counts as one whatever error it is reported as).          *)
(***************************************************************************)
Status ==
  CASE result = "none" -> "open"
    [] result = "nil"  -> "done"
    [] ioErr           -> "ioFailed"
    [] OTHER           -> "refused"

Abstract == INSTANCE DecodedStream
              WITH out <- FlattenSeq(out), status <- Status

RefinesDecodedStream == Abstract!Spec

(***************************************************************************)
(* When a file is refused, all good blocks that come before the fault have *)
(* been written, unless the fault was met while reading the round: then    *)
(* the good blocks of that round, Workers - 1 at most, are lost, which the *)
(* sequential Reader would have delivered.                                 *)
(***************************************************************************)
LossIsBounded ==
  Status = "refused" =>
    LET good == GoodBlocks(file)
    IN  Len(out) \in {good, Workers * (good \div Workers)}
=============================================================================

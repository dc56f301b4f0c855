-------------------------- MODULE CompressParallel --------------------------
(***************************************************************************)
(* cmd/bzip3/main.go, compressParallel: the main goroutine reads up to     *)
(* Workers blocks, starts one goroutine per block to encode it in place in *)
(* its own buffer, waits for all of them, writes the blocks in order and   *)
(* starts over with the same buffers.                                      *)
(***************************************************************************)
EXTENDS Bzip3Format

CONSTANTS Input,    \* the bytes the input file may hold: it holds the first of them
          Workers   \* the -j flag; the parallel path is taken for -j 2 and above

ASSUME InputAssumption   == Input \in Seq(Byte)
ASSUME WorkersAssumption == Workers \in Nat \ {0, 1}

Slot == 0..Workers - 1

VARIABLES
  pos,        \* bytes of Input the current and earlier rounds have read
  eof,        \* whether a read has met the end of the input file
  out,        \* segments written
  buffers,    \* buffers[i]: what is in block buffer i
  origSizes,  \* bytes read into buffer i
  newSizes,   \* compressed size the goroutine of slot i returned
  worker,     \* goroutine of slot i: "none", "started", "encoding" or "done"
  n,          \* blocks in the current round
  i,          \* next slot to write
  pc,         \* where the main goroutine is
  result      \* what compressParallel returned: "none" before it does

vars == <<pos, eof, out, buffers, origSizes, newSizes, worker, n, i, pc, result>>

Init == /\ pos = 0
        /\ eof = FALSE
        /\ out = <<>>
        /\ buffers = [s \in Slot |-> Raw(<<>>)]
        /\ origSizes = [s \in Slot |-> 0]
        /\ newSizes = [s \in Slot |-> 0]
        /\ worker = [s \in Slot |-> "none"]
        /\ n = 0
        /\ i = 0
        /\ pc = "header"
        /\ result = "none"

Return(r) == pc' = "returned" /\ result' = r

RoundFull(k) == k = Workers

(* Faulty variant: a full round is taken for the last one. *)
LastRoundLate == n <= Workers

LastRound == n < Workers

(* Faulty variants: nobody waits; Workers goroutines are waited for instead  *)
(* of n.                                                                     *)
AllDoneAssumed == TRUE
AllDoneOfAll   == \A s \in Slot : worker[s] = "done"

AllDone == \A s \in Slot : worker[s] \in {"none", "done"}

-----------------------------------------------------------------------------
(* One Write of the main goroutine, which then goes to next or returns the  *)
(* write error, leaving none or part of the segment behind.                 *)
WriteFails == /\ out' \in {out, Append(out, Part)}
              /\ Return("writeErr")

WriteHeader ==
  /\ pc = "header"
  /\ \/ /\ out' = Append(out, Header(BlockSize))
        /\ pc' = "read"
        /\ UNCHANGED result
     \/ WriteFails
  /\ UNCHANGED <<pos, eof, buffers, origSizes, newSizes, worker, n, i>>

(* io.ReadFull into the buffer of slot n delivers a whole block ...          *)
ReadBlock ==
  /\ pc = "read"
  /\ ~eof
  /\ Len(Input) - pos >= BlockSize
  /\ buffers' = [buffers EXCEPT ![n] = Raw(SubSeq(Input, pos + 1, pos + BlockSize))]
  /\ origSizes' = [origSizes EXCEPT ![n] = BlockSize]
  /\ pos' = pos + BlockSize
  /\ n' = n + 1
  /\ pc' = IF RoundFull(n + 1) THEN "spawn" ELSE "read"
  /\ UNCHANGED <<eof, out, newSizes, worker, i, result>>

(* ... or what is left of the input and io.EOF or io.ErrUnexpectedEOF; a     *)
(* round without any block ends the program ...                             *)
ReadEnd ==
  /\ pc = "read"
  /\ \E m \in IF eof THEN {0} ELSE 0..MinOf(BlockSize - 1, Len(Input) - pos) :
       /\ origSizes' = [origSizes EXCEPT ![n] = m]
       /\ buffers' = IF m > 0 THEN [buffers EXCEPT ![n] = Raw(SubSeq(Input, pos + 1, pos + m))]
                     ELSE buffers
       /\ pos' = pos + m
       /\ n' = IF m > 0 THEN n + 1 ELSE n
  /\ eof' = TRUE
  /\ IF n' = 0 THEN Return("nil") ELSE pc' = "spawn" /\ UNCHANGED result
  /\ UNCHANGED <<out, newSizes, worker, i>>

(* ... or any other error.                                                   *)
ReadFails == /\ pc = "read"
             /\ Return("readErr")
             /\ UNCHANGED <<pos, eof, out, buffers, origSizes, newSizes, worker, n, i>>

Spawn == /\ pc = "spawn"
         /\ worker' = [s \in Slot |-> IF s < n THEN "started" ELSE "none"]
         /\ pc' = "wait"
         /\ UNCHANGED <<pos, eof, out, buffers, origSizes, newSizes, n, i, result>>

(* The goroutine of slot s: EncodeBlock overwrites the buffer as it goes and *)
(* leaves the encoded block in it.                                           *)
BeginEncode(s) ==
  /\ worker[s] = "started"
  /\ worker' = [worker EXCEPT ![s] = "encoding"]
  /\ buffers' = [buffers EXCEPT ![s] = Busy(SubSeq(buffers[s].data, 1, origSizes[s]))]
  /\ UNCHANGED <<pos, eof, out, origSizes, newSizes, n, i, pc, result>>

EndEncode(s) ==
  /\ worker[s] = "encoding"
  /\ worker' = [worker EXCEPT ![s] = "done"]
  /\ buffers' = [buffers EXCEPT ![s] = Enc(buffers[s].data)]
  /\ newSizes' = [newSizes EXCEPT ![s] = EncSize(buffers[s].data)]
  /\ UNCHANGED <<pos, eof, out, origSizes, n, i, pc, result>>

(* wg.Wait() *)
Wait == /\ pc = "wait"
        /\ AllDone
        /\ i' = 0
        /\ pc' = "writeHeader"
        /\ UNCHANGED <<pos, eof, out, buffers, origSizes, newSizes, worker, n, result>>

WriteBlockHeader ==
  /\ pc = "writeHeader"
  /\ \/ /\ out' = Append(out, BlockHeader(newSizes[i], origSizes[i]))
        /\ pc' = "writePayload"
        /\ UNCHANGED result
     \/ WriteFails
  /\ UNCHANGED <<pos, eof, buffers, origSizes, newSizes, worker, n, i>>

(* After the last block of the round: return if it was not a full round,     *)
(* otherwise read the next one into the same buffers.                        *)
WritePayload ==
  /\ pc = "writePayload"
  /\ \/ /\ out' = Append(out, Payload(newSizes[i], buffers[i]))
        /\ IF i + 1 < n
             THEN i' = i + 1 /\ pc' = "writeHeader" /\ UNCHANGED <<n, result>>
             ELSE /\ IF LastRound THEN Return("nil") ELSE pc' = "read" /\ UNCHANGED result
                  /\ n' = 0
                  /\ i' = 0
     \/ WriteFails /\ UNCHANGED <<n, i>>
  /\ UNCHANGED <<pos, eof, buffers, origSizes, newSizes, worker>>

Main == \/ WriteHeader
        \/ ReadBlock
        \/ ReadEnd
        \/ ReadFails
        \/ Spawn
        \/ Wait
        \/ WriteBlockHeader
        \/ WritePayload

Goroutine(s) == BeginEncode(s) \/ EndEncode(s)

(* compressParallel has returned; the process goes on elsewhere. *)
Returned == pc = "returned" /\ UNCHANGED vars

Next == Main \/ (\E s \in Slot : Goroutine(s)) \/ Returned

Spec == Init /\ [][Next]_vars

(* The Go scheduler runs every goroutine that can run, and reads and writes *)
(* on the underlying files complete.                                        *)
FairSpec == /\ Spec
            /\ WF_vars(Main)
            /\ \A s \in Slot : WF_vars(Goroutine(s))

-----------------------------------------------------------------------------
BufferContent == [tag : {"raw", "busy", "enc"}, data : Seq(Byte)]

TypeOK ==
  /\ pos \in 0..Len(Input)
  /\ eof \in BOOLEAN
  /\ out \in Seq(Segments(BufferContent))
  /\ buffers \in [Slot -> BufferContent]
  /\ origSizes \in [Slot -> 0..BlockSize]
  /\ newSizes \in [Slot -> Int]
  /\ worker \in [Slot -> {"none", "started", "encoding", "done"}]
  /\ n \in 0..Workers
  /\ i \in Slot
  /\ pc \in {"header", "read", "spawn", "wait", "writeHeader", "writePayload", "returned"}
  /\ result \in {"none", "nil", "readErr", "writeErr"}

Data == SubSeq(Input, 1, pos)

(***************************************************************************)
(* Whatever the order in which the goroutines run, and wherever a read or  *)
(* write fails, the output is the beginning of the stream the sequential   *)
(* Writer produces for the same input, but for a segment cut short by a    *)
(* failed write.                                                           *)
(***************************************************************************)
OutIsStreamPrefix ==
  \A k \in 1..Len(out) :
    \/ out[k] = Segment(Data, k)
    \/ out[k] = Part /\ k = Len(out) /\ result = "writeErr"

(* It returns nil only at the end of the input, with all of it encoded.      *)
NilMeansComplete == result = "nil" => eof /\ out = Stream(Data)

(***************************************************************************)
(* A block buffer has one owner at a time: while a goroutine has it the    *)
(* main goroutine is waiting, and a buffer that a round has filled is not  *)
(* filled again before its block is written or the program gives up.       *)
(***************************************************************************)
BufferOwnership ==
  [][\A s \in Slot :
       buffers'[s] # buffers[s] =>
         \/ worker[s] \in {"started", "encoding"} /\ pc = "wait"
         \/ /\ pc = "read" /\ worker[s] \in {"none", "done"}
            /\ buffers[s] = Raw(<<>>)
               \/ \E k \in 1..Len(out) : out[k] = Payload(newSizes[s], buffers[s])]_vars

(* The program terminates, whatever its files do.                            *)
Terminates == <>(pc = "returned")

(***************************************************************************)
(* compressParallel implements the same abstract encoder as the Writer.    *)
(* The end of the input is known once a read has met it.                   *)
(***************************************************************************)
StreamStatus ==
  CASE result = "nil"                      -> "closed"
    [] result \in {"readErr", "writeErr"}  -> "failed"
    [] OTHER -> IF eof THEN "ending" ELSE "open"

Abstract == INSTANCE EncodedStream WITH taken <- pos, status <- StreamStatus

RefinesEncodedStream == Abstract!Spec
=============================================================================

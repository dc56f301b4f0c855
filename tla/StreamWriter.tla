---------------------------- MODULE StreamWriter ----------------------------
(***************************************************************************)
(* writer.go: the streaming Writer.  A caller hands it the bytes of Input  *)
(* in order, in chunks of any size, and may Close it at any time; the      *)
(* underlying io.Writer may fail, possibly after taking part of what it    *)
(* was given.  One step is one underlying Write, or one turn of the copy   *)
(* loop between two of them.                                               *)
(***************************************************************************)
EXTENDS Bzip3Format

CONSTANT Input          \* the bytes the caller may write, in order

ASSUME InputAssumption == Input \in Seq(Byte)

VARIABLES
  sink,        \* segments the underlying writer has received
  buf,         \* w.buf: bytes of the current block, or the encoded block
  n,           \* w.n: bytes buffered for the current block
  wroteHdr,    \* w.wroteHdr
  err,         \* w.err
  blockCount,  \* w.blockCount
  pc,          \* where the call in progress is; "idle" between calls
  op,          \* the call in progress (or the last one)
  given,       \* bytes of Input handed to Write so far
  taken        \* bytes of those that Write has copied into w.buf

fields == <<buf, n, wroteHdr, err, blockCount>>
vars == <<sink, buf, n, wroteHdr, err, blockCount, pc, op, given, taken>>

Init == /\ sink = <<>>
        /\ buf = Raw(<<>>)
        /\ n = 0
        /\ wroteHdr = FALSE
        /\ err = "nil"
        /\ blockCount = 0
        /\ pc = "idle"
        /\ op = "write"
        /\ given = 0
        /\ taken = 0

-----------------------------------------------------------------------------
(* The underlying writer takes seg, or fails having taken none or part of it *)
SinkTakes(seg) == sink' = Append(sink, seg)

(* Faulty variant: the error is reported to this caller but not kept.        *)
SinkFailsUnnoticed == /\ sink' \in {sink, Append(sink, Part)}
                      /\ UNCHANGED err
                      /\ pc' = "idle"

SinkFails == /\ sink' \in {sink, Append(sink, Part)}
             /\ err' = "sink"
             /\ pc' = "idle"

(* Where a call goes once the stream header is there. *)
Body(o) == IF o = "write" THEN "copy" ELSE "close"

(* Faulty variant: a call does not look at the error of an earlier one.      *)
CallRegardless(o) == /\ pc = "idle"
                     /\ op' = o
                     /\ pc' = IF wroteHdr THEN Body(o) ELSE "header"
                     /\ UNCHANGED <<sink, buf, n, wroteHdr, err, blockCount, taken>>

Call(o) == /\ pc = "idle"
           /\ op' = o
           /\ IF err # "nil" THEN pc' = "idle"
              ELSE pc' = IF wroteHdr THEN Body(o) ELSE "header"
           /\ UNCHANGED <<sink, buf, n, wroteHdr, err, blockCount, taken>>

(* Write(p), p being the next g - given bytes; a failed or closed writer    *)
(* refuses them.                                                            *)
CallWrite == /\ Call("write")
             /\ \E g \in given..Len(Input) :
                   given' = IF err # "nil" THEN given ELSE g

CallClose == Call("close") /\ UNCHANGED given

WriteHeader == /\ pc = "header"
               /\ wroteHdr' = TRUE
               /\ \/ SinkTakes(Header(BlockSize)) /\ pc' = Body(op) /\ UNCHANGED err
                  \/ SinkFails
               /\ UNCHANGED <<buf, n, blockCount, op, given, taken>>

(* Faulty variants: a full block is not flushed; it is flushed one byte early. *)
FullMissed(k) == k > BlockSize
FullEarly(k)  == k >= BlockSize - 1

Full(k) == k = BlockSize

(* One turn of Write's loop: copy into w.buf[w.n:blockSize]. *)
Copy == /\ pc = "copy"
        /\ taken < given
        /\ LET m == MinOf(BlockSize - n, given - taken)
           IN  /\ buf' = Raw(SubSeq(buf.data, 1, n) \o SubSeq(Input, taken + 1, taken + m))
               /\ n' = n + m
               /\ taken' = taken + m
               /\ pc' = IF Full(n + m) THEN "flush" ELSE "copy"
        /\ UNCHANGED <<sink, wroteHdr, err, blockCount, op, given>>

WriteReturns == /\ pc = "copy"
                /\ taken = given
                /\ pc' = "idle"
                /\ UNCHANGED <<sink, buf, n, wroteHdr, err, blockCount, op, given, taken>>

(* flushBlock up to the block header: the buffer is reset, the block is      *)
(* encoded in place and its header is written.                               *)
FlushHeader ==
  /\ pc = "flush"
  /\ n' = 0
  /\ LET b == SubSeq(buf.data, 1, n)
     IN  /\ buf' = Enc(b)
         /\ \/ SinkTakes(BlockHeader(EncSize(b), n)) /\ pc' = "payload" /\ UNCHANGED err
            \/ SinkFails
  /\ UNCHANGED <<wroteHdr, blockCount, op, given, taken>>

(* Faulty variant: the block is counted before it is written. *)
FlushPayloadCountsFirst ==
  /\ pc = "payload"
  /\ blockCount' = blockCount + 1
  /\ \/ SinkTakes(Payload(EncSize(buf.data), buf)) /\ pc' = Body(op) /\ UNCHANGED err
     \/ SinkFails
  /\ UNCHANGED <<buf, n, wroteHdr, op, given, taken>>

(* flushBlock from there: write the encoded block and count it. *)
FlushPayload ==
  /\ pc = "payload"
  /\ \/ /\ SinkTakes(Payload(EncSize(buf.data), buf))
        /\ blockCount' = blockCount + 1
        /\ pc' = Body(op)
        /\ UNCHANGED err
     \/ SinkFails /\ UNCHANGED blockCount
  /\ UNCHANGED <<buf, n, wroteHdr, op, given, taken>>

(* Close: flush a short last block if there is one, then refuse all calls. *)
CloseFlush == /\ pc = "close"
              /\ n > 0
              /\ pc' = "flush"
              /\ UNCHANGED <<sink, buf, n, wroteHdr, err, blockCount, op, given, taken>>

(* Faulty variant: Close does not look for a short last block. *)
CloseReturnsEarly == /\ pc = "close"
                     /\ err' = "closed"
                     /\ pc' = "idle"
                     /\ UNCHANGED <<sink, buf, n, wroteHdr, blockCount, op, given, taken>>

CloseReturns == /\ pc = "close"
                /\ n = 0
                /\ err' = "closed"
                /\ pc' = "idle"
                /\ UNCHANGED <<sink, buf, n, wroteHdr, blockCount, op, given, taken>>

Step == \/ WriteHeader
        \/ Copy
        \/ WriteReturns
        \/ FlushHeader
        \/ FlushPayload
        \/ CloseFlush
        \/ CloseReturns

Next == CallWrite \/ CallClose \/ Step

Spec == Init /\ [][Next]_vars

(* A call that has begun runs on: the goroutine is scheduled and the        *)
(* underlying writer answers.  Nothing obliges the caller to call again.    *)
FairSpec == Spec /\ WF_vars(Step)

-----------------------------------------------------------------------------
Data == SubSeq(Input, 1, taken)

SinkSegments == Segments([tag : {"enc"}, data : Seq(Byte)])
Buffers == [tag : {"raw", "enc"}, data : Seq(Byte)]

TypeOK ==
  /\ sink \in Seq(SinkSegments)
  /\ buf \in Buffers
  /\ n \in 0..BlockSize
  /\ wroteHdr \in BOOLEAN
  /\ err \in {"nil", "sink", "closed"}
  /\ blockCount \in Nat
  /\ pc \in {"idle", "header", "copy", "flush", "payload", "close"}
  /\ op \in {"write", "close"}
  /\ given \in 0..Len(Input)
  /\ taken \in 0..given

(***************************************************************************)
(* However the caller cuts its data into Write calls, what has reached the *)
(* underlying writer is the beginning of the stream the format prescribes  *)
(* for the bytes taken, but for a last segment a failed write cut short.   *)
(***************************************************************************)
SinkIsStreamPrefix ==
  \A i \in 1..Len(sink) :
    \/ sink[i] = Segment(Data, i)
    \/ sink[i] = Part /\ i = Len(sink) /\ err = "sink"

(***************************************************************************)
(* Once Close has returned nil the stream is whole and holds every byte    *)
(* that was ever handed to Write.                                          *)
(***************************************************************************)
CloseMeansComplete ==
  err = "closed" => /\ taken = given
                    /\ sink = Stream(Data)

(***************************************************************************)
(* After the first error, or after Close, no call writes anything: a       *)
(* segment cut short by a failed write stays the last thing in the sink.   *)
(***************************************************************************)
SilentAfterError == [][err # "nil" => UNCHANGED <<sink, err, taken>>]_vars

(* Every call returns, once the underlying writer answers each Write.       *)
CallsReturn == pc # "idle" ~> pc = "idle"

(***************************************************************************)
(* The Writer implements the abstract encoder: the end of the input is     *)
(* known from the moment Close is called.                                  *)
(***************************************************************************)
StreamStatus ==
  CASE err = "closed" -> "closed"
    [] err = "sink"   -> "failed"
    [] OTHER          -> IF pc # "idle" /\ op = "close" THEN "ending" ELSE "open"

Abstract == INSTANCE EncodedStream WITH out <- sink, status <- StreamStatus

RefinesEncodedStream == Abstract!Spec

-----------------------------------------------------------------------------
(* The buffer holds the n bytes that follow those of the blocks counted.     *)
Buffered ==
  /\ n <= Len(buf.data)
  /\ taken = blockCount * BlockSize + n
  /\ SubSeq(buf.data, 1, n) = SubSeq(Input, taken - n + 1, taken)

(* How far each control point has got with the header, the blocks and the    *)
(* bytes; a block shorter than the block size is flushed by Close only.      *)
Position ==
  /\ err # "nil" => pc = "idle"
  /\ pc = "header" => ~wroteHdr
  /\ pc \notin {"idle", "header"} => wroteHdr
  /\ ~wroteHdr => sink = <<>> /\ taken = 0 /\ n = 0 /\ blockCount = 0 /\ err = "nil"
  /\ err = "nil" /\ wroteHdr =>
       Len(sink) = 1 + 2 * blockCount + (IF pc = "payload" THEN 1 ELSE 0)
  /\ err = "nil" /\ pc \in {"idle", "header", "copy"} => Buffered /\ n < BlockSize
  /\ pc = "flush" => Buffered /\ n > 0 /\ (n < BlockSize => op = "close")
  /\ pc = "payload" => /\ n = 0
                       /\ buf.tag = "enc"
                       /\ Len(buf.data) \in 1..BlockSize
                       /\ Len(buf.data) < BlockSize => op = "close"
                       /\ taken = blockCount * BlockSize + Len(buf.data)
                       /\ buf.data = SubSeq(Input, blockCount * BlockSize + 1, taken)
  /\ pc = "close" => /\ op = "close"
                     /\ n > 0 => Buffered /\ n < BlockSize
                     /\ n = 0 => /\ blockCount * BlockSize < taken + BlockSize
                                 /\ taken <= blockCount * BlockSize
  /\ pc = "copy" => op = "write"
  /\ pc # "idle" /\ op = "close" => taken = given
  /\ pc = "idle" /\ err = "nil" => taken = given
  /\ err = "closed" => taken = given /\ sink = Stream(Data)

(***************************************************************************)
(* The inductive invariant: between any two steps of a call, the buffer,   *)
(* the block counter and the sink agree.                                   *)
(***************************************************************************)
IInv == TypeOK /\ Position /\ SinkIsStreamPrefix
=============================================================================

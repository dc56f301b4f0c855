---------------------------- MODULE StreamReader ----------------------------
(***************************************************************************)
(* reader.go: the streaming Reader over a file of any origin, whole,       *)
(* truncated or corrupt, whose underlying io.Reader may also fail.  The    *)
(* caller reads in pieces of any size.  One step is one io.ReadFull on the *)
(* underlying reader, one DecodeBlock, or the copy that ends a Read.       *)
(***************************************************************************)
EXTENDS FileContents

CONSTANTS Files,        \* the files the Reader may be given
          MaxRead       \* the largest buffer passed to Read

ASSUME FilesAssumption   == \A f \in Files : IsFile(f)
ASSUME MaxReadAssumption == MaxRead \in Nat \ {0}

VARIABLES
  file,       \* the underlying stream, by segments
  fpos,       \* segments read from it
  state,      \* block size of r.state (0 before the header has been read)
  readHdr,    \* r.readHdr
  buf,        \* r.buf: a compressed block, or the bytes of a decoded one
  out,        \* r.out, as the positions lo+1..hi of r.buf
  err,        \* r.err
  bh,         \* the block header being processed (a local of nextBlock)
  pc,         \* where the Read in progress is; "idle" between calls
  want,       \* len(p) of that Read
  delivered   \* the bytes all Reads have returned

vars == <<file, fpos, state, readHdr, buf, out, err, bh, pc, want, delivered>>

Init == /\ file \in Files
        /\ fpos = 0
        /\ state = 0
        /\ readHdr = FALSE
        /\ buf = Raw(<<>>)
        /\ out = [lo |-> 0, hi |-> 0]
        /\ err = "nil"
        /\ bh = BlockHeader(0, 0)
        /\ pc = "idle"
        /\ want = 0
        /\ delivered = <<>>

-----------------------------------------------------------------------------
Fail(e) == err' = e /\ pc' = "idle"

(* Faulty variant: io.ErrUnexpectedEOF is taken for io.EOF. *)
AtEndOrShort == fpos = Len(SelectSeq(file, LAMBDA seg : seg # Part))

AtEnd    == fpos = Len(file)
Seg      == file[fpos + 1]
Short    == ~AtEnd /\ Seg = Part          \* io.ErrUnexpectedEOF
Whole(k) == ~AtEnd /\ Seg.kind = k
Consume  == fpos' = fpos + 1

(* Faulty variants: Read does not look for bytes to return; it decodes the   *)
(* next block although there are bytes left.                                 *)
LoopNot(o)   == "copy"
LoopEager(o) == "block"

(* Where a Read goes when the header is known: to the copy if there are      *)
(* decoded bytes, to the next block if there are none.                       *)
Loop(o) == IF o.lo = o.hi THEN "block" ELSE "copy"

CallRead(p) ==
  /\ pc = "idle"
  /\ want' = p
  /\ IF err # "nil" THEN pc' = "idle"
     ELSE pc' = IF readHdr THEN Loop(out) ELSE "header"
  /\ UNCHANGED <<file, fpos, state, readHdr, buf, out, err, bh, delivered>>

GoodHeader(seg) == seg.magic /\ ValidBlockSize(seg.blockSize)

ReadHeader ==
  /\ pc = "header"
  /\ \/ Fail("io") /\ UNCHANGED <<fpos, state, readHdr>>
     \/ AtEnd /\ Fail("EOF") /\ UNCHANGED <<fpos, state, readHdr>>
     \/ Short /\ Fail("malformed") /\ UNCHANGED <<fpos, state, readHdr>>
     \/ /\ Whole("header")
        /\ Consume
        /\ IF GoodHeader(Seg)
             THEN /\ state' = Seg.blockSize
                  /\ readHdr' = TRUE
                  /\ pc' = Loop(out)
                  /\ UNCHANGED err
             ELSE Fail("malformed") /\ UNCHANGED <<state, readHdr>>
  /\ UNCHANGED <<file, buf, out, bh, want, delivered>>

(* nextBlock: read the block header and check the sizes in it ...             *)
ReadBlockHeader ==
  /\ pc = "block"
  /\ \/ Fail("io") /\ UNCHANGED <<fpos, bh>>
     \/ AtEnd /\ Fail("EOF") /\ UNCHANGED <<fpos, bh>>
     \/ Short /\ Fail("truncated") /\ UNCHANGED <<fpos, bh>>
     \/ /\ Whole("blockHeader")
        /\ Consume
        /\ bh' = Seg
        /\ IF SizesInBounds(Seg, state) THEN pc' = "payload" /\ UNCHANGED err
           ELSE Fail("malformed")
  /\ UNCHANGED <<file, state, readHdr, buf, out, want, delivered>>

(* ... read newSize bytes into r.buf (none, and without error, if it is 0) ... *)
ReadPayload ==
  /\ pc = "payload"
  /\ \/ Fail("io") /\ buf' = Junk /\ UNCHANGED fpos
     \/ (AtEnd \/ Short) /\ Fail("truncated") /\ buf' = Junk /\ UNCHANGED fpos
     \/ /\ Whole("payload")
        /\ Consume
        /\ buf' = Seg.body
        /\ pc' = "decode"
        /\ UNCHANGED err
  /\ UNCHANGED <<file, state, readHdr, out, bh, want, delivered>>

(* Faulty variant: a block larger than its header says is cut. *)
SizeAtLeast(data) == Len(data) >= bh.origSize

SizeRight(data) == Len(data) = bh.origSize

(* ... decode them in place, and refuse a block of another size than its      *)
(* header says.  Read goes on until a block is not empty.                     *)
Decode ==
  /\ pc = "decode"
  /\ \E d \in DecodeResults(buf, bh.origSize, state) :
       IF d.err # "nil"
         THEN Fail(d.err) /\ buf' = Junk /\ UNCHANGED out
         ELSE /\ buf' = Raw(d.data)
              /\ IF ~SizeRight(d.data)
                   THEN Fail("malformed") /\ UNCHANGED out
                   ELSE /\ out' = [lo |-> 0, hi |-> bh.origSize]
                        /\ pc' = Loop(out')
                        /\ UNCHANGED err
  /\ UNCHANGED <<file, fpos, state, readHdr, bh, want, delivered>>

Advance(m) == out' = [out EXCEPT !.lo = @ + m]

CopyOut ==
  /\ pc = "copy"
  /\ LET m == MinOf(want, out.hi - out.lo)
     IN  /\ delivered' = delivered \o SubSeq(buf.data, out.lo + 1, out.lo + m)
         /\ Advance(m)
  /\ pc' = "idle"
  /\ UNCHANGED <<file, fpos, state, readHdr, buf, err, bh, want>>

Step == ReadHeader \/ ReadBlockHeader \/ ReadPayload \/ Decode \/ CopyOut

Next == (\E p \in 0..MaxRead : CallRead(p)) \/ Step

Spec == Init /\ [][Next]_vars

(* A Read that has begun runs on.  A caller such as io.Copy keeps calling    *)
(* Read with a buffer of some length until it gets an error.                 *)
FairSpec == /\ Spec
            /\ WF_vars(Step)
            /\ SF_vars(\E p \in 1..MaxRead : CallRead(p))

-----------------------------------------------------------------------------
TypeOK ==
  /\ file \in Files
  /\ fpos \in 0..Len(file)
  /\ state \in {0} \cup MinBlockSize..MaxBlockSize
  /\ readHdr \in BOOLEAN
  /\ buf \in [tag : {"raw", "enc", "junk"}, data : Seq(Byte)]
  /\ out \in [lo : 0..Bound(MaxBlockSize), hi : 0..Bound(MaxBlockSize)]
  /\ err \in {"nil", "io", "EOF", "malformed", "truncated", "crc"}
  /\ bh \in [kind : {"blockHeader"}, newSize : Int, origSize : Int]
  /\ pc \in {"idle", "header", "block", "payload", "decode", "copy"}
  /\ want \in 0..MaxRead
  /\ delivered \in Seq(Byte)

(***************************************************************************)
(* Nothing is decoded over bytes that have not been returned yet: r.out is *)
(* a slice of the very buffer nextBlock reads into, so r.out is empty      *)
(* whenever nextBlock runs, and is otherwise part of the last good block.  *)
(* And a Read that comes to its copy has bytes to copy: a block of length  *)
(* zero never makes it return none and no error.                           *)
(***************************************************************************)
OutSliceIntact ==
  /\ pc \in {"header", "block", "payload", "decode"} => out.lo = out.hi
  /\ pc = "copy" => out.lo < out.hi
  /\ out.lo < out.hi =>
       /\ buf = Raw(file[fpos].body.data)
       /\ out.hi = file[fpos - 1].origSize

(* r.out and the fields of the Reader, as Read may find them: a slice of the *)
(* last good block, in a buffer that nothing has been read over.             *)
Inv == TypeOK /\ OutSliceIntact

(***************************************************************************)
(* The error a stream ends with is the one its first fault calls for: EOF  *)
(* exactly when the file ends on a block boundary or is empty, truncated   *)
(* when it ends inside a block, and never before every byte of the blocks  *)
(* that precede the fault has been returned.                               *)
(***************************************************************************)
Abstract == INSTANCE DecodedStream
              WITH out <- delivered,
                   status <- CASE err = "nil" -> "open"
                               [] err = "io"  -> "ioFailed"
                               [] err = "EOF" -> "done"
                               [] OTHER       -> "refused"

LastGood == 1 + 2 * GoodBlocks(file)

VerdictIsFirstFault ==
  err \notin {"nil", "io"} =>
    /\ delivered = Content(file)
    /\ err = "EOF" <=> file = <<>> \/ Intact(file)
    /\ err = "truncated" <=>
         /\ HeaderGood(file)
         /\ \/ Len(file) = LastGood + 1 /\ (file[Len(file)] = Part
                                            \/ SizesInBounds(file[Len(file)], state))
            \/ /\ Len(file) = LastGood + 2
               /\ file[Len(file)] = Part
               /\ SizesInBounds(file[LastGood + 1], state)

(* Whatever the file, a caller that goes on reading reaches the verdict, at a *)
(* block of length zero too: Read goes on to the next one.                   *)
ReachesVerdict == <>(err # "nil")

(* The Reader implements the abstract decoder.                               *)
RefinesDecodedStream == Abstract!Spec
=============================================================================

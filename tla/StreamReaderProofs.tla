-------------------------- MODULE StreamReaderProofs --------------------------
(***************************************************************************)
(* Proofs about StreamReader, for every file, every block size and every   *)
(* way to cut the output into Reads: the bytes r.out stands for are part   *)
(* of the last good block until they have been returned; the error and the *)
(* bytes returned are those of the first fault in the file; and the Reader *)
(* implements the abstract decoder.                                        *)
(***************************************************************************)
EXTENDS StreamReader, Bzip3FormatTheorems

InNextBlock == pc \in {"block", "payload", "decode"}

(* What nextBlock knows at each of its steps, and where it is in the file.   *)
Position ==
  /\ readHdr => state \in MinBlockSize..MaxBlockSize
  /\ InNextBlock \/ pc = "copy" => readHdr
  /\ ~readHdr \/ pc = "header" \/ InNextBlock => out.lo = out.hi
  /\ pc = "header" => ~readHdr
  /\ pc = "payload" => fpos >= 1 /\ bh = file[fpos]
  /\ pc = "decode" => fpos >= 2 /\ bh = file[fpos - 1] /\ buf = file[fpos].body
  /\ pc \in {"payload", "decode"} => SizesInBounds(bh, state)

(* r.out is a slice of the last good block, which is still in r.buf.         *)
OutSlice ==
  /\ out.lo <= out.hi
  /\ pc = "copy" => out.lo < out.hi
  /\ out.lo < out.hi =>
       /\ fpos >= 2
       /\ buf = Raw(file[fpos].body.data)
       /\ out.hi = file[fpos - 1].origSize
       /\ out.hi = Len(buf.data)

IInv == TypeOK /\ Position /\ OutSlice

-----------------------------------------------------------------------------
LEMMA Limits == MinBlockSize \in Nat \ {0} /\ MaxBlockSize \in Nat /\ MaxRead \in Nat \ {0}
  BY FormatAssumption, MaxReadAssumption

(* What a segment of the file is, by its kind. *)
LEMMA SegmentFields ==
  ASSUME TypeOK, ~AtEnd
  PROVE  /\ fpos \in Nat /\ fpos + 1 \in 0..Len(file)
         /\ Seg.kind = "blockHeader" => Seg \in [kind : {"blockHeader"}, newSize : Int,
                                                 origSize : Int]
         /\ Seg.kind = "payload" => Seg.body \in Bodies
  <1>1. file \in Seq(Segments(Bodies)) /\ fpos \in 0..Len(file) /\ Len(file) \in Nat
    BY FilesAssumption, LenProperties DEF TypeOK, IsFile
  <1>2. fpos \in Nat /\ fpos + 1 \in 1..Len(file)
    BY <1>1 DEF AtEnd
  <1>3. Seg \in Segments(Bodies)
    BY <1>1, <1>2, ElementOfSeq DEF Seg
  <1>4. /\ Seg.kind = "blockHeader" => Seg \in [kind : {"blockHeader"}, newSize : Int,
                                                origSize : Int]
        /\ Seg.kind = "payload" => Seg.body \in Bodies
    BY <1>3 DEF Segments, Part
  <1> QED  BY <1>1, <1>2, <1>4

(* The sizes a block header may have fit r.buf, which was made for the       *)
(* largest block.                                                            *)
LEMMA SizesFit ==
  ASSUME TypeOK, state \in MinBlockSize..MaxBlockSize, SizesInBounds(bh, state)
  PROVE  bh.origSize \in 0..Bound(MaxBlockSize)
  BY Limits DEF TypeOK, SizesInBounds, Bound

LEMMA InitInv == Init => IInv
  <1> SUFFICES ASSUME Init PROVE IInv
    OBVIOUS
  <1>1. file \in Files /\ fpos \in 0..Len(file)
    BY FilesAssumption, LenProperties DEF Init, IsFile
  <1>2. buf \in [tag : {"raw", "enc", "junk"}, data : Seq(Byte)] /\ delivered \in Seq(Byte)
    BY EmptySeq DEF Init, Raw
  <1>3. bh \in [kind : {"blockHeader"}, newSize : Int, origSize : Int]
    BY DEF Init, BlockHeader
  <1>4. out \in [lo : 0..Bound(MaxBlockSize), hi : 0..Bound(MaxBlockSize)]
        /\ out.lo = 0 /\ out.hi = 0
    BY Limits DEF Init, Bound
  <1>5. TypeOK
    <2>1. /\ state = 0 /\ readHdr = FALSE /\ err = "nil" /\ pc = "idle" /\ want = 0
          /\ 0 \in 0..MaxRead
      BY Limits DEF Init
    <2> QED  BY <1>1, <1>2, <1>3, <1>4, <2>1 DEF TypeOK
  <1>6. Position /\ OutSlice
    BY <1>4 DEF Init, Position, OutSlice, InNextBlock
  <1> QED  BY <1>5, <1>6 DEF IInv

(* A Read starts at the copy if there are bytes, else at the next block. *)
LEMMA CallReadInv == ASSUME IInv, NEW p \in 0..MaxRead, CallRead(p) PROVE IInv'
  <1>1. /\ pc' \in {"idle", "header", "block", "copy"}
        /\ pc' = "header" => ~readHdr
        /\ pc' \in {"block", "copy"} => readHdr
        /\ pc' = "block" => out.lo = out.hi
        /\ pc' = "copy" => out.lo # out.hi
        /\ want' = p
        /\ UNCHANGED <<file, fpos, state, readHdr, buf, out, err, bh, delivered>>
    BY DEF CallRead, Loop
  <1>2. TypeOK'
    BY <1>1 DEF IInv, TypeOK
  <1>3. Position'
    BY <1>1 DEF IInv, Position, InNextBlock
  <1>4. OutSlice'
    BY <1>1 DEF IInv, OutSlice, TypeOK
  <1> QED  BY <1>2, <1>3, <1>4 DEF IInv

(* A Read fails before it has decoded a block. *)
LEMMA FailInv ==
  ASSUME IInv, TypeOK', pc' = "idle", out.lo = out.hi, UNCHANGED <<state, readHdr, out>>
  PROVE  IInv'
  BY DEF IInv, Position, OutSlice, InNextBlock

LEMMA ReadHeaderInv == ASSUME IInv, ReadHeader PROVE IInv'
  <1>1. /\ pc = "header" /\ out.lo = out.hi /\ ~readHdr
        /\ UNCHANGED <<file, buf, out, bh, want, delivered>>
    BY DEF ReadHeader, IInv, Position
  <1>2. CASE pc' = "idle"
    <2>1. /\ err' \in {"io", "EOF", "malformed"} /\ UNCHANGED <<state, readHdr>>
          /\ fpos' = fpos \/ (Whole("header") /\ fpos' = fpos + 1)
      BY <1>2 DEF ReadHeader, Fail, Consume, Loop
    <2>2. fpos' \in 0..Len(file)
      BY <2>1, SegmentFields DEF Whole, IInv, TypeOK
    <2>3. TypeOK'
      BY <1>1, <1>2, <2>1, <2>2 DEF IInv, TypeOK
    <2> QED  BY <1>1, <1>2, <2>1, <2>3, FailInv
  <1>3. CASE pc' # "idle"
    <2>1. /\ Whole("header") /\ fpos' = fpos + 1 /\ state' = Seg.blockSize
          /\ ValidBlockSize(Seg.blockSize) /\ readHdr' = TRUE /\ pc' = "block" /\ UNCHANGED err
      BY <1>1, <1>3 DEF ReadHeader, Fail, Consume, Loop, GoodHeader
    <2>2. fpos' \in 0..Len(file)
      BY <2>1, SegmentFields DEF Whole, IInv
    <2>3. TypeOK'
      BY <1>1, <2>1, <2>2 DEF IInv, TypeOK, ValidBlockSize
    <2>4. Position' /\ OutSlice'
      BY <1>1, <2>1 DEF IInv, Position, OutSlice, InNextBlock, ValidBlockSize
    <2> QED  BY <2>3, <2>4 DEF IInv
  <1> QED  BY <1>2, <1>3

LEMMA ReadBlockHeaderInv == ASSUME IInv, ReadBlockHeader PROVE IInv'
  <1>1. /\ pc = "block" /\ out.lo = out.hi
        /\ UNCHANGED <<file, state, readHdr, buf, out, want, delivered>>
    BY DEF ReadBlockHeader, IInv, Position, InNextBlock
  <1>2. /\ fpos' \in 0..Len(file)
        /\ bh' \in [kind : {"blockHeader"}, newSize : Int, origSize : Int]
    <2>1. UNCHANGED <<fpos, bh>> \/ (Whole("blockHeader") /\ fpos' = fpos + 1 /\ bh' = Seg)
      BY DEF ReadBlockHeader, Consume
    <2> QED  BY <2>1, SegmentFields DEF Whole, IInv, TypeOK
  <1>3. CASE pc' = "idle"
    <2>1. err' \in {"io", "EOF", "truncated", "malformed"}
      BY <1>3 DEF ReadBlockHeader, Fail
    <2>2. TypeOK'
      BY <1>1, <1>2, <1>3, <2>1 DEF IInv, TypeOK
    <2> QED  BY <1>1, <1>3, <2>2, FailInv
  <1>4. CASE pc' # "idle"
    <2>1. /\ Whole("blockHeader") /\ fpos' = fpos + 1 /\ bh' = Seg
          /\ SizesInBounds(Seg, state) /\ pc' = "payload" /\ UNCHANGED err
      BY <1>4 DEF ReadBlockHeader, Fail, Consume
    <2>2. TypeOK'
      BY <1>1, <1>2, <2>1 DEF IInv, TypeOK
    <2>3. fpos' >= 1 /\ bh' = file'[fpos']
      BY <1>1, <2>1, SegmentFields DEF Whole, Seg, IInv
    <2>4. Position'
      BY <1>1, <2>1, <2>3 DEF IInv, Position, InNextBlock
    <2>5. OutSlice'
      BY <1>1, <2>1 DEF IInv, OutSlice, TypeOK
    <2> QED  BY <2>2, <2>4, <2>5 DEF IInv
  <1> QED  BY <1>3, <1>4

(* The payload is read into r.buf: there is nothing in it still to return.   *)
LEMMA ReadPayloadInv == ASSUME IInv, ReadPayload PROVE IInv'
  <1>1. /\ pc = "payload" /\ out.lo = out.hi /\ fpos >= 1 /\ bh = file[fpos]
        /\ UNCHANGED <<file, state, readHdr, out, bh, want, delivered>>
    BY DEF ReadPayload, IInv, Position, InNextBlock
  <1>2. CASE pc' = "idle"
    <2>1. err' \in {"io", "truncated"} /\ buf' = Junk /\ UNCHANGED fpos
      BY <1>2 DEF ReadPayload, Fail
    <2>2. Junk \in [tag : {"raw", "enc", "junk"}, data : Seq(Byte)]
      BY EmptySeq DEF Junk
    <2>3. TypeOK'
      BY <1>1, <1>2, <2>1, <2>2 DEF IInv, TypeOK
    <2> QED  BY <1>1, <1>2, <2>3, FailInv
  <1>3. CASE pc' # "idle"
    <2>1. /\ Whole("payload") /\ fpos' = fpos + 1 /\ buf' = Seg.body /\ pc' = "decode"
          /\ UNCHANGED err
      BY <1>3 DEF ReadPayload, Fail, Consume
    <2>2. fpos \in Nat /\ fpos' \in 0..Len(file) /\ Seg.body \in Bodies
      BY <2>1, SegmentFields DEF Whole, IInv
    <2>3. TypeOK'
      BY <1>1, <2>1, <2>2 DEF IInv, TypeOK, Bodies
    <2>4. fpos' >= 2 /\ bh' = file'[fpos' - 1] /\ buf' = file'[fpos'].body
      BY <1>1, <2>1, <2>2 DEF Seg
    <2>5. Position'
      BY <1>1, <2>1, <2>4 DEF IInv, Position, InNextBlock
    <2>6. OutSlice'
      BY <1>1, <2>1 DEF IInv, OutSlice, TypeOK
    <2> QED  BY <2>3, <2>5, <2>6 DEF IInv
  <1> QED  BY <1>2, <1>3

(* A block that decodes to the size of its header becomes r.out.             *)
LEMMA DecodeInv == ASSUME IInv, Decode PROVE IInv'
  <1>1. /\ pc = "decode" /\ out.lo = out.hi /\ fpos >= 2
        /\ bh = file[fpos - 1] /\ buf = file[fpos].body
        /\ state \in MinBlockSize..MaxBlockSize /\ SizesInBounds(bh, state)
        /\ UNCHANGED <<file, fpos, state, readHdr, bh, want, delivered>>
    BY DEF Decode, IInv, Position, InNextBlock
  <1>2. PICK d \in DecodeResults(buf, bh.origSize, state) :
          IF d.err # "nil"
            THEN Fail(d.err) /\ buf' = Junk /\ UNCHANGED out
            ELSE /\ buf' = Raw(d.data)
                 /\ IF ~SizeRight(d.data)
                      THEN Fail("malformed") /\ UNCHANGED out
                      ELSE /\ out' = [lo |-> 0, hi |-> bh.origSize]
                           /\ pc' = Loop(out')
                           /\ UNCHANGED err
    BY DEF Decode
  <1>3. d.err \in {"nil", "crc"} /\ (d.err = "nil" => d.data = buf.data)
    BY DEF DecodeResults, Refused, Decoded
  <1>4. buf.data \in Seq(Byte)
    BY DEF IInv, TypeOK
  <1>5. buf' \in [tag : {"raw", "enc", "junk"}, data : Seq(Byte)]
    <2>1. Raw(buf.data) \in [tag : {"raw", "enc", "junk"}, data : Seq(Byte)]
      BY <1>4 DEF Raw
    <2>2. Junk \in [tag : {"raw", "enc", "junk"}, data : Seq(Byte)]
      BY EmptySeq DEF Junk
    <2>3. buf' = Raw(buf.data) \/ buf' = Junk
      BY <1>2, <1>3
    <2> QED  BY <2>1, <2>2, <2>3
  <1>6. CASE pc' = "idle"
    <2>1. err' \in {"crc", "malformed"} /\ UNCHANGED out
      BY <1>2, <1>3, <1>6 DEF Fail, Loop
    <2>2. TypeOK'
      BY <1>1, <1>5, <1>6, <2>1 DEF IInv, TypeOK
    <2> QED  BY <1>1, <1>6, <2>1, <2>2, FailInv
  <1>7. CASE pc' # "idle"
    <2>1. /\ d.err = "nil" /\ buf' = Raw(buf.data) /\ Len(buf.data) = bh.origSize
          /\ out' = [lo |-> 0, hi |-> bh.origSize] /\ UNCHANGED err
          /\ pc' = IF out'.lo = out'.hi THEN "block" ELSE "copy"
      BY <1>2, <1>3, <1>7 DEF Fail, Loop, SizeRight
    <2>2. bh.origSize \in 0..Bound(MaxBlockSize) /\ bh.origSize \in Nat
      BY <1>1, SizesFit DEF IInv, TypeOK, SizesInBounds
    <2>3. out'.lo = 0 /\ out'.hi = bh.origSize /\ 0 \in 0..Bound(MaxBlockSize)
      BY <2>1, Limits DEF Bound
    <2>4. TypeOK'
      BY <1>1, <1>5, <2>1, <2>2, <2>3 DEF IInv, TypeOK
    <2>5. OutSlice'
      <3>1. buf'.data = buf.data /\ buf' = Raw(file'[fpos'].body.data)
        BY <1>1, <2>1 DEF Raw
      <3> QED  BY <1>1, <2>1, <2>2, <2>3, <3>1 DEF OutSlice
    <2>6. readHdr
      BY <1>1 DEF IInv, Position, InNextBlock
    <2>7. Position'
      BY <1>1, <2>1, <2>3, <2>6 DEF IInv, Position, InNextBlock
    <2> QED  BY <2>4, <2>5, <2>7 DEF IInv
  <1> QED  BY <1>6, <1>7

(* The copy returns a beginning of r.out, and leaves the rest. *)
LEMMA CopyOutInv == ASSUME IInv, CopyOut PROVE IInv'
  <1> DEFINE m == MinOf(want, out.hi - out.lo)
  <1>1. /\ pc = "copy" /\ pc' = "idle"
        /\ delivered' = delivered \o SubSeq(buf.data, out.lo + 1, out.lo + m)
        /\ out' = [out EXCEPT !.lo = @ + m]
        /\ UNCHANGED <<file, fpos, state, readHdr, buf, err, bh, want>>
    BY DEF CopyOut, Advance
  <1>2. /\ out.lo \in Nat /\ out.hi \in Nat /\ out.lo < out.hi
        /\ out.hi \in 0..Bound(MaxBlockSize) /\ want \in Nat
        /\ out.hi = Len(buf.data) /\ buf.data \in Seq(Byte)
    <2>1. /\ out.lo \in 0..Bound(MaxBlockSize) /\ out.hi \in 0..Bound(MaxBlockSize)
          /\ want \in 0..MaxRead /\ buf.data \in Seq(Byte)
      BY DEF IInv, TypeOK
    <2>2. out.lo < out.hi /\ out.hi = Len(buf.data)
      BY <1>1 DEF IInv, OutSlice
    <2> QED  BY <2>1, <2>2
  <1>3. m \in Nat /\ out.lo + m <= out.hi
    BY <1>2 DEF MinOf
  <1>4. SubSeq(buf.data, out.lo + 1, out.lo + m) \in Seq(Byte)
    <2> DEFINE lo == out.lo + 1
               hi == out.lo + m
    <2>1. lo \in Int /\ hi \in Int /\ \A k \in lo..hi : k \in 1..Len(buf.data)
      BY <1>2, <1>3
    <2> QED  BY <1>2, <2>1, SubSeqProperties, ElementOfSeq
  <1>5. delivered' \in Seq(Byte)
    BY <1>1, <1>4, ConcatProperties DEF IInv, TypeOK
  <1>6. out'.lo = out.lo + m /\ out'.hi = out.hi
        /\ out' \in [lo : 0..Bound(MaxBlockSize), hi : 0..Bound(MaxBlockSize)]
    <2>1. out \in [lo : 0..Bound(MaxBlockSize), hi : 0..Bound(MaxBlockSize)]
      BY DEF IInv, TypeOK
    <2>2. out'.lo = out.lo + m /\ out'.hi = out.hi
      BY <1>1, <2>1
    <2>3. out.lo + m \in 0..Bound(MaxBlockSize)
      BY <1>2, <1>3, Limits DEF Bound
    <2> HIDE DEF m
    <2> QED  BY <1>1, <2>1, <2>2, <2>3
  <1>7. TypeOK'
    BY <1>1, <1>5, <1>6 DEF IInv, TypeOK
  <1>8. readHdr
    BY <1>1, <1>2 DEF IInv, Position
  <1>9. Position'
    BY <1>1, <1>8, SMTT(40) DEF IInv, Position, InNextBlock
  <1>10. OutSlice'
    BY <1>1, <1>2, <1>3, <1>6 DEF IInv, OutSlice
  <1> QED  BY <1>7, <1>9, <1>10 DEF IInv

-----------------------------------------------------------------------------
(***************************************************************************)
(* Whatever the file, the errors of the underlying reader and the buffers  *)
(* passed to Read, r.out and the fields of the Reader fit each other       *)
(* (reader.go, Read and nextBlock).                                        *)
(***************************************************************************)
THEOREM ReaderInvariant == Spec => []IInv
  <1>1. Init => IInv
    BY InitInv
  <1>2. IInv /\ [Next]_vars => IInv'
    <2> SUFFICES ASSUME IInv, [Next]_vars PROVE IInv'
      OBVIOUS
    <2>1. CASE \E p \in 0..MaxRead : CallRead(p)
      BY <2>1, CallReadInv
    <2>2. CASE ReadHeader
      BY <2>2, ReadHeaderInv
    <2>3. CASE ReadBlockHeader
      BY <2>3, ReadBlockHeaderInv
    <2>4. CASE ReadPayload
      BY <2>4, ReadPayloadInv
    <2>5. CASE Decode
      BY <2>5, DecodeInv
    <2>6. CASE CopyOut
      BY <2>6, CopyOutInv
    <2>7. CASE UNCHANGED vars
      BY <2>7 DEF IInv, TypeOK, Position, OutSlice, InNextBlock, vars
    <2> QED  BY <2>1, <2>2, <2>3, <2>4, <2>5, <2>6, <2>7 DEF Next, Step
  <1> QED  BY <1>1, <1>2, PTL DEF Spec

(* Nothing is ever read or decoded over bytes that have not been returned.   *)
THEOREM PendingBytesAreSafe == Spec => []Inv
  <1>1. IInv => Inv
    BY DEF IInv, Inv, OutSliceIntact, Position, OutSlice, InNextBlock
  <1> QED  BY <1>1, ReaderInvariant, PTL

-----------------------------------------------------------------------------
(* How many segments of the block in hand have been read.                    *)
Offset == CASE pc = "payload" -> 1 [] pc = "decode" -> 2 [] OTHER -> 0

Pending == SubSeq(buf.data, out.lo + 1, out.hi)

(* As long as there was no error, the blocks that have been read are good,   *)
(* and their bytes are those that Reads have returned, then those in r.out.  *)
BlocksDelivered ==
  \E k \in Nat : /\ fpos = 1 + 2 * k + Offset
                 /\ GoodUpTo(file, k)
                 /\ delivered \o Pending = Bytes(file, k)

Progress ==
  /\ pc # "idle" => err = "nil"
  /\ err = "nil" /\ ~readHdr => fpos = 0 /\ delivered = <<>>
  /\ err = "nil" /\ readHdr => /\ HeaderGood(file)
                               /\ state = file[1].blockSize
                               /\ BlocksDelivered
  /\ pc = "decode" => file[fpos].kind = "payload"

LEMMA TheFile ==
  ASSUME TypeOK
  PROVE  /\ IsFile(file) /\ Len(file) \in Nat /\ fpos \in Nat /\ fpos <= Len(file)
         /\ delivered \in Seq(Byte)
  BY FilesAssumption, FileProperties DEF TypeOK

(* Nothing is pending while nextBlock runs. *)
LEMMA NothingPending ==
  ASSUME TypeOK, out.lo = out.hi
  PROVE  Pending = <<>> /\ delivered \o Pending = delivered
  <1>1. out.lo \in Int /\ out.hi \in Int
    BY DEF TypeOK
  <1>2. Pending = <<>>
    BY <1>1, SubSeqEmpty DEF Pending
  <1> QED  BY <1>2, TheFile, ConcatEmptySeq

(* The bytes that are pending are bytes. *)
LEMMA PendingType == ASSUME IInv PROVE Pending \in Seq(Byte)
  <1>1. /\ out.lo \in Nat /\ out.hi \in Nat /\ buf.data \in Seq(Byte) /\ out.lo <= out.hi
        /\ out.lo < out.hi => out.hi = Len(buf.data)
    BY DEF IInv, TypeOK, OutSlice
  <1>2. CASE out.lo = out.hi
    BY <1>2, NothingPending, EmptySeq DEF IInv
  <1>3. CASE out.lo < out.hi
    <2> DEFINE lo == out.lo + 1
               hi == out.hi
    <2>1. lo \in Int /\ hi \in Int /\ \A k \in lo..hi : k \in 1..Len(buf.data)
      BY <1>1, <1>3
    <2> QED  BY <1>1, <2>1, SubSeqProperties, ElementOfSeq DEF Pending
  <1> QED  BY <1>1, <1>2, <1>3

(* What has been returned is the beginning of what the file holds. *)
ReturnedIsPrefix ==
  err = "nil" =>
    /\ delivered = SubSeq(Content(file), 1, Len(delivered))
    /\ Len(delivered) \in Nat /\ Len(Content(file)) \in Nat
    /\ Len(delivered) <= Len(Content(file))

LEMMA DeliveredIsPrefix == ASSUME IInv, Progress, err = "nil" PROVE ReturnedIsPrefix
  <1>1. IsFile(file) /\ delivered \in Seq(Byte)
    BY TheFile DEF IInv
  <1>2. Content(file) \in Seq(Byte)
    BY <1>1, ContentType
  <1>3. CASE ~readHdr
    <2>1. delivered = <<>> /\ Len(delivered) = 0
      BY <1>3 DEF Progress
    <2>2. SubSeq(Content(file), 1, 0) = <<>> /\ Len(Content(file)) \in Nat
      BY <1>2, SubSeqEmpty, LenProperties
    <2> QED  BY <2>1, <2>2 DEF ReturnedIsPrefix
  <1>4. CASE readHdr
    <2>1. PICK k \in Nat : GoodUpTo(file, k) /\ delivered \o Pending = Bytes(file, k)
      BY <1>4 DEF Progress, BlocksDelivered
    <2>2. HeaderGood(file)
      BY <1>4 DEF Progress
    <2>3. PICK r \in Seq(Byte) : Content(file) = (delivered \o Pending) \o r
      BY <1>1, <2>1, <2>2, ContentExtends
    <2>4. Pending \in Seq(Byte)
      BY PendingType
    <2>5. Content(file) = delivered \o (Pending \o r) /\ Pending \o r \in Seq(Byte)
      BY <1>1, <2>3, <2>4, ConcatAssociative, ConcatProperties
    <2> QED  BY <1>1, <2>5, PrefixOfConcat DEF ReturnedIsPrefix
  <1> QED  BY <1>3, <1>4

-----------------------------------------------------------------------------
LEMMA InitProgress == Init => Progress
  BY DEF Init, Progress

(* A step that ends in an error leaves nothing more to show.                 *)
LEMMA FailProgress == ASSUME err' # "nil", pc' = "idle" PROVE Progress'
  BY DEF Progress

LEMMA CallReadProgress == ASSUME IInv, Progress, NEW p \in 0..MaxRead, CallRead(p) PROVE Progress'
  <1>1. /\ pc = "idle" /\ pc' \in {"idle", "header", "block", "copy"}
        /\ pc' # "idle" => err = "nil"
        /\ UNCHANGED <<file, fpos, state, readHdr, buf, out, err, bh, delivered>>
    BY DEF CallRead, Loop
  <1>2. Offset' = 0 /\ Offset = 0
    BY <1>1 DEF Offset
  <1>3. Pending' = Pending
    BY <1>1 DEF Pending
  <1>4. BlocksDelivered => BlocksDelivered'
    BY <1>1, <1>2, <1>3 DEF BlocksDelivered
  <1> QED  BY <1>1, <1>4 DEF Progress

LEMMA ReadHeaderProgress == ASSUME IInv, Progress, ReadHeader PROVE Progress'
  <1>1. pc = "header" /\ err = "nil" /\ out.lo = out.hi /\ ~readHdr /\ fpos = 0 /\ delivered = <<>>
    BY DEF ReadHeader, IInv, Position, Progress
  <1>2. CASE pc' = "idle"
    <2>1. err' # "nil"
      BY <1>2 DEF ReadHeader, Fail, Loop
    <2> QED  BY <1>2, <2>1, FailProgress
  <1>3. CASE pc' # "idle"
    <2>1. /\ Whole("header") /\ fpos' = fpos + 1 /\ state' = Seg.blockSize /\ Seg.magic
          /\ ValidBlockSize(Seg.blockSize) /\ readHdr' = TRUE /\ pc' = "block" /\ UNCHANGED err
          /\ UNCHANGED <<file, buf, out, delivered>>
      BY <1>1, <1>3 DEF ReadHeader, Fail, Consume, Loop, GoodHeader
    <2>2. Seg = file[1] /\ file # <<>> /\ Seg.kind = "header"
      BY <1>1, <2>1 DEF Seg, Whole, AtEnd
    <2>3. HeaderGood(file)
      BY <2>1, <2>2 DEF HeaderGood
    <2>4. Pending' = Pending /\ delivered \o Pending = <<>>
      BY <1>1, <2>1, NothingPending DEF Pending, IInv
    <2>5. GoodUpTo(file, 0)
      BY DEF GoodUpTo
    <2>6. Offset' = 0
      BY <2>1 DEF Offset
    <2>7. BlocksDelivered'
      <3>1. fpos' = 1 + 2 * 0 + Offset'
        BY <1>1, <2>1, <2>6
      <3>2. GoodUpTo(file', 0) /\ (delivered \o Pending)' = Bytes(file', 0)
        BY <2>1, <2>4, <2>5, BytesNone
      <3> QED  BY <3>1, <3>2 DEF BlocksDelivered
    <2> QED  BY <1>1, <2>1, <2>2, <2>3, <2>7 DEF Progress
  <1> QED  BY <1>2, <1>3

(* One segment more of the block in hand.                                    *)
LEMMA SegmentReadProgress ==
  ASSUME IInv, Progress, err = "nil", readHdr, out.lo = out.hi,
         fpos' = fpos + 1, Offset' = Offset + 1,
         pc' \in {"payload", "decode"}, pc' = "decode" => file[fpos + 1].kind = "payload",
         UNCHANGED <<file, state, readHdr, out, err, delivered>>, TypeOK'
  PROVE  Progress'
  <1>1. delivered' \o Pending' = delivered \o Pending
    <2>1. delivered \o Pending = delivered
      BY NothingPending DEF IInv
    <2>2. out'.lo \in Int /\ out'.hi \in Int /\ out'.lo = out'.hi
      BY DEF TypeOK
    <2>3. Pending' = <<>>
      BY <2>2, SubSeqEmpty DEF Pending
    <2>4. delivered \o <<>> = delivered
      BY TheFile, ConcatEmptySeq DEF IInv
    <2> QED  BY <2>1, <2>3, <2>4
  <1>2. PICK k \in Nat : /\ fpos = 1 + 2 * k + Offset
                         /\ GoodUpTo(file, k)
                         /\ delivered \o Pending = Bytes(file, k)
    BY DEF Progress, BlocksDelivered
  <1>3. fpos' = 1 + 2 * k + Offset' /\ GoodUpTo(file', k) /\ delivered' \o Pending' = Bytes(file', k)
    <2>1. Offset \in Int
      BY DEF Offset
    <2>2. fpos' = 1 + 2 * k + Offset'
      <3>1. \A o \in Int : (1 + 2 * k + o) + 1 = 1 + 2 * k + (o + 1)
        OBVIOUS
      <3> QED  BY <1>2, <2>1, <3>1
    <2> QED  BY <1>1, <1>2, <2>2
  <1>4. BlocksDelivered'
    BY <1>3 DEF BlocksDelivered
  <1> QED  BY <1>4 DEF Progress

LEMMA ReadBlockHeaderProgress ==
  ASSUME IInv, IInv', Progress, ReadBlockHeader
  PROVE  Progress'
  <1>1. /\ pc = "block" /\ err = "nil" /\ readHdr /\ out.lo = out.hi
        /\ UNCHANGED <<file, state, readHdr, out, delivered>>
    BY DEF ReadBlockHeader, IInv, Position, InNextBlock, Progress
  <1>2. CASE pc' = "idle"
    BY <1>2, FailProgress DEF ReadBlockHeader, Fail
  <1>3. CASE pc' # "idle"
    <2>1. fpos' = fpos + 1 /\ pc' = "payload" /\ UNCHANGED err
      BY <1>3 DEF ReadBlockHeader, Fail, Consume
    <2>2. Offset' = Offset + 1
      BY <1>1, <2>1 DEF Offset
    <2> QED  BY <1>1, <2>1, <2>2, SegmentReadProgress DEF IInv
  <1> QED  BY <1>2, <1>3

LEMMA ReadPayloadProgress == ASSUME IInv, IInv', Progress, ReadPayload PROVE Progress'
  <1>1. /\ pc = "payload" /\ err = "nil" /\ readHdr /\ out.lo = out.hi
        /\ UNCHANGED <<file, state, readHdr, out, delivered>>
    BY DEF ReadPayload, IInv, Position, InNextBlock, Progress
  <1>2. CASE pc' = "idle"
    BY <1>2, FailProgress DEF ReadPayload, Fail
  <1>3. CASE pc' # "idle"
    <2>1. Whole("payload") /\ fpos' = fpos + 1 /\ pc' = "decode" /\ UNCHANGED err
      BY <1>3 DEF ReadPayload, Fail, Consume
    <2>2. Offset' = Offset + 1
      BY <1>1, <2>1 DEF Offset
    <2>3. file[fpos + 1].kind = "payload"
      BY <2>1 DEF Whole, Seg
    <2> QED  BY <1>1, <2>1, <2>2, <2>3, SegmentReadProgress DEF IInv
  <1> QED  BY <1>2, <1>3

(* Where Decode is: the block in hand is block k + 1, and its answers.        *)
LEMMA AtDecode ==
  ASSUME IInv, Progress, Decode
  PROVE  /\ pc = "decode" /\ err = "nil" /\ readHdr /\ out.lo = out.hi /\ HeaderGood(file)
         /\ fpos \in Nat /\ fpos <= Len(file) /\ fpos >= 2 /\ file[fpos].kind = "payload"
         /\ bh = file[fpos - 1] /\ buf = file[fpos].body
         /\ SizesInBounds(file[fpos - 1], file[1].blockSize)
         /\ \E k \in Nat : /\ fpos - 1 = 2 * k + 2
                           /\ GoodUpTo(file, k)
                           /\ delivered = Bytes(file, k)
         /\ UNCHANGED <<file, fpos, state, readHdr, bh, want, delivered>>
  <1>1. pc = "decode" /\ UNCHANGED <<file, fpos, state, readHdr, bh, want, delivered>>
    BY DEF Decode
  <1>2. /\ err = "nil" /\ readHdr /\ out.lo = out.hi /\ fpos >= 2
        /\ bh = file[fpos - 1] /\ buf = file[fpos].body /\ SizesInBounds(bh, state)
    BY <1>1 DEF IInv, Position, InNextBlock, Progress
  <1>3. /\ HeaderGood(file) /\ state = file[1].blockSize /\ BlocksDelivered
        /\ file[fpos].kind = "payload"
    BY <1>1, <1>2 DEF Progress
  <1>4. fpos \in Nat /\ fpos <= Len(file)
    BY TheFile DEF IInv
  <1>5. delivered \o Pending = delivered
    BY <1>2, NothingPending DEF IInv
  <1>6. PICK k \in Nat : /\ fpos = 1 + 2 * k + 2
                         /\ GoodUpTo(file, k)
                         /\ delivered = Bytes(file, k)
    BY <1>1, <1>3, <1>5 DEF BlocksDelivered, Offset
  <1>7. fpos - 1 = 2 * k + 2
    BY <1>6
  <1> QED  BY <1>1, <1>2, <1>3, <1>4, <1>6, <1>7

LEMMA DecodeProgress == ASSUME IInv, IInv', Progress, Decode PROVE Progress'
  <1>1. /\ pc = "decode" /\ err = "nil" /\ readHdr /\ out.lo = out.hi /\ HeaderGood(file)
        /\ fpos \in Nat /\ fpos <= Len(file) /\ fpos >= 2 /\ file[fpos].kind = "payload"
        /\ bh = file[fpos - 1] /\ buf = file[fpos].body
        /\ SizesInBounds(file[fpos - 1], file[1].blockSize)
        /\ state = file[1].blockSize
        /\ UNCHANGED <<file, fpos, state, readHdr, bh, want, delivered>>
    BY AtDecode DEF Progress
  <1>2. PICK k \in Nat : /\ fpos - 1 = 2 * k + 2
                         /\ GoodUpTo(file, k)
                         /\ delivered = Bytes(file, k)
    BY AtDecode
  <1>3. PICK d \in DecodeResults(buf, bh.origSize, state) :
          IF d.err # "nil"
            THEN Fail(d.err) /\ buf' = Junk /\ UNCHANGED out
            ELSE /\ buf' = Raw(d.data)
                 /\ IF ~SizeRight(d.data)
                      THEN Fail("malformed") /\ UNCHANGED out
                      ELSE /\ out' = [lo |-> 0, hi |-> bh.origSize]
                           /\ pc' = Loop(out')
                           /\ UNCHANGED err
    BY DEF Decode
  <1>4. CASE pc' = "idle"
    <2>1. err' # "nil"
      BY <1>3, <1>4 DEF Fail, Loop
    <2> QED  BY <1>4, <2>1, FailProgress
  <1>5. CASE pc' # "idle"
    <2>1. /\ d.err = "nil" /\ buf' = Raw(d.data) /\ Len(d.data) = bh.origSize
          /\ out' = [lo |-> 0, hi |-> bh.origSize] /\ UNCHANGED err
          /\ pc' \in {"block", "copy"}
      BY <1>3, <1>5 DEF Fail, Loop, SizeRight
    <2>2. buf.tag = "enc" /\ Len(buf.data) <= state /\ d.data = buf.data
      <3>1. buf.tag = "enc" /\ ~(Len(buf.data) > state) /\ d.data = buf.data
        BY <2>1 DEF DecodeResults, Refused, Decoded
      <3>2. Len(buf.data) \in Nat /\ state \in Int
        BY LenProperties, Limits DEF IInv, TypeOK
      <3> QED  BY <3>1, <3>2
    <2>3. BlockGood(file, k + 1) /\ BlockData(file, k + 1) = buf.data
      <3>1. fpos - 1 + 1 = fpos
        BY <1>1
      <3>2. file[fpos - 1].origSize <= file[1].blockSize
        BY <1>1, <2>1, <2>2
      <3> QED  BY <1>1, <1>2, <2>1, <2>2, <3>1, <3>2, BlockGoodAt
    <2>4. GoodUpTo(file, k + 1)
      BY <1>2, <2>3, GoodUpToNext
    <2>5. Pending' = buf.data
      <3>1. buf'.data = buf.data /\ out'.lo + 1 = 1 /\ out'.hi = Len(buf.data)
        BY <2>1, <2>2 DEF Raw
      <3>2. buf.data \in Seq(Byte)
        BY DEF IInv, TypeOK
      <3> QED  BY <3>1, <3>2, SubSeqFull DEF Pending
    <2>6. Bytes(file, k + 1) = delivered \o buf.data
      <3>1. \A j \in 1..k + 1 : BlockData(file, j) \in Seq(Byte)
        BY <2>4, TheFile, GoodUpToData DEF IInv
      <3> QED  BY <1>2, <2>3, <3>1, BytesNext
    <2>7. fpos' = 1 + 2 * (k + 1) + Offset'
      <3>1. Offset' = 0
        BY <2>1 DEF Offset
      <3>2. fpos = 1 + 2 * (k + 1) + 0
        BY <1>1, <1>2
      <3> QED  BY <1>1, <3>1, <3>2
    <2>8. BlocksDelivered'
      <3>1. k + 1 \in Nat /\ GoodUpTo(file', k + 1) /\ delivered' \o Pending' = Bytes(file', k + 1)
        BY <1>1, <2>4, <2>5, <2>6
      <3> QED  BY <2>7, <3>1 DEF BlocksDelivered
    <2> QED  BY <1>1, <2>1, <2>8 DEF Progress
  <1> QED  BY <1>4, <1>5

(* The copy moves bytes from what is pending to what has been returned.       *)
LEMMA CopyOutProgress == ASSUME IInv, Progress, CopyOut PROVE Progress'
  <1> DEFINE m == MinOf(want, out.hi - out.lo)
  <1>1. /\ pc = "copy" /\ pc' = "idle" /\ err = "nil" /\ readHdr
        /\ delivered' = delivered \o SubSeq(buf.data, out.lo + 1, out.lo + m)
        /\ out' = [out EXCEPT !.lo = @ + m]
        /\ UNCHANGED <<file, fpos, state, readHdr, buf, err, bh, want>>
    BY DEF CopyOut, Advance, Progress, IInv, Position
  <1>2. /\ out.lo \in Nat /\ out.hi \in Nat /\ out.lo < out.hi /\ want \in Nat
        /\ out.hi = Len(buf.data) /\ buf.data \in Seq(Byte)
        /\ out \in [lo : 0..Bound(MaxBlockSize), hi : 0..Bound(MaxBlockSize)]
        /\ delivered \in Seq(Byte)
    <2>1. /\ out.lo \in 0..Bound(MaxBlockSize) /\ out.hi \in 0..Bound(MaxBlockSize)
          /\ want \in 0..MaxRead /\ buf.data \in Seq(Byte) /\ delivered \in Seq(Byte)
          /\ out \in [lo : 0..Bound(MaxBlockSize), hi : 0..Bound(MaxBlockSize)]
      BY DEF IInv, TypeOK
    <2>2. out.lo < out.hi /\ out.hi = Len(buf.data)
      BY <1>1 DEF IInv, OutSlice
    <2> QED  BY <2>1, <2>2
  <1>3. m \in Nat /\ out.lo + m <= out.hi
    BY <1>2 DEF MinOf
  <1>4. out'.lo = out.lo + m /\ out'.hi = out.hi
    BY <1>1, <1>2
  <1> DEFINE a == out.lo + 1
             b == out.lo + m
             c == out.hi
  <1>5. a \in 1..Len(buf.data) + 1 /\ b \in a - 1..Len(buf.data) /\ c \in b..Len(buf.data)
    BY <1>2, <1>3, SMTT(40)
  <1>6. SubSeq(buf.data, a, b) \o SubSeq(buf.data, b + 1, c) = SubSeq(buf.data, a, c)
    <2> HIDE DEF a, b, c
    <2> QED  BY <1>2, <1>5, ConcatAdjacentSubSeq
  <1>7. SubSeq(buf.data, a, b) \in Seq(Byte) /\ SubSeq(buf.data, b + 1, c) \in Seq(Byte)
    <2>1. /\ \A j \in a..b : j \in 1..Len(buf.data)
          /\ \A j \in b + 1..c : j \in 1..Len(buf.data)
          /\ a \in Int /\ b \in Int /\ c \in Int /\ b + 1 \in Int
      BY <1>2, <1>3, SMTT(40)
    <2> HIDE DEF a, b, c
    <2> QED  BY <1>2, <2>1, SubSeqProperties, ElementOfSeq
  <1>8. delivered' \o Pending' = delivered \o Pending
    <2>1. Pending = SubSeq(buf.data, a, c) /\ Pending' = SubSeq(buf.data, b + 1, c)
      BY <1>1, <1>4 DEF Pending
    <2>2. delivered' = delivered \o SubSeq(buf.data, a, b)
      BY <1>1
    <2> HIDE DEF a, b, c, m
    <2> DEFINE s == SubSeq(buf.data, a, b)
               t == SubSeq(buf.data, b + 1, c)
    <2>3. s \in Seq(Byte) /\ t \in Seq(Byte) /\ s \o t = Pending /\ Pending' = t /\ delivered' = delivered \o s
      BY <1>6, <1>7, <2>1, <2>2
    <2> HIDE DEF s, t
    <2>4. delivered \in Seq(Byte) /\ s \in Seq(Byte) /\ t \in Seq(Byte)
      BY <1>2, <2>3
    <2>5. (delivered \o s) \o t = delivered \o (s \o t)
      BY <2>4, ConcatAssociative, SMTT(40)
    <2> QED  BY <2>3, <2>5
  <1>9. Offset' = Offset
    BY <1>1 DEF Offset
  <1>10. BlocksDelivered'
    <2> HIDE DEF a, b, c, m
    <2> QED  BY <1>1, <1>8, <1>9 DEF Progress, BlocksDelivered
  <1> QED  BY <1>1, <1>10 DEF Progress

LEMMA ProgressStep == ASSUME IInv, IInv', Progress, [Next]_vars PROVE Progress'
  <1>1. CASE \E p \in 0..MaxRead : CallRead(p)
    BY <1>1, CallReadProgress
  <1>2. CASE ReadHeader
    BY <1>2, ReadHeaderProgress
  <1>3. CASE ReadBlockHeader
    BY <1>3, ReadBlockHeaderProgress
  <1>4. CASE ReadPayload
    BY <1>4, ReadPayloadProgress
  <1>5. CASE Decode
    BY <1>5, DecodeProgress
  <1>6. CASE CopyOut
    BY <1>6, CopyOutProgress
  <1>7. CASE UNCHANGED vars
    BY <1>7 DEF Progress, BlocksDelivered, Offset, Pending, vars
  <1> QED  BY <1>1, <1>2, <1>3, <1>4, <1>5, <1>6, <1>7 DEF Next, Step
-----------------------------------------------------------------------------
(* When the good blocks of the file have all been returned, the verdict is   *)
(* settled by what there is of the next one, from its header (segment j) on. *)
LEMMA VerdictAfterBlocks ==
  ASSUME HeaderGood(file), state = file[1].blockSize,
         NEW k \in Nat, GoodBlocks(file) = k, delivered = Bytes(file, k),
         NEW j, j = 2 * k + 2, Len(file) \in Nat,
         UNCHANGED <<file, state, delivered>>,
         \/ Len(file) = j - 1 /\ err' = "EOF"
         \/ /\ Len(file) = j /\ err' = "truncated"
            /\ file[j] = Part \/ SizesInBounds(file[j], state)
         \/ /\ Len(file) = j + 1 /\ err' = "truncated"
            /\ file[j + 1] = Part /\ SizesInBounds(file[j], state)
         \/ /\ err' \in {"malformed", "crc"} /\ Len(file) >= j
            /\ file[j] # Part /\ ~SizesInBounds(file[j], state)
         \/ /\ err' \in {"malformed", "crc"} /\ Len(file) >= j + 1 /\ file[j + 1] # Part
  PROVE  VerdictIsFirstFault'
  <1> DEFINE n == Len(file)
  <1>1. /\ LastGood + 1 = j /\ LastGood + 2 = j + 1 /\ n \in Nat /\ j \in Nat
        /\ LastGood = j - 1 /\ file # <<>>
    BY DEF LastGood, HeaderGood
  <1>2. delivered = Content(file) /\ (file = <<>> \/ Intact(file) <=> n = j - 1)
    BY <1>1 DEF Content, Intact, LastGood
  <1> DEFINE Cut == \/ n = j /\ (file[n] = Part \/ SizesInBounds(file[n], state))
                    \/ n = j + 1 /\ file[n] = Part /\ SizesInBounds(file[j], state)
  <1>3. (err' = "EOF" <=> n = j - 1) /\ (err' = "truncated" <=> Cut)
    <2> HIDE DEF SizesInBounds
    <2> QED  BY <1>1
  <1>4. VerdictIsFirstFault' <=>
          (err' \notin {"nil", "io"} =>
             /\ delivered = Content(file)
             /\ err' = "EOF" <=> file = <<>> \/ Intact(file)
             /\ err' = "truncated" <=> Cut)
    <2>1. LastGood' = LastGood
      BY DEF LastGood
    <2> HIDE DEF LastGood, SizesInBounds, Content, Intact, HeaderGood
    <2> QED  BY <1>1, <2>1 DEF VerdictIsFirstFault
  <1> QED  BY <1>2, <1>3, <1>4

(* Without a good stream header a file has no block, and nothing has been    *)
(* returned.                                                                 *)
LEMMA HeaderVerdict ==
  ASSUME IInv, Progress, ReadHeader, err' # "nil" PROVE VerdictIsFirstFault'
  <1>1. /\ pc = "header" /\ ~readHdr /\ fpos = 0 /\ delivered = <<>> /\ err = "nil"
        /\ UNCHANGED <<file, delivered>>
    BY DEF ReadHeader, IInv, Position, Progress
  <1>2. file \in Seq(Segments(Bodies)) /\ Len(file) \in Nat
    BY TheFile, FileProperties DEF IInv
  <1>3. CASE err' = "io"
    BY <1>3 DEF VerdictIsFirstFault
  <1>4. CASE err' # "io"
    <2>1. ~HeaderGood(file) /\ (err' = "EOF" <=> file = <<>>) /\ err' # "truncated"
      <3>1. CASE AtEnd /\ err' = "EOF"
        BY <1>1, <1>2, <3>1, EmptySeq DEF AtEnd, HeaderGood
      <3>2. CASE ~AtEnd /\ err' = "malformed" /\ (Short \/ ~GoodHeader(Seg))
        BY <1>1, <1>2, <3>2, EmptySeq
           DEF AtEnd, Short, Seg, GoodHeader, HeaderGood, Part
      <3> QED  BY <1>1, <1>4, <3>1, <3>2 DEF ReadHeader, Fail, Short, Whole
    <2>2. Content(file) = <<>> /\ ~Intact(file)
      BY <2>1, NoHeader
    <2> QED  BY <1>1, <2>1, <2>2 DEF VerdictIsFirstFault
  <1> QED  BY <1>3, <1>4

LEMMA BlockHeaderVerdict ==
  ASSUME IInv, Progress, ReadBlockHeader, err' # "nil" PROVE VerdictIsFirstFault'
  <1>1. /\ pc = "block" /\ err = "nil" /\ readHdr /\ out.lo = out.hi
        /\ UNCHANGED <<file, state, delivered>>
    BY DEF ReadBlockHeader, IInv, Position, InNextBlock, Progress
  <1>2. /\ HeaderGood(file) /\ state = file[1].blockSize /\ BlocksDelivered
        /\ delivered \o Pending = delivered
    BY <1>1, NothingPending DEF Progress, IInv
  <1>3. PICK k \in Nat : fpos = 1 + 2 * k + 0 /\ GoodUpTo(file, k) /\ delivered = Bytes(file, k)
    BY <1>1, <1>2 DEF BlocksDelivered, Offset
  <1> DEFINE j == 2 * k + 2
  <1>4. /\ IsFile(file) /\ Len(file) \in Nat /\ j = fpos + 1 /\ fpos <= Len(file) /\ j \in Nat
        /\ fpos \in Nat
    BY <1>3, TheFile DEF IInv
  <1> HIDE DEF j
  <1>5. j = 2 * k + 2
    BY DEF j
  <1>6. CASE err' = "io"
    BY <1>6 DEF VerdictIsFirstFault
  <1>7. CASE err' # "io"
    <2>1. \/ Len(file) = j - 1 /\ err' = "EOF"
          \/ Len(file) = j /\ file[j] = Part /\ err' = "truncated"
          \/ /\ j <= Len(file) /\ file[j] # Part /\ ~SizesInBounds(file[j], state)
             /\ err' = "malformed"
      <3>1. CASE AtEnd /\ err' = "EOF"
        BY <1>4, <3>1 DEF AtEnd
      <3>2. CASE Short /\ err' = "truncated"
        <4>1. file[j] = Part /\ j \in 1..Len(file)
          BY <1>4, <3>2 DEF Short, AtEnd, Seg
        <4> QED  BY <1>4, <3>2, <4>1 DEF IsFile
      <3>3. CASE Whole("blockHeader") /\ ~SizesInBounds(Seg, state) /\ err' = "malformed"
        BY <1>4, <3>3 DEF Whole, AtEnd, Seg, Part
      <3> QED  BY <1>1, <1>7, <3>1, <3>2, <3>3 DEF ReadBlockHeader, Fail
    <2>2. GoodBlocks(file) = k
      BY <1>2, <1>3, <1>4, <1>5, <2>1, FaultAt
    <2> QED  BY <1>1, <1>2, <1>3, <1>4, <1>5, <2>1, <2>2, VerdictAfterBlocks
  <1> QED  BY <1>6, <1>7

LEMMA PayloadVerdict ==
  ASSUME IInv, Progress, ReadPayload, err' # "nil" PROVE VerdictIsFirstFault'
  <1>1. /\ pc = "payload" /\ err = "nil" /\ readHdr /\ out.lo = out.hi
        /\ SizesInBounds(file[fpos], state)
        /\ UNCHANGED <<file, state, delivered>>
    BY DEF ReadPayload, IInv, Position, InNextBlock, Progress
  <1>2. /\ HeaderGood(file) /\ state = file[1].blockSize /\ BlocksDelivered
        /\ delivered \o Pending = delivered
    BY <1>1, NothingPending DEF Progress, IInv
  <1>3. PICK k \in Nat : fpos = 1 + 2 * k + 1 /\ GoodUpTo(file, k) /\ delivered = Bytes(file, k)
    BY <1>1, <1>2 DEF BlocksDelivered, Offset
  <1>4. /\ IsFile(file) /\ Len(file) \in Nat /\ fpos = 2 * k + 2 /\ fpos <= Len(file)
        /\ fpos \in Nat
    BY <1>3, TheFile DEF IInv
  <1>5. CASE err' = "io"
    BY <1>5 DEF VerdictIsFirstFault
  <1>6. CASE err' # "io"
    <2>1. /\ err' = "truncated"
          /\ \/ Len(file) = fpos
             \/ Len(file) = fpos + 1 /\ file[fpos + 1] = Part
      <3>1. err' = "truncated" /\ (AtEnd \/ Short)
        BY <1>1, <1>6 DEF ReadPayload, Fail
      <3>2. CASE Short
        <4>1. file[fpos + 1] = Part /\ fpos + 1 \in 1..Len(file)
          BY <1>4, <3>2 DEF Short, AtEnd, Seg
        <4> QED  BY <1>4, <3>1, <4>1 DEF IsFile
      <3> QED  BY <3>1, <3>2 DEF AtEnd
    <2>2. GoodBlocks(file) = k
      BY <1>2, <1>3, <1>4, <2>1, FaultAt
    <2> QED  BY <1>1, <1>2, <1>3, <1>4, <2>1, <2>2, VerdictAfterBlocks
  <1> QED  BY <1>5, <1>6

LEMMA DecodeVerdict ==
  ASSUME IInv, Progress, Decode, err' # "nil" PROVE VerdictIsFirstFault'
  <1> DEFINE j == fpos - 1
  <1>1. /\ pc = "decode" /\ err = "nil" /\ readHdr /\ HeaderGood(file)
        /\ fpos \in Nat /\ fpos <= Len(file) /\ fpos >= 2 /\ file[fpos].kind = "payload"
        /\ bh = file[j] /\ buf = file[fpos].body
        /\ SizesInBounds(file[j], file[1].blockSize)
        /\ state = file[1].blockSize
        /\ UNCHANGED <<file, fpos, state, delivered>>
    BY AtDecode DEF Progress
  <1>2. PICK k \in Nat : j = 2 * k + 2 /\ GoodUpTo(file, k) /\ delivered = Bytes(file, k)
    BY AtDecode
  <1>3. IsFile(file) /\ Len(file) \in Nat /\ j + 1 = fpos /\ j \in Nat
    BY <1>1, TheFile DEF IInv
  <1> HIDE DEF j
  <1>4. /\ err' \in {"malformed", "crc"}
        /\ \/ buf.tag # "enc"
           \/ Len(buf.data) > state
           \/ Len(buf.data) # bh.origSize
    BY <1>1 DEF Decode, DecodeResults, Refused, Decoded, Fail, SizeRight
  <1>5. GoodBlocks(file) = k
    BY <1>1, <1>2, <1>3, <1>4, FaultAt
  <1>6. file[j + 1] # Part
    BY <1>1, <1>3 DEF Part
  <1> QED  BY <1>1, <1>2, <1>3, <1>4, <1>5, <1>6, VerdictAfterBlocks

LEMMA VerdictStep ==
  ASSUME IInv, Progress, VerdictIsFirstFault, [Next]_vars PROVE VerdictIsFirstFault'
  <1>1. CASE \E p \in 0..MaxRead : CallRead(p)
    BY <1>1 DEF CallRead, VerdictIsFirstFault, LastGood
  <1>2. CASE ReadHeader
    BY <1>2, HeaderVerdict DEF VerdictIsFirstFault
  <1>3. CASE ReadBlockHeader
    BY <1>3, BlockHeaderVerdict DEF VerdictIsFirstFault
  <1>4. CASE ReadPayload
    BY <1>4, PayloadVerdict DEF VerdictIsFirstFault
  <1>5. CASE Decode
    BY <1>5, DecodeVerdict DEF VerdictIsFirstFault
  <1>6. CASE CopyOut
    BY <1>6 DEF CopyOut, Progress, VerdictIsFirstFault
  <1>7. CASE UNCHANGED vars
    BY <1>7 DEF VerdictIsFirstFault, LastGood, vars
  <1> QED  BY <1>1, <1>2, <1>3, <1>4, <1>5, <1>6, <1>7 DEF Next, Step

(* What the Reader knows of the file at each step, and the error it ends     *)
(* with: the inductive invariant of all that follows.                        *)
LEMMA ReaderProgress == Spec => [](IInv /\ Progress /\ VerdictIsFirstFault)
  <1>1. Init => IInv /\ Progress /\ VerdictIsFirstFault
    BY InitInv, InitProgress DEF Init, VerdictIsFirstFault
  <1>2. IInv /\ IInv' /\ Progress /\ VerdictIsFirstFault /\ [Next]_vars
          => Progress' /\ VerdictIsFirstFault'
    BY ProgressStep, VerdictStep
  <1> QED  BY <1>1, <1>2, ReaderInvariant, PTL DEF Spec

(***************************************************************************)
(* Whatever the file and however the caller reads it, the error it ends    *)
(* with is the one its first fault calls for, and by then every byte of    *)
(* the blocks before the fault has been returned (reader.go, Read and      *)
(* nextBlock).                                                             *)
(***************************************************************************)
THEOREM VerdictIsRight == Spec => []VerdictIsFirstFault
  BY ReaderProgress, PTL
-----------------------------------------------------------------------------
(* DecodedStream says the same of a file as FileContents here.               *)
LEMMA SameHeaderGood == ASSUME NEW f PROVE Abstract!HeaderGood(f) <=> HeaderGood(f)
  BY DEF HeaderGood, Abstract!HeaderGood, ValidBlockSize, Abstract!ValidBlockSize

LEMMA SameBlockGood == ASSUME NEW f, NEW k PROVE Abstract!BlockGood(f, k) <=> BlockGood(f, k)
  BY DEF BlockGood, Abstract!BlockGood, Bound, Abstract!Bound

LEMMA SameGoodBlocks == ASSUME NEW f PROVE Abstract!GoodBlocks(f) = GoodBlocks(f)
  <1>1. {m \in 0..Len(f) : \A k \in 1..m : Abstract!BlockGood(f, k)}
          = {m \in 0..Len(f) : \A k \in 1..m : BlockGood(f, k)}
    BY SameBlockGood
  <1>2. ASSUME NEW T PROVE Abstract!Max(T) = Max(T)
    BY DEF Max, Abstract!Max
  <1> DEFINE T == {m \in 0..Len(f) : \A k \in 1..m : BlockGood(f, k)}
  <1>3. GoodBlocks(f) = IF HeaderGood(f) THEN Max(T) ELSE 0
    BY DEF GoodBlocks
  <1>4. Abstract!GoodBlocks(f) = IF Abstract!HeaderGood(f) THEN Abstract!Max(T) ELSE 0
    BY <1>1 DEF Abstract!GoodBlocks
  <1> HIDE DEF T
  <1> QED  BY <1>2, <1>3, <1>4, SameHeaderGood

LEMMA SameContent == ASSUME NEW f PROVE Abstract!Content(f) = Content(f)
  <1>1. ASSUME NEW ss PROVE Abstract!FlattenSeq(ss) = FlattenSeq(ss)
    BY DEF FlattenSeq, Abstract!FlattenSeq
  <1> QED  BY <1>1, SameGoodBlocks DEF Content, Abstract!Content, Bytes, Abstract!Bytes, BlockData, Abstract!BlockData

LEMMA SameIntact == ASSUME NEW f PROVE Abstract!Intact(f) <=> Intact(f)
  BY SameHeaderGood, SameGoodBlocks DEF Intact, Abstract!Intact

(* The abstract step that each kind of step of the Reader is.                *)
LEMMA StepIsDeliver ==
  ASSUME err = "nil", err' = "nil", file' = file,
         NEW j \in Len(delivered)..Len(Content(file)), delivered' = SubSeq(Content(file), 1, j)
  PROVE  Abstract!Next
  <1>1. Abstract!Deliver
    BY SameContent DEF Abstract!Deliver
  <1> QED  BY <1>1 DEF Abstract!Next

LEMMA StepIsIoFail ==
  ASSUME err = "nil", err' = "io", file' = file,
         NEW j \in Len(delivered)..Len(Content(file)), delivered' = SubSeq(Content(file), 1, j)
  PROVE  Abstract!Next
  <1>1. Abstract!IoFail
    BY SameContent DEF Abstract!IoFail
  <1> QED  BY <1>1 DEF Abstract!Next

LEMMA StepIsFinish ==
  ASSUME err = "nil", err' = "EOF", file' = file, Intact(file) \/ file = <<>>,
         delivered' = Content(file)
  PROVE  Abstract!Next
  <1>1. Abstract!Finish
    BY SameContent, SameIntact DEF Abstract!Finish
  <1> QED  BY <1>1 DEF Abstract!Next

LEMMA StepIsRefuse ==
  ASSUME err = "nil", err' \notin {"nil", "io", "EOF"}, file' = file, ~Intact(file),
         delivered' = delivered
  PROVE  Abstract!Next
  <1>1. Abstract!Refuse
    BY SameIntact DEF Abstract!Refuse
  <1> QED  BY <1>1 DEF Abstract!Next

(* Only the copy returns bytes, and it never fails; a Reader that has failed *)
(* stays as it is.                                                           *)
LEMMA WhatAStepReturns ==
  ASSUME IInv, Progress, [Next]_vars
  PROVE  /\ file' = file
         /\ delivered' = delivered \/ CopyOut
         /\ err' # "nil" => delivered' = delivered
         /\ err # "nil" => err' = err /\ delivered' = delivered
  BY DEF Next, Step, CallRead, ReadHeader, ReadBlockHeader, ReadPayload, Decode, CopyOut,
         Progress, vars

(* The copy returns no fewer bytes than there were. *)
LEMMA CopyOutGrows == ASSUME IInv, CopyOut PROVE Len(delivered) <= Len(delivered')
  <1>1. /\ out.lo \in Nat /\ out.hi \in Nat /\ out.lo < out.hi /\ want \in Nat
        /\ out.hi = Len(buf.data) /\ buf.data \in Seq(Byte) /\ delivered \in Seq(Byte)
    <2>1. /\ out.lo \in 0..Bound(MaxBlockSize) /\ out.hi \in 0..Bound(MaxBlockSize)
          /\ want \in 0..MaxRead /\ buf.data \in Seq(Byte) /\ delivered \in Seq(Byte)
      BY DEF IInv, TypeOK
    <2>2. out.lo < out.hi /\ out.hi = Len(buf.data)
      BY DEF CopyOut, IInv, OutSlice
    <2> QED  BY <2>1, <2>2
  <1> DEFINE m == MinOf(want, out.hi - out.lo)
             s == SubSeq(buf.data, out.lo + 1, out.lo + m)
  <1>2. delivered' = delivered \o s
    BY DEF CopyOut
  <1>3. \A i \in out.lo + 1..out.lo + m : i \in 1..Len(buf.data)
    BY <1>1 DEF MinOf
  <1>4. m \in Nat
    BY <1>1 DEF MinOf
  <1>5. s \in Seq(Byte)
    <2> DEFINE lo == out.lo + 1
               hi == out.lo + m
    <2>1. lo \in Int /\ hi \in Int /\ \A k \in lo..hi : k \in 1..Len(buf.data)
      BY <1>1, <1>3, <1>4
    <2> QED  BY <1>1, <2>1, SubSeqProperties, ElementOfSeq
  <1> HIDE DEF s
  <1> QED  BY <1>1, <1>2, <1>5, ConcatProperties, LenProperties

LEMMA StepRefines ==
  ASSUME IInv, Progress, VerdictIsFirstFault', [Next]_vars, ReturnedIsPrefix'
  PROVE  [Abstract!Next]_<<file, delivered,
           CASE err = "nil" -> "open" [] err = "io" -> "ioFailed" [] err = "EOF" -> "done"
             [] OTHER -> "refused">>
  <1>1. /\ file' = file
        /\ err' # "nil" => delivered' = delivered
        /\ err # "nil" => err' = err /\ delivered' = delivered
    BY WhatAStepReturns
  <1>2. CASE err # "nil"
    BY <1>1, <1>2
  <1>3. CASE err = "nil"
    <2>1. /\ delivered = SubSeq(Content(file), 1, Len(delivered))
          /\ Len(delivered) \in Len(delivered)..Len(Content(file))
      BY <1>3, DeliveredIsPrefix DEF ReturnedIsPrefix
    <2>2. CASE err' = "nil"
      <3>1. /\ delivered' = SubSeq(Content(file'), 1, Len(delivered'))
            /\ Len(delivered') \in Nat /\ Len(Content(file')) \in Nat
            /\ Len(delivered') <= Len(Content(file'))
        BY <2>2 DEF ReturnedIsPrefix
      <3>2. Len(delivered) \in Nat /\ Len(delivered) <= Len(delivered')
        BY <1>3, DeliveredIsPrefix, WhatAStepReturns, CopyOutGrows DEF ReturnedIsPrefix
      <3> QED  BY <1>1, <1>3, <2>2, <3>1, <3>2, StepIsDeliver
    <2>3. CASE err' = "io"
      BY <1>1, <1>3, <2>1, <2>3, StepIsIoFail
    <2>4. CASE err' = "EOF"
      BY <1>1, <1>3, <2>4, StepIsFinish DEF VerdictIsFirstFault
    <2>5. CASE err' \notin {"nil", "io", "EOF"}
      BY <1>1, <1>3, <2>5, StepIsRefuse DEF VerdictIsFirstFault
    <2> QED  BY <2>2, <2>3, <2>4, <2>5
  <1> QED  BY <1>2, <1>3

(***************************************************************************)
(* The Reader implements DecodedStream: whatever the file, the bytes its   *)
(* Reads return are, at every moment, a beginning of the bytes of the good *)
(* blocks that come first; EOF is reported only at the end of an intact    *)
(* (or empty) file, and a file is refused only for a fault in it.          *)
(***************************************************************************)
THEOREM ReaderRefinesDecodedStream == Spec => RefinesDecodedStream
  <1>1. Init => Abstract!Init
    BY DEF Init, Abstract!Init
  <1>2. IInv /\ Progress /\ VerdictIsFirstFault' /\ ReturnedIsPrefix' /\ [Next]_vars
          => [Abstract!Next]_<<file, delivered,
               CASE err = "nil" -> "open" [] err = "io" -> "ioFailed" [] err = "EOF" -> "done"
                 [] OTHER -> "refused">>
    BY StepRefines
  <1>3. IInv /\ Progress => ReturnedIsPrefix
    BY DeliveredIsPrefix DEF ReturnedIsPrefix
  <1> QED  BY <1>1, <1>2, <1>3, ReaderProgress, PTL
           DEF Spec, RefinesDecodedStream, Abstract!Spec, Abstract!vars
=============================================================================

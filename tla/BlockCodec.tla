----------------------------- MODULE BlockCodec -----------------------------
(***************************************************************************)
(* bzip3.go: State.EncodeBlock and State.DecodeBlock.  A block goes        *)
(* through run-length encoding, LZP, the Burrows-Wheeler transform and the *)
(* arithmetic coder, from the caller's buffer to the state's swap buffer   *)
(* and back, each of the first two stages being kept only if it made the   *)
(* block smaller; DecodeBlock undoes them in place, for any header.        *)
(*                                                                         *)
(* A stage is known by the sizes it may produce, and data by the stages it *)
(* has gone through: undoing the last of them with the right parameters    *)
(* gives the data back, anything else gives garbage, which is never the    *)
(* data.  A CRC is known by the data it is the checksum of, if these are   *)
(* data of this model: no other data have it.                              *)
(***************************************************************************)
EXTENDS Integers, Sequences, SequencesExt

CONSTANTS
  BlockSize,       \* s.blockSize
  DataSizes,       \* sizes EncodeBlock is called with
  RleSizes(_),     \* sizes rle.Encode may produce from n bytes
  LzpSizes(_),     \* results lzp.Compress may return for n bytes, -1 included
  CmSizes(_),      \* sizes the arithmetic coder may produce from n bytes
  ForeignSizes,    \* sizes found in headers EncodeBlock did not write
  ForeignIndices,  \* BWT indices found there
  ForeignBuffers   \* lengths of the buffers such blocks are decoded in

Bound(n) == n + n \div 50 + 32

ASSUME SizesAssumption ==
  /\ BlockSize \in Nat \ {0}
  /\ DataSizes \subseteq Nat
  /\ ForeignSizes \subseteq Int
  /\ ForeignIndices \subseteq Int
  /\ ForeignBuffers \subseteq Nat

(* What the stages may make of a block.  Nothing bounds how much the         *)
(* arithmetic coder writes.                                                  *)
ASSUME StagesAssumption ==
  \A n \in 1..BlockSize :
    /\ RleSizes(n) \subseteq 1..n + 32
    /\ LzpSizes(n) \subseteq -1..n
    /\ CmSizes(n) \subseteq Nat

(* The model byte. *)
modelLZP  == "lzp"
modelRLE  == "rle"

VARIABLES
  bufLen,     \* len(buffer)
  mem,        \* mem.buffer, mem.swap: the data at the front of each
  b1,         \* which of the two the code calls b1 (b2 is the other)
  size,       \* dataSize while encoding, sizeBeforeBwt and sizeSrc while decoding
  origSize,   \* the size of the data EncodeBlock is given
  told,       \* the origSize DecodeBlock is given
  block,      \* the compressed block and its header fields
  original,   \* the block is being made, or as EncodeBlock returned it
  pc,
  result      \* what the last call returned

vars == <<bufLen, mem, b1, size, origSize, told, block, original, pc, result>>

b2 == IF b1 = "buffer" THEN "swap" ELSE "buffer"

(* Faulty variant: NewState sizes the swap buffer by the block size.         *)
CapacityTight(b) == IF b = "buffer" THEN bufLen ELSE BlockSize

Capacity(b) == IF b = "buffer" THEN bufLen ELSE Bound(BlockSize)

(* Data: len bytes, the outcome of these stages. *)
Content(stages, len) == [stages |-> stages, len |-> len]
Through(d, st, len)  == Content(Append(d.stages, [stage |-> st, before |-> d.len]), len)
Garbage(len)         == Content(<<[stage |-> "garbage", before |-> 0]>>, len)

(* The first len bytes of a buffer that holds d. *)
Cut(d, len) == IF len = 0 THEN Content(<<>>, 0) ELSE IF d.len = len THEN d ELSE Garbage(len)

(* What undoing stage st makes of d: the data before it, or garbage.         *)
LastStage(d)       == d.stages # <<>> /\ Last(d.stages).stage # "garbage"
Undoes(d, st, len) == LastStage(d) /\ Last(d.stages).stage = st /\ Last(d.stages).before = len
Undo(d)            == Content(Front(d.stages), Last(d.stages).before)

(* The CRC of data that are none of this model's.                            *)
Unknown == Content(<<>>, -1)

EmptyBlock == [compressedSize |-> 0, stored |-> FALSE, bwtIdx |-> 0, model |-> {},
               lzpSize |-> -1, rleSize |-> -1, crc |-> Unknown, payload |-> Garbage(0)]

(* Blocks from elsewhere: any header, and a payload that decodes to data of  *)
(* its own, of which only the size is known.  Their CRC may be right.        *)
ForeignBlocks ==
  {[compressedSize |-> c, stored |-> FALSE, bwtIdx |-> x, model |-> m,
    lzpSize |-> l, rleSize |-> r, crc |-> Unknown, payload |-> Garbage(0)] :
     c \in ForeignSizes, x \in ForeignIndices, m \in SUBSET {modelLZP, modelRLE},
     l \in ForeignSizes, r \in ForeignSizes}

(* What a block EncodeBlock made may have become: one field of its header,   *)
(* its size or its payload is not what it was.  After another model byte, or *)
(* a stored block's index, sizes and payload are read in the wrong place.    *)
Read(b, x, m, n) ==
  [b EXCEPT !.bwtIdx = x, !.model = m, !.lzpSize = n, !.rleSize = n, !.payload = Garbage(0)]

Misplaced(b, x) ==
  {Read(b, x, m, n) : m \in SUBSET {modelLZP, modelRLE}, n \in ForeignSizes}

DamagedBlocks(b) ==
  {[b EXCEPT !.compressedSize = n] : n \in ForeignSizes}
  \cup {[b EXCEPT !.payload = Garbage(0)]}
  \cup IF b.stored THEN UNION {Misplaced(b, x) : x \in ForeignIndices}
       ELSE {[b EXCEPT !.bwtIdx = x] : x \in ForeignIndices}
            \cup Misplaced(b, b.bwtIdx)
            \cup (IF modelLZP \notin b.model THEN {}
                  ELSE {[b EXCEPT !.lzpSize = n] : n \in ForeignSizes})
            \cup (IF modelRLE \notin b.model THEN {}
                  ELSE {[b EXCEPT !.rleSize = n] : n \in ForeignSizes})

Init ==
  /\ mem = [buffer |-> Garbage(0), swap |-> Garbage(0)]
  /\ b1 = "buffer"
  /\ result = [size |-> 0, err |-> "none"]
  /\ size = 0
  /\ \/ /\ pc = "encode"
        /\ origSize \in DataSizes
        /\ told = origSize
        /\ bufLen \in {Bound(origSize) - 1, Bound(origSize)}
        /\ block = EmptyBlock
        /\ original = TRUE
     \/ /\ pc = "decode"
        /\ origSize = 0
        /\ told \in ForeignSizes
        /\ bufLen \in ForeignBuffers
        /\ block \in {b \in ForeignBlocks :
                        /\ modelLZP \notin b.model => b.lzpSize = -1
                        /\ modelRLE \notin b.model => b.rleSize = -1}
        /\ original = FALSE

Return(s, e) == pc' = "returned" /\ result' = [size |-> s, err |-> e]
Fail(e)      == Return(-1, e)

(* A step that slices a buffer beyond its length panics. *)
Checked(inRange, step) == IF inRange THEN step ELSE Fail("panic") /\ UNCHANGED <<mem, b1, size>>

-----------------------------------------------------------------------------
(* EncodeBlock: the checks, and small blocks stored as they are.             *)
Begin ==
  /\ pc = "encode"
  /\ size' = origSize
  /\ IF origSize > BlockSize THEN Fail("dataTooBig") /\ UNCHANGED <<mem, block>>
     ELSE IF bufLen < Bound(origSize) THEN Fail("dataSizeTooSmall") /\ UNCHANGED <<mem, block>>
     ELSE IF origSize < 64
       THEN /\ block' = [EmptyBlock EXCEPT !.stored = TRUE, !.bwtIdx = -1,
                           !.compressedSize = origSize + 8,
                           !.crc = Content(<<>>, origSize), !.payload = Content(<<>>, origSize)]
            /\ pc' = "encoded"
            /\ result' = [size |-> origSize + 8, err |-> "nil"]
            /\ UNCHANGED mem
       ELSE /\ mem' = [mem EXCEPT !.buffer = Content(<<>>, origSize)]
            /\ block' = [EmptyBlock EXCEPT !.crc = Content(<<>>, origSize)]
            /\ pc' = "rle"
            /\ UNCHANGED result
  /\ UNCHANGED <<bufLen, b1, origSize, told, original>>

(* A stage from b1 to b2, kept (the buffers change roles) if it is smaller.  *)
Stage(st, len) ==
  /\ mem' = [mem EXCEPT ![b2] = IF len < 0 THEN Garbage(0) ELSE Through(mem[b1], st, len)]
  /\ IF len > 0 /\ len < size
       THEN /\ b1' = b2
            /\ size' = len
            /\ block' = IF st = "rle"
                          THEN [block EXCEPT !.model = @ \cup {modelRLE}, !.rleSize = len]
                          ELSE [block EXCEPT !.model = @ \cup {modelLZP}, !.lzpSize = len]
       ELSE UNCHANGED <<b1, size, block>>
  /\ UNCHANGED result

RleStage == /\ pc = "rle"
            /\ pc' = "lzp"
            /\ \E len \in RleSizes(size) : Stage("rle", len)
            /\ UNCHANGED <<bufLen, origSize, told, original>>

LzpStage == /\ pc = "lzp"
            /\ pc' = "bwt"
            /\ \E len \in LzpSizes(size) : Stage("lzp", len)
            /\ UNCHANGED <<bufLen, origSize, told, original>>

(* The transform from b1 to b2, then the arithmetic coder from b2 to b1      *)
(* after the room for the header.                                            *)
BwtStage ==
  /\ pc = "bwt"
  /\ mem' = [mem EXCEPT ![b2] = Through(mem[b1], "bwt", size)]
  /\ block' = [block EXCEPT !.bwtIdx = size]
  /\ pc' = "cm"
  /\ UNCHANGED <<bufLen, b1, size, origSize, told, original, result>>

HeaderLen(model) == 9 + (IF modelLZP \in model THEN 4 ELSE 0) + (IF modelRLE \in model THEN 4 ELSE 0)

(* The coder panics when it reaches the end of b1.                           *)
CmStage ==
  /\ pc = "cm"
  /\ \E len \in CmSizes(size) :
       /\ size' = len
       /\ IF len > Capacity(b1) - HeaderLen(block.model)
            THEN Fail("overrun") /\ UNCHANGED mem
            ELSE /\ mem' = [mem EXCEPT ![b1] = Through(mem[b2], "cm", len)]
                 /\ pc' = "finish"
                 /\ UNCHANGED result
  /\ UNCHANGED <<bufLen, b1, origSize, told, block, original>>

(* The header is put in front; the block is copied to buffer if it is in     *)
(* swap, and what is returned is what is in buffer.  A block that is longer  *)
(* than buffer makes the caller panic, who takes it from there.              *)
Finish ==
  /\ pc = "finish"
  /\ LET total == size + HeaderLen(block.model)
     IN  IF total > bufLen THEN Fail("overrun") /\ UNCHANGED <<mem, block>>
         ELSE /\ mem' = IF b1 # "buffer" THEN [mem EXCEPT !.buffer = mem[b1]] ELSE mem
              /\ block' = [block EXCEPT !.compressedSize = total, !.payload = mem'.buffer]
              /\ pc' = "encoded"
              /\ result' = [size |-> total, err |-> "nil"]
  /\ UNCHANGED <<bufLen, b1, size, origSize, told, original>>

(* The block goes to a decoder, of another State or of the same one, with a  *)
(* buffer of its own; it may be damaged, or the origSize that comes with it  *)
(* may be wrong.                                                             *)
Transport ==
  /\ pc = "encoded"
  /\ bufLen' \in {Bound(origSize), Bound(BlockSize)}
  /\ \/ block' = block /\ told' \in {origSize} \cup ForeignSizes /\ UNCHANGED original
     \/ block' \in DamagedBlocks(block) /\ told' = origSize /\ original' = FALSE
  /\ mem' \in {mem, [buffer |-> Garbage(0), swap |-> Garbage(0)]}
  /\ b1' = "buffer"
  /\ size' = 0
  /\ pc' = "decode"
  /\ result' = [size |-> 0, err |-> "none"]
  /\ UNCHANGED origSize

-----------------------------------------------------------------------------
(* Faulty variant: the CRC is not checked. *)
CrcUnchecked(data) == TRUE

CrcRight(data) == data = block.crc \/ block.crc = Unknown

(* The CRC of what has been decoded, against the one in the header.          *)
Verify(data, len) == \/ CrcRight(data) /\ Return(len, "nil")
                     \/ data # block.crc /\ Fail("crc")

(* DecodeBlock: a stored block.  Its CRC is the only check on its content.   *)
DecodeStored ==
  LET n    == block.compressedSize - 8
      data == Cut(IF block.stored THEN block.payload ELSE Garbage(n), n)
  IN  IF n > 64 \/ n < 0 THEN Fail("malformedHeader") /\ UNCHANGED mem
      ELSE Verify(data, n) /\ mem' = [mem EXCEPT !.buffer = data]

(* Faulty variant: the stages are undone in the order they were applied in.  *)
SizeBeforeBwtOfRle == IF modelRLE \in block.model THEN block.rleSize
                      ELSE IF modelLZP \in block.model THEN block.lzpSize
                      ELSE told

SizeBeforeBwt == IF modelLZP \in block.model THEN block.lzpSize
                 ELSE IF modelRLE \in block.model THEN block.rleSize
                 ELSE told

OutOfRange(n) == n > Bound(BlockSize) \/ n < 0

(* The header checks, in the order of the code.  The header is read before   *)
(* compressedSize says that it is there; the (over-)required header size is  *)
(* 8 for LZP and 16 for RLE.                                                 *)
Start ==
  /\ pc = "decode"
  /\ IF bufLen < 9 \/ bufLen < block.compressedSize
       THEN Fail("dataSizeTooSmall") /\ UNCHANGED <<mem, size>>
     ELSE IF OutOfRange(block.compressedSize)
       THEN Fail("malformedHeader") /\ UNCHANGED <<mem, size>>
     ELSE IF block.bwtIdx = -1
       THEN DecodeStored /\ UNCHANGED size
     ELSE IF bufLen < 9 + (IF modelLZP \in block.model THEN 8 ELSE 0)
                        + (IF modelRLE \in block.model THEN 16 ELSE 0)
       THEN Fail("dataSizeTooSmall") /\ UNCHANGED <<mem, size>>
     ELSE IF bufLen < HeaderLen(block.model)
       THEN Fail("panic") /\ UNCHANGED <<mem, size>>
     ELSE IF \/ modelLZP \in block.model /\ OutOfRange(block.lzpSize)
             \/ modelRLE \in block.model /\ OutOfRange(block.rleSize)
             \/ OutOfRange(told)
       THEN Fail("malformedHeader") /\ UNCHANGED <<mem, size>>
     ELSE IF \/ modelLZP \in block.model /\ block.lzpSize > bufLen
             \/ modelRLE \in block.model /\ block.rleSize > bufLen
             \/ told > bufLen
       THEN Fail("dataSizeTooSmall") /\ UNCHANGED <<mem, size>>
     ELSE /\ mem' = [mem EXCEPT !.buffer = block.payload]
          /\ size' = SizeBeforeBwt
          /\ pc' = "undoCm"
          /\ UNCHANGED result
  /\ UNCHANGED <<bufLen, b1, origSize, told, block, original>>

(* Decode from b1[cmStart:cmEnd] into b2[:size] and change roles; a payload  *)
(* of negative length is empty, and one that is cut short, or that goes on   *)
(* behind its end, may still do.                                             *)
CmMakes(d, whole) ==
  (IF Undoes(d, "cm", size) THEN {Undo(d)} ELSE {Garbage(size)})
  \cup (IF whole THEN {} ELSE {Garbage(size)})

UndoCm ==
  /\ pc = "undoCm"
  /\ LET cmStart == HeaderLen(block.model)
         cmEnd   == IF block.compressedSize < cmStart THEN cmStart ELSE block.compressedSize
     IN  Checked(cmEnd <= Capacity(b1) /\ size <= Capacity(b2),
           /\ \E d \in CmMakes(mem[b1], cmEnd = cmStart + mem[b1].len) :
                mem' = [mem EXCEPT ![b2] = d]
           /\ b1' = b2
           /\ IF block.bwtIdx > size THEN Fail("malformedHeader")
              ELSE pc' = "undoBwt" /\ UNCHANGED result
           /\ UNCHANGED size)
  /\ UNCHANGED <<bufLen, origSize, told, block, original>>

IndexValid == IF size <= 1 THEN block.bwtIdx = size ELSE block.bwtIdx \in 1..size

UndoBwt ==
  /\ pc = "undoBwt"
  /\ Checked(size <= Capacity(b1) /\ size <= Capacity(b2) /\ size + 1 <= Bound(BlockSize) + 1,
       IF ~IndexValid THEN Fail("bwt") /\ UNCHANGED <<mem, b1, size>>
       ELSE /\ mem' = [mem EXCEPT ![b2] =
                         IF Undoes(mem[b1], "bwt", size) /\ block.bwtIdx = size
                           THEN Undo(mem[b1]) ELSE Garbage(size)]
            /\ b1' = b2
            /\ pc' = "undoLzp"
            /\ UNCHANGED <<size, result>>)
  /\ UNCHANGED <<bufLen, origSize, told, block, original>>

(* LZP decodes into at most bound bytes of b2; on garbage it may fail or     *)
(* stop at any size.                                                         *)
UndoLzp ==
  /\ pc = "undoLzp"
  /\ IF modelLZP \notin block.model THEN pc' = "undoRle" /\ UNCHANGED <<mem, b1, size, result>>
     ELSE Checked(block.lzpSize <= Capacity(b1) /\ Bound(BlockSize) <= Capacity(b2),
       LET d    == mem[b1]
           good == LastStage(d) /\ Last(d.stages).stage = "lzp"
       IN  \E len \in IF good THEN {Undo(d).len}
                      ELSE {-1} \cup {n \in ForeignSizes : n >= 4 /\ n <= Bound(BlockSize)} :
             /\ mem' = [mem EXCEPT ![b2] = IF good THEN Undo(d) ELSE Garbage(len)]
             /\ size' = len
             /\ IF len = -1 THEN Fail("crc") /\ UNCHANGED b1
                ELSE IF len > bufLen THEN Fail("dataSizeTooSmall") /\ UNCHANGED b1
                ELSE b1' = b2 /\ pc' = "undoRle" /\ UNCHANGED result)
  /\ UNCHANGED <<bufLen, origSize, told, block, original>>

(* RLE must produce exactly told bytes of b2.                            *)
UndoRle ==
  /\ pc = "undoRle"
  /\ IF modelRLE \notin block.model THEN pc' = "check" /\ UNCHANGED <<mem, b1, size, result>>
     ELSE Checked(size <= Capacity(b1) /\ told <= Capacity(b2),
       LET d    == mem[b1]
           good == Undoes(d, "rle", told)
       IN  /\ mem' = [mem EXCEPT ![b2] = IF good THEN Undo(d) ELSE Garbage(told)]
           /\ \/ ~good /\ Fail("crc") /\ UNCHANGED <<b1, size>>
              \/ /\ b1' = b2
                 /\ size' = told
                 /\ pc' = "check"
                 /\ UNCHANGED result)
  /\ UNCHANGED <<bufLen, origSize, told, block, original>>

(* The block must not be larger than the block size; it is copied to buffer  *)
(* if it is in swap, and the CRC of what is there must be right.             *)
Check ==
  /\ pc = "check"
  /\ IF size > BlockSize THEN Fail("malformedHeader") /\ UNCHANGED <<mem, b1, size>>
     ELSE Checked(size <= Capacity(b1) /\ size <= bufLen,
       /\ mem' = IF size > 0 /\ b1 # "buffer" THEN [mem EXCEPT !.buffer = mem[b1]] ELSE mem
       /\ Verify(Cut(mem'.buffer, size), size)
       /\ UNCHANGED <<b1, size>>)
  /\ UNCHANGED <<bufLen, origSize, told, block, original>>

Next == \/ Begin \/ RleStage \/ LzpStage \/ BwtStage \/ CmStage \/ Finish
        \/ Transport
        \/ Start \/ UndoCm \/ UndoBwt \/ UndoLzp \/ UndoRle \/ Check
        \/ pc = "returned" /\ UNCHANGED vars

Spec == Init /\ [][Next]_vars

-----------------------------------------------------------------------------
Errors == {"none", "nil", "dataTooBig", "dataSizeTooSmall", "malformedHeader", "bwt", "crc",
           "panic", "overrun"}

Data == [stages : Seq([stage : {"rle", "lzp", "bwt", "cm", "garbage"}, before : Nat]), len : Int]

TypeOK ==
  /\ bufLen \in Nat
  /\ mem \in [buffer : Data, swap : Data]
  /\ b1 \in {"buffer", "swap"}
  /\ size \in Int
  /\ origSize \in Nat
  /\ told \in Int
  /\ block \in [compressedSize : Int, stored : BOOLEAN, bwtIdx : Int,
                model : SUBSET {modelLZP, modelRLE}, lzpSize : Int, rleSize : Int,
                crc : Data, payload : Data]
  /\ original \in BOOLEAN
  /\ pc \in {"encode", "rle", "lzp", "bwt", "cm", "finish", "encoded", "decode", "undoCm",
             "undoBwt", "undoLzp", "undoRle", "check", "returned"}
  /\ result \in [size : Int, err : Errors]

(***************************************************************************)
(* Whichever stages were kept, and with whatever left over in the buffers  *)
(* of the decoder, a block EncodeBlock returned comes back: DecodeBlock    *)
(* returns the size of the original data and has put it at the front of    *)
(* buffer, the buffer being as small as Bound(origSize), which the comment *)
(* on DecodeBlock says is always enough.                                   *)
(***************************************************************************)
Encoded == original /\ block.compressedSize > 0

BlockRoundTrips ==
  Encoded /\ pc = "returned" /\ told = origSize =>
    /\ result = [size |-> origSize, err |-> "nil"]
    /\ mem.buffer = Content(<<>>, origSize)

(***************************************************************************)
(* Whichever field of a block EncodeBlock made, but its CRC, is not what it *)
(* was, and whatever size DecodeBlock is told, when it succeeds it returns *)
(* the size of the original data and has put them at the front of buffer.  *)
(* And for a block of any origin: the size it returns is the one it was told, as   *)
(* its comment says, unless the block is stored, or LZP and not RLE was    *)
(* applied; that is what its callers compare it for.                       *)
(***************************************************************************)
NeverWrongData ==
  pc = "returned" /\ result.err = "nil" =>
    /\ block.crc # Unknown =>
         result.size = origSize /\ Cut(mem.buffer, origSize) = Content(<<>>, origSize)
    /\ result.size = told \/ block.bwtIdx = -1 \/ block.model = {modelLZP}

(***************************************************************************)
(* No stage is given a slice beyond the buffer it is taken from, nor       *)
(* writes more than its buffer holds: whatever a header says, the checks   *)
(* on it, in the order they are made, cover every slice, and although each *)
(* buffer takes every part in turn, the caller's may only be as large as   *)
(* the bound of the data, the swap buffer as the bound of the block size.  *)
(* Only the arithmetic coder may reach the end of a buffer, and not unless *)
(* it makes more than the bound of its input, less the longest header.     *)
(***************************************************************************)
CoderExpands == size > Bound(mem[b2].len) - 17

AccessesInRange ==
  /\ result.err # "panic"
  /\ result.err = "overrun" => original /\ CoderExpands
  /\ mem.buffer.len <= bufLen
  /\ mem.swap.len <= Capacity("swap")
  /\ pc = "encoded" => block.compressedSize <= bufLen

(* The two buffers hold what their slices may hold, wherever the codec is.   *)
Inv == TypeOK /\ AccessesInRange
=============================================================================

------------------------------- MODULE Frame -------------------------------
(***************************************************************************)
(* frame.go: Compress makes a self-contained frame (a 13-byte header with  *)
(* the block size and the number of blocks, then the blocks), Decompress   *)
(* takes one apart again: it first scans all block headers, then decodes.  *)
(* Between the two the frame may be damaged.                               *)
(*                                                                         *)
(* Only positions and sizes matter here, so the bytes from..from+len-1 of  *)
(* the source are the record [from, len], and a frame body is the sequence *)
(* of block headers and payloads that Decompress cuts it into, whatever    *)
(* the bytes are: the size that is read in a header says where the next    *)
(* one is read.  The last of them may be cut short.                        *)
(***************************************************************************)
EXTENDS Integers, Sequences, SequencesExt

CONSTANTS
  MinBlockSize, MaxBlockSize,   \* the limits NewState enforces
  Int32Max,                     \* largest value of the code's int32
  Lengths,                      \* lengths of the sources to compress
  BlockSizes,                   \* block sizes callers ask for
  EncSize(_),                   \* compressed size of a block of some length
  FieldValues,                  \* what may be read in a damaged header field
  Strays,                       \* what may be read of a body in the wrong place
  ForeignFrames                 \* frames that Compress did not make

BlockBound(n) == n + n \div 50 + 32

ASSUME LimitsAssumption ==
  /\ MinBlockSize \in Nat \ {0}
  /\ Int32Max \in Nat
  /\ MaxBlockSize \in MinBlockSize..Int32Max - 1
  /\ Lengths \subseteq Nat
  /\ BlockSizes \subseteq -Int32Max..Int32Max
  /\ \A n \in 0..MaxBlockSize : EncSize(n) \in 1..BlockBound(n)

(* A payload decodes as it was made ("enc"), or although it was altered (the *)
(* last bytes of the arithmetic coder are covered by no check), or it does   *)
(* not pass its CRC: junk.  Bytes read in the wrong place are junk.          *)
Segments == [kind : {"blockHeader"}, size : Int, origSize : Int]
            \cup [kind : {"payload"}, tag : {"enc", "altered", "junk"}, from : Nat, len : Nat]
            \cup {[kind |-> "part"]}

(* Headers and payloads take turns; only the last may be cut short, and not  *)
(* a payload of no bytes.                                                    *)
IsBody(b) ==
  /\ b \in Seq(Segments)
  /\ \A k \in 1..Len(b) :
       /\ b[k].kind \in {"part", IF k % 2 = 1 THEN "blockHeader" ELSE "payload"}
       /\ b[k].kind = "part" => k = Len(b)
       /\ b[k].kind = "blockHeader" /\ b[k].size = 0 =>
            k < Len(b) /\ b[k + 1].kind = "payload"

ASSUME DamageAssumption ==
  /\ FieldValues \subseteq Int
  /\ \A b \in Strays : /\ IsBody(b)
                        /\ \A k \in 1..Len(b) : b[k].kind = "payload" => b[k].tag = "junk"
  /\ \A f \in ForeignFrames :
       /\ f = [good |-> f.good, blockSize |-> f.blockSize, nBlocks |-> f.nBlocks, body |-> f.body]
       /\ f.good \in BOOLEAN /\ f.blockSize \in Int /\ f.nBlocks \in Int /\ IsBody(f.body)

Int32(x) == ((x + Int32Max + 1) % (2 * (Int32Max + 1))) - (Int32Max + 1)

VARIABLES
  length,      \* len(src) in Compress
  blockSize,   \* Compress: the argument, then the size used; Decompress: the header's
  off,         \* Compress: source bytes consumed
  frame,       \* the frame: its header fields and its body
  i,           \* block counter of the loop being run
  rest,        \* Decompress: segments of the body consumed by the loop being run
  total,       \* Decompress: the output size the scan has added up
  out,         \* Decompress: the decoded blocks
  sent,        \* history: the frame that Compress returned
  damage,      \* history: what happened to it on its way
  at,
  verdict      \* of the last call: "none" while it runs

frameVars == <<length, blockSize, off, frame, i, rest, total, out, sent, damage, at, verdict>>

BlockHeader(size, origSize) == [kind |-> "blockHeader", size |-> size, origSize |-> origSize]
Payload(tag, from, len)     == [kind |-> "payload", tag |-> tag, from |-> from, len |-> len]
Part                        == [kind |-> "part"]

FrameInit == /\ length \in Lengths
             /\ blockSize \in BlockSizes
             /\ off = 0
             /\ frame = [good |-> TRUE, blockSize |-> 0, nBlocks |-> 0, body |-> <<>>]
             /\ i = 0
             /\ rest = 0
             /\ total = 0
             /\ out = <<>>
             /\ sent = frame
             /\ damage = "none"
             /\ at = "compress"
             /\ verdict = "none"

-----------------------------------------------------------------------------
(* Compress: the block size is clamped for small inputs, and the header      *)
(* counts the blocks.                                                        *)
Clamped ==
  LET fitted == IF blockSize > length THEN Int32(BlockBound(length)) ELSE blockSize
  IN  IF fitted <= MinBlockSize THEN MinBlockSize ELSE fitted

(* Faulty variant: a short last block is not counted. *)
BlocksRoundedDown(bs) == length \div bs

BlocksOf(bs) == length \div bs + (IF length % bs # 0 THEN 1 ELSE 0)

CompressHeader ==
  /\ at = "compress"
  /\ blockSize' = Clamped
  /\ IF Clamped > MaxBlockSize
       THEN at' = "returned" /\ verdict' = "init" /\ UNCHANGED frame
       ELSE /\ frame' = [frame EXCEPT
                 !.blockSize = Clamped,
                 !.nBlocks = BlocksOf(Clamped)]
            /\ at' = "compressBlock"
            /\ UNCHANGED verdict
  /\ UNCHANGED <<length, off, i, rest, total, out, sent, damage>>

(* Faulty variant: the last block has the size of the others. *)
SizeOfAny(b) == blockSize

(* The size of block i: for the last one, the remainder of the division.     *)
SizeOf(b) == IF b = frame.nBlocks - 1 THEN length % blockSize ELSE blockSize

CompressBlock ==
  /\ at = "compressBlock"
  /\ i < frame.nBlocks
  /\ LET size == SizeOf(i)
     IN  /\ frame' = [frame EXCEPT !.body =
                        @ \o <<BlockHeader(EncSize(size), size), Payload("enc", off, size)>>]
         /\ off' = off + size
  /\ i' = i + 1
  /\ UNCHANGED <<length, blockSize, rest, total, out, sent, damage, at, verdict>>

CompressReturns ==
  /\ at = "compressBlock"
  /\ i = frame.nBlocks
  /\ at' = "transport"
  /\ sent' = frame
  /\ UNCHANGED <<length, blockSize, off, frame, i, rest, total, out, damage, verdict>>

-----------------------------------------------------------------------------
(* The frame reaches Decompress as it is, or damaged in one place, or it is  *)
(* another frame altogether.  A field that is damaged may have any value.    *)
Retagged(f, k, tag) == [f EXCEPT !.body[k].tag = tag]
HeadersOf(f)  == {k \in 1..Len(f.body) : k % 2 = 1}
PayloadsOf(f) == {k \in 1..Len(f.body) : k % 2 = 0}

(* Another size v is read in header k.  Payload k then has other bytes at    *)
(* its end, and what follows it is read in the wrong place, or is a later    *)
(* header, when whole blocks have been taken for payload; or the body ends   *)
(* within or before the payload.                                             *)
After(f, k) == {SubSeq(f.body, j, Len(f.body)) : j \in {j \in HeadersOf(f) : j > k + 2}}

Upto(f, k, v) == Append(SubSeq(f.body, 1, k - 1), [f.body[k] EXCEPT !.size = v])

GoingOn(f, k, v, tag) ==
  {[f EXCEPT !.body = Append(Upto(f, k, v), [f.body[k + 1] EXCEPT !.tag = tag]) \o t] :
     t \in Strays \cup After(f, k)}

Ending(f, k, v) == IF v = 0 THEN {}
                   ELSE {[f EXCEPT !.body = b] : b \in {Upto(f, k, v), Append(Upto(f, k, v), Part)}}

Misread(f, k, v) == GoingOn(f, k, v, "altered") \cup GoingOn(f, k, v, "junk") \cup Ending(f, k, v)

Damaged(f, kind) ==
  CASE kind = "none"     -> {f}
    [] kind = "header"   -> {[f EXCEPT !.good = FALSE]}
                            \cup {[f EXCEPT !.blockSize = v] : v \in FieldValues}
    [] kind = "count"    -> {[f EXCEPT !.nBlocks = v] : v \in FieldValues}
    [] kind = "cut"      -> {[f EXCEPT !.body = SubSeq(@, 1, k)] : k \in 0..Len(f.body) - 1}
                            \cup {[f EXCEPT !.body = Append(SubSeq(@, 1, k), Part)] :
                                    k \in 0..Len(f.body) - 1}
    [] kind = "trailing" -> {[f EXCEPT !.body = @ \o t] : t \in Strays}
    [] kind = "origSize" -> {[f EXCEPT !.body[k].origSize = v] :
                               k \in HeadersOf(f), v \in FieldValues}
    [] kind = "size"     -> UNION {Misread(f, k, v) : k \in HeadersOf(f), v \in FieldValues}
    [] kind = "payload"  -> {Retagged(f, k, tag) : k \in PayloadsOf(f), tag \in {"altered", "junk"}}
    [] kind = "foreign"  -> ForeignFrames

Damages == {"none", "header", "count", "cut", "trailing", "origSize", "size", "payload", "foreign"}

TransportFrame ==
  /\ at = "transport"
  /\ damage' \in Damages
  /\ frame' \in Damaged(frame, damage')
  /\ i' = 0
  /\ at' = "decompress"
  /\ UNCHANGED <<length, blockSize, off, rest, total, out, sent, verdict>>

-----------------------------------------------------------------------------
Answer(r) == at' = "returned" /\ verdict' = r

DecompressHeader ==
  /\ at = "decompress"
  /\ blockSize' = frame.blockSize
  /\ IF ~frame.good THEN Answer("malformed")
     ELSE IF frame.blockSize \notin MinBlockSize..MaxBlockSize THEN Answer("init")
     ELSE at' = "scan" /\ UNCHANGED verdict
  /\ UNCHANGED <<length, off, frame, i, rest, total, out, sent, damage>>

(* Segment k of what the loop has not consumed, if it is all there.          *)
There(k, kind) == rest + k <= Len(frame.body) /\ frame.body[rest + k].kind = kind
InRange(size)  == size \in 0..BlockBound(blockSize)

Scan ==
  /\ at = "scan"
  /\ i < frame.nBlocks
  /\ IF ~There(1, "blockHeader") THEN Answer("malformed") /\ UNCHANGED <<i, rest, total>>
     ELSE IF ~InRange(frame.body[rest + 1].size)
       THEN Answer("malformed") /\ UNCHANGED <<i, rest, total>>
     ELSE IF ~There(2, "payload") THEN Answer("truncated") /\ UNCHANGED <<i, rest, total>>
     ELSE IF ~InRange(frame.body[rest + 1].origSize)
       THEN Answer("malformed") /\ UNCHANGED <<i, rest, total>>
     ELSE /\ total' = total + frame.body[rest + 1].origSize
          /\ rest' = rest + 2
          /\ i' = i + 1
          /\ UNCHANGED <<at, verdict>>
  /\ UNCHANGED <<length, blockSize, off, frame, out, sent, damage>>

ScanEnds ==
  /\ at = "scan"
  /\ i >= frame.nBlocks
  /\ i' = 0
  /\ rest' = 0
  /\ at' = "decode"
  /\ UNCHANGED <<length, blockSize, off, frame, total, out, sent, damage, verdict>>

(* DecodeBlock returns the data, of a size the State can take.               *)
Decodable(p) == p.tag # "junk" /\ p.len <= blockSize

(* Faulty variant: the size that DecodeBlock returns is not looked at.       *)
TagRight(h, p) == Decodable(p)

Intact(h, p) == Decodable(p) /\ p.len = h.origSize

(* One DecodeBlock.  Told a wrong original size, it returns the true one (a  *)
(* stored block) or fails ("crc", whatever its error); the caller refuses    *)
(* both.  buf[:origSize] is appended.                                        *)
Decode ==
  /\ at = "decode"
  /\ i < frame.nBlocks
  /\ LET h == frame.body[rest + 1]
         p == frame.body[rest + 2]
     IN  IF Intact(h, p)
           THEN /\ out' = Append(out, [from |-> p.from, len |-> h.origSize])
                /\ rest' = rest + 2
                /\ i' = i + 1
                /\ UNCHANGED <<at, verdict>>
           ELSE /\ \/ Answer("crc")
                   \/ Decodable(p) /\ Answer("malformed")
                /\ UNCHANGED <<i, rest, out>>
  /\ UNCHANGED <<length, blockSize, off, frame, total, sent, damage>>

DecompressReturns ==
  /\ at = "decode"
  /\ i >= frame.nBlocks
  /\ Answer("nil")
  /\ UNCHANGED <<length, blockSize, off, frame, i, rest, total, out, sent, damage>>

FrameNext == \/ CompressHeader
             \/ CompressBlock
             \/ CompressReturns
             \/ TransportFrame
             \/ DecompressHeader
             \/ Scan
             \/ ScanEnds
             \/ Decode
             \/ DecompressReturns
             \/ at = "returned" /\ UNCHANGED frameVars

FrameSpec == FrameInit /\ [][FrameNext]_frameVars

-----------------------------------------------------------------------------
Frames == [good : BOOLEAN, blockSize : Int, nBlocks : Int, body : Seq(Segments)]

FrameTypeOK ==
  /\ length \in Lengths
  /\ blockSize \in Int
  /\ off \in Nat
  /\ frame \in Frames /\ sent \in Frames
  /\ i \in Nat
  /\ rest \in Nat
  /\ total \in Nat
  /\ out \in Seq([from : Nat, len : Nat])
  /\ damage \in Damages
  /\ at \in {"compress", "compressBlock", "transport", "decompress", "scan", "decode", "returned"}
  /\ verdict \in {"none", "nil", "init", "malformed", "truncated", "crc"}

(* The blocks, put end to end, are the first n bytes of the source. *)
Covers(blocks, n) ==
  /\ \A k \in 1..Len(blocks) :
       blocks[k].from = IF k = 1 THEN 0 ELSE blocks[k - 1].from + blocks[k - 1].len
  /\ n = IF blocks = <<>> THEN 0 ELSE Last(blocks).from + Last(blocks).len

(***************************************************************************)
(* No slice expression of the two functions is out of range: Compress      *)
(* never takes source bytes that are not there nor more than its buffer    *)
(* holds, and the decoding loop, which checks nothing, finds every header  *)
(* and payload whole and of a size its buffer holds.                       *)
(***************************************************************************)
SlicesInRange ==
  /\ at = "compressBlock" /\ i < frame.nBlocks =>
       off + SizeOf(i) <= length /\ SizeOf(i) <= BlockBound(blockSize)
  /\ at = "decode" /\ i < frame.nBlocks =>
       /\ There(1, "blockHeader") /\ There(2, "payload")
       /\ InRange(frame.body[rest + 1].size) /\ InRange(frame.body[rest + 1].origSize)

(***************************************************************************)
(* The inductive invariant.  Made is the whole frame that Compress makes   *)
(* of the source with blocks of size bs.                                   *)
(***************************************************************************)
MadeLen(bs, b) == IF b = BlocksOf(bs) THEN length % bs ELSE bs

MadeSegment(bs, k) ==
  LET b == (k + 1) \div 2
  IN  IF k % 2 = 1 THEN BlockHeader(EncSize(MadeLen(bs, b)), MadeLen(bs, b))
      ELSE Payload("enc", (b - 1) * bs, MadeLen(bs, b))

Made(bs) == [good |-> TRUE, blockSize |-> bs, nBlocks |-> BlocksOf(bs),
             body |-> [k \in 1..2 * BlocksOf(bs) |-> MadeSegment(bs, k)]]

(* Compress has made the first i blocks of it.                               *)
Building ==
  /\ at \in {"compress", "compressBlock", "transport"} =>
       rest = 0 /\ out = <<>> /\ damage = "none" /\ verdict = "none"
  /\ at = "compress" => i = 0 /\ off = 0 /\ frame.body = <<>> /\ frame.good
  /\ at \in {"compressBlock", "transport"} =>
       /\ blockSize \in MinBlockSize..MaxBlockSize
       /\ i \in 0..BlocksOf(blockSize)
       /\ frame.good /\ frame.blockSize = blockSize /\ frame.nBlocks = BlocksOf(blockSize)
       /\ frame.body = SubSeq(Made(blockSize).body, 1, 2 * i)
       /\ i < BlocksOf(blockSize) => off = i * blockSize
       /\ at = "transport" => i = BlocksOf(blockSize) /\ sent = frame

(* Block b of the frame is there, and its sizes are in range.                *)
Sound(b) ==
  /\ 2 * b <= Len(frame.body)
  /\ frame.body[2 * b - 1].kind = "blockHeader" /\ frame.body[2 * b].kind = "payload"
  /\ InRange(frame.body[2 * b - 1].size) /\ InRange(frame.body[2 * b - 1].origSize)

(* What damage in one place leaves of the frame: no payload that decodes is  *)
(* in the place of another, unless whole blocks are missing before it.       *)
Kept ==
  /\ damage = "none" => frame = sent
  /\ damage \notin {"count", "foreign"} => frame.nBlocks = sent.nBlocks
  /\ damage # "foreign" =>
       \/ damage # "count" /\ Len(frame.body) < Len(sent.body)
       \/ \A k \in 1..Len(frame.body) :
            frame.body[k].kind = "payload" /\ frame.body[k].tag # "junk" =>
              /\ k <= Len(sent.body)
              /\ frame.body[k].from = sent.body[k].from /\ frame.body[k].len = sent.body[k].len

(* Decompress has scanned, or decoded, the first i blocks of that.           *)
Receiving ==
  at \in {"decompress", "scan", "decode"} \/ verdict = "nil" =>
    /\ sent.blockSize \in MinBlockSize..MaxBlockSize
    /\ sent = Made(sent.blockSize)
    /\ Kept
    /\ rest = 2 * i
    /\ at \in {"decompress", "scan"} => out = <<>>
    /\ at = "decompress" => i = 0
    /\ at # "decompress" =>
         /\ frame.good /\ frame.blockSize = blockSize
         /\ blockSize \in MinBlockSize..MaxBlockSize
         /\ i = 0 \/ i <= frame.nBlocks
         /\ \A b \in 1..i : Sound(b)
    /\ at \notin {"decompress", "scan"} =>
         /\ \A b \in 1..frame.nBlocks : Sound(b)
         /\ \A b \in 1..i : Intact(frame.body[2 * b - 1], frame.body[2 * b])
         /\ Len(out) = i
         /\ \A b \in 1..i : /\ out[b].from = frame.body[2 * b].from
                            /\ out[b].len = frame.body[2 * b - 1].origSize
    /\ verdict = "nil" => i >= frame.nBlocks

Accepting ==
  /\ at # "returned" => verdict = "none"
  /\ at = "returned" => verdict # "none" /\ (damage = "none" => verdict \in {"nil", "init"})

FrameIInv == FrameTypeOK /\ Building /\ Receiving /\ Accepting

(* Both walks over the blocks stay inside the source and the frame.          *)
FrameInv == FrameIInv /\ SlicesInRange

(***************************************************************************)
(* A frame made from a source whose length is not a positive multiple of   *)
(* the block size used comes back whole.                                   *)
(***************************************************************************)
RoundTripsUnlessMultiple ==
  at = "returned" /\ damage = "none" /\ verdict # "init" /\ (length % blockSize # 0 \/ length = 0)
    => verdict = "nil" /\ Covers(out, length)

(***************************************************************************)
(* Every frame comes back whole: "round-trip integrity is what the test    *)
(* suite guarantees" (README.md), "Compress compresses src into a          *)
(* self-contained frame" (frame.go).  It does not hold.                    *)
(***************************************************************************)
RoundTrips ==
  at = "returned" /\ damage = "none" /\ verdict # "init" => verdict = "nil" /\ Covers(out, length)

(***************************************************************************)
(* Whatever happens to a frame in one place, what Decompress returns       *)
(* without an error is the data: all of it, unless the number of blocks in *)
(* the header is what was damaged, and then whole blocks from the first on.*)
(* (Not every damage is refused: neither bytes after the last block, nor   *)
(* another block size that will do, nor bytes of a payload that do not     *)
(* matter.)                                                                *)
(***************************************************************************)
AcceptedIsTheSource ==
  at = "returned" /\ verdict = "nil" /\ damage # "foreign" =>
    /\ \A k \in 1..Len(out) : /\ out[k].from = sent.body[2 * k].from
                              /\ out[k].len = sent.body[2 * k].len
    /\ IF damage = "count" THEN Len(out) <= sent.nBlocks ELSE Len(out) = sent.nBlocks
=============================================================================

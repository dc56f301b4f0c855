---------------------------- MODULE Bzip3Format ----------------------------
(***************************************************************************)
(* The bzip3 file format as the streaming code sees it (writer.go,         *)
(* reader.go, cmd/bzip3/main.go): a 9-byte stream header, then for each    *)
(* block an 8-byte block header (compressed size, original size) followed  *)
(* by the compressed block; the stream ends where the file ends.           *)
(*                                                                         *)
(* A file is a sequence of segments.  A segment is what the code writes    *)
(* with one Write and reads with one ReadFull: a stream header, a block    *)
(* header or a compressed block.  A segment of which only some bytes are   *)
(* there (a short write, a truncated file) is Part and can only be last.   *)
(***************************************************************************)
EXTENDS Integers, Sequences

CONSTANTS Byte,          \* the byte values that occur in the data
          MinBlockSize,  \* the block sizes NewState accepts
          MaxBlockSize,
          BlockSize,     \* the block size the encoder was created with
          EncSize(_)     \* compressed size EncodeBlock returns for a block

ValidBlockSize(bs) == bs \in MinBlockSize..MaxBlockSize

(* Upper bound the code reserves for n bytes of input (upstream bz3_bound). *)
Bound(n) == n + n \div 50 + 32

ASSUME FormatAssumption ==
  /\ MinBlockSize \in Nat \ {0}
  /\ MaxBlockSize \in Nat
  /\ ValidBlockSize(BlockSize)
  /\ \A n \in 1..BlockSize : \A b \in [1..n -> Byte] : EncSize(b) \in 1..Bound(n)

MinOf(a, b) == IF a <= b THEN a ELSE b

-----------------------------------------------------------------------------
(* What a block buffer of the code can hold: bytes of the input, the bytes *)
(* EncodeBlock left there, or bytes in between while it works in place.     *)
Raw(b)  == [tag |-> "raw",  data |-> b]
Busy(b) == [tag |-> "busy", data |-> b]
Enc(b)  == [tag |-> "enc",  data |-> b]

Header(bs)                     == [kind |-> "header", magic |-> TRUE, blockSize |-> bs]
BlockHeader(newSize, origSize) == [kind |-> "blockHeader", newSize |-> newSize,
                                   origSize |-> origSize]
Payload(size, body)            == [kind |-> "payload", size |-> size, body |-> body]
Part                           == [kind |-> "part"]

(* All segments whose payloads hold one of Payloads.                         *)
Segments(Payloads) ==
  [kind : {"header"}, magic : BOOLEAN, blockSize : Int]
    \cup [kind : {"blockHeader"}, newSize : Int, origSize : Int]
    \cup [kind : {"payload"}, size : Int, body : Payloads]
    \cup {Part}

(* The body of a payload is what DecodeBlock makes of its bytes: Enc(b), if   *)
(* it can take them for a block that holds b, whoever made it and whatever    *)
(* happened to it since, Junk if it refuses them whatever size it is told.    *)
Junk == [tag |-> "junk", data |-> <<>>]

(* The compressed blocks of a file of any origin.                             *)
Bodies == [tag : {"enc", "junk"}, data : Seq(Byte)]

-----------------------------------------------------------------------------
(* The check both stream decoders make of a block header before they use it. *)
SizesInBounds(h, bs) == h.newSize \in 0..Bound(bs) /\ h.origSize \in 0..Bound(bs)

(* What DecodeBlock may answer for a compressed block when told origSize.    *)
(* A stored or LZP-only block decodes to its own size whatever origSize is;  *)
(* any other comes out wrong and fails its CRC.                              *)
Refused      == [err |-> "crc", data |-> <<>>]
Decoded(b)   == [err |-> "nil", data |-> b]
DecodeResults(body, origSize, bs) ==
  IF body.tag # "enc" \/ Len(body.data) > bs THEN {Refused}
  ELSE IF Len(body.data) = origSize THEN {Decoded(body.data)}
  ELSE {Decoded(body.data), Refused}

-----------------------------------------------------------------------------
(***************************************************************************)
(* The stream the format prescribes for some data: segment 1 is the stream *)
(* header, segments 2k and 2k+1 are the header and the payload of block k, *)
(* block k being bytes (k-1)*BlockSize+1 .. k*BlockSize (the last one may  *)
(* be shorter, and no block is empty).                                     *)
(***************************************************************************)
Block(data, k) ==
  SubSeq(data, (k - 1) * BlockSize + 1, MinOf(k * BlockSize, Len(data)))

Segment(data, i) ==
  LET b == Block(data, i \div 2)
  IN  IF i = 1 THEN Header(BlockSize)
      ELSE IF i % 2 = 0 THEN BlockHeader(EncSize(b), Len(b))
      ELSE Payload(EncSize(b), Enc(b))

NumBlocks(data) == (Len(data) + BlockSize - 1) \div BlockSize

Stream(data) == [i \in 1..(1 + 2 * NumBlocks(data)) |-> Segment(data, i)]
=============================================================================

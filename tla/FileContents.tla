---------------------------- MODULE FileContents ----------------------------
(***************************************************************************)
(* What a file of any origin holds, for a decoder that reads it segment by *)
(* segment: the blocks before the first fault, and whether there is one.   *)
(***************************************************************************)
EXTENDS Bzip3Format, SequencesExt

(* The segments that the code reads from a file, one with each ReadFull: the *)
(* stream header, then block headers and payloads in turn.  Only the last    *)
(* can be cut short, by the end of the file; a payload of no bytes is always *)
(* there, at the end of the file too.                                        *)
KindAt(j) == IF j = 1 THEN "header" ELSE IF j % 2 = 0 THEN "blockHeader" ELSE "payload"

IsFile(f) ==
  /\ f \in Seq(Segments(Bodies))
  /\ \A j \in 1..Len(f) : IF f[j] = Part THEN j = Len(f) ELSE f[j].kind = KindAt(j)
  /\ \A j \in 1..Len(f) : f[j].kind = "blockHeader" /\ f[j].newSize = 0 =>
                             j < Len(f) /\ f[j + 1] # Part

(* The one header of the file is there and NewState accepts its block size. *)
HeaderGood(f) ==
  /\ f # <<>>
  /\ f[1].kind = "header"
  /\ f[1].magic
  /\ ValidBlockSize(f[1].blockSize)

(* Block k of the file is whole and decodes to the size its header gives.    *)
BlockGood(f, k) ==
  /\ 2 * k + 1 <= Len(f)
  /\ f[2 * k + 1].kind = "payload"
  /\ f[2 * k].newSize  \in 0..Bound(f[1].blockSize)
  /\ f[2 * k].origSize \in 0..Bound(f[1].blockSize)
  /\ f[2 * k + 1].body.tag = "enc"
  /\ Len(f[2 * k + 1].body.data) = f[2 * k].origSize
  /\ f[2 * k].origSize <= f[1].blockSize

(* The number of good blocks before the first fault (or the end of file).    *)
GoodBlocks(f) ==
  IF HeaderGood(f)
    THEN Max({m \in 0..Len(f) : \A k \in 1..m : BlockGood(f, k)})
    ELSE 0

BlockData(f, k) == f[2 * k + 1].body.data

(* The bytes of the first m blocks. *)
Bytes(f, m) == FlattenSeq([k \in 1..m |-> BlockData(f, k)])

Content(f) == Bytes(f, GoodBlocks(f))

Intact(f) == HeaderGood(f) /\ Len(f) = 1 + 2 * GoodBlocks(f)

(* f is the beginning of the stream of d: whole segments, but perhaps for    *)
(* the last, of blocks that hold some of the bytes of d.                     *)
LeftOf(d, f) ==
  /\ \A j \in 1..Len(f) : \/ f[j] = Segment(d, j)
                          \/ f[j] = Part /\ j = Len(f)
  /\ \A j \in 2..Len(f) : (j \div 2 - 1) * BlockSize < Len(d)
=============================================================================

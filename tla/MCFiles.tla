------------------------------- MODULE MCFiles -------------------------------
(* The files the decoders are checked on.  Byte values are small numbers;    *)
(* the encoder that made them used block size 2.                             *)
EXTENDS Bzip3Format, SequencesExt

MCByte       == 1..8
MCEncSize(b) == 8 + Len(b)

Originals == {[k \in 1..len |-> k] : len \in {0, 1, 2, 3, 5, 8}}

Complete == {Stream(data) : data \in Originals}

(* Files that end early, on a segment boundary or inside a segment.          *)
Truncated == UNION {{SubSeq(f, 1, k) : k \in 0..Len(f) - 1}
                    \cup {Append(SubSeq(f, 1, k), Part) : k \in 0..Len(f) - 1} : f \in Complete}

(* One segment replaced by one that no Writer produces, or by one of a      *)
(* stream with another block size.                                          *)
BadSegments(seg) ==
  CASE seg.kind = "header" ->
         {[seg EXCEPT !.magic = FALSE], Header(MinBlockSize - 1), Header(MaxBlockSize + 1),
          Header(MinBlockSize), Header(MaxBlockSize)}
    [] seg.kind = "blockHeader" ->
         {[seg EXCEPT !.newSize = -1], [seg EXCEPT !.newSize = Bound(MaxBlockSize) + 1],
          [seg EXCEPT !.origSize = -1], [seg EXCEPT !.origSize = Bound(MaxBlockSize) + 1],
          [seg EXCEPT !.origSize = @ + 1], [seg EXCEPT !.origSize = @ - 1]}
    [] seg.kind = "payload" ->
         {[seg EXCEPT !.body = Junk]}

Corrupt == UNION {UNION {{ReplaceAt(f, k, seg) : seg \in BadSegments(f[k])} : k \in 1..Len(f)}
                  : f \in Complete}

(* Blocks of length zero, which the Writer does not make but the format has. *)
EmptyBlock == <<BlockHeader(8, 0), Payload(8, Enc(<<>>))>>
WithEmptyBlocks == UNION {{SubSeq(f, 1, k) \o EmptyBlock \o SubSeq(f, k + 1, Len(f)) :
                             k \in {j \in 1..Len(f) : j % 2 = 1}} : f \in Complete}

(* A block header that announces no bytes, as the last thing in the file: what *)
(* the decoder then finds in its buffer is refused, or makes an empty block.  *)
NoPayload ==
  {f \o <<BlockHeader(0, size), Payload(0, body)>> :
     f \in Complete, size \in {0, 1}, body \in {Junk, Enc(<<>>)}}

(* A block larger than the block size the stream header announces.           *)
Oversized == {<<Header(2), BlockHeader(11, 3), Payload(11, Enc(<<1, 2, 3>>))>>}

MCFileSet == Complete \cup Truncated \cup Corrupt \cup WithEmptyBlocks \cup NoPayload
               \cup Oversized
=============================================================================

------------------------------ MODULE MCFrame ------------------------------
(* Model-checking instance of Frame: limits scaled down so that every length *)
(* around them is tried, the clamp included (Bound adds at least 32 bytes).  *)
EXTENDS Frame

CONSTANTS MaxLength, SmallBlockSize, LargeBlockSize

MCLengths    == 0..MaxLength
MCBlockSizes == SmallBlockSize..LargeBlockSize
MCSomeBlockSizes == {34, 36, 40, 79, 80, 81, 110}
MCEncSize(s) == 8 + s

(* Around the bounds of the smallest and the largest block size, too: 68 and *)
(* 113; 44 is the compressed size of a block of the smallest.                *)
MCFieldValues == {-1, 0, 1, 35, 36, 44, 68, 69, 80, 81, 113}

StrayHeader  == BlockHeader(9, 1)
StrayPayload == Payload("junk", 0, 1)
MCStrays == {<<>>, <<Part>>, <<BlockHeader(-1, 0)>>, <<StrayHeader, Part>>,
             <<StrayHeader, StrayPayload, StrayHeader, StrayPayload, StrayHeader, StrayPayload>>}

(* Blocks of other data: one that is larger than the block size, but not     *)
(* than the bound; one of no bytes; and too few of them.                     *)
Alien(body, n) == [good |-> TRUE, blockSize |-> 36, nBlocks |-> n, body |-> body]
MCForeignFrames ==
  {Alien(<<BlockHeader(68, 68), Payload("enc", 0, 68)>>, 1),
   Alien(<<BlockHeader(0, 0), StrayPayload>>, 1),
   Alien(<<BlockHeader(9, 1), Payload("enc", 5, 1), BlockHeader(68, 36), Payload("enc", 0, 36)>>, 2),
   Alien(<<BlockHeader(9, 1), Payload("enc", 5, 1), BlockHeader(68, 36)>>, 2)}
=============================================================================

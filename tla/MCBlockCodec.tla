---------------------------- MODULE MCBlockCodec ----------------------------
(* Model-checking instance of BlockCodec: the smallest block size NewState   *)
(* accepts, and the sizes around every limit of the code.                    *)
EXTENDS BlockCodec

(* 64: blocks below are stored; 72: LZP needs that much.                     *)
MCDataSizes == {0, 1, 63, 64, 65, 71, 72, 200, BlockSize, BlockSize + 1}

(* A 32-byte bitmap and at least one byte; no gain adds the bitmap.          *)
MCRleSizes(n) == {34, n - 1, n, n + 32} \cap 33..n + 32

(* Shorter than its input by 9 bytes at least, or refused.                   *)
MCLzpSizes(n) == {-1} \cup (IF n < 72 THEN {} ELSE {13, n - 9})

(* Small, around the room that is always there, and more than any buffer.    *)
MCCmSizes(n) == {5, n, Bound(n) - 17, Bound(n) - 16, 2 * BlockSize}

MCForeignSizes == {-1, 0, 8, 9, 17, 73, BlockSize, Bound(BlockSize), Bound(BlockSize) + 1}
MCForeignBuffers == {8, 9, 17, 25, Bound(BlockSize), Bound(BlockSize) + 1}
MCForeignIndices == {-1, 0, 1, BlockSize + 1}
=============================================================================

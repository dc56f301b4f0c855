\* Streams of up to four blocks, whole, truncated, corrupt or with empty blocks,
\* read in pieces of 0 to 3 bytes (less than, equal to and more than a block).
CONSTANTS
  Byte <- MCByte
  MinBlockSize = 2
  MaxBlockSize = 3
  BlockSize = 2
  EncSize <- MCEncSize
  Files <- MCFileSet
  MaxRead = 3

SPECIFICATION FairSpec

INVARIANTS
  Inv
  VerdictIsFirstFault

PROPERTIES
  ReachesVerdict
  RefinesDecodedStream

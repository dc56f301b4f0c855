\* Every input length up to six and a half blocks: rounds that end full, not
\* full, full but for a short last block, and a last round without any block.
CONSTANTS
  InputLength = 13
  Byte <- MCByte
  MinBlockSize = 2
  MaxBlockSize = 3
  BlockSize = 2
  EncSize <- MCEncSize
  Input <- MCInput
  Workers = 3

SPECIFICATION FairSpec

INVARIANTS
  IInv

PROPERTIES
  BufferOwnership
  Terminates
  RefinesEncodedStream

\* Streams of up to four blocks, whole, truncated, corrupt or with empty blocks:
\* with two workers, one round, a full round and one more, or two full rounds.
CONSTANTS
  Byte <- MCByte
  MinBlockSize = 2
  MaxBlockSize = 3
  BlockSize = 2
  EncSize <- MCEncSize
  Files <- MCFileSet
  Workers = 2

SPECIFICATION FairSpec

INVARIANTS
  Inv
  LossIsBounded

PROPERTIES
  Terminates
  RefinesDecodedStream

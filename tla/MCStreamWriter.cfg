\* Three whole blocks and a short one, in every division into Write calls.
CONSTANTS
  Byte <- MCByte
  MinBlockSize = 2
  MaxBlockSize = 3
  BlockSize = 3
  EncSize <- MCEncSize
  Input <- MCInput

SPECIFICATION FairSpec

INVARIANTS
  IInv
  CloseMeansComplete
  StoppedStreamDecodes

PROPERTIES
  SilentAfterError
  CallsReturn
  RefinesEncodedStream

\* Sources of 0 to 80 bytes with block sizes that may divide their length.
CONSTANTS
  MinBlockSize = 36
  MaxBlockSize = 80
  Int32Max = 127
  MaxLength = 80
  SmallBlockSize = 36
  LargeBlockSize = 40
  Lengths <- MCLengths
  BlockSizes <- MCBlockSizes
  EncSize <- MCEncSize
  FieldValues <- MCFieldValues
  Strays <- MCStrays
  ForeignFrames <- MCForeignFrames

SPECIFICATION FrameSpec

INVARIANTS
  RoundTrips

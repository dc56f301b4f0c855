\* Sources of 0 to 120 bytes and block sizes around both limits: up to four
\* blocks, a clamp below, between and above the limits, and one that wraps.
CONSTANTS
  MinBlockSize = 36
  MaxBlockSize = 80
  Int32Max = 127
  MaxLength = 120
  SmallBlockSize = 34
  LargeBlockSize = 110
  Lengths <- MCLengths
  BlockSizes <- MCSomeBlockSizes
  EncSize <- MCEncSize
  FieldValues <- MCFieldValues
  Strays <- MCStrays
  ForeignFrames <- MCForeignFrames

SPECIFICATION FrameSpec

INVARIANTS
  FrameInv
  RoundTripsUnlessMultiple
  AcceptedIsTheSource

\* Two runs in a row; a block and a half of data; int32 is 3 bits.
CONSTANTS
  Byte <- MCByte
  MinBlockSize = 2
  MaxBlockSize = 3
  BlockSize = 2
  EncSize <- MCEncSize
  Names <- MCNames
  Suffixed <- MCSuffixed
  UserData <- MCData
  HeaderBytes <- MCHeader
  Directory <- MCDirectory
  Commands <- MCCommands
  MiB = 1
  Int32Span = 8
  MaxJobs = 64
  MaxRuns = 2

SPECIFICATION CommandSpec

INVARIANTS
  DataSurvives
  SuccessIsWhole
  Inv
  LeftoversArePrefixes

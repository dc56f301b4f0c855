\* Two-byte contexts and words, matches from three words on, inputs of up to 28
\* bytes over two values, one of them the match byte, and codes with lengths
\* that wrap.
CONSTANTS
  MaxByte = 3
  MatchByte = 1
  Word = 2
  MinMatch = 6
  Rest = 1
  Slack = 3
  Int32Max = 31
  DictSize = 2
  Hash <- MCHash
  Inputs <- MCInputs
  ForeignCodes <- MCForeignCodes
  Rooms = {2, 5, 8}

SPECIFICATION LzpSpec

INVARIANTS
  PositionsInRange
  LzpRoundTrips

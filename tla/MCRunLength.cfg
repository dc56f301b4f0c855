\* Three byte values, the largest of which is 2: every input of up to 8 bytes, with
\* runs that take up to four length bytes, and every code of up to 5 bytes.
CONSTANTS
  MaxByte = 2
  Int32Max = 8
  MaxLen = 8
  MaxCodeLen = 5

SPECIFICATION Spec

INVARIANTS
  Inv
  RunLengthRoundTrips
  GainsAreExact

\* Every combination of stages kept, and foreign headers with every combination
\* of boundary values.
CONSTANTS
  BlockSize = 66560
  DataSizes <- MCDataSizes
  RleSizes <- MCRleSizes
  LzpSizes <- MCLzpSizes
  CmSizes <- MCCmSizes
  ForeignSizes <- MCForeignSizes
  ForeignBuffers <- MCForeignBuffers
  ForeignIndices <- MCForeignIndices

SPECIFICATION Spec

INVARIANTS
  Inv
  BlockRoundTrips
  NeverWrongData

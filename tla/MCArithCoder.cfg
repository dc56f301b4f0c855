\* Two-bit digits, eight-bit numbers, two-bit symbols and eight-bit counters: the
\* interval often shrinks to two neighbouring numbers.
CONSTANTS
  Symbols = 4
  Step = 16
  Base = 4
  Digits = 4
  Top = 64
  MaxLength = 5
  LongLength = 12
  MaxSource = 6
  SomeDigits = {0, 1, 2, 3}
  Wanted = 4
  Inputs <- MCInputs
  ForeignSources <- MCForeignSources

SPECIFICATION Spec

INVARIANTS
  IInv
  CoderRoundTrips

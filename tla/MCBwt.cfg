CONSTANTS
  Alphabet = 3
  MinBucketSize = 3
  FastbitsLog = 1
  Leftovers = {0, 8}
  Texts <- MCTexts
  Damaged <- MCDamaged
SPECIFICATION BwtSpec
INVARIANTS SuffixesSorted LmsSuffixesSorted FramesIntact BwtRoundTrips LookupsInRange

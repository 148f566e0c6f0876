SPECIFICATION Spec
CONSTANTS
  None = None
  Sendings <- SinglesAndPairs
  MaxSize = 5
  EnvelopeSize = 1
  Limit = 3
INVARIANT TypeOK
INVARIANT SizesAsTested
INVARIANT OnlyWhole
INVARIANT OneOfTwoCopies
CHECK_DEADLOCK FALSE
